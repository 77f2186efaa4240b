--------------------------- MODULE MCResultExport ----------------------------
(* A small instance of ResultExport: a run whose rows are in the store, a
   second call of start_query in the same tab, and two exports that write to
   the same destination. *)
EXTENDS ResultExport, TLC

CONSTANTS j1, j2, t1, c1, s1, x1, x2, p1

MCJobIds       == {j1, j2}
MCTabs         == {t1}
MCConnections  == {c1}
MCSessions     == {s1}
MCConnectionOf == [s \in MCSessions |-> c1]
MCExports      == {x1, x2}
MCOneExport    == {x1}
MCSymmetry     == Permutations(MCExports)
MCPaths        == {p1}
MCPathOf       == [x \in Exports |-> p1]
MCReplayable   == {j1}
MCHanging      == {j2}

(* The state after j1 has run on s1 and stored its rows, as Init and the steps
   of j1 reach it. *)
MCInit ==
  /\ ExportInit
  /\ session = s1
  /\ pc      = (j1 :> "done" @@ j2 :> "idle")
  /\ tab     = [j \in MCJobIds |-> t1]
  /\ runtime = (j1 :> s1 @@ j2 :> NoSession)
  /\ keep    = [j \in MCJobIds |-> {}]
  /\ tabJobs = [t \in MCTabs |-> NoJob]
  /\ jobs = {} /\ cancelled = {}
  /\ results = {j1} /\ history = {j1}
  /\ outcome = (j1 :> "rows" @@ j2 :> "none")
  /\ client  = [j \in MCJobIds |-> NoClient]
  /\ stale   = [c \in Clients |-> NoJob]
  /\ signal  = [c \in Clients |-> FALSE]
  /\ activeExports = {}

MCSpec     == MCInit /\ [][NextWithExports]_allVars
MCFairSpec == MCSpec /\ ExportFairness
==============================================================================
