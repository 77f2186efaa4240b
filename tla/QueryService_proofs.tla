------------------------ MODULE QueryService_proofs --------------------------
(***************************************************************************)
(* Proofs about QueryService, for any set of calls, tabs, sessions and     *)
(* clients.  None of the properties is inductive as it stands: that a tab  *)
(* without an entry has no run must be known when the next call reserves   *)
(* it.  So the invariants below tie each entry of tab_jobs, each token of  *)
(* the registry, each result set and each borrowed client to the step its  *)
(* run has reached.  Each is inductive given those proved before it.       *)
(***************************************************************************)
EXTENDS QueryService, TLAPS

Stored == {"reporting", "deregistering", "releasing"}

(* An admitted call has captured a session, and a run past the driver has an
   outcome. *)
StepInv ==
  \A j \in JobIds :
    /\ pc[j] \in Starting \cup Tasking => runtime[j] \in Sessions
    /\ pc[j] = "storing" => outcome[j] \in {"command", "rows"}
    /\ pc[j] \in Stored \cup {"done"} => outcome[j] # "none"

TypeInv == TypeOK /\ StepInv

(* Between the reservation and set_tab_job the entry is the empty id. *)
Unnamed == {"reserved", "clearing", "registering", "naming"}

(* The entry of a tab is there while a run has the tab, and is that run's. *)
EntryOfRun ==
  \A j \in JobIds : HasTab(j) =>
    tabJobs[tab[j]] = IF pc[j] \in Unnamed THEN Reserved ELSE j

RunOfEntry ==
  \A t \in Tabs : tabJobs[t] # NoJob => \E j \in JobIds : HasTab(j) /\ tab[j] = t

ReservationInv == EntryOfRun /\ RunOfEntry /\ OneRunPerTab

(* A token is in the registry from its registration until the run is cleaned
   up, taken back or cancelled; only an announced run is cancelled. *)
TokenInv ==
  /\ \A j \in jobs : HasTab(j) /\ pc[j] \notin {"reserved", "clearing", "registering",
                                                "unnaming", "releasing"}
  /\ \A j \in JobIds : pc[j] \in {"naming", "announcing"} => j \in jobs
  /\ \A j \in JobIds :
       Announced(j) /\ pc[j] \notin {"releasing", "done"} => j \in jobs \cup cancelled
  /\ \A j \in cancelled : Announced(j)

(* What a run leaves elsewhere: history, a client, an abandoned statement. *)
TraceInv ==
  /\ \A j \in history : Announced(j)
  /\ \A j \in JobIds :
       client[j] # NoClient <=> pc[j] \in {"preparing", "executing", "cancelling"}
  /\ \A c \in Clients, j \in JobIds : stale[c] = j => j \in cancelled

(* A result set belongs to a run that stored its rows, and is the only one of
   a tab from the clearing of the tab on, but for those the clearing spared. *)
Cleared == (Starting \cup Tasking) \ {"admitted", "reserved", "clearing"}

ResultInv ==
  /\ \A r \in results : outcome[r] = "rows" /\ pc[r] \in Stored \cup {"done"}
  /\ \A j \in JobIds : outcome[j] = "rows" /\ pc[j] \in Stored => j \in results
  /\ \A j \in JobIds, r \in results :
       pc[j] \in Cleared /\ tab[r] = tab[j] => r = j \/ r \in keep[j]
  /\ OneResultPerTab

(* Without exports nothing is spared. *)
NoExports == activeExports = {} /\ \A j \in JobIds : keep[j] = {}

-----------------------------------------------------------------------------
(* Every variable keeps its type, and an admitted call its session. *)
LEMMA TypeStep == TypeInv /\ [Next]_vars => TypeInv'
<1> SUFFICES ASSUME TypeInv, [Next]_vars
             PROVE  TypeInv'
  OBVIOUS
<1> USE DEF TypeInv, StepInv, TypeOK, Outcomes, Stored, Steps, Starting,
   Tasking,
          callVars, serverVars, Goto, unchangedByStart, unchangedByTask,
          unchangedByServer
<1>1. ASSUME NEW s \in Sessions, Connect(s) PROVE  TypeInv'
  BY <1>1 DEF Connect
<1>2. ASSUME Disconnect PROVE  TypeInv'
  BY <1>2 DEF Disconnect
<1>3. ASSUME NEW j \in JobIds, Refuse(j) PROVE  TypeInv'
  BY <1>3 DEF Refuse
<1>4. ASSUME NEW j \in JobIds, NEW c \in Connections, Admit(j, c) PROVE  TypeInv'
  BY <1>4 DEF Admit
<1>5. ASSUME NEW j \in JobIds, ReserveTab(j) PROVE  TypeInv'
  BY <1>5 DEF ReserveTab
<1>6. ASSUME NEW j \in JobIds,
              \/ SnapshotExports(j)
              \/ ClearTab(j)
              \/ RegisterJob(j)
              \/ SetTabJob(j)
      PROVE  TypeInv'
  BY <1>6 DEF SnapshotExports, ClearTab, RegisterJob, SetTabJob
<1>7. ASSUME NEW j \in JobIds,
              \/ EmitQueued(j)
              \/ UndoRegister(j)
              \/ RecordHistory(j)
      PROVE  TypeInv'
  BY <1>7 DEF EmitQueued, UndoRegister, RecordHistory
<1>8. ASSUME NEW j \in JobIds,
              \/ UndoSetTabJob(j)
              \/ ReleaseTab(j)
      PROVE  TypeInv'
  BY <1>8 DEF UndoSetTabJob, ReleaseTab, ClearTabJob
<1>9. ASSUME NEW j \in JobIds, CancelQuery(j) PROVE  TypeInv'
  BY <1>9 DEF CancelQuery
<1>10. ASSUME NEW j \in JobIds,
              \/ EmitRunning(j)
              \/ EmitTerminal(j)
              \/ Deregister(j)
              \/ Prepared(j)
      PROVE  TypeInv'
  BY <1>10 DEF EmitRunning, EmitTerminal, Deregister, Prepared
<1>11. ASSUME NEW j \in JobIds, CheckOut(j) PROVE  TypeInv'
  BY <1>11 DEF CheckOut, Clients
<1>12. ASSUME NEW j \in JobIds, NoticeCancel(j) PROVE  TypeInv'
  <2>1. PICK left \in {j, NoJob} : stale' = [stale EXCEPT ![client[j]] = left]
    BY <1>12 DEF NoticeCancel
  <2>2. stale' \in [Clients -> JobIds \cup {NoJob}]
    BY <2>1
  <2> QED
    BY <1>12, <2>2 DEF NoticeCancel
<1>13. ASSUME NEW j \in JobIds,
              \/ SendCancel(j)
              \/ PrepareFails(j)
      PROVE  TypeInv'
  <2>1. CASE SendCancel(j)
    <3>1. signal' \in [Clients -> BOOLEAN]
      BY <2>1 DEF SendCancel
    <3> QED
      BY <2>1, <3>1 DEF SendCancel, ReturnFromDriver
  <2>2. CASE PrepareFails(j)
    BY <2>2 DEF PrepareFails, ReturnFromDriver
  <2> QED
    BY <1>13, <2>1, <2>2
<1>14. ASSUME NEW j \in JobIds, StatementEnds(j) PROVE  TypeInv'
  BY <1>14 DEF StatementEnds, ReturnFromDriver
<1>15. ASSUME NEW j \in JobIds,
              \/ CheckOutFails(j)
              \/ StoreResult(j)
      PROVE  TypeInv'
  BY <1>15 DEF CheckOutFails, StoreResult
<1>16. ASSUME NEW c \in Clients, SignalArrives(c) PROVE  TypeInv'
  <2>1. signal' \in [Clients -> BOOLEAN] /\ stale' \in [Clients -> JobIds \cup {NoJob}]
    BY <1>16 DEF SignalArrives
  <2>2. ASSUME NEW j \in JobIds, NEW from \in {"preparing", "executing"},
               NEW o \in {"cancelled", "failed"}, ReturnFromDriver(j, from, o)
        PROVE  TypeInv'
    BY <2>1, <2>2 DEF ReturnFromDriver
  <2>3. CASE UNCHANGED <<unchangedByServer, pc, outcome, client>>
    BY <2>1, <2>3
  <2> QED
    BY <1>16, <2>2, <2>3 DEF SignalArrives
<1>17. ASSUME NEW c \in Clients, StaleEnds(c) PROVE  TypeInv'
  BY <1>17 DEF StaleEnds
<1>18. CASE UNCHANGED vars
  BY <1>18 DEF vars
<1> QED
  BY <1>1, <1>2, <1>3, <1>4, <1>5, <1>6, <1>7, <1>8, <1>9, <1>10, <1>11, <1>12,
     <1>13, <1>14, <1>15, <1>16, <1>17, <1>18 DEF Next, StartQuery, QueryTask,
     Server


(* A tab has at most one run, and its entry is that run's. *)
LEMMA ReservationStep == ReservationInv /\ TypeInv /\ [Next]_vars => ReservationInv'
<1> SUFFICES ASSUME ReservationInv, TypeInv, [Next]_vars
             PROVE  ReservationInv'
  OBVIOUS
<1> USE NoJobAssumption, ReservedAssumption DEF ReservationInv, EntryOfRun,
   RunOfEntry, OneRunPerTab,
          Unnamed, HasTab, TypeInv, StepInv, TypeOK, Steps, Starting, Tasking,
          callVars, serverVars, Goto, unchangedByStart, unchangedByTask,
          unchangedByServer
<1>1. ASSUME NEW s \in Sessions, Connect(s) PROVE  ReservationInv'
  BY <1>1 DEF Connect
<1>2. ASSUME Disconnect PROVE  ReservationInv'
  BY <1>2 DEF Disconnect
<1>3. ASSUME NEW j \in JobIds,
              \/ Refuse(j)
              \/ CancelQuery(j)
      PROVE  ReservationInv'
  BY <1>3 DEF Refuse, CancelQuery
<1>4. ASSUME NEW j \in JobIds, NEW c \in Connections, Admit(j, c) PROVE  ReservationInv'
  BY <1>4 DEF Admit
<1>5. ASSUME NEW j \in JobIds, ReserveTab(j) PROVE  ReservationInv'
  BY <1>5 DEF ReserveTab
<1>6. ASSUME NEW j \in JobIds,
              \/ SnapshotExports(j)
              \/ ClearTab(j)
              \/ RegisterJob(j)
      PROVE  ReservationInv'
  BY <1>6 DEF SnapshotExports, ClearTab, RegisterJob
<1>7. ASSUME NEW j \in JobIds, SetTabJob(j) PROVE  ReservationInv'
  BY <1>7 DEF SetTabJob
<1>8. ASSUME NEW j \in JobIds,
              \/ EmitQueued(j)
              \/ UndoRegister(j)
              \/ RecordHistory(j)
      PROVE  ReservationInv'
  BY <1>8 DEF EmitQueued, UndoRegister, RecordHistory
<1>9. ASSUME NEW j \in JobIds,
              \/ UndoSetTabJob(j)
              \/ ReleaseTab(j)
      PROVE  ReservationInv'
  BY <1>9 DEF UndoSetTabJob, ReleaseTab, ClearTabJob
<1>10. ASSUME NEW j \in JobIds,
              \/ EmitRunning(j)
              \/ CheckOut(j)
              \/ CheckOutFails(j)
              \/ Prepared(j)
              \/ NoticeCancel(j)
      PROVE  ReservationInv'
  BY <1>10 DEF EmitRunning, CheckOut, CheckOutFails, Prepared, NoticeCancel
<1>11. ASSUME NEW j \in JobIds,
              \/ SendCancel(j)
              \/ PrepareFails(j)
              \/ StatementEnds(j)
      PROVE  ReservationInv'
  BY <1>11 DEF SendCancel, PrepareFails, StatementEnds, ReturnFromDriver
<1>12. ASSUME NEW j \in JobIds,
              \/ StoreResult(j)
              \/ EmitTerminal(j)
              \/ Deregister(j)
      PROVE  ReservationInv'
  BY <1>12 DEF StoreResult, EmitTerminal, Deregister
<1>13. ASSUME NEW c \in Clients, SignalArrives(c) PROVE  ReservationInv'
  BY <1>13 DEF SignalArrives, ReturnFromDriver
<1>14. ASSUME NEW c \in Clients, StaleEnds(c) PROVE  ReservationInv'
  BY <1>14 DEF StaleEnds
<1>15. CASE UNCHANGED vars
  BY <1>15 DEF vars
<1> QED
  BY <1>1, <1>2, <1>3, <1>4, <1>5, <1>6, <1>7, <1>8, <1>9, <1>10, <1>11, <1>12,
     <1>13, <1>14, <1>15 DEF Next, StartQuery, QueryTask, Server


(* The registry holds the tokens of the runs that can be cancelled. *)
LEMMA TokenStep == TokenInv /\ TypeInv /\ [Next]_vars => TokenInv'
<1> SUFFICES ASSUME TokenInv, TypeInv, [Next]_vars
             PROVE  TokenInv'
  OBVIOUS
<1> USE DEF TokenInv, Announced, HasTab, TypeInv, StepInv, TypeOK, Steps,
   Starting, Tasking,
          callVars, serverVars, Goto, unchangedByStart, unchangedByTask,
          unchangedByServer
<1>1. ASSUME NEW s \in Sessions, Connect(s) PROVE  TokenInv'
  BY <1>1 DEF Connect
<1>2. ASSUME Disconnect PROVE  TokenInv'
  BY <1>2 DEF Disconnect
<1>3. ASSUME NEW j \in JobIds,
              \/ Refuse(j)
              \/ CancelQuery(j)
      PROVE  TokenInv'
  BY <1>3 DEF Refuse, CancelQuery
<1>4. ASSUME NEW j \in JobIds, NEW c \in Connections, Admit(j, c) PROVE  TokenInv'
  BY <1>4 DEF Admit
<1>5. ASSUME NEW j \in JobIds, ReserveTab(j) PROVE  TokenInv'
  BY <1>5 DEF ReserveTab
<1>6. ASSUME NEW j \in JobIds,
              \/ SnapshotExports(j)
              \/ ClearTab(j)
              \/ RegisterJob(j)
      PROVE  TokenInv'
  BY <1>6 DEF SnapshotExports, ClearTab, RegisterJob
<1>7. ASSUME NEW j \in JobIds, SetTabJob(j) PROVE  TokenInv'
  BY <1>7 DEF SetTabJob
<1>8. ASSUME NEW j \in JobIds,
              \/ EmitQueued(j)
              \/ UndoRegister(j)
              \/ RecordHistory(j)
      PROVE  TokenInv'
  BY <1>8 DEF EmitQueued, UndoRegister, RecordHistory
<1>9. ASSUME NEW j \in JobIds,
              \/ UndoSetTabJob(j)
              \/ ReleaseTab(j)
      PROVE  TokenInv'
  BY <1>9 DEF UndoSetTabJob, ReleaseTab, ClearTabJob
<1>10. ASSUME NEW j \in JobIds,
              \/ EmitRunning(j)
              \/ CheckOut(j)
              \/ CheckOutFails(j)
              \/ Prepared(j)
              \/ NoticeCancel(j)
      PROVE  TokenInv'
  BY <1>10 DEF EmitRunning, CheckOut, CheckOutFails, Prepared, NoticeCancel
<1>11. ASSUME NEW j \in JobIds,
              \/ SendCancel(j)
              \/ PrepareFails(j)
              \/ StatementEnds(j)
      PROVE  TokenInv'
  BY <1>11 DEF SendCancel, PrepareFails, StatementEnds, ReturnFromDriver
<1>12. ASSUME NEW j \in JobIds,
              \/ StoreResult(j)
              \/ EmitTerminal(j)
              \/ Deregister(j)
      PROVE  TokenInv'
  BY <1>12 DEF StoreResult, EmitTerminal, Deregister
<1>13. ASSUME NEW c \in Clients, SignalArrives(c) PROVE  TokenInv'
  BY <1>13 DEF SignalArrives, ReturnFromDriver
<1>14. ASSUME NEW c \in Clients, StaleEnds(c) PROVE  TokenInv'
  BY <1>14 DEF StaleEnds
<1>15. CASE UNCHANGED vars
  BY <1>15 DEF vars
<1> QED
  BY <1>1, <1>2, <1>3, <1>4, <1>5, <1>6, <1>7, <1>8, <1>9, <1>10, <1>11, <1>12,
     <1>13, <1>14, <1>15 DEF Next, StartQuery, QueryTask, Server


(* History, clients and abandoned statements belong to announced runs. *)
LEMMA TraceStep == TraceInv /\ TypeInv /\ [Next]_vars => TraceInv'
<1> SUFFICES ASSUME TraceInv, TypeInv, [Next]_vars
             PROVE  TraceInv'
  OBVIOUS
<1> USE NoJobAssumption DEF TraceInv, Announced, NoClient, HasTab, TypeInv,
   StepInv, TypeOK, Steps, Starting, Tasking,
          callVars, serverVars, Goto, unchangedByStart, unchangedByTask,
          unchangedByServer
<1>1. ASSUME NEW s \in Sessions, Connect(s) PROVE  TraceInv'
  BY <1>1 DEF Connect
<1>2. ASSUME Disconnect PROVE  TraceInv'
  BY <1>2 DEF Disconnect
<1>3. ASSUME NEW j \in JobIds,
              \/ Refuse(j)
              \/ CancelQuery(j)
      PROVE  TraceInv'
  BY <1>3 DEF Refuse, CancelQuery
<1>4. ASSUME NEW j \in JobIds, NEW c \in Connections, Admit(j, c) PROVE  TraceInv'
  BY <1>4 DEF Admit
<1>5. ASSUME NEW j \in JobIds, ReserveTab(j) PROVE  TraceInv'
  BY <1>5 DEF ReserveTab
<1>6. ASSUME NEW j \in JobIds,
              \/ SnapshotExports(j)
              \/ ClearTab(j)
              \/ RegisterJob(j)
              \/ SetTabJob(j)
      PROVE  TraceInv'
  BY <1>6 DEF SnapshotExports, ClearTab, RegisterJob, SetTabJob
<1>7. ASSUME NEW j \in JobIds,
              \/ EmitQueued(j)
              \/ UndoRegister(j)
              \/ RecordHistory(j)
      PROVE  TraceInv'
  BY <1>7 DEF EmitQueued, UndoRegister, RecordHistory
<1>8. ASSUME NEW j \in JobIds,
              \/ UndoSetTabJob(j)
              \/ ReleaseTab(j)
      PROVE  TraceInv'
  BY <1>8 DEF UndoSetTabJob, ReleaseTab, ClearTabJob
<1>9. ASSUME NEW j \in JobIds, CheckOut(j) PROVE  TraceInv'
  BY <1>9 DEF CheckOut, Clients
<1>10. ASSUME NEW j \in JobIds,
              \/ EmitRunning(j)
              \/ CheckOutFails(j)
              \/ Prepared(j)
      PROVE  TraceInv'
  BY <1>10 DEF EmitRunning, CheckOutFails, Prepared
<1>11. ASSUME NEW j \in JobIds, NoticeCancel(j) PROVE  TraceInv'
  BY <1>11 DEF NoticeCancel
<1>12. ASSUME NEW j \in JobIds,
              \/ SendCancel(j)
              \/ PrepareFails(j)
              \/ StatementEnds(j)
      PROVE  TraceInv'
  BY <1>12 DEF SendCancel, PrepareFails, StatementEnds, ReturnFromDriver
<1>13. ASSUME NEW j \in JobIds,
              \/ StoreResult(j)
              \/ EmitTerminal(j)
              \/ Deregister(j)
      PROVE  TraceInv'
  BY <1>13 DEF StoreResult, EmitTerminal, Deregister
<1>14. ASSUME NEW c \in Clients, SignalArrives(c) PROVE  TraceInv'
  <2>1. CASE UNCHANGED <<unchangedByServer, pc, outcome, client>>
    BY <1>14, <2>1 DEF SignalArrives
  <2>2. ASSUME NEW j \in JobIds, NEW from \in {"preparing", "executing"},
               NEW o \in {"cancelled", "failed"}, ReturnFromDriver(j, from, o), UNCHANGED stale
        PROVE  TraceInv'
    BY <2>2 DEF ReturnFromDriver
  <2> QED
    BY <1>14, <2>1, <2>2 DEF SignalArrives
<1>15. ASSUME NEW c \in Clients, StaleEnds(c) PROVE  TraceInv'
  BY <1>15 DEF StaleEnds
<1>16. CASE UNCHANGED vars
  BY <1>16 DEF vars
<1> QED
  BY <1>1, <1>2, <1>3, <1>4, <1>5, <1>6, <1>7, <1>8, <1>9, <1>10, <1>11, <1>12,
     <1>13, <1>14, <1>15, <1>16 DEF Next, StartQuery, QueryTask, Server


(* A tab keeps one result set, and the one its run announced. *)
LEMMA ResultStep == ResultInv /\ TypeInv /\ ReservationInv /\ [Next]_vars => ResultInv'
<1> SUFFICES ASSUME ResultInv, TypeInv, ReservationInv, [Next]_vars
             PROVE  ResultInv'
  OBVIOUS
<1> USE DEF ResultInv, OneResultPerTab, Stored, Cleared,
          Outcomes, ReservationInv, OneRunPerTab, HasTab, TypeInv, StepInv,
          TypeOK, Steps, Starting, Tasking,
          callVars, serverVars, Goto, unchangedByStart, unchangedByTask,
          unchangedByServer
<1>1. ASSUME NEW s \in Sessions, Connect(s) PROVE  ResultInv'
  BY <1>1 DEF Connect
<1>2. ASSUME Disconnect PROVE  ResultInv'
  BY <1>2 DEF Disconnect
<1>3. ASSUME NEW j \in JobIds,
              \/ Refuse(j)
              \/ CancelQuery(j)
      PROVE  ResultInv'
  BY <1>3 DEF Refuse, CancelQuery
<1>4. ASSUME NEW j \in JobIds, NEW c \in Connections, Admit(j, c) PROVE  ResultInv'
  BY <1>4 DEF Admit
<1>5. ASSUME NEW j \in JobIds, ReserveTab(j) PROVE  ResultInv'
  BY <1>5 DEF ReserveTab
<1>6. ASSUME NEW j \in JobIds, SnapshotExports(j) PROVE  ResultInv'
  BY <1>6 DEF SnapshotExports
<1>7. ASSUME NEW j \in JobIds, ClearTab(j) PROVE  ResultInv'
  BY <1>7 DEF ClearTab
<1>8. ASSUME NEW j \in JobIds,
              \/ RegisterJob(j)
              \/ SetTabJob(j)
      PROVE  ResultInv'
  BY <1>8 DEF RegisterJob, SetTabJob
<1>9. ASSUME NEW j \in JobIds,
              \/ EmitQueued(j)
              \/ UndoRegister(j)
              \/ RecordHistory(j)
      PROVE  ResultInv'
  BY <1>9 DEF EmitQueued, UndoRegister, RecordHistory
<1>10. ASSUME NEW j \in JobIds,
              \/ UndoSetTabJob(j)
              \/ ReleaseTab(j)
      PROVE  ResultInv'
  BY <1>10 DEF UndoSetTabJob, ReleaseTab, ClearTabJob
<1>11. ASSUME NEW j \in JobIds,
              \/ CheckOut(j)
              \/ EmitRunning(j)
              \/ CheckOutFails(j)
              \/ Prepared(j)
      PROVE  ResultInv'
  BY <1>11 DEF CheckOut, EmitRunning, CheckOutFails, Prepared
<1>12. ASSUME NEW j \in JobIds, NoticeCancel(j) PROVE  ResultInv'
  BY <1>12 DEF NoticeCancel
<1>13. ASSUME NEW j \in JobIds,
              \/ SendCancel(j)
              \/ PrepareFails(j)
              \/ StatementEnds(j)
      PROVE  ResultInv'
  BY <1>13 DEF SendCancel, PrepareFails, StatementEnds, ReturnFromDriver
<1>14. ASSUME NEW j \in JobIds, StoreResult(j) PROVE  ResultInv'
  BY <1>14 DEF StoreResult
<1>15. ASSUME NEW j \in JobIds,
              \/ EmitTerminal(j)
              \/ Deregister(j)
      PROVE  ResultInv'
  BY <1>15 DEF EmitTerminal, Deregister
<1>16. ASSUME NEW c \in Clients, SignalArrives(c) PROVE  ResultInv'
  BY <1>16 DEF SignalArrives, ReturnFromDriver
<1>17. ASSUME NEW c \in Clients, StaleEnds(c) PROVE  ResultInv'
  BY <1>17 DEF StaleEnds
<1>18. CASE UNCHANGED vars
  BY <1>18 DEF vars
<1> QED
  BY <1>1, <1>2, <1>3, <1>4, <1>5, <1>6, <1>7, <1>8, <1>9, <1>10, <1>11, <1>12,
     <1>13, <1>14, <1>15, <1>16, <1>17, <1>18 DEF Next, StartQuery, QueryTask,
     Server

(* No step of the service touches active_export_result_sets. *)
LEMMA ActiveExportsKept == Next => UNCHANGED activeExports
BY DEF Next, Connect, Disconnect, Refuse, Admit, CancelQuery, CheckOutFails,
       PrepareFails, StatementEnds,
       StartQuery, ReserveTab, SnapshotExports, ClearTab, RegisterJob, SetTabJob,
       EmitQueued, UndoRegister, UndoSetTabJob, RecordHistory,
       QueryTask, EmitRunning, CheckOut, Prepared, NoticeCancel, SendCancel,
       StoreResult, EmitTerminal, Deregister, ReleaseTab, ReturnFromDriver,
       Server, SignalArrives, StaleEnds,
       unchangedByStart, unchangedByTask, unchangedByServer

(* Without exports there is never one to spare a result set. *)
LEMMA NoExportsStep == NoExports /\ TypeInv /\ [Next]_vars => NoExports'
BY DEF NoExports, TypeInv, TypeOK, Next, vars, callVars, serverVars, Connect, Disconnect,
       Refuse, Admit, CancelQuery, CheckOutFails, PrepareFails, StatementEnds,
       StartQuery, ReserveTab, SnapshotExports, ClearTab, RegisterJob, SetTabJob,
       EmitQueued, UndoRegister, UndoSetTabJob, RecordHistory,
       QueryTask, EmitRunning, CheckOut, Prepared, NoticeCancel, SendCancel,
       StoreResult, EmitTerminal, Deregister, ReleaseTab, ReturnFromDriver,
       Server, SignalArrives, StaleEnds,
       unchangedByStart, unchangedByTask, unchangedByServer

-----------------------------------------------------------------------------
(* The invariants together, as the specifications that compose QueryService
   with more reuse them. *)
ServiceInv == TypeInv /\ ReservationInv /\ TokenInv /\ TraceInv /\ ResultInv

LEMMA ServiceInit == Init => ServiceInv
<1> USE NoJobAssumption DEF Init, Stored, Steps, Starting, Tasking
<1> SUFFICES ASSUME Init PROVE ServiceInv
  OBVIOUS
<1>1. TypeInv
  BY DEF TypeInv, StepInv, TypeOK, Outcomes
<1>2. ReservationInv
  BY DEF ReservationInv, EntryOfRun, RunOfEntry, OneRunPerTab, HasTab
<1>3. TokenInv
  BY DEF TokenInv, HasTab, Announced
<1>4. TraceInv
  BY DEF TraceInv, Announced, NoClient
<1>5. ResultInv
  BY DEF ResultInv, OneResultPerTab
<1> QED
  BY <1>1, <1>2, <1>3, <1>4, <1>5 DEF ServiceInv

LEMMA ServiceStep == ServiceInv /\ [Next]_vars => ServiceInv'
BY TypeStep, ReservationStep, TokenStep, TraceStep, ResultStep DEF ServiceInv

(* Every invariant the runs check follows from ServiceInv. *)
LEMMA ServiceFacts ==
  ServiceInv => /\ TypeOK
                /\ OneRunPerTab
                /\ ReservationMatchesRun
                /\ CancelReachesRun
                /\ AnnouncedResultIsStored
                /\ OneResultPerTab
                /\ RefusedLeavesNothing
<1> SUFFICES ASSUME TypeInv, ReservationInv, TokenInv, TraceInv, ResultInv
             PROVE  /\ TypeOK
                    /\ OneRunPerTab
                    /\ ReservationMatchesRun
                    /\ CancelReachesRun
                    /\ AnnouncedResultIsStored
                    /\ OneResultPerTab
                    /\ RefusedLeavesNothing
  BY DEF ServiceInv
<1>1. TypeOK /\ OneRunPerTab /\ OneResultPerTab
  BY DEF TypeInv, ReservationInv, ResultInv
<1>2. ReservationMatchesRun
  BY NoJobAssumption, ReservedAssumption
     DEF ReservationInv, EntryOfRun, RunOfEntry, Unnamed, TypeInv, TypeOK,
         ReservationMatchesRun
<1>3. CancelReachesRun
  BY DEF TokenInv, CancelReachesRun
<1>4. AnnouncedResultIsStored
  BY DEF ResultInv, Stored, AnnouncedResultIsStored
<1>5. RefusedLeavesNothing
  BY DEF TypeInv, StepInv, TypeOK, TokenInv, TraceInv, ResultInv, RefusedLeavesNothing,
         Announced, HasTab, Stored, Starting, Tasking
<1> QED
  BY <1>1, <1>2, <1>3, <1>4, <1>5

(* The invariants hold throughout. *)
THEOREM ServiceCorrect == Spec => []ServiceInv
BY ServiceInit, ServiceStep, PTL DEF Spec

(* No run spares a result set as long as there are no exports. *)
THEOREM NothingSpared == Spec => []NoExports
<1>1. Init => NoExports
  BY DEF Init, NoExports
<1>2. ServiceInv => TypeInv
  BY DEF ServiceInv
<1> QED
  BY <1>1, <1>2, NoExportsStep, ServiceCorrect, PTL DEF Spec

-----------------------------------------------------------------------------
(* What the runs of TLC check on a small instance follows for any instance. *)

(* Every variable keeps its type. *)
THEOREM Typed == Spec => []TypeOK
BY ServiceCorrect, ServiceFacts, PTL

(* Two calls of start_query never have the same tab: the reservation, which is
   taken under the lock and then carried over several awaits, excludes. *)
THEOREM TabsExclude == Spec => []OneRunPerTab
BY ServiceCorrect, ServiceFacts, PTL

(* A tab's entry is there while a run has the tab and is that run's: no path
   through start_query or its task frees the wrong tab or leaves one behind. *)
THEOREM ReservationsMatch == Spec => []ReservationMatchesRun
BY ServiceCorrect, ServiceFacts, PTL

(* cancel_query finds the token of every announced run that was not cancelled,
   and the registry holds no token of a run that is gone. *)
THEOREM CancelAlwaysReaches == Spec => []CancelReachesRun
BY ServiceCorrect, ServiceFacts, PTL

(* The result set a terminal event announces is in the store. *)
THEOREM AnnouncedResultsAreStored == Spec => []AnnouncedResultIsStored
BY ServiceCorrect, ServiceFacts, PTL

(* A tab never keeps two result sets without an export that spared one. *)
THEOREM TabsKeepOneResult == Spec => []OneResultPerTab
BY ServiceCorrect, ServiceFacts, PTL

(* A refused call leaves nothing behind, however far it got. *)
THEOREM RefusalsLeaveNothing == Spec => []RefusedLeavesNothing
BY ServiceCorrect, ServiceFacts, PTL
==============================================================================
