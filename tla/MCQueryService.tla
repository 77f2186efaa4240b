--------------------------- MODULE MCQueryService ----------------------------
(* A small instance of QueryService: three calls of start_query, one of which
   sends a statement that never ends, over two tabs and one session. *)
EXTENDS QueryService

CONSTANTS j1, j2, j3, t1, t2, c1, c2, s1

MCJobIds       == {j1, j2, j3}
MCHanging      == {j3}
MCTabs         == {t1, t2}
MCConnections  == {c1, c2}
MCSessions     == {s1}
MCConnectionOf == [s \in MCSessions |-> c1]
MCUnrecorded   == {j2}

(* Tabs are interchangeable: the first call's is t1. *)
MCInit == Init /\ tab[j1] = t1
MCSpec == MCInit /\ [][Next]_vars

(* For liveness the run that hangs shares its tab with one that does not. *)
MCFairInit == Init /\ tab = [j \in MCJobIds |-> IF j = j2 THEN t2 ELSE t1]
MCFairSpec == MCFairInit /\ [][Next]_vars /\ Fairness
==============================================================================
