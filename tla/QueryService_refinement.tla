----------------------- MODULE QueryService_refinement -----------------------
(***************************************************************************)
(* The proof that QueryService implements TabRuns, for any set of calls,   *)
(* tabs, sessions and clients.  Every step of the service maps to one step *)
(* of TabRuns or to none.  What makes the mapping of a step legal comes    *)
(* from the invariants: that the tab is free when it is claimed and empty  *)
(* when the run is announced, and that a run past the driver has an        *)
(* outcome.                                                                *)
(***************************************************************************)
EXTENDS QueryService_proofs

(* The refinement.  absOwner, absKept and absPhase are the state of TabRuns
   that a state of the service stands for. *)
absOwner == [t \in Tabs |-> {j \in JobIds : HasTab(j) /\ tab[j] = t}]
absKept  == [t \in Tabs |-> {r \in results : tab[r] = t}]
absPhase == [j \in JobIds |-> Phase(j)]

(* A step that moves one call moves one phase. *)
LEMMA PhaseMoves ==
  ASSUME NEW j \in JobIds, NEW p,
         \A k \in JobIds \ {j} : Phase(k)' = Phase(k),
         Phase(j)' = p
  PROVE  absPhase' = [absPhase EXCEPT ![j] = p]
BY DEF absPhase

LEMMA OwnerSame ==
  ASSUME UNCHANGED tab, \A j \in JobIds : HasTab(j)' = HasTab(j)
  PROVE  UNCHANGED absOwner
BY DEF absOwner

(* A call that comes to have a tab that no other has owns it alone. *)
LEMMA OwnerClaims ==
  ASSUME TypeOK, UNCHANGED tab, NEW j \in JobIds, HasTab(j)',
         \A k \in JobIds \ {j} : HasTab(k)' = HasTab(k),
         \A k \in JobIds \ {j} : tab[k] = tab[j] => ~HasTab(k)
  PROVE  absOwner' = [absOwner EXCEPT ![tab[j]] = {j}]
<1>1. {k \in JobIds : HasTab(k)' /\ tab'[k] = tab[j]} = {j}
  OBVIOUS
<1>2. ASSUME NEW t \in Tabs, t # tab[j]
      PROVE  {k \in JobIds : HasTab(k)' /\ tab'[k] = t}
               = {k \in JobIds : HasTab(k) /\ tab[k] = t}
  BY <1>2
<1>3. absOwner' = [t \in Tabs |-> IF t = tab[j] THEN {j} ELSE absOwner[t]]
  BY <1>1, <1>2 DEF absOwner
<1> QED
  BY <1>3 DEF absOwner

(* A call that gives up its tab leaves it to nobody. *)
LEMMA OwnerReleases ==
  ASSUME TypeOK, OneRunPerTab, UNCHANGED tab, NEW j \in JobIds, HasTab(j), ~HasTab(j)',
         \A k \in JobIds \ {j} : HasTab(k)' = HasTab(k)
  PROVE  absOwner' = [absOwner EXCEPT ![tab[j]] = {}]
<1>1. {k \in JobIds : HasTab(k)' /\ tab'[k] = tab[j]} = {}
  BY DEF OneRunPerTab
<1>2. ASSUME NEW t \in Tabs, t # tab[j]
      PROVE  {k \in JobIds : HasTab(k)' /\ tab'[k] = t}
               = {k \in JobIds : HasTab(k) /\ tab[k] = t}
  BY <1>2
<1>3. tab[j] \in Tabs /\ absOwner \in [Tabs -> SUBSET JobIds]
  BY DEF absOwner, TypeOK
<1>4. \A t \in Tabs : absOwner'[t] = IF t = tab[j] THEN {} ELSE absOwner[t]
  BY <1>1, <1>2 DEF absOwner
<1>5. absOwner' = [t \in Tabs |-> absOwner'[t]]
  BY DEF absOwner
<1> QED
  BY <1>3, <1>4, <1>5

(* A step that touches the result sets of one tab. *)
LEMMA KeptMoves ==
  ASSUME NEW t \in Tabs, NEW S,
         {r \in results' : tab'[r] = t} = S,
         \A u \in Tabs \ {t} :
           {r \in results' : tab'[r] = u} = {r \in results : tab[r] = u}
  PROVE  absKept' = [absKept EXCEPT ![t] = S]
<1>1. \A u \in Tabs : absKept'[u] = IF u = t THEN S ELSE absKept[u]
  BY DEF absKept
<1> QED
  BY <1>1 DEF absKept

(* A run that fails or is cancelled ends without a result set. *)
LEMMA FinishesRun ==
  ASSUME TypeInv, NEW j \in JobIds, NEW t \in Tabs, t = tab[j],
         UNCHANGED <<tab, results>>,
         pc[j] \in {"waiting", "preparing", "executing", "cancelling", "storing"},
         pc' = [pc EXCEPT ![j] = "reporting"],
         outcome'[j] \in {"failed", "cancelled"},
         \A k \in JobIds \ {j} : outcome'[k] = outcome[k]
  PROVE  \E s \in Abstract!Final : Abstract!Finish(j, t, s)
<1> USE DEF HasTab, Phase, TypeInv, TypeOK, Starting, Tasking
<1>1. absPhase' = [absPhase EXCEPT ![j] = outcome'[j]]
  BY PhaseMoves
<1>2. UNCHANGED absOwner
  BY OwnerSame
<1>3. Abstract!Finish(j, t, outcome'[j])
  BY <1>1, <1>2 DEF Abstract!Finish, absOwner, absKept, absPhase
<1> QED
  BY <1>3 DEF Abstract!Final, Abstract!Finish

(* The service implements TabRuns: every step is a step of it or a stutter. *)
THEOREM Refinement == Spec => ImplementsTabRuns
<1>1. Init => Abstract!Init
  BY DEF Init, Abstract!Init, HasTab, Starting, Tasking, Phase
<1>2. ServiceInv /\ NoExports /\ ServiceInv' /\ [Next]_vars
        => [Abstract!Next]_(Abstract!runVars)
  <2> SUFFICES ASSUME TypeInv, ReservationInv, ResultInv, NoExports, TypeInv', ResultInv',
                      [Next]_vars
               PROVE  Abstract!Next \/ UNCHANGED <<absOwner, absKept, absPhase>>
    BY DEF ServiceInv, Abstract!runVars, absOwner, absKept, absPhase
  <2> USE DEF HasTab, Phase, TypeInv, StepInv, TypeOK, Steps, Starting, Tasking,
              Outcomes, Stored, callVars, serverVars, Goto, unchangedByStart,
              unchangedByTask, unchangedByServer
  <2>1. ASSUME NEW s \in Sessions, Connect(s)
        PROVE  UNCHANGED <<absOwner, absKept, absPhase>>
    BY <2>1 DEF Connect, absOwner, absKept, absPhase
  <2>2. ASSUME Disconnect
        PROVE  UNCHANGED <<absOwner, absKept, absPhase>>
    BY <2>2 DEF Disconnect, absOwner, absKept, absPhase
  <2>3. ASSUME NEW j \in JobIds, NEW c \in Connections, Admit(j, c)
        PROVE  UNCHANGED <<absOwner, absKept, absPhase>>
    BY <2>3 DEF Admit, absOwner, absKept, absPhase
  <2>4. ASSUME NEW j \in JobIds,
               \/ SnapshotExports(j)
               \/ RegisterJob(j)
               \/ SetTabJob(j)
               \/ UndoRegister(j)
               \/ RecordHistory(j)
        PROVE  UNCHANGED <<absOwner, absKept, absPhase>>
    BY <2>4 DEF SnapshotExports, RegisterJob, SetTabJob, UndoRegister,
            RecordHistory, absOwner, absKept, absPhase
  <2>5. ASSUME NEW j \in JobIds, CancelQuery(j)
        PROVE  UNCHANGED <<absOwner, absKept, absPhase>>
    BY <2>5 DEF CancelQuery, absOwner, absKept, absPhase
  <2>6. ASSUME NEW j \in JobIds,
               \/ CheckOut(j)
               \/ Prepared(j)
               \/ NoticeCancel(j)
        PROVE  UNCHANGED <<absOwner, absKept, absPhase>>
    BY <2>6 DEF CheckOut, Prepared, NoticeCancel, absOwner, absKept, absPhase
  <2>7. ASSUME NEW j \in JobIds,
               \/ EmitTerminal(j)
               \/ Deregister(j)
        PROVE  UNCHANGED <<absOwner, absKept, absPhase>>
    BY <2>7 DEF EmitTerminal, Deregister, absOwner, absKept, absPhase
  <2>8. ASSUME NEW c \in Clients, StaleEnds(c)
        PROVE  UNCHANGED <<absOwner, absKept, absPhase>>
    BY <2>8 DEF StaleEnds, absOwner, absKept, absPhase
  <2>9. ASSUME NEW j \in JobIds, Refuse(j)
        PROVE  Abstract!Refuse(j)
    <3>1. absPhase' = [absPhase EXCEPT ![j] = "refused"]
      BY <2>9, PhaseMoves DEF Refuse
    <3>2. UNCHANGED absOwner
      BY <2>9, OwnerSame DEF Refuse
    <3> QED
      BY <2>9, <3>1, <3>2 DEF Refuse, Abstract!Refuse, absOwner, absKept, absPhase
  <2>10. ASSUME NEW j \in JobIds, NEW t \in Tabs, t = tab[j], ReserveTab(j)
        PROVE  Abstract!Claim(j, t) \/ Abstract!Refuse(j)
    <3>1. CASE tabJobs[tab[j]] = NoJob
      <4>1. absPhase' = [absPhase EXCEPT ![j] = "claimed"]
        BY <2>10, <3>1, PhaseMoves DEF ReserveTab
      <4>2. \A k \in JobIds : tab[k] = tab[j] => ~HasTab(k)
        BY <3>1, NoJobAssumption, ReservedAssumption
           DEF ReservationInv, EntryOfRun, Unnamed
      <4>3. absOwner' = [absOwner EXCEPT ![tab[j]] = {j}]
        BY <2>10, <3>1, <4>2, OwnerClaims DEF ReserveTab
      <4> QED
        BY <2>10, <3>1, <4>1, <4>2, <4>3
           DEF ReserveTab, Abstract!Claim, absOwner, absKept, absPhase
    <3>2. CASE tabJobs[tab[j]] # NoJob
      <4>1. absPhase' = [absPhase EXCEPT ![j] = "refused"]
        BY <2>10, <3>2, PhaseMoves DEF ReserveTab
      <4>2. UNCHANGED absOwner
        BY <2>10, <3>2, OwnerSame DEF ReserveTab
      <4> QED
        BY <2>10, <3>2, <4>1, <4>2
           DEF ReserveTab, Abstract!Refuse, absOwner, absKept, absPhase
    <3> QED
      BY <3>1, <3>2
  <2>11. ASSUME NEW j \in JobIds, NEW t \in Tabs, t = tab[j], ClearTab(j)
        PROVE  Abstract!Empty(j, t)
    <3>1. UNCHANGED <<absPhase, absOwner>>
      BY <2>11, OwnerSame DEF ClearTab, absPhase
    <3>2. absKept' = [absKept EXCEPT ![tab[j]] = {}]
      <4>1. results' = {r \in results : tab[r] # tab[j]}
        BY <2>11 DEF ClearTab, NoExports
      <4>2. {r \in results' : tab'[r] = tab[j]} = {}
        BY <2>11, <4>1 DEF ClearTab
      <4>3. ASSUME NEW u \in Tabs, u # tab[j]
            PROVE  {r \in results' : tab'[r] = u} = {r \in results : tab[r] = u}
        BY <2>11, <4>1, <4>3 DEF ClearTab
      <4> QED
        BY <4>2, <4>3, KeptMoves
    <3> QED
      BY <2>11, <3>1, <3>2 DEF ClearTab, Abstract!Empty, absOwner, absKept,
         absPhase
  <2>12. ASSUME NEW j \in JobIds, NEW t \in Tabs, t = tab[j], EmitQueued(j)
        PROVE  Abstract!Announce(j, t) \/ UNCHANGED <<absOwner, absKept, absPhase>>
    <3>1. UNCHANGED <<absKept, absOwner>>
      BY <2>12, OwnerSame DEF EmitQueued, absKept
    <3>2. CASE pc'[j] = "recording"
      <4>1. absPhase' = [absPhase EXCEPT ![j] = "queued"]
        BY <2>12, <3>2, PhaseMoves DEF EmitQueued
      <4>2. {r \in results : tab[r] = tab[j]} = {}
        BY <2>12 DEF EmitQueued, ResultInv, NoExports, Cleared
      <4> QED
        BY <2>12, <3>1, <4>1, <4>2
           DEF EmitQueued, Abstract!Announce, absOwner, absKept, absPhase
    <3>3. CASE pc'[j] = "unregistering"
      BY <2>12, <3>1, <3>3 DEF EmitQueued, absPhase
    <3> QED
      BY <2>12, <3>2, <3>3 DEF EmitQueued
  <2>13. ASSUME NEW j \in JobIds, NEW t \in Tabs, t = tab[j], UndoSetTabJob(j)
        PROVE  Abstract!Abandon(j, t)
    <3>1. absPhase' = [absPhase EXCEPT ![j] = "refused"]
      BY <2>13, PhaseMoves DEF UndoSetTabJob
    <3>2. absOwner' = [absOwner EXCEPT ![tab[j]] = {}]
      BY <2>13, OwnerReleases DEF UndoSetTabJob, ReservationInv
    <3> QED
      BY <2>13, <3>1, <3>2
         DEF UndoSetTabJob, Abstract!Abandon, absOwner, absKept, absPhase
  <2>14. ASSUME NEW j \in JobIds, NEW t \in Tabs, t = tab[j], EmitRunning(j)
        PROVE  Abstract!Start(j, t)
    <3>1. absPhase' = [absPhase EXCEPT ![j] = "running"]
      BY <2>14, PhaseMoves DEF EmitRunning
    <3>2. UNCHANGED absOwner
      BY <2>14, OwnerSame DEF EmitRunning
    <3> QED
      BY <2>14, <3>1, <3>2 DEF EmitRunning, Abstract!Start, absOwner, absKept,
         absPhase
  <2>15. ASSUME NEW j \in JobIds, NEW t \in Tabs, t = tab[j], CheckOutFails(j)
        PROVE  \E s \in Abstract!Final : Abstract!Finish(j, t, s)
    <3>1. /\ UNCHANGED <<tab, results>> /\ pc[j] = "waiting"
          /\ pc' = [pc EXCEPT ![j] = "reporting"]
          /\ outcome' = [outcome EXCEPT ![j] = "failed"]
      BY <2>15 DEF CheckOutFails
    <3>2. outcome'[j] = "failed" /\ \A k \in JobIds \ {j} : outcome'[k] = outcome[k]
      BY <3>1
    <3> QED
      BY <2>15, <3>1, <3>2, FinishesRun
  <2>16. ASSUME NEW j \in JobIds, NEW t \in Tabs, t = tab[j],
               NEW from \in {"preparing", "executing", "cancelling"},
               NEW o \in {"failed", "cancelled"}, ReturnFromDriver(j, from, o)
        PROVE  \E s \in Abstract!Final : Abstract!Finish(j, t, s)
    BY <2>16, FinishesRun DEF ReturnFromDriver
  <2>17. ASSUME NEW j \in JobIds, NEW o \in {"command", "rows"},
               ReturnFromDriver(j, "executing", o)
        PROVE  UNCHANGED <<absOwner, absKept, absPhase>>
    BY <2>17 DEF ReturnFromDriver, absOwner, absKept, absPhase
  <2>18. ASSUME NEW j \in JobIds, NEW t \in Tabs, t = tab[j], StoreResult(j)
        PROVE  \E s \in Abstract!Final : Abstract!Finish(j, t, s)
    <3>1. UNCHANGED absOwner
      BY <2>18, OwnerSame DEF StoreResult
    <3>2. CASE outcome'[j] = "failed"
      <4>1. results' = results /\ \A k \in JobIds \ {j} : outcome'[k] = outcome[k]
        BY <2>18, <3>2 DEF StoreResult
      <4> QED
        BY <2>18, <3>2, <4>1, FinishesRun DEF StoreResult
    <3>3. CASE outcome'[j] # "failed"
      <4>1. absPhase' = [absPhase EXCEPT ![j] = "completed"]
        BY <2>18, <3>3, PhaseMoves DEF StoreResult
      <4>2. absKept' = [absKept EXCEPT ![tab[j]] = absKept[tab[j]] \cup {j}]
              \/ UNCHANGED absKept
        <5>1. CASE results' = results
          BY <2>18, <5>1 DEF StoreResult, absKept
        <5>2. CASE results' = results \cup {j}
          <6>1. {r \in results' : tab'[r] = tab[j]}
                  = {r \in results : tab[r] = tab[j]} \cup {j}
            BY <2>18, <5>2 DEF StoreResult
          <6>2. ASSUME NEW u \in Tabs, u # tab[j]
                PROVE  {r \in results' : tab'[r] = u} = {r \in results : tab[r] = u}
            BY <2>18, <5>2, <6>2 DEF StoreResult
          <6> QED
            <7>1. /\ tab[j] \in Tabs
                  /\ absKept[tab[j]] = {r \in results : tab[r] = tab[j]}
              BY DEF absKept
            <7> HIDE DEF HasTab, Phase, TypeInv, TypeOK, Starting, Tasking, Stored
            <7> QED
              BY <6>1, <6>2, <7>1, KeptMoves
        <5> QED
          BY <2>18, <5>1, <5>2 DEF StoreResult
      <4> QED
        BY <2>18, <3>1, <4>1, <4>2
           DEF StoreResult, Abstract!Finish, Abstract!Final, absOwner, absKept,
              absPhase
    <3> QED
      BY <3>2, <3>3
  <2>19. ASSUME NEW j \in JobIds, NEW t \in Tabs, t = tab[j], ReleaseTab(j)
        PROVE  Abstract!Release(j, t)
    <3>1. UNCHANGED <<absPhase, absKept>>
      BY <2>19 DEF ReleaseTab, absPhase, absKept
    <3>2. absOwner' = [absOwner EXCEPT ![tab[j]] = {}]
      BY <2>19, OwnerReleases DEF ReleaseTab, ReservationInv
    <3> QED
      BY <2>19, <3>1, <3>2
         DEF ReleaseTab, Abstract!Release, Abstract!Final, absOwner, absKept,
            absPhase
  <2>20. ASSUME NEW j \in JobIds, NEW t \in Tabs, t = tab[j],
               PrepareFails(j) \/ StatementEnds(j) \/ SendCancel(j)
        PROVE  \/ UNCHANGED <<absOwner, absKept, absPhase>>
               \/ \E s \in Abstract!Final : Abstract!Finish(j, t, s)
    <3>1. CASE PrepareFails(j)
      <4>1. ReturnFromDriver(j, "preparing", "failed")
        BY <3>1 DEF PrepareFails
      <4> QED
        BY <4>1, <2>16, <2>20
    <3>2. CASE SendCancel(j)
      <4>1. PICK o \in {"failed", "cancelled"} : ReturnFromDriver(j, "cancelling", o)
        BY <3>2 DEF SendCancel
      <4> QED
        BY <4>1, <2>16, <2>20
    <3>3. CASE StatementEnds(j)
      <4>1. PICK o \in {"command", "rows", "failed"} : ReturnFromDriver(j, "executing", o)
        BY <3>3 DEF StatementEnds
      <4> QED
        BY <4>1, <2>16, <2>17, <2>20
    <3> QED
      BY <2>20, <3>1, <3>2, <3>3
  <2>21. ASSUME NEW c \in Clients, SignalArrives(c)
        PROVE  \/ UNCHANGED <<absOwner, absKept, absPhase>>
               \/ \E j \in JobIds, t \in Tabs, s \in Abstract!Final :
                    Abstract!Finish(j, t, s)
    <3>1. CASE UNCHANGED <<unchangedByServer, pc, outcome>>
      BY <3>1 DEF absOwner, absKept, absPhase
    <3>2. ASSUME NEW j \in JobIds, NEW from \in {"preparing", "executing"},
                 NEW o \in {"cancelled", "failed"}, ReturnFromDriver(j, from, o)
          PROVE  \E t \in Tabs, s \in Abstract!Final : Abstract!Finish(j, t, s)
      <4>1. PICK t \in Tabs : t = tab[j]
        OBVIOUS
      <4> QED
        BY <3>2, <4>1, <2>16
    <3> QED
      BY <2>21, <3>1, <3>2 DEF SignalArrives
  <2>22. CASE UNCHANGED vars
    BY <2>22 DEF vars, absOwner, absKept, absPhase
  <2>23. ASSUME NEW j \in JobIds, NEW t \in Tabs, t = tab[j],
                StartQuery(j) \/ QueryTask(j) \/ CheckOutFails(j)
         PROVE  \/ UNCHANGED <<absOwner, absKept, absPhase>>
                \/ Abstract!Next
    <3> HIDE DEF HasTab, Phase, TypeInv, StepInv, TypeOK, Steps, Starting,
       Tasking,
                 Outcomes, Stored, callVars, serverVars, Goto, unchangedByStart,
                 unchangedByTask, unchangedByServer
    <3>1. CASE CheckOutFails(j)
      BY <3>1, <2>23, <2>15 DEF Abstract!Next
    <3>2. CASE StartQuery(j)
      BY <3>2, <2>23, <2>4, <2>10, <2>11, <2>12, <2>13 DEF StartQuery,
         Abstract!Next
    <3>3. CASE QueryTask(j)
      BY <3>3, <2>23, <2>6, <2>7, <2>14, <2>18, <2>19, <2>20 DEF QueryTask,
         Abstract!Next
    <3> QED
      BY <2>23, <3>1, <3>2, <3>3
  <2>24. ASSUME NEW j \in JobIds
         PROVE  \E t \in Tabs : t = tab[j]
    BY DEF TypeInv, TypeOK
  <2> HIDE DEF HasTab, Phase, TypeInv, StepInv, TypeOK, Steps, Starting, Tasking,
               Outcomes, Stored, callVars, serverVars, Goto, unchangedByStart,
               unchangedByTask, unchangedByServer
  <2>25. ASSUME NEW j \in JobIds,
                \/ Refuse(j)
                \/ \E c \in Connections : Admit(j, c)
                \/ StartQuery(j)
                \/ CancelQuery(j)
                \/ QueryTask(j)
                \/ CheckOutFails(j)
                \/ PrepareFails(j)
                \/ StatementEnds(j)
         PROVE  \/ UNCHANGED <<absOwner, absKept, absPhase>>
                \/ Abstract!Next
    <3>1. PICK t \in Tabs : t = tab[j]
      BY <2>24
    <3>2. CASE Refuse(j)
      BY <3>2, <2>9 DEF Abstract!Next
    <3>3. CASE PrepareFails(j) \/ StatementEnds(j)
      BY <3>1, <3>3, <2>20 DEF Abstract!Next
    <3>4. CASE StartQuery(j) \/ QueryTask(j) \/ CheckOutFails(j)
      BY <3>1, <3>4, <2>23
    <3> QED
      BY <2>25, <3>2, <3>3, <3>4, <2>3, <2>5
  <2>26. ASSUME Server
         PROVE  \/ UNCHANGED <<absOwner, absKept, absPhase>>
                \/ Abstract!Next
    BY <2>26, <2>8, <2>21 DEF Server, Abstract!Next
  <2> QED
    BY <2>1, <2>2, <2>22, <2>25, <2>26 DEF Next
<1> QED
  BY <1>1, <1>2, ServiceCorrect, NothingSpared, PTL
     DEF Spec, ImplementsTabRuns, Abstract!Spec
==============================================================================
