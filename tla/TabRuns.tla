------------------------------- MODULE TabRuns -------------------------------
(***************************************************************************)
(* What the query service promises the editor, with none of its locks,     *)
(* registries, pools or tasks: a tab has at most one run at a time, and    *)
(* keeps the result set of the last run that left one.  A run that claims  *)
(* the tab drops what the tab kept before it is announced, and only that   *)
(* run may leave a new result set before it gives the tab back.            *)
(*                                                                         *)
(* The promise is the one docs/architecture/phase-4-query-workspace.md     *)
(* makes ("Only one query may run per tab at a time").  QueryService.tla   *)
(* is shown to implement it.                                               *)
(***************************************************************************)

CONSTANTS
  JobIds,   \* runs, named by the job id the service gives them
  Tabs      \* editor tabs

VARIABLES
  owner,    \* the run that has the tab, per tab: {} or {j}
  kept,     \* the runs whose result sets the tab keeps, per tab
  phase     \* how far a run has got

runVars == <<owner, kept, phase>>

Final  == {"completed", "failed", "cancelled"}
Phases == {"new", "claimed", "queued", "running", "refused"} \cup Final

Init ==
  /\ owner = [t \in Tabs |-> {}]
  /\ kept  = [t \in Tabs |-> {}]
  /\ phase = [j \in JobIds |-> "new"]

(* A run is turned away before it has a tab. *)
Refuse(j) ==
  /\ phase[j] = "new"
  /\ phase' = [phase EXCEPT ![j] = "refused"]
  /\ UNCHANGED <<owner, kept>>

(* A run claims a tab that no run has. *)
Claim(j, t) ==
  /\ phase[j] = "new"
  /\ owner[t] = {}
  /\ owner' = [owner EXCEPT ![t] = {j}]
  /\ phase' = [phase EXCEPT ![j] = "claimed"]
  /\ UNCHANGED kept

(* What earlier runs left in the tab is dropped. *)
Empty(j, t) ==
  /\ j \in owner[t]
  /\ phase[j] = "claimed"
  /\ kept' = [kept EXCEPT ![t] = {}]
  /\ UNCHANGED <<owner, phase>>

(* The claim is given up: nobody was told of the run. *)
Abandon(j, t) ==
  /\ j \in owner[t]
  /\ phase[j] = "claimed"
  /\ owner' = [owner EXCEPT ![t] = {}]
  /\ phase' = [phase EXCEPT ![j] = "refused"]
  /\ UNCHANGED kept

(* The run is announced, in an empty tab. *)
Announce(j, t) ==
  /\ j \in owner[t]
  /\ phase[j] = "claimed"
  /\ kept[t] = {}
  /\ phase' = [phase EXCEPT ![j] = "queued"]
  /\ UNCHANGED <<owner, kept>>

(* The announced run starts. *)
Start(j, t) ==
  /\ j \in owner[t]
  /\ phase[j] = "queued"
  /\ phase' = [phase EXCEPT ![j] = "running"]
  /\ UNCHANGED <<owner, kept>>

(* The run ends; if it completed it may leave a result set in its tab. *)
Finish(j, t, s) ==
  /\ j \in owner[t]
  /\ phase[j] = "running"
  /\ phase' = [phase EXCEPT ![j] = s]
  /\ \/ UNCHANGED kept
     \/ /\ s = "completed"
        /\ kept' = [kept EXCEPT ![t] = kept[t] \cup {j}]
  /\ UNCHANGED owner

(* A run that has ended gives the tab back. *)
Release(j, t) ==
  /\ j \in owner[t]
  /\ phase[j] \in Final
  /\ owner' = [owner EXCEPT ![t] = {}]
  /\ UNCHANGED <<kept, phase>>

Next ==
  \E j \in JobIds :
    \/ Refuse(j)
    \/ \E t \in Tabs :
         \/ Claim(j, t)
         \/ Empty(j, t)
         \/ Abandon(j, t)
         \/ Announce(j, t)
         \/ Start(j, t)
         \/ \E s \in Final : Finish(j, t, s)
         \/ Release(j, t)

Spec == Init /\ [][Next]_runVars
==============================================================================
