---------------------------- MODULE QueryService -----------------------------
(***************************************************************************)
(* The query half of src-tauri/src/query/service.rs and the part of        *)
(* query/driver.rs it drives: start_query with the task it spawns,         *)
(* cancel_query, the job registry, the per-tab reservation, the result     *)
(* store, and the pooled PostgreSQL clients of the active session.         *)
(*                                                                         *)
(* start_query holds no lock from one await to the next, so each step      *)
(* below is the code between two awaits and pc says where the call, and    *)
(* later its task, stands.  One call of start_query is named by the job id *)
(* it will draw; the result set it may store has the same name.            *)
(***************************************************************************)
EXTENDS Naturals, FiniteSets

CONSTANTS
  JobIds,      \* calls of start_query, each with the fresh job id it draws
  Tabs,        \* editor tabs
  Connections, \* saved connections
  Sessions,    \* successive database sessions, each with a pool of its own
  ConnectionOf,\* the saved connection a session belongs to
  Slots,       \* the clients of one pool (max_size 4 in connections/driver.rs)
  Hanging,     \* the runs whose statement never ends by itself
  Unrecorded,  \* the runs whose query_history record cannot be written
  NoSession,   \* no active session
  NoJob,       \* no entry in tab_jobs
  Reserved     \* the entry with the empty job id

ASSUME ConnectionAssumption == ConnectionOf \in [Sessions -> Connections]
ASSUME RunAssumption        == Hanging \subseteq JobIds /\ Unrecorded \subseteq JobIds
ASSUME NoSessionAssumption  == NoSession \notin Sessions
ASSUME NoJobAssumption      == NoJob \notin JobIds /\ Reserved \notin JobIds
ASSUME ReservedAssumption   == Reserved # NoJob

VARIABLES
  session,        \* the active session
  pc,             \* where each call, and then its task, stands
  tab,            \* the tab a call is for
  runtime,        \* the session a call captured (ActiveSessionRuntime)
  keep,           \* result sets a call must not clear (preserved_result_set_ids)
  tabJobs,        \* tab_jobs
  jobs,           \* the job registry: ids whose cancellation token is held
  cancelled,      \* runs whose cancellation token has been cancelled
  results,        \* result sets in the store
  history,        \* runs recorded in query_history
  outcome,        \* what the driver, and then the store, made of a run
  client,         \* the pooled client a run has borrowed
  stale,          \* per client: the abandoned statement the server still runs
  signal,         \* per client: a cancel request the server has yet to act on
  activeExports   \* active_export_result_sets (its keys)

callVars   == <<pc, tab, runtime, keep>>
serverVars == <<client, stale, signal>>
vars == <<session, callVars, tabJobs, jobs, cancelled, results, history,
          outcome, serverVars, activeExports>>

Clients  == Sessions \X Slots
NoClient == <<>>

(* The steps of start_query, in order, then those of the task it spawns. *)
Starting == {"admitted", "reserved", "clearing", "registering", "naming",
             "announcing", "recording", "unregistering", "unnaming"}
Tasking  == {"spawned", "waiting", "preparing", "executing", "cancelling",
             "storing", "reporting", "deregistering", "releasing"}
Steps    == {"idle", "rejected", "done"} \cup Starting \cup Tasking

Outcomes == {"none", "command", "rows", "failed", "cancelled"}

(* The queued event is out: the frontend can know the job id. *)
Announced(j) == pc[j] \in {"recording", "done"} \cup Tasking

(* From the reservation of its tab to its release, a run has its tab. *)
HasTab(j) == pc[j] \in (Starting \ {"admitted"}) \cup Tasking

Init ==
  /\ session = NoSession
  /\ pc        = [j \in JobIds |-> "idle"]
  /\ tab       \in [JobIds -> Tabs]
  /\ runtime   = [j \in JobIds |-> NoSession]
  /\ keep      = [j \in JobIds |-> {}]
  /\ tabJobs   = [t \in Tabs |-> NoJob]
  /\ jobs      = {}
  /\ cancelled = {}
  /\ results   = {}
  /\ history   = {}
  /\ outcome   = [j \in JobIds |-> "none"]
  /\ client    = [j \in JobIds |-> NoClient]
  /\ stale     = [c \in Clients |-> NoJob]
  /\ signal    = [c \in Clients |-> FALSE]
  /\ activeExports = {}

Goto(j, from, to) ==
  /\ pc[j] = from
  /\ pc' = [pc EXCEPT ![j] = to]

-----------------------------------------------------------------------------
(* The session changes under the service: connections/service.rs.  A session *)
(* is replaced whole; runs that captured the old one keep its pool alive.    *)

Connect(s) ==
  /\ session # s
  /\ \A j \in JobIds : runtime[j] # s
  /\ session' = s
  /\ UNCHANGED <<callVars, tabJobs, jobs, cancelled, results, history, outcome,
                 serverVars, activeExports>>

Disconnect ==
  /\ session # NoSession
  /\ session' = NoSession
  /\ UNCHANGED <<callVars, tabJobs, jobs, cancelled, results, history, outcome,
                 serverVars, activeExports>>

-----------------------------------------------------------------------------
(* start_query *)

unchangedByStart == <<session, tab, cancelled, outcome, serverVars, activeExports>>

(* The request is empty, has several statements, or does not target the
   active session: refused before anything is touched. *)
Refuse(j) ==
  /\ Goto(j, "idle", "rejected")
  /\ UNCHANGED <<unchangedByStart, runtime, keep, tabJobs, jobs, results,
                 history>>

(* active_session_runtime: the call captures the session it will run on. *)
Admit(j, c) ==
  /\ session # NoSession
  /\ ConnectionOf[session] = c
  /\ Goto(j, "idle", "admitted")
  /\ runtime' = [runtime EXCEPT ![j] = session]
  /\ UNCHANGED <<unchangedByStart, keep, tabJobs, jobs, results, history>>

(* Mutant: the check without the reservation, as if the placeholder were not
   written under the lock. *)
ReserveTabWithoutEntry(j) ==
  /\ Goto(j, "admitted", IF tabJobs[tab[j]] = NoJob THEN "reserved" ELSE "rejected")
  /\ UNCHANGED <<unchangedByStart, tabJobs, runtime, keep, jobs, results, history>>

(* Mutant: a call waits for an occupied tab. *)
ReserveTabWaiting(j) ==
  /\ tabJobs[tab[j]] = NoJob
  /\ Goto(j, "admitted", "reserved")
  /\ tabJobs' = [tabJobs EXCEPT ![tab[j]] = Reserved]
  /\ UNCHANGED <<unchangedByStart, runtime, keep, jobs, results, history>>

(* Check and reserve under one lock; an occupied tab refuses the call. *)
ReserveTab(j) ==
  /\ \/ /\ tabJobs[tab[j]] = NoJob
        /\ Goto(j, "admitted", "reserved")
        /\ tabJobs' = [tabJobs EXCEPT ![tab[j]] = Reserved]
     \/ /\ tabJobs[tab[j]] # NoJob
        /\ Goto(j, "admitted", "rejected")
        /\ UNCHANGED tabJobs
  /\ UNCHANGED <<unchangedByStart, runtime, keep, jobs, results, history>>

(* The exports to spare are read first, and used after further awaits. *)
SnapshotExports(j) ==
  /\ Goto(j, "reserved", "clearing")
  /\ keep' = [keep EXCEPT ![j] = activeExports]
  /\ UNCHANGED <<unchangedByStart, runtime, tabJobs, jobs, results, history>>

(* Mutants: the store is cleared of every tab's result sets, or of none. *)
ClearAllTabs(j) ==
  /\ Goto(j, "clearing", "registering")
  /\ results' = results \cap keep[j]
  /\ UNCHANGED <<unchangedByStart, runtime, keep, tabJobs, jobs, history>>

ClearNothing(j) ==
  /\ Goto(j, "clearing", "registering")
  /\ UNCHANGED <<unchangedByStart, runtime, keep, tabJobs, jobs, results, history>>

(* The tab's result sets are dropped, but for those an export was reading. *)
ClearTab(j) ==
  /\ Goto(j, "clearing", "registering")
  /\ results' = {r \in results : tab[r] # tab[j] \/ r \in keep[j]}
  /\ UNCHANGED <<unchangedByStart, runtime, keep, tabJobs, jobs, history>>

RegisterJob(j) ==
  /\ Goto(j, "registering", "naming")
  /\ jobs' = jobs \cup {j}
  /\ UNCHANGED <<unchangedByStart, runtime, keep, tabJobs, results, history>>

SetTabJob(j) ==
  /\ Goto(j, "naming", "announcing")
  /\ tabJobs' = [tabJobs EXCEPT ![tab[j]] = j]
  /\ UNCHANGED <<unchangedByStart, runtime, keep, jobs, results, history>>

(* The queued event; if it cannot be emitted the start is taken back. *)
EmitQueued(j) ==
  /\ \/ Goto(j, "announcing", "recording")
     \/ Goto(j, "announcing", "unregistering")
  /\ UNCHANGED <<unchangedByStart, runtime, keep, tabJobs, jobs, results, history>>

(* Mutant: the token is forgotten when a start is taken back. *)
UndoRegisterKeepsToken(j) ==
  /\ Goto(j, "unregistering", "unnaming")
  /\ UNCHANGED <<unchangedByStart, runtime, keep, tabJobs, jobs, results, history>>

UndoRegister(j) ==
  /\ Goto(j, "unregistering", "unnaming")
  /\ jobs' = jobs \ {j}
  /\ UNCHANGED <<unchangedByStart, runtime, keep, tabJobs, results, history>>

(* clear_tab_job removes the tab's entry only if it names this job. *)
ClearTabJob(j) ==
  tabJobs' = IF tabJobs[tab[j]] = j THEN [tabJobs EXCEPT ![tab[j]] = NoJob]
                                    ELSE tabJobs

(* Mutant: the tab's entry is forgotten when a start is taken back. *)
UndoKeepsEntry(j) ==
  /\ Goto(j, "unnaming", "rejected")
  /\ UNCHANGED <<unchangedByStart, runtime, keep, tabJobs, jobs, results, history>>

UndoSetTabJob(j) ==
  /\ Goto(j, "unnaming", "rejected")
  /\ ClearTabJob(j)
  /\ UNCHANGED <<unchangedByStart, runtime, keep, jobs, results, history>>

(* record_query_history only reports a failure; then the task is spawned. *)
RecordHistory(j) ==
  /\ Goto(j, "recording", "spawned")
  /\ history' = history \cup ({j} \ Unrecorded)
  /\ UNCHANGED <<unchangedByStart, runtime, keep, tabJobs, jobs, results>>

StartQuery(j) ==
  \/ ReserveTab(j)
  \/ SnapshotExports(j)
  \/ ClearTab(j)
  \/ RegisterJob(j)
  \/ SetTabJob(j)
  \/ EmitQueued(j)
  \/ UndoRegister(j)
  \/ UndoSetTabJob(j)
  \/ RecordHistory(j)

-----------------------------------------------------------------------------
(* cancel_query: the token is taken out of the registry and cancelled, under *)
(* the registry's lock.  The id is known once the queued event is out.       *)

(* Mutant: the token is dropped without being cancelled. *)
CancelQueryDropsToken(j) ==
  /\ Announced(j)
  /\ j \in jobs
  /\ jobs' = jobs \ {j}
  /\ UNCHANGED <<session, callVars, tabJobs, cancelled, results, history, outcome,
                 serverVars, activeExports>>

CancelQuery(j) ==
  /\ Announced(j)
  /\ j \in jobs
  /\ jobs' = jobs \ {j}
  /\ cancelled' = cancelled \cup {j}
  /\ UNCHANGED <<session, callVars, tabJobs, results, history, outcome,
                 serverVars, activeExports>>

-----------------------------------------------------------------------------
(* The spawned task *)

unchangedByTask == <<session, tab, runtime, keep, cancelled, history, activeExports>>

(* The running event: a failure to emit it is only recorded. *)
EmitRunning(j) ==
  /\ Goto(j, "spawned", "waiting")
  /\ UNCHANGED <<unchangedByTask, tabJobs, jobs, results, outcome, serverVars>>

Free(c) == \A j \in JobIds : client[j] # c

(* Mutant: the client comes from the session that is active by now. *)
CheckOutOfActiveSession(j) ==
  /\ Goto(j, "waiting", "preparing")
  /\ \E n \in Slots :
       /\ Free(<<session, n>>)
       /\ client' = [client EXCEPT ![j] = <<session, n>>]
  /\ UNCHANGED <<unchangedByTask, tabJobs, jobs, results, outcome, stale, signal>>

(* run_query borrows a client; the wait does not look at the token. *)
CheckOut(j) ==
  /\ Goto(j, "waiting", "preparing")
  /\ \E n \in Slots :
       /\ Free(<<runtime[j], n>>)
       /\ client' = [client EXCEPT ![j] = <<runtime[j], n>>]
  /\ UNCHANGED <<unchangedByTask, tabJobs, jobs, results, outcome, stale, signal>>

CheckOutFails(j) ==
  /\ Goto(j, "waiting", "reporting")
  /\ outcome' = [outcome EXCEPT ![j] = "failed"]
  /\ UNCHANGED <<unchangedByTask, tabJobs, jobs, results, serverVars>>

(* The server works on the statements of one client in order. *)
ServerReached(j) == client[j] # NoClient /\ stale[client[j]] = NoJob

(* prepare: answered once the client's earlier statements are done. *)
Prepared(j) ==
  /\ ServerReached(j)
  /\ Goto(j, "preparing", "executing")
  /\ UNCHANGED <<unchangedByTask, tabJobs, jobs, results, outcome, serverVars>>

(* run_query returns with outcome o and the client goes back to its pool. *)
ReturnFromDriver(j, from, o) ==
  /\ Goto(j, from, IF o \in {"command", "rows"} THEN "storing" ELSE "reporting")
  /\ outcome' = [outcome EXCEPT ![j] = o]
  /\ client' = [client EXCEPT ![j] = NoClient]
  /\ UNCHANGED <<unchangedByTask, tabJobs, jobs, results>>

PrepareFails(j) ==
  /\ ServerReached(j)
  /\ ReturnFromDriver(j, "preparing", "failed")
  /\ UNCHANGED <<stale, signal>>

(* The statement ends by itself and its branch of the select! is taken,
   though the token may have been cancelled too. *)
StatementEnds(j) ==
  /\ ServerReached(j)
  /\ j \notin Hanging
  /\ \E o \in {"command", "rows", "failed"} : ReturnFromDriver(j, "executing", o)
  /\ UNCHANGED <<stale, signal>>

(* The token's branch of the select!: the statement's future is dropped.  The
   server goes on with the statement, unless that branch was polled before the
   statement was ever sent. *)
NoticeCancel(j) ==
  /\ j \in cancelled
  /\ Goto(j, "executing", "cancelling")
  /\ \E left \in {j, NoJob} : stale' = [stale EXCEPT ![client[j]] = left]
  /\ UNCHANGED <<unchangedByTask, tabJobs, jobs, results, outcome, client, signal>>

(* Mutant: the run waits for the server to be done with the statement. *)
SendCancelAndWait(j) ==
  /\ pc[j] = "cancelling"
  /\ stale[client[j]] = NoJob
  /\ ReturnFromDriver(j, "cancelling", "cancelled")
  /\ UNCHANGED <<stale, signal>>

(* cancel_active_query sends a cancel request on a connection of its own and
   does not wait for the server to act on it.  If it cannot, its error is the
   outcome and the statement runs on. *)
SendCancel(j) ==
  \/ /\ ReturnFromDriver(j, "cancelling", "cancelled")
     /\ signal' = [signal EXCEPT ![client[j]] = TRUE]
     /\ UNCHANGED stale
  \/ /\ ReturnFromDriver(j, "cancelling", "failed")
     /\ UNCHANGED <<stale, signal>>

(* Mutant: the rows are announced without being stored. *)
StoreResultLost(j) ==
  /\ Goto(j, "storing", "reporting")
  /\ UNCHANGED <<unchangedByTask, tabJobs, jobs, results, outcome, serverVars>>

(* store_query_result: rows go into the store, unless the buffered fallback is
   over its limits. *)
StoreResult(j) ==
  /\ Goto(j, "storing", "reporting")
  /\ \/ /\ outcome[j] = "rows"
        /\ results' = results \cup {j}
        /\ UNCHANGED outcome
     \/ /\ outcome[j] = "rows"
        /\ outcome' = [outcome EXCEPT ![j] = "failed"]
        /\ UNCHANGED results
     \/ /\ outcome[j] = "command"
        /\ UNCHANGED <<outcome, results>>
  /\ UNCHANGED <<unchangedByTask, tabJobs, jobs, serverVars>>

(* The terminal event goes out, or fails to, before the job is cleaned up. *)
EmitTerminal(j) ==
  /\ Goto(j, "reporting", "deregistering")
  /\ UNCHANGED <<unchangedByTask, tabJobs, jobs, results, outcome, serverVars>>

Deregister(j) ==
  /\ Goto(j, "deregistering", "releasing")
  /\ jobs' = jobs \ {j}
  /\ UNCHANGED <<unchangedByTask, tabJobs, results, outcome, serverVars>>

ReleaseTab(j) ==
  /\ Goto(j, "releasing", "done")
  /\ ClearTabJob(j)
  /\ UNCHANGED <<unchangedByTask, jobs, results, outcome, serverVars>>

QueryTask(j) ==
  \/ EmitRunning(j)
  \/ CheckOut(j)
  \/ Prepared(j)
  \/ NoticeCancel(j)
  \/ SendCancel(j)
  \/ StoreResult(j)
  \/ EmitTerminal(j)
  \/ Deregister(j)
  \/ ReleaseTab(j)

-----------------------------------------------------------------------------
(* The PostgreSQL server, from how the driver uses it *)

unchangedByServer == <<unchangedByTask, tabJobs, jobs, results>>

(* A statement nobody waits for any more ends. *)
StaleEnds(c) ==
  /\ stale[c] \in JobIds \ Hanging
  /\ stale' = [stale EXCEPT ![c] = NoJob]
  /\ UNCHANGED <<unchangedByServer, pc, outcome, client, signal>>

(* A cancel request takes effect on whatever the client's session is doing:
   an abandoned statement, the statement of the run that has the client now, or
   nothing.  normalize_query_error reports that run's error as a cancellation;
   the first batch of a replayable run reports any error as a failed query. *)
SignalArrives(c) ==
  /\ signal[c]
  /\ signal' = [signal EXCEPT ![c] = FALSE]
  /\ \/ /\ stale[c] # NoJob
        /\ stale' = [stale EXCEPT ![c] = NoJob]
        /\ UNCHANGED <<unchangedByServer, pc, outcome, client>>
     \/ /\ stale[c] = NoJob
        /\ \E j \in JobIds :
             /\ client[j] = c
             /\ \/ ReturnFromDriver(j, "preparing", "cancelled")
                \/ \E o \in {"cancelled", "failed"} : ReturnFromDriver(j, "executing", o)
        /\ UNCHANGED stale
     \/ /\ stale[c] = NoJob
        /\ \A j \in JobIds :
             client[j] = c => pc[j] \notin {"preparing", "executing"}
        /\ UNCHANGED <<unchangedByServer, pc, outcome, client, stale>>

Server ==
  \E c \in Clients :
    \/ SignalArrives(c)
    \/ StaleEnds(c)

-----------------------------------------------------------------------------
Next ==
  \/ \E s \in Sessions : Connect(s)
  \/ Disconnect
  \/ \E j \in JobIds :
       \/ Refuse(j)
       \/ \E c \in Connections : Admit(j, c)
       \/ StartQuery(j)
       \/ CancelQuery(j)
       \/ QueryTask(j)
       \/ CheckOutFails(j)
       \/ PrepareFails(j)
       \/ StatementEnds(j)
  \/ Server

Spec == Init /\ [][Next]_vars

(***************************************************************************)
(* Fairness.  tokio runs every task that is ready, so a call that was      *)
(* admitted and a task that was spawned take their next step unless they   *)
(* wait for a client or for the server.  The server ends the statements    *)
(* that are not Hanging and delivers the cancel requests it was sent.      *)
(* Nothing obliges the user to start, cancel, connect or disconnect.       *)
(***************************************************************************)
Fairness ==
  /\ \A j \in JobIds :
       /\ WF_vars(StartQuery(j))
       /\ WF_vars(QueryTask(j))
       /\ WF_vars(StatementEnds(j))
  /\ \A c \in Clients : WF_vars(SignalArrives(c)) /\ WF_vars(StaleEnds(c))

FairSpec == Spec /\ Fairness

-----------------------------------------------------------------------------
(* Properties *)

TypeOK ==
  /\ session \in Sessions \cup {NoSession}
  /\ pc \in [JobIds -> Steps]
  /\ tab \in [JobIds -> Tabs]
  /\ runtime \in [JobIds -> Sessions \cup {NoSession}]
  /\ keep \in [JobIds -> SUBSET JobIds]
  /\ tabJobs \in [Tabs -> JobIds \cup {NoJob, Reserved}]
  /\ jobs \subseteq JobIds
  /\ cancelled \subseteq JobIds
  /\ results \subseteq JobIds
  /\ history \subseteq JobIds
  /\ outcome \in [JobIds -> Outcomes]
  /\ client \in [JobIds -> Clients \cup {NoClient}]
  /\ stale \in [Clients -> JobIds \cup {NoJob}]
  /\ signal \in [Clients -> BOOLEAN]
  /\ activeExports \subseteq JobIds

(* "Only one query may run per tab at a time": two calls that reserve, clear,
   register, run and release a tab without a lock held throughout are never
   both between reservation and release. *)
OneRunPerTab ==
  \A j, k \in JobIds : HasTab(j) /\ HasTab(k) /\ tab[j] = tab[k] => j = k

(* The tab's entry is there exactly while a run has the tab, and names no other
   run: so clear_tab_job, which compares ids, frees the tab it is meant to
   free, and a tab is neither freed early nor left occupied by a run that is
   gone, a failed start included. *)
ReservationMatchesRun ==
  \A t \in Tabs :
    /\ tabJobs[t] # NoJob <=> \E j \in JobIds : HasTab(j) /\ tab[j] = t
    /\ \A j \in JobIds : tabJobs[t] = j => HasTab(j) /\ tab[j] = t

(* A run the frontend has heard of can be cancelled until it is cleaned up,
   unless it has been cancelled already; and no token outlives its run. *)
CancelReachesRun ==
  /\ \A j \in JobIds :
       Announced(j) /\ pc[j] \notin {"releasing", "done"}
         => j \in jobs \cup cancelled
  /\ \A j \in jobs : HasTab(j)

(* When the terminal event of a run with rows goes out, and until the tab is
   given back, its result set is in the store: no other start in the tab
   cleared it, and it was stored before it was announced. *)
AnnouncedResultIsStored ==
  \A j \in JobIds :
    outcome[j] = "rows" /\ pc[j] \in {"reporting", "deregistering", "releasing"}
      => j \in results

(* A tab keeps one result set, the others are those an export was reading when
   a later run of the tab cleared it. *)
OneResultPerTab ==
  \A r, q \in results :
    tab[r] = tab[q] => r = q \/ r \in keep[q] \/ q \in keep[r]

(* A call that is refused, also after it reserved its tab and registered its
   job, leaves no token, no history, no result set and no statement behind. *)
RefusedLeavesNothing ==
  \A j \in JobIds : pc[j] = "rejected" =>
    /\ j \notin jobs \cup history \cup results \cup cancelled
    /\ client[j] = NoClient
    /\ \A c \in Clients : stale[c] # j

(* The service implements the abstract TabRuns. *)
Phase(j) ==
  CASE pc[j] \in {"idle", "admitted"}                          -> "new"
    [] pc[j] \in {"reserved", "clearing", "registering", "naming", "announcing",
                  "unregistering", "unnaming"}                 -> "claimed"
    [] pc[j] \in {"recording", "spawned"}                      -> "queued"
    [] pc[j] \in {"waiting", "preparing", "executing", "cancelling", "storing"}
                                                               -> "running"
    [] pc[j] = "rejected"                                      -> "refused"
    [] OTHER -> IF outcome[j] \in {"command", "rows"} THEN "completed" ELSE outcome[j]

Abstract == INSTANCE TabRuns WITH
  owner <- [t \in Tabs |-> {j \in JobIds : HasTab(j) /\ tab[j] = t}],
  kept  <- [t \in Tabs |-> {r \in results : tab[r] = t}],
  phase <- [j \in JobIds |-> Phase(j)]

ImplementsTabRuns == Abstract!Spec

(* A client whose server session is stuck behind a statement nobody waits for,
   that never ends and whose cancel request failed. *)
Poisoned == \E c \in Clients : stale[c] \in Hanging /\ ~signal[c]

(* Cancelling a run that executes ends it and frees its tab, even if its
   statement would never end. *)
CancelledRunEnds ==
  \A j \in JobIds : (j \in cancelled /\ pc[j] = "executing") ~> pc[j] = "done"

(* Every admitted call is refused or runs to its end, as long as its own
   statement does not hang, there is a client the hanging ones leave, and no
   client is poisoned: no reservation is left behind. *)
EveryRunEnds ==
  \A j \in JobIds \ Hanging :
    pc[j] = "admitted" ~> (pc[j] \in {"done", "rejected"} \/ Poisoned)

(* "Query cancelled by user.": a run that is reported cancelled is one whose
   cancellation was asked for. *)
CancelledByItsUser ==
  \A j \in JobIds : outcome[j] = "cancelled" => j \in cancelled
==============================================================================
