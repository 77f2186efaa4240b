----------------------------- MODULE ResultExport ------------------------------
(***************************************************************************)
(* CSV exports of result sets, beside the runs of QueryService:            *)
(* start_query_result_export with the task it spawns, and                  *)
(* cancel_query_result_export, of src-tauri/src/query/service.rs.          *)
(*                                                                         *)
(* An export holds the handle of its result set, so that it reads on when  *)
(* a run clears the result set out of the store.  active_export_result_sets *)
(* counts the exports of a result set; start_query spares the counted ones. *)
(***************************************************************************)
EXTENDS QueryService

CONSTANTS
  Exports,     \* calls of start_query_result_export, each with its fresh job id
  Paths,       \* destinations
  PathOf,      \* the destination of an export
  Replayable,  \* the runs whose result set is read from PostgreSQL again
  MaxBatches   \* bound: the windows of EXPORT_WINDOW_SIZE rows an export writes

ASSUME ExportAssumption  == IsFiniteSet(Exports)
ASSUME PathAssumption    == PathOf \in [Exports -> Paths]
ASSUME BatchesAssumption == MaxBatches \in Nat \ {0} /\ Replayable \subseteq JobIds

VARIABLES
  xpc,         \* where each call, and then its task, stands
  source,      \* the result set an export holds: {} or {r}
  reader,      \* the session a replayable export reads from
  exportJobs,  \* export_jobs: exports whose cancellation token is held
  xcancelled,  \* exports whose cancellation token has been cancelled
  tracked,     \* active_export_result_sets: how many exports per result set
  written,     \* windows written so far
  files,       \* the destinations that exist
  opened,      \* exports that have created their destination
  status       \* the status of the last event of an export

exportVars == <<xpc, source, reader, exportJobs, xcancelled, tracked, written,
                files, opened, status>>

ExportSteps == {"idle", "rejected", "loaded", "queued", "registered", "spawned",
                "opening", "connecting", "writing", "flushing", "discarding",
                "completing", "failing", "finished", "untracking", "done"}

Ended == {"completed", "failed", "cancelled"}

(* The export counts in active_export_result_sets. *)
Tracking == {"spawned", "opening", "connecting", "writing", "flushing",
             "discarding", "completing", "failing", "finished", "untracking"}

(* The export has been entered in export_jobs and not taken out. *)
Registered == {"registered"} \cup (Tracking \ {"untracking"})

ExportInit ==
  /\ xpc        = [x \in Exports |-> "idle"]
  /\ source     = [x \in Exports |-> {}]
  /\ reader     = [x \in Exports |-> NoSession]
  /\ exportJobs = {}
  /\ xcancelled = {}
  /\ tracked    = [r \in JobIds |-> 0]
  /\ written    = [x \in Exports |-> 0]
  /\ files      = {}
  /\ opened     = {}
  /\ status     = [x \in Exports |-> "none"]

Move(x, from, to) ==
  /\ xpc[x] = from
  /\ xpc' = [xpc EXCEPT ![x] = to]

Tell(x, s) == status' = [status EXCEPT ![x] = s]

(* The tracked result sets are the keys start_query reads. *)
Track(r, count) ==
  /\ tracked' = [tracked EXCEPT ![r] = count]
  /\ activeExports' = IF count = 0 THEN activeExports \ {r} ELSE activeExports \cup {r}

unchangedByQuery == <<session, callVars, tabJobs, jobs, cancelled, results,
                      history, outcome, serverVars>>

-----------------------------------------------------------------------------
(* start_query_result_export *)

unchangedByCall == <<reader, xcancelled, written, files, opened>>

(* The frontend names a result set it has heard of; the handle is loaded. *)
LoadResult(x, r) ==
  /\ outcome[r] = "rows"
  /\ pc[r] \in {"deregistering", "releasing", "done"}
  /\ \/ /\ r \in results
        /\ Move(x, "idle", "loaded")
        /\ source' = [source EXCEPT ![x] = {r}]
     \/ /\ r \notin results
        /\ Move(x, "idle", "rejected")
        /\ UNCHANGED source
  /\ UNCHANGED <<unchangedByQuery, activeExports, unchangedByCall, exportJobs,
                 tracked, status>>

(* The queued event goes out before the token is registered; if it cannot be
   emitted the call fails with nothing to take back. *)
EmitExportQueued(x) ==
  /\ \/ Move(x, "loaded", "queued") /\ Tell(x, "queued")
     \/ Move(x, "loaded", "rejected") /\ UNCHANGED status
  /\ UNCHANGED <<unchangedByQuery, activeExports, unchangedByCall, source,
                 exportJobs, tracked>>

RegisterExport(x) ==
  /\ Move(x, "queued", "registered")
  /\ exportJobs' = exportJobs \cup {x}
  /\ UNCHANGED <<unchangedByQuery, activeExports, unchangedByCall, source,
                 tracked, status>>

(* Mutant: a second export of a result set does not count. *)
TrackExportOnce(x) ==
  /\ Move(x, "registered", "spawned")
  /\ \E r \in source[x] : Track(r, 1)
  /\ UNCHANGED <<unchangedByQuery, unchangedByCall, source, exportJobs, status>>

(* Mutant: an export counts when it is accepted and again when it runs. *)
TrackExportTwice(x) ==
  /\ Move(x, "registered", "spawned")
  /\ \E r \in source[x] : Track(r, tracked[r] + 2)
  /\ UNCHANGED <<unchangedByQuery, unchangedByCall, source, exportJobs, status>>

TrackExport(x) ==
  /\ Move(x, "registered", "spawned")
  /\ \E r \in source[x] : Track(r, tracked[r] + 1)
  /\ UNCHANGED <<unchangedByQuery, unchangedByCall, source, exportJobs, status>>

(* Mutant: the token is dropped without being cancelled. *)
CancelExportDropsToken(x) ==
  /\ x \in exportJobs
  /\ exportJobs' = exportJobs \ {x}
  /\ UNCHANGED <<unchangedByQuery, activeExports, xpc, source, reader,
                 xcancelled, tracked, written, files, opened, status>>

CancelExport(x) ==
  /\ x \in exportJobs
  /\ exportJobs' = exportJobs \ {x}
  /\ xcancelled' = xcancelled \cup {x}
  /\ UNCHANGED <<unchangedByQuery, activeExports, xpc, source, reader, tracked,
                 written, files, opened, status>>

-----------------------------------------------------------------------------
(* run_query_result_export *)

unchangedByExport == <<unchangedByQuery, activeExports, source, reader,
                       exportJobs, xcancelled, tracked>>

(* Any failure, a progress event that cannot be emitted included, ends the
   export; the file is left as it is. *)
ExportFails(x) ==
  /\ \E from \in {"spawned", "opening", "connecting", "writing", "flushing",
                  "completing"} :
       Move(x, from, "failing")
  /\ UNCHANGED <<unchangedByExport, written, files, opened, status>>

EmitExportRunning(x) ==
  /\ Move(x, "spawned", "opening")
  /\ Tell(x, "running")
  /\ UNCHANGED <<unchangedByExport, written, files, opened>>

IsReplayable(x) == source[x] \subseteq Replayable

(* File::create truncates what was there; the header row follows, and its
   failure leaves the file. *)
OpenFile(x) ==
  /\ \/ Move(x, "opening", IF IsReplayable(x) THEN "connecting" ELSE "writing")
     \/ Move(x, "opening", "failing")
  /\ files' = files \cup {PathOf[x]}
  /\ opened' = opened \cup {x}
  /\ UNCHANGED <<unchangedByExport, written, status>>

SameConnection(x) ==
  \A r \in source[x] :
    session # NoSession /\ ConnectionOf[session] = ConnectionOf[runtime[r]]

(* Mutant: without a session the export waits for one. *)
CaptureWaits(x) ==
  /\ session # NoSession
  /\ Move(x, "connecting", "writing")
  /\ reader' = [reader EXCEPT ![x] = session]
  /\ UNCHANGED <<unchangedByQuery, activeExports, source, exportJobs, xcancelled,
                 tracked, written, files, opened, status>>

(* A replayable export reads from the session that is active by now, if it is
   one of the connection the result set came from. *)
CaptureSession(x) ==
  /\ \/ /\ SameConnection(x)
        /\ Move(x, "connecting", "writing")
        /\ reader' = [reader EXCEPT ![x] = session]
     \/ /\ ~SameConnection(x)
        /\ Move(x, "connecting", "failing")
        /\ UNCHANGED reader
  /\ UNCHANGED <<unchangedByQuery, activeExports, source, exportJobs, xcancelled,
                 tracked, written, files, opened, status>>

(* The token is looked at before each window. *)
NoticeExportCancel(x) ==
  /\ x \in xcancelled
  /\ Move(x, "writing", "discarding")
  /\ UNCHANGED <<unchangedByExport, written, files, opened, status>>

(* A window of a replayable result is read with a client of the pool. *)
Readable(x) ==
  /\ xpc[x] = "writing"
  /\ IsReplayable(x) =>
       \E n \in Slots : Free(<<reader[x], n>>) /\ stale[<<reader[x], n>>] = NoJob

(* One window is read, written and flushed; its running event follows.  The
   loop goes on or, after a window that was not full, ends. *)
WriteBatch(x) ==
  /\ x \notin xcancelled
  /\ Readable(x)
  /\ written' = [written EXCEPT ![x] = written[x] + 1]
  /\ \/ written'[x] < MaxBatches /\ Move(x, "writing", "writing")
     \/ Move(x, "writing", "flushing")
  /\ Tell(x, "running")
  /\ UNCHANGED <<unchangedByExport, files, opened>>

(* A window without rows ends the loop.  A buffered result without rows has no
   window, and its loop never looks at the token. *)
NoMoreRows(x) ==
  /\ IF IsReplayable(x)
     THEN x \notin xcancelled /\ Readable(x)
     ELSE written[x] = 0
  /\ Move(x, "writing", "flushing")
  /\ UNCHANGED <<unchangedByExport, written, files, opened, status>>

(* Mutant: completion is reported before the flush has succeeded. *)
CompleteBeforeFlush(x) ==
  /\ Move(x, "flushing", "completing")
  /\ Tell(x, "completed")
  /\ UNCHANGED <<unchangedByExport, written, files, opened>>

FlushExport(x) ==
  /\ Move(x, "flushing", "completing")
  /\ UNCHANGED <<unchangedByExport, written, files, opened, status>>

(* Mutant: the partial file of a cancelled export stays. *)
DiscardKeepsFile(x) ==
  /\ Move(x, "discarding", "finished")
  /\ Tell(x, "cancelled")
  /\ UNCHANGED <<unchangedByExport, written, files, opened>>

(* cancel_query_result_export (the helper): the file is removed, then an error
   of the flush counts, then the cancelled event goes out. *)
DiscardExport(x) ==
  /\ \/ /\ Move(x, "discarding", "finished")
        /\ files' = files \ {PathOf[x]}
        /\ Tell(x, "cancelled")
     \/ /\ Move(x, "discarding", "failing")
        /\ files' \in {files, files \ {PathOf[x]}}
        /\ UNCHANGED status
  /\ UNCHANGED <<unchangedByExport, written, opened>>

EmitExportCompleted(x) ==
  /\ Move(x, "completing", "finished")
  /\ Tell(x, "completed")
  /\ UNCHANGED <<unchangedByExport, written, files, opened>>

(* The failed event goes out, or cannot. *)
EmitExportFailed(x) ==
  /\ Move(x, "failing", "finished")
  /\ Tell(x, "failed") \/ UNCHANGED status
  /\ UNCHANGED <<unchangedByExport, written, files, opened>>

DeregisterExport(x) ==
  /\ Move(x, "finished", "untracking")
  /\ exportJobs' = exportJobs \ {x}
  /\ UNCHANGED <<unchangedByQuery, activeExports, unchangedByCall, source,
                 tracked, status>>

(* release_active_export_result_set: the count goes down, at 1 the entry goes. *)
ReleaseExport(x) ==
  /\ Move(x, "untracking", "done")
  /\ \E r \in source[x] :
       IF tracked[r] = 0 THEN UNCHANGED <<tracked, activeExports>>
                         ELSE Track(r, tracked[r] - 1)
  /\ UNCHANGED <<unchangedByQuery, unchangedByCall, source, exportJobs, status>>

ExportTask(x) ==
  \/ EmitExportQueued(x)
  \/ RegisterExport(x)
  \/ TrackExport(x)
  \/ EmitExportRunning(x)
  \/ OpenFile(x)
  \/ CaptureSession(x)
  \/ NoticeExportCancel(x)
  \/ WriteBatch(x)
  \/ NoMoreRows(x)
  \/ FlushExport(x)
  \/ DiscardExport(x)
  \/ EmitExportCompleted(x)
  \/ EmitExportFailed(x)
  \/ DeregisterExport(x)
  \/ ReleaseExport(x)

-----------------------------------------------------------------------------
ExportNext ==
  \E x \in Exports :
    \/ \E r \in JobIds : LoadResult(x, r)
    \/ CancelExport(x)
    \/ ExportTask(x)
    \/ ExportFails(x)

NextWithExports ==
  \/ Next /\ UNCHANGED exportVars
  \/ ExportNext

allVars == <<vars, exportVars>>

SpecWithExports == Init /\ ExportInit /\ [][NextWithExports]_allVars

-----------------------------------------------------------------------------
(* Properties *)

ExportTypeOK ==
  /\ xpc \in [Exports -> ExportSteps]
  /\ source \in [Exports -> SUBSET JobIds]
  /\ reader \in [Exports -> Sessions \cup {NoSession}]
  /\ exportJobs \subseteq Exports
  /\ xcancelled \subseteq Exports
  /\ tracked \in [JobIds -> 0..Cardinality(Exports)]
  /\ written \in [Exports -> 0..MaxBatches]
  /\ files \subseteq Paths
  /\ opened \subseteq Exports
  /\ status \in [Exports -> {"none", "queued", "running"} \cup Ended]

(* active_export_result_sets counts the exports of each result set that are
   under way, so that the first of two exports to end does not uncover the
   result set of the other, and none stays covered for ever. *)
TrackedMatchesExports ==
  /\ \A r \in JobIds :
       tracked[r] = Cardinality({x \in Exports : xpc[x] \in Tracking /\ r \in source[x]})
  /\ activeExports = {r \in JobIds : tracked[r] > 0}

(* An export under way can be cancelled until it is cleaned up, unless it has
   been cancelled already; and no token outlives its export. *)
CancelReachesExport ==
  /\ \A x \in Exports :
       xpc[x] \in Registered => x \in exportJobs \cup xcancelled
  /\ \A x \in exportJobs : xpc[x] \in Registered

(* A completed export has left its file, a cancelled one has not, unless
   another export took the same destination: also when the cancellation comes
   while the last window is written, and when a flush or a removal fails. *)
FileMatchesOutcome ==
  \A x \in Exports :
    (\A y \in opened \ {x} : PathOf[y] # PathOf[x]) =>
      /\ status[x] = "completed" => PathOf[x] \in files
      /\ status[x] = "cancelled" => PathOf[x] \notin files

(* A completed, failed or cancelled event is the last one of its export. *)
TerminalEventIsLast ==
  [][\A x \in Exports : status[x] \in Ended => UNCHANGED status[x]]_allVars

(* tokio takes the call and its task on; a window waits for a free client. *)
ExportFairness ==
  /\ Fairness
  /\ \A x \in Exports : WF_allVars(ExportTask(x))

(* A loaded export ends, whatever becomes of the session, as long as no client
   of the pool is stuck behind an abandoned statement. *)
EveryExportEnds ==
  \A x \in Exports :
    xpc[x] = "loaded" ~> (xpc[x] \in {"done", "rejected"} \/ Poisoned)
==============================================================================
