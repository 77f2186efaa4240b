------------------------- MODULE ResultExport_proofs ---------------------------
(***************************************************************************)
(* Proofs about ResultExport, for any runs, exports, destinations and      *)
(* number of windows.  An export changes one variable of QueryService,     *)
(* activeExports, so that what QueryService_proofs says of the service is  *)
(* kept when exports run beside it.  That the counts of                    *)
(* active_export_result_sets match the exports under way needs that an     *)
(* export holds one result set from the load to the end; that the file of  *)
(* an export matches its outcome needs what the file is at each step       *)
(* between its creation and the terminal event.                            *)
(***************************************************************************)
EXTENDS ResultExport, QueryService_proofs, FiniteSetTheorems

(* An export that got past the load holds one result set. *)
SourceInv ==
  \A x \in Exports :
    xpc[x] \notin {"idle", "rejected"} => \E r \in JobIds : source[x] = {r}

(* The steps at which a window may still be written. *)
Unwritten == {"idle", "loaded", "queued", "registered", "spawned", "opening",
              "connecting", "writing"}

WindowInv == \A x \in Exports : xpc[x] \in Unwritten => written[x] < MaxBatches

ShapeInv ==
  /\ xpc \in [Exports -> ExportSteps]
  /\ source \in [Exports -> SUBSET JobIds]
  /\ reader \in [Exports -> Sessions \cup {NoSession}]
  /\ exportJobs \subseteq Exports
  /\ xcancelled \subseteq Exports
  /\ tracked \in [JobIds -> Nat]
  /\ written \in [Exports -> 0..MaxBatches]
  /\ files \subseteq Paths
  /\ opened \subseteq Exports
  /\ status \in [Exports -> {"none", "queued", "running"} \cup Ended]

ExportTypeInv == ShapeInv /\ SourceInv /\ WindowInv

(* The exports under way that read a result set. *)
Holders(r) == {x \in Exports : xpc[x] \in Tracking /\ r \in source[x]}

(* The destination is there from its creation until a cancelled export removes
   it; the terminal event says which it was. *)
Settled == {"finished", "untracking", "done"}
Holding == {"connecting", "writing", "flushing", "discarding", "completing"}

Alone(x) == \A y \in opened \ {x} : PathOf[y] # PathOf[x]

FileInv ==
  \A x \in Exports :
    /\ xpc[x] \in Holding => x \in opened
    /\ xpc[x] \in Holding /\ Alone(x) => PathOf[x] \in files
    /\ status[x] \in Ended => xpc[x] \in Settled
    /\ status[x] = "completed" /\ Alone(x) => PathOf[x] \in files
    /\ status[x] = "cancelled" /\ Alone(x) => PathOf[x] \notin files

(* A step of an export leaves the service alone, but for the keys of the
   tracked result sets. *)
LEMMA ExportFrame == ExportNext => UNCHANGED unchangedByQuery
BY DEF ExportNext, LoadResult, CancelExport, ExportTask, ExportFails, EmitExportQueued,
       RegisterExport, TrackExport, EmitExportRunning, OpenFile, CaptureSession,
       NoticeExportCancel, WriteBatch, NoMoreRows, FlushExport, DiscardExport,
       EmitExportCompleted, EmitExportFailed, DeregisterExport, ReleaseExport,
       unchangedByExport, unchangedByCall
-----------------------------------------------------------------------------
(* Every variable keeps its type, and an export its result set. *)
LEMMA ExportTypeStep ==
  ExportTypeInv /\ TypeOK /\ [NextWithExports]_allVars => ExportTypeInv'
<1> SUFFICES ASSUME ExportTypeInv, TypeOK, [NextWithExports]_allVars
             PROVE  ExportTypeInv'
  OBVIOUS
<1> USE BatchesAssumption, PathAssumption
    DEF ExportTypeInv, ShapeInv, SourceInv, WindowInv, Unwritten, ExportSteps, Ended,
        Move, Tell, unchangedByExport, unchangedByCall
<1>1. CASE UNCHANGED exportVars
  BY <1>1 DEF exportVars
<1>2. ASSUME NEW x \in Exports, NEW r \in JobIds, LoadResult(x, r)
      PROVE  ExportTypeInv'
  BY <1>2 DEF LoadResult
<1>3. ASSUME NEW x \in Exports,
             \/ CancelExport(x)
             \/ EmitExportQueued(x)
             \/ RegisterExport(x)
             \/ DeregisterExport(x)
      PROVE  ExportTypeInv'
  BY <1>3 DEF CancelExport, EmitExportQueued, RegisterExport, DeregisterExport
<1>4. ASSUME NEW x \in Exports, TrackExport(x) PROVE  ExportTypeInv'
  BY <1>4 DEF TrackExport, Track
<1>5. ASSUME NEW x \in Exports, ReleaseExport(x) PROVE  ExportTypeInv'
  BY <1>5 DEF ReleaseExport, Track
<1>6. ASSUME NEW x \in Exports,
             \/ ExportFails(x)
             \/ EmitExportRunning(x)
             \/ NoticeExportCancel(x)
             \/ NoMoreRows(x)
             \/ FlushExport(x)
      PROVE  ExportTypeInv'
  BY <1>6 DEF ExportFails, EmitExportRunning, NoticeExportCancel, NoMoreRows,
              FlushExport
<1>7. ASSUME NEW x \in Exports, OpenFile(x) PROVE  ExportTypeInv'
  BY <1>7 DEF OpenFile
<1>8. ASSUME NEW x \in Exports, CaptureSession(x) PROVE  ExportTypeInv'
  BY <1>8 DEF CaptureSession, TypeOK
<1>9. ASSUME NEW x \in Exports, WriteBatch(x) PROVE  ExportTypeInv'
  BY <1>9 DEF WriteBatch, Readable
<1>10. ASSUME NEW x \in Exports,
              \/ DiscardExport(x)
              \/ EmitExportCompleted(x)
              \/ EmitExportFailed(x)
       PROVE  ExportTypeInv'
  BY <1>10 DEF DiscardExport, EmitExportCompleted, EmitExportFailed
<1> QED
  BY <1>1, <1>2, <1>3, <1>4, <1>5, <1>6, <1>7, <1>8, <1>9, <1>10
     DEF NextWithExports, ExportNext, ExportTask, allVars, exportVars

-----------------------------------------------------------------------------
(* A token is in export_jobs or cancelled, from the registration on. *)
LEMMA CancelStep ==
  CancelReachesExport /\ ExportTypeInv /\ [NextWithExports]_allVars => CancelReachesExport'
<1> SUFFICES ASSUME CancelReachesExport, ExportTypeInv, [NextWithExports]_allVars
             PROVE  CancelReachesExport'
  OBVIOUS
<1> USE DEF CancelReachesExport, ExportTypeInv, ShapeInv, Registered, Tracking,
            ExportSteps, Move, Tell, unchangedByExport, unchangedByCall
<1>1. CASE UNCHANGED exportVars
  BY <1>1 DEF exportVars
<1>2. ASSUME NEW x \in Exports, NEW r \in JobIds, LoadResult(x, r)
      PROVE  CancelReachesExport'
  BY <1>2 DEF LoadResult
<1>3. ASSUME NEW x \in Exports, CancelExport(x) PROVE  CancelReachesExport'
  BY <1>3 DEF CancelExport
<1>4. ASSUME NEW x \in Exports, RegisterExport(x) PROVE  CancelReachesExport'
  BY <1>4 DEF RegisterExport
<1>5. ASSUME NEW x \in Exports, DeregisterExport(x) PROVE  CancelReachesExport'
  BY <1>5 DEF DeregisterExport
<1>6. ASSUME NEW x \in Exports,
             \/ EmitExportQueued(x)
             \/ TrackExport(x)
             \/ ReleaseExport(x)
      PROVE  CancelReachesExport'
  BY <1>6 DEF EmitExportQueued, TrackExport, ReleaseExport
<1>7. ASSUME NEW x \in Exports,
             \/ ExportFails(x)
             \/ EmitExportRunning(x)
             \/ OpenFile(x)
             \/ CaptureSession(x)
             \/ NoticeExportCancel(x)
      PROVE  CancelReachesExport'
  BY <1>7 DEF ExportFails, EmitExportRunning, OpenFile, CaptureSession,
              NoticeExportCancel
<1>8. ASSUME NEW x \in Exports,
             \/ WriteBatch(x)
             \/ NoMoreRows(x)
             \/ FlushExport(x)
             \/ DiscardExport(x)
             \/ EmitExportCompleted(x)
             \/ EmitExportFailed(x)
      PROVE  CancelReachesExport'
  BY <1>8 DEF WriteBatch, NoMoreRows, FlushExport, DiscardExport,
              EmitExportCompleted, EmitExportFailed
<1> QED
  BY <1>1, <1>2, <1>3, <1>4, <1>5, <1>6, <1>7, <1>8
     DEF NextWithExports, ExportNext, ExportTask, allVars, exportVars

(* The destination of an export is what its step and its last event say. *)
LEMMA FileStep ==
  FileInv /\ ExportTypeInv /\ [NextWithExports]_allVars => FileInv'
<1> SUFFICES ASSUME FileInv, ExportTypeInv, [NextWithExports]_allVars
             PROVE  FileInv'
  OBVIOUS
<1> USE DEF FileInv, Alone, Holding, Settled, Ended, ExportTypeInv, ShapeInv,
            ExportSteps, Move, Tell, unchangedByExport, unchangedByCall
<1>1. CASE UNCHANGED exportVars
  BY <1>1 DEF exportVars
<1>2. ASSUME NEW x \in Exports, NEW r \in JobIds, LoadResult(x, r)
      PROVE  FileInv'
  BY <1>2 DEF LoadResult
<1>3. ASSUME NEW x \in Exports,
             \/ CancelExport(x)
             \/ EmitExportQueued(x)
             \/ RegisterExport(x)
      PROVE  FileInv'
  BY <1>3 DEF CancelExport, EmitExportQueued, RegisterExport
<1>4. ASSUME NEW x \in Exports,
             \/ TrackExport(x)
             \/ DeregisterExport(x)
             \/ ReleaseExport(x)
      PROVE  FileInv'
  BY <1>4 DEF TrackExport, DeregisterExport, ReleaseExport
<1>5. ASSUME NEW x \in Exports,
             \/ ExportFails(x)
             \/ EmitExportRunning(x)
             \/ NoticeExportCancel(x)
             \/ NoMoreRows(x)
             \/ FlushExport(x)
      PROVE  FileInv'
  BY <1>5 DEF ExportFails, EmitExportRunning, NoticeExportCancel, NoMoreRows,
              FlushExport
<1>6. ASSUME NEW x \in Exports, OpenFile(x) PROVE  FileInv'
  BY <1>6 DEF OpenFile
<1>7. ASSUME NEW x \in Exports,
             \/ CaptureSession(x)
             \/ WriteBatch(x)
      PROVE  FileInv'
  BY <1>7 DEF CaptureSession, WriteBatch
<1>8. ASSUME NEW x \in Exports, DiscardExport(x) PROVE  FileInv'
  BY <1>8 DEF DiscardExport
<1>9. ASSUME NEW x \in Exports,
             \/ EmitExportCompleted(x)
             \/ EmitExportFailed(x)
      PROVE  FileInv'
  BY <1>9 DEF EmitExportCompleted, EmitExportFailed
<1> QED
  BY <1>1, <1>2, <1>3, <1>4, <1>5, <1>6, <1>7, <1>8, <1>9
     DEF NextWithExports, ExportNext, ExportTask, allVars, exportVars

(* No step of an export follows its terminal event with another. *)
LEMMA TerminalStep ==
  ASSUME FileInv, ExportTypeInv, [NextWithExports]_allVars, NEW x \in Exports,
         status[x] \in Ended
  PROVE  UNCHANGED status[x]
<1> USE DEF FileInv, Settled, ExportTypeInv, ShapeInv, Move, Tell, unchangedByExport,
            unchangedByCall
<1>1. ASSUME NEW y \in Exports,
             \/ \E r \in JobIds : LoadResult(y, r)
             \/ CancelExport(y)
             \/ EmitExportQueued(y)
             \/ RegisterExport(y)
             \/ TrackExport(y)
             \/ DeregisterExport(y)
             \/ ReleaseExport(y)
      PROVE  UNCHANGED status[x]
  BY <1>1 DEF LoadResult, CancelExport, EmitExportQueued, RegisterExport, TrackExport,
              DeregisterExport, ReleaseExport
<1>2. ASSUME NEW y \in Exports,
             \/ EmitExportRunning(y)
             \/ WriteBatch(y)
             \/ DiscardExport(y)
             \/ EmitExportCompleted(y)
             \/ EmitExportFailed(y)
      PROVE  UNCHANGED status[x]
  BY <1>2 DEF EmitExportRunning, WriteBatch, DiscardExport, EmitExportCompleted,
              EmitExportFailed
<1>3. ASSUME NEW y \in Exports,
             \/ ExportFails(y)
             \/ OpenFile(y)
             \/ CaptureSession(y)
             \/ NoticeExportCancel(y)
             \/ NoMoreRows(y)
             \/ FlushExport(y)
      PROVE  UNCHANGED status[x]
  BY <1>3 DEF ExportFails, OpenFile, CaptureSession, NoticeExportCancel, NoMoreRows,
              FlushExport
<1> QED
  BY <1>1, <1>2, <1>3 DEF NextWithExports, ExportNext, ExportTask, allVars, exportVars

-----------------------------------------------------------------------------
(* The count of a result set *)

LEMMA HoldersFinite ==
  ASSUME NEW r
  PROVE  /\ IsFiniteSet(Holders(r))
         /\ Cardinality(Holders(r)) \in 0..Cardinality(Exports)
<1>1. Holders(r) \subseteq Exports
  BY DEF Holders
<1> QED
  BY <1>1, ExportAssumption, FS_Subset, FS_CardinalityType

(* A step that lets no export begin or end to count keeps every count. *)
LEMMA HoldersSame ==
  ASSUME TrackedMatchesExports, UNCHANGED <<tracked, activeExports>>,
         \A x \in Exports : xpc'[x] \in Tracking <=> xpc[x] \in Tracking,
         \A x \in Exports : xpc[x] \in Tracking => source'[x] = source[x]
  PROVE  TrackedMatchesExports'
<1>1. ASSUME NEW r \in JobIds PROVE Holders(r)' = Holders(r)
  BY DEF Holders
<1> QED
  BY <1>1 DEF TrackedMatchesExports, Holders

(* The count of one result set goes up with an export that begins to count. *)
LEMMA HoldersGrow ==
  ASSUME TrackedMatchesExports, ExportTypeInv, NEW x \in Exports, TrackExport(x)
  PROVE  TrackedMatchesExports'
<1> USE DEF ExportTypeInv, ShapeInv
<1>1. PICK r \in JobIds : source[x] = {r}
  BY DEF SourceInv, TrackExport, Move
<1>2. /\ xpc' = [xpc EXCEPT ![x] = "spawned"]
      /\ xpc[x] = "registered"
      /\ source' = source
      /\ tracked' = [tracked EXCEPT ![r] = tracked[r] + 1]
      /\ activeExports' = activeExports \cup {r}
  BY <1>1 DEF TrackExport, Track, Move
<1>3. Holders(r)' = Holders(r) \cup {x} /\ x \notin Holders(r)
  BY <1>1, <1>2 DEF Holders, Tracking
<1>4. \A q \in JobIds \ {r} : Holders(q)' = Holders(q)
  BY <1>1, <1>2 DEF Holders, Tracking
<1>5. Cardinality(Holders(r)') = Cardinality(Holders(r)) + 1
  BY <1>3, HoldersFinite, FS_AddElement
<1>6. \A q \in JobIds : tracked'[q] = Cardinality(Holders(q)')
  BY <1>2, <1>4, <1>5 DEF TrackedMatchesExports, Holders
<1>7. activeExports' = {q \in JobIds : tracked'[q] > 0}
  BY <1>2 DEF TrackedMatchesExports
<1> QED
  BY <1>6, <1>7 DEF TrackedMatchesExports, Holders

(* It goes down with one that ends, and was not 0. *)
LEMMA HoldersShrink ==
  ASSUME TrackedMatchesExports, ExportTypeInv, NEW x \in Exports, ReleaseExport(x)
  PROVE  TrackedMatchesExports'
<1> USE DEF ExportTypeInv, ShapeInv
<1>1. PICK r \in JobIds : source[x] = {r}
  BY DEF SourceInv, ReleaseExport, Move
<1>2. xpc[x] = "untracking" /\ x \in Holders(r)
  BY <1>1 DEF ReleaseExport, Move, Holders, Tracking
<1>3. tracked[r] # 0
  BY <1>2, HoldersFinite, FS_EmptySet DEF TrackedMatchesExports, Holders
<1>4. /\ xpc' = [xpc EXCEPT ![x] = "done"]
      /\ source' = source
      /\ tracked' = [tracked EXCEPT ![r] = tracked[r] - 1]
      /\ activeExports' = IF tracked[r] - 1 = 0 THEN activeExports \ {r}
                                                ELSE activeExports \cup {r}
  BY <1>1, <1>3 DEF ReleaseExport, Track, Move
<1>5. Holders(r)' = Holders(r) \ {x}
  BY <1>4 DEF Holders, Tracking
<1>6. \A q \in JobIds \ {r} : Holders(q)' = Holders(q)
  BY <1>1, <1>2, <1>4 DEF Holders, Tracking
<1>7. Cardinality(Holders(r)') = Cardinality(Holders(r)) - 1
  BY <1>2, <1>5, HoldersFinite, FS_RemoveElement
<1>8. \A q \in JobIds : tracked'[q] = Cardinality(Holders(q)')
  BY <1>4, <1>6, <1>7 DEF TrackedMatchesExports, Holders
<1>9. activeExports' = {q \in JobIds : tracked'[q] > 0}
  BY <1>3, <1>4 DEF TrackedMatchesExports
<1> QED
  BY <1>8, <1>9 DEF TrackedMatchesExports, Holders

(* The counts match after every step. *)
LEMMA TrackedStep ==
  TrackedMatchesExports /\ ExportTypeInv /\ [NextWithExports]_allVars
    => TrackedMatchesExports'
<1> SUFFICES ASSUME TrackedMatchesExports, ExportTypeInv, [NextWithExports]_allVars
             PROVE  TrackedMatchesExports'
  OBVIOUS
<1> USE DEF ExportTypeInv, ShapeInv, Tracking, Move, Tell, unchangedByExport,
            unchangedByCall
<1>1. CASE UNCHANGED <<exportVars, activeExports>>
  BY <1>1, HoldersSame DEF exportVars
<1>2. CASE Next /\ UNCHANGED exportVars
  <2>1. UNCHANGED activeExports
    BY <1>2, ActiveExportsKept
  <2> QED
    BY <1>2, <2>1, <1>1
<1>3. ASSUME NEW x \in Exports, NEW r \in JobIds, LoadResult(x, r)
      PROVE  TrackedMatchesExports'
  BY <1>3, HoldersSame DEF LoadResult
<1>4. ASSUME NEW x \in Exports,
             \/ CancelExport(x)
             \/ EmitExportQueued(x)
             \/ RegisterExport(x)
             \/ DeregisterExport(x)
      PROVE  TrackedMatchesExports'
  BY <1>4, HoldersSame
     DEF CancelExport, EmitExportQueued, RegisterExport, DeregisterExport
<1>5. ASSUME NEW x \in Exports,
             \/ ExportFails(x)
             \/ EmitExportRunning(x)
             \/ OpenFile(x)
             \/ CaptureSession(x)
             \/ NoticeExportCancel(x)
      PROVE  TrackedMatchesExports'
  BY <1>5, HoldersSame
     DEF ExportFails, EmitExportRunning, OpenFile, CaptureSession, NoticeExportCancel
<1>6. ASSUME NEW x \in Exports,
             \/ WriteBatch(x)
             \/ NoMoreRows(x)
             \/ FlushExport(x)
             \/ DiscardExport(x)
             \/ EmitExportCompleted(x)
             \/ EmitExportFailed(x)
      PROVE  TrackedMatchesExports'
  BY <1>6, HoldersSame
     DEF WriteBatch, NoMoreRows, FlushExport, DiscardExport, EmitExportCompleted,
         EmitExportFailed
<1> QED
  BY <1>1, <1>2, <1>3, <1>4, <1>5, <1>6, HoldersGrow, HoldersShrink
     DEF NextWithExports, ExportNext, ExportTask, allVars, vars

-----------------------------------------------------------------------------
(* The service beside the exports *)

LEMMA ServiceFrame ==
  ASSUME ServiceInv, UNCHANGED unchangedByQuery, activeExports' \subseteq JobIds
  PROVE  ServiceInv'
<1> USE DEF unchangedByQuery, callVars, serverVars
<1>1. TypeInv'
  BY DEF ServiceInv, TypeInv, StepInv, TypeOK
<1>2. ReservationInv'
  BY DEF ServiceInv, ReservationInv, EntryOfRun, RunOfEntry, OneRunPerTab, HasTab
<1>3. TokenInv'
  BY DEF ServiceInv, TokenInv, HasTab, Announced
<1>4. TraceInv'
  BY DEF ServiceInv, TraceInv, Announced
<1>5. ResultInv'
  BY DEF ServiceInv, ResultInv, OneResultPerTab
<1> QED
  BY <1>1, <1>2, <1>3, <1>4, <1>5 DEF ServiceInv

(* Everything an export does, and the service beside it, together. *)
ExportInv ==
  /\ ServiceInv
  /\ ExportTypeInv
  /\ TrackedMatchesExports
  /\ CancelReachesExport
  /\ FileInv

LEMMA ExportInvInit == Init /\ ExportInit => ExportInv
<1> SUFFICES ASSUME Init, ExportInit PROVE ExportInv
  OBVIOUS
<1> USE BatchesAssumption DEF ExportInit, ExportSteps, Ended, Tracking
<1>1. ServiceInv
  BY ServiceInit
<1>2. ExportTypeInv
  BY DEF ExportTypeInv, ShapeInv, SourceInv, WindowInv
<1>3. TrackedMatchesExports
  <2>1. \A r \in JobIds : Holders(r) = {}
    BY DEF Holders
  <2>2. \A r \in JobIds : tracked[r] = Cardinality(Holders(r))
    BY <2>1, FS_EmptySet
  <2>3. activeExports = {r \in JobIds : tracked[r] > 0}
    BY DEF Init
  <2> QED
    BY <2>2, <2>3 DEF TrackedMatchesExports, Holders
<1>4. CancelReachesExport
  BY DEF CancelReachesExport, Registered
<1>5. FileInv
  BY DEF FileInv, Holding
<1> QED
  BY <1>1, <1>2, <1>3, <1>4, <1>5 DEF ExportInv

LEMMA ExportInvStep == ExportInv /\ [NextWithExports]_allVars => ExportInv'
<1> SUFFICES ASSUME ExportInv, [NextWithExports]_allVars PROVE ExportInv'
  OBVIOUS
<1>1. TypeOK
  BY DEF ExportInv, ServiceInv, TypeInv
<1>2. ExportTypeInv'
  BY <1>1, ExportTypeStep DEF ExportInv
<1>3. TrackedMatchesExports'
  BY TrackedStep DEF ExportInv
<1>4. CancelReachesExport'
  BY CancelStep DEF ExportInv
<1>5. FileInv'
  BY FileStep DEF ExportInv
<1>6. ServiceInv'
  <2>1. CASE [Next]_vars
    BY <2>1, ServiceStep DEF ExportInv
  <2>2. CASE ExportNext
    <3>1. activeExports' \subseteq JobIds
      BY <1>3 DEF TrackedMatchesExports
    <3> QED
      BY <2>2, <3>1, ExportFrame, ServiceFrame DEF ExportInv
  <2> QED
    BY <2>1, <2>2 DEF NextWithExports, allVars
<1> QED
  BY <1>2, <1>3, <1>4, <1>5, <1>6 DEF ExportInv

(* Every step of a run, of an export or of the session keeps the invariants of the
   exports, with those of the service beside them. *)
THEOREM ExportCorrect == SpecWithExports => []ExportInv
BY ExportInvInit, ExportInvStep, PTL DEF SpecWithExports

-----------------------------------------------------------------------------
(* What the runs of TLC check follows for any instance. *)

(* Every variable of the exports keeps its type, and no count exceeds the
   number of exports. *)
THEOREM ExportsTyped == SpecWithExports => []ExportTypeOK
<1>1. ExportInv => ExportTypeOK
  <2> SUFFICES ASSUME ShapeInv, TrackedMatchesExports PROVE ExportTypeOK
    BY DEF ExportInv, ExportTypeInv
  <2>1. \A r \in JobIds : tracked[r] = Cardinality(Holders(r))
    BY DEF TrackedMatchesExports, Holders
  <2>2. \A r \in JobIds : tracked[r] \in 0..Cardinality(Exports)
    BY <2>1, HoldersFinite
  <2> QED
    BY <2>2 DEF ShapeInv, ExportTypeOK
<1> QED
  BY <1>1, ExportCorrect, PTL

(* active_export_result_sets has an entry for a result set exactly while an
   export of it is under way, and counts them: the first export that ends does
   not uncover what another still reads. *)
THEOREM CountsMatch == SpecWithExports => []TrackedMatchesExports
BY ExportCorrect, PTL DEF ExportInv

(* cancel_query_result_export finds the token of every export under way that
   was not cancelled, and export_jobs holds no token of one that is gone. *)
THEOREM ExportCancelReaches == SpecWithExports => []CancelReachesExport
BY ExportCorrect, PTL DEF ExportInv

(* A completed event means the file is there and a cancelled one that it is
   not, unless another export wrote to the same destination. *)
THEOREM FilesMatch == SpecWithExports => []FileMatchesOutcome
<1>1. ExportInv => FileMatchesOutcome
  BY DEF ExportInv, FileInv, Alone, FileMatchesOutcome
<1> QED
  BY <1>1, ExportCorrect, PTL

(* No event follows the terminal event of an export. *)
THEOREM TerminalEventsAreLast == SpecWithExports => TerminalEventIsLast
<1>1. ExportInv /\ [NextWithExports]_allVars
        => [\A x \in Exports : status[x] \in Ended => UNCHANGED status[x]]_allVars
  BY TerminalStep DEF ExportInv
<1> QED
  BY <1>1, ExportCorrect, PTL DEF SpecWithExports, TerminalEventIsLast

(* The service keeps its promises beside exports: one run per tab, a
   reservation per run, tokens for the runs that can be cancelled, announced
   result sets in the store, and no traces of refused calls. *)
THEOREM ServiceBesideExports ==
  SpecWithExports => [](/\ OneRunPerTab
                        /\ ReservationMatchesRun
                        /\ CancelReachesRun
                        /\ AnnouncedResultIsStored
                        /\ RefusedLeavesNothing)
BY ExportCorrect, ServiceFacts, PTL DEF ExportInv

(* With exports a tab may keep several result sets, but of any two a run spared
   one because an export was reading it. *)
THEOREM SparedResultsOnly == SpecWithExports => []OneResultPerTab
BY ExportCorrect, ServiceFacts, PTL DEF ExportInv
================================================================================
