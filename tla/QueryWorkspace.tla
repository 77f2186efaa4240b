---------------------------- MODULE QueryWorkspace -----------------------------
(***************************************************************************)
(* The editor's side of a run: the tabs of src/features/query/             *)
(* useQueryWorkspace.ts with the event buffer of src/App.tsx, composed     *)
(* with the query service as TabRuns promises it.                          *)
(*                                                                         *)
(* A call of start_query is answered by a reply and, independently, by the *)
(* events of its run.  Events reach the window in the order they were      *)
(* emitted; a reply may come before, between or after them.                *)
(*                                                                         *)
(* React keeps the updates of the tabs in a queue.  An urgent render skips *)
(* those of transitions, which are rendered later and in their place, and  *)
(* whoever renders sets tabsRef, so that what a click reads may lack       *)
(* updates that are still waiting.                                         *)
(***************************************************************************)
EXTENDS TabRuns, Naturals, Sequences, SequencesExt

CONSTANTS
  NoJob,       \* execution.jobId is null
  EventBuffer, \* how many query events App keeps (12 in App.tsx)
  Outcomes     \* how runs end: all of Final, or fewer in a small instance, as
               \* nothing here tells one from the other

ASSUME BufferAssumption == EventBuffer \in Nat \ {0} /\ NoJob \notin JobIds
ASSUME OutcomesAssumption == Outcomes \subseteq Final

VARIABLES
  call,     \* what has become of each call of start_query
  target,   \* the tab a call is for
  reported, \* runs whose terminal event has been emitted
  events,   \* emitted events on their way to the window
  buffer,   \* queryEvents of App, oldest first
  seen,     \* events that have been read (seenQueryEventsRef)
  next,     \* the open tabs, each with its job (execution.jobId) and its result
            \* set (result.summary), once every update that waits is rendered
  tabs,     \* the same without the updates of waiting transitions
  tabsRef,  \* the tabs as they were last computed, which the clicks read
  inTabs,   \* history: the events that had been read when tabs was
  inRef,    \* and when tabsRef was brought up to date with them
  late,     \* history: runs whose reply came out of turn, after their terminal
            \* event was read or while the tab shows another run
  lost      \* history: events that never reach the tabs: not emitted, dropped
            \* from the buffer unread, or overwritten before they were rendered

viewVars   == <<next, tabs, tabsRef, inTabs, inRef>>
wireVars   == <<call, target, reported, events>>
workspaceVars == <<runVars, wireVars, buffer, seen, viewVars, late, lost>>

Statuses == {"queued", "running"} \cup Final
Events   == [job : JobIds, status : Statuses, rows : BOOLEAN]

WorkspaceInit ==
  /\ Init
  /\ call     = [j \in JobIds |-> "none"]
  /\ target   \in [JobIds -> Tabs]
  /\ reported = {}
  /\ events   = <<>>
  /\ buffer   = <<>>
  /\ seen     = {}
  /\ next     = [t \in Tabs |-> [job |-> NoJob, summary |-> {}]]
  /\ tabs     = next
  /\ tabsRef  = next
  /\ inTabs   = {}
  /\ inRef    = {}
  /\ late     = {}
  /\ lost     = {}

-----------------------------------------------------------------------------
(* The service *)

Answer(j, a) == call' = [call EXCEPT ![j] = a]

Event(j, s, r) == [job |-> j, status |-> s, rows |-> r]

Emit(e) == events' = Append(events, e) /\ UNCHANGED lost

(* After the queued event an emit that fails is logged, and the run goes on. *)
EmitOrLose(e) ==
  \/ Emit(e)
  \/ lost' = lost \cup {e} /\ UNCHANGED events

unchangedByService == <<target, buffer, seen, viewVars, late>>

RefuseCall(j) ==
  /\ call[j] = "sent"
  /\ \/ Refuse(j)
     \/ Abandon(j, target[j])
  /\ Answer(j, "refused")
  /\ UNCHANGED <<unchangedByService, reported, events, lost>>

PrepareRun(j) ==
  /\ call[j] = "sent"
  /\ \/ Claim(j, target[j])
     \/ Empty(j, target[j])
  /\ UNCHANGED <<unchangedByService, wireVars, lost>>

(* The queued event is emitted, then the call returns. *)
AnnounceRun(j) ==
  /\ call[j] = "sent"
  /\ Announce(j, target[j])
  /\ Answer(j, "accepted")
  /\ Emit(Event(j, "queued", FALSE))
  /\ UNCHANGED <<unchangedByService, reported>>

StartRun(j) ==
  /\ Start(j, target[j])
  /\ EmitOrLose(Event(j, "running", FALSE))
  /\ UNCHANGED <<unchangedByService, call, reported>>

FinishRun(j) ==
  /\ \E s \in Outcomes : Finish(j, target[j], s)
  /\ UNCHANGED <<unchangedByService, wireVars, lost>>

(* The terminal event is emitted before the tab is given back. *)
ReportRun(j) ==
  /\ phase[j] \in Final
  /\ j \notin reported
  /\ reported' = reported \cup {j}
  /\ EmitOrLose(Event(j, phase[j], j \in kept[target[j]]))
  /\ UNCHANGED <<unchangedByService, runVars, call>>

ReleaseRun(j) ==
  /\ j \in reported
  /\ Release(j, target[j])
  /\ UNCHANGED <<unchangedByService, wireVars, lost>>

Service(j) ==
  \/ RefuseCall(j)
  \/ PrepareRun(j)
  \/ AnnounceRun(j)
  \/ StartRun(j)
  \/ FinishRun(j)
  \/ ReportRun(j)
  \/ ReleaseRun(j)

-----------------------------------------------------------------------------
(* The window *)

unchangedByEditor == <<runVars, target, reported, events, buffer, seen, inTabs, inRef, lost>>

(* Run is offered as long as the tab shows no job: also while an earlier call
   has not been answered. *)
StartTabQuery(j) ==
  /\ call[j] = "none"
  /\ target[j] \in DOMAIN tabsRef
  /\ tabsRef[target[j]].job = NoJob
  /\ Answer(j, "sent")
  /\ UNCHANGED <<unchangedByEditor, next, tabs, tabsRef, late>>

(* The tab shows the run, and no result. *)
ShowQueued(ts, j) ==
  IF target[j] \in DOMAIN ts
  THEN [ts EXCEPT ![target[j]] = [job |-> j, summary |-> {}]]
  ELSE ts

ShowsAnother(ts, j) == target[j] \in DOMAIN ts /\ ts[target[j]].job \notin {NoJob, j}

(* The accepted reply is an urgent update. *)
HandleAccepted(j) ==
  /\ call[j] = "accepted"
  /\ Answer(j, "handled")
  /\ next' = ShowQueued(next, j)
  /\ tabs' = ShowQueued(tabs, j)
  /\ late' = IF \/ \E e \in seen : e.job = j /\ e.status \in Final
                \/ ShowsAnother(next, j)
                \/ ShowsAnother(tabs, j)
             THEN late \cup {j} ELSE late
  /\ UNCHANGED <<unchangedByEditor, tabsRef>>

Reset(ts, j) ==
  IF target[j] \in DOMAIN ts THEN [ts EXCEPT ![target[j]].job = NoJob] ELSE ts

(* Mutant: the error of a refused start resets the tab. *)
RefusedResetsTab(j) ==
  /\ call[j] = "refused"
  /\ Answer(j, "handled")
  /\ next' = Reset(next, j)
  /\ tabs' = Reset(tabs, j)
  /\ UNCHANGED <<unchangedByEditor, tabsRef, late>>

(* The error of a refused start is shown, and the tab keeps its job and its
   result set, whatever they are. *)
HandleRefused(j) ==
  /\ call[j] = "refused"
  /\ Answer(j, "handled")
  /\ UNCHANGED <<unchangedByEditor, next, tabs, tabsRef, late>>

(* A tab that shows no job can be closed; events and replies that come later
   find no tab.  The tabs that remain are those of tabsRef, and replace whatever
   the waiting updates had made of them. *)
CloseTab(t) ==
  /\ t \in DOMAIN tabsRef
  /\ tabsRef[t].job = NoJob
  /\ next' = Restrict(tabsRef, DOMAIN tabsRef \ {t})
  /\ lost' = lost \cup {e \in seen \ inRef : target[e.job] \in DOMAIN next'}
  /\ UNCHANGED <<runVars, wireVars, buffer, seen, tabs, tabsRef, inTabs, inRef, late>>

(* Mutant: App keeps every event. *)
ReceiveAndKeepAll ==
  /\ events # <<>>
  /\ events' = Tail(events)
  /\ buffer' = Append(buffer, Head(events))
  /\ UNCHANGED <<runVars, call, target, reported, seen, viewVars, late, lost>>

(* handleQueryEvent keeps the newest EventBuffer events. *)
ReceiveEvent ==
  /\ events # <<>>
  /\ events' = Tail(events)
  /\ LET all == Append(buffer, Head(events))
         cut == IF Len(all) > EventBuffer THEN 1 ELSE 0
     IN  /\ buffer' = SubSeq(all, cut + 1, Len(all))
         /\ lost' = lost \cup (ToSet(SubSeq(all, 1, cut)) \ seen)
  /\ UNCHANGED <<runVars, call, target, reported, seen, viewVars, late>>

(* applyQueryEvent: an event of any run of the tab sets its job. *)
ApplyQueryEvent(ts, e) ==
  LET t == target[e.job]
  IN  IF t \notin DOMAIN ts THEN ts
      ELSE [ts EXCEPT ![t] =
              [job     |-> IF e.status \in Final THEN NoJob ELSE e.job,
                summary |-> IF e.rows THEN {e.job} ELSE ts[t].summary]]

(* The events that markEventIfUnseen lets through, each of them once: no event
   is emitted twice. *)
Unseen == ToSet(buffer) \ seen

ApplyIfUnseen(ts, e) == IF e \in seen THEN ts ELSE ApplyQueryEvent(ts, e)

unchangedByReading == <<runVars, wireVars, buffer, tabs, tabsRef, inTabs, inRef, late, lost>>

(* Mutant: the update starts from the tabs of the last render. *)
ReadOverRendered ==
  /\ Unseen # {}
  /\ next' = FoldLeft(ApplyIfUnseen, tabsRef, buffer)
  /\ seen' = seen \cup Unseen
  /\ UNCHANGED unchangedByReading

(* Mutant: the events are applied newest first, as App keeps them. *)
ReadNewestFirst ==
  /\ Unseen # {}
  /\ next' = FoldLeft(ApplyIfUnseen, next, Reverse(buffer))
  /\ seen' = seen \cup Unseen
  /\ UNCHANGED unchangedByReading

(* The deferred list is read some time later.  Its events are marked seen at
   once; the update that applies them in the order they came is a transition. *)
ReadEvents ==
  /\ Unseen # {}
  /\ next' = FoldLeft(ApplyIfUnseen, next, buffer)
  /\ seen' = seen \cup Unseen
  /\ UNCHANGED unchangedByReading

unchangedByRender == <<runVars, wireVars, buffer, seen, next, late, lost>>

(* An urgent update, a keystroke's for one, is rendered without the waiting
   transitions. *)
RenderUrgent ==
  /\ tabsRef' = tabs
  /\ inRef' = inTabs
  /\ UNCHANGED <<unchangedByRender, tabs, inTabs>>

(* The waiting updates are computed, when React does so as they are made or in a
   render that an urgent one interrupts, and not shown yet. *)
ComputeAhead ==
  /\ tabsRef' = next
  /\ inRef' = seen
  /\ UNCHANGED <<unchangedByRender, tabs, inTabs>>

(* The waiting transitions are rendered, all in one render. *)
RenderTransition ==
  /\ tabs' = next
  /\ inTabs' = seen
  /\ tabsRef' = next
  /\ inRef' = seen
  /\ UNCHANGED unchangedByRender

Render == RenderUrgent \/ ComputeAhead \/ RenderTransition

Window(j) ==
  \/ StartTabQuery(j)
  \/ HandleAccepted(j)
  \/ HandleRefused(j)

WorkspaceNext ==
  \/ \E j \in JobIds : Service(j) \/ Window(j)
  \/ \E t \in Tabs : CloseTab(t)
  \/ ReceiveEvent
  \/ ReadEvents
  \/ Render

WorkspaceSpec == WorkspaceInit /\ [][WorkspaceNext]_workspaceVars

-----------------------------------------------------------------------------
(* Properties *)

TabStates == [job : JobIds \cup {NoJob}, summary : SUBSET JobIds]
Views == UNION {[S -> TabStates] : S \in SUBSET Tabs}

WorkspaceTypeOK ==
  /\ call \in [JobIds -> {"none", "sent", "accepted", "refused", "handled"}]
  /\ target \in [JobIds -> Tabs]
  /\ reported \subseteq JobIds
  /\ events \in Seq(Events)
  /\ buffer \in Seq(Events) /\ Len(buffer) <= EventBuffer
  /\ seen \subseteq Events
  /\ next \in Views /\ tabs \in Views /\ tabsRef \in Views
  /\ inTabs \subseteq seen /\ inRef \subseteq seen
  /\ late \subseteq JobIds
  /\ lost \subseteq Events

(* The tabs that Run, Cancel and Close read have this event of the run. *)
Rendered(j, S) == \E e \in inRef : e.job = j /\ e.status \in S

(* Everything that was sent has arrived and is rendered, and no run is under way. *)
Quiescent ==
  /\ events = <<>> /\ Unseen = {}
  /\ tabs = next /\ tabsRef = next
  /\ \A j \in JobIds : call[j] \in {"none", "handled"}
  /\ \A t \in Tabs : owner[t] = {}

(* Once the tabs that cancelTabQuery reads have a run's queued event, and until
   they have its terminal event, the run's tab names the run, so that it is the
   one Cancel stops: whatever refused second starts, replies that overtake
   events, renders in either order and other tabs that close do between.  Two
   things may break it: a reply out of turn, and an event that never reaches the
   tabs, which includes those a close overwrites before they are rendered. *)
ShownRunIsCancellable ==
  late = {} /\ lost = {} =>
    \A j \in JobIds :
      Rendered(j, {"queued"}) /\ ~Rendered(j, Final) /\ target[j] \in DOMAIN tabsRef
        => tabsRef[target[j]].job = j

(* A tab whose runs are all over is free for the next one, unless a reply was
   out of turn or an event never reached the tabs. *)
FreeTabCanRun ==
  Quiescent /\ late = {} /\ lost = {} =>
    \A t \in DOMAIN tabsRef : tabsRef[t].job = NoJob

(* "React updates only the owning tab from those events": a tab whose runs are
   all over shows no run. *)
IdleTabCanRun ==
  Quiescent /\ lost = {} => \A t \in DOMAIN tabsRef : tabsRef[t].job = NoJob

(* The result set the service keeps for a tab at rest is the one it shows, unless
   a reply was out of turn or an event never reached the tabs. *)
KeptResultIsShown ==
  Quiescent /\ late = {} /\ lost = {} =>
    \A t \in DOMAIN tabsRef : kept[t] # {} => tabsRef[t].summary = kept[t]
==============================================================================
