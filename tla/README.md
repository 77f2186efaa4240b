# Verification of Sparow

Sparow is a desktop client for PostgreSQL: a Tauri v2 application with a Rust
backend (`src-tauri/src`) and a React frontend (`src`).  This directory holds
TLA+ modules that model its concurrent parts, TLC configurations that check
them on small instances, and TLAPS proofs of every safety property among them for
every number of runs, tabs, sessions, clients, exports and pages.  The backend's services are modelled
one by one, with the state of the frontend that decides what they are asked.

## The system

| Part | Keeps | Operations | Talks to |
|---|---|---|---|
| Query service, `query/service.rs` | `jobs` (id -> token), `tab_jobs` (tab -> job id), `export_jobs`, `active_export_result_sets` (result set -> count) | `start_query`, `cancel_query`, `start_query_result_export`, `cancel_query_result_export`, `get_query_result_window`, `get_query_result_count` | driver, result store, connections, repository; emits events to the frontend |
| Query driver, `query/driver.rs` | nothing; borrows a client of the session's pool (four clients) | `run_query`, replayable windows and counts, `cancel_active_query` | PostgreSQL |
| Result store, `query/result_store.rs` | result handles per id; a page cache, a count and a signature per replayable handle | `insert`, `load`, `clear_tab_except`, window and cache algorithms | |
| Connections, `connections/service.rs` | the one active session; profiles and the selected id in SQLite, passwords in the secret store | save, test, connect, disconnect, delete | driver, repository, secret store |
| Schema browser, `schema/service.rs` | `in_flight` refresh keys; cached nodes and scopes in SQLite | list children, refresh, search | connections, introspection, repository |
| Repository, `persistence/repository.rs` | SQLite | transactions and queries of the other services | |
| Productivity, `productivity/service.rs` | nothing; saved queries and query history are in SQLite | list, save, delete | repository |
| Query workspace, `features/query/useQueryWorkspace.ts` with the event buffers of `App.tsx` | tabs with their execution, result and export state; the last 12 events | run, cancel, close, load windows, export | commands and events of the backend |
| Connection, schema and productivity workspaces (frontend) | lists, selections, loading flags | calls to the backend | |

A command is an asynchronous call with one reply.  What a spawned task does
afterwards reaches the frontend as events, in the order they were emitted, but
in no fixed order with respect to the reply.  Inside the backend every piece of
shared state has a mutex of its own that is never held across two awaits of an
operation, so the unit of atomicity is the code between two awaits.

The hard behaviours, with the line where each bites, are the `hazards` of
`PROJECT.json`: reservations carried over several awaits and given back on
every path; cancellation that races completion, and cancel requests that race
the next statement on a pooled client; snapshots used after they are stale
(exports to spare, captured sessions); terminal events emitted before the
cleanup they announce; replies that overtake or are overtaken by events; and
bounded buffers that drop them; updates of the tabs that wait in React's
transitions while a click reads, and writes back, the tabs without them; and
waits without a time limit, for a client of a pool of four or for a server that
took a connection and says no more.  In what is durable: a profile's row and its
password in two stores that no transaction joins; scripts, inserts, prunes and
upserts that commit statement by statement, so that calls interleave and crashes
fall between; and refreshes of overlapping scopes that replace rows of one
table with what they saw some time ago.

## Modules

| Module | Models |
|---|---|
| `TabRuns` | the promise: a tab has one run at a time and keeps the last run's result set |
| `QueryService` | `start_query`, its task, `cancel_query`, the job registry, the reservation, the store's contents, the pool, PostgreSQL as the driver uses it |
| `QueryService_proofs`, `QueryService_refinement` | the proofs about `QueryService` |
| `ResultExport` | CSV exports composed with the runs of `QueryService` |
| `QueryWorkspace` | the editor's tabs, the event buffer, replies and events, composed with `TabRuns` |
| `ResultCache` | the page cache of one replayable result set under concurrent windows and counts |
| `ResultExport_proofs`, `QueryWorkspace_proofs`, `ResultCache_proofs` | the proofs about these three |
| `Connections` | profiles, secrets, the selected id and the active session, with the activations of `useConnectionWorkspace.ts` and restarts |
| `SchemaRefresh` | list, refresh and search calls, `in_flight`, refresh tasks, introspection and the cache tables |
| `Library` | migrations at every start, query history and its pruning, saved queries |
| `Connections_proofs`, `SchemaRefresh_proofs`, `Library_proofs` | the proofs about these three |
| `MC...` | the instances TLC checks |

### QueryService

A call of `start_query` is named by the job id it draws (`j`), and the result
set it may store by the same name.  `pc[j]` says where the call, and after
`RecordHistory` its spawned task, stands: one value for every await at which
another task can run.

| Code | Actions |
|---|---|
| validation and `active_session_runtime`, service.rs:116-140 | `Refuse`, `Admit` |
| check and reservation in `tab_jobs`, 142-154 | `ReserveTab` |
| `active_export_result_set_ids`, 156; `clear_tab_except`, 157-159 | `SnapshotExports`, `ClearTab` |
| `jobs.insert`, `set_tab_job`, queued event, 166-197 | `RegisterJob`, `SetTabJob`, `EmitQueued`, `UndoRegister`, `UndoSetTabJob` |
| `record_query_history`, spawn, 200-208 | `RecordHistory` |
| `cancel_query`, 308-326 | `CancelQuery` |
| running event, 211-230 | `EmitRunning` |
| `run_query`, driver.rs:83-197 | `CheckOut(Fails)`, `Prepare(d/Fails)`, `StatementEnds`, `NoticeCancel` |
| `cancel_active_query`, driver.rs:777-800 | `SendCancel` |
| `store_query_result`, terminal event, cleanup, 590-644, 271-302 | `StoreResult`, `EmitTerminal`, `Deregister`, `ReleaseTab` |

PostgreSQL is external and modelled from how the driver uses it: the statements
of one client run in order, an abandoned statement goes on in the server
(`stale`), and a cancel request (`signal`) takes effect some time later on
whatever the client's server session then does.  A result set is its name: its
columns, rows and pages are abstracted.  A client that is dropped goes back to
the pool; a statement prepared on a client with a stale statement waits for it.

### ResultExport

Adds `start_query_result_export`, its task and its cancellation.  The actions of
`QueryService` keep their meaning: `activeExports`, which stays empty there, is
the key set of `tracked` here.  `TabRuns` is not implemented when exports spare
result sets, as a tab may then keep several: `OneResultPerTab` says which.

### QueryWorkspace

Composes the tabs of the frontend with `TabRuns`, so that what it shows holds of
every service with that promise.  `events` is the Tauri channel, `buffer` the
newest `EventBuffer` events of `App.tsx`.  A running or terminal event that
cannot be emitted is only logged and never comes (`EmitOrLose`).

React keeps the updates of the tabs in a queue, renders the urgent ones first
and those of a transition later, in their place.  Three copies of the tabs say
what that comes to: `next` has every update, the waiting ones included; `tabs`
has none of those that wait; `tabsRef` is what some render last computed, and is
what Run, Cancel and Close read.

| Code | Actions |
|---|---|
| `start_query` and its task, service.rs:111-302 | `RefuseCall`, `PrepareRun`, `AnnounceRun`, `StartRun`, `FinishRun`, `ReportRun`, `ReleaseRun` |
| `startTabQuery`, useQueryWorkspace.ts:373-434 | `StartTabQuery`, `HandleAccepted`, `HandleRefused` |
| `handleQueryEvent`, App.tsx:118-120 | `ReceiveEvent` |
| the effect on `queryEvents`, 200-218: events marked seen, the update a transition | `ReadEvents` |
| `commitTabs`, 146-154, as React runs it: without the waiting updates, ahead of them, with them | `RenderUrgent`, `ComputeAhead`, `RenderTransition` |
| `closeTab`, 278-318: `tabsRef` without the tab replaces the tabs | `CloseTab` |

`late` and `lost` are history variables: the replies handled out of turn, and the
events that never reach the tabs, because they were not emitted, were dropped
from the buffer unread, or were seen but overwritten by `closeTab` before their
update was in `tabsRef`.  `inTabs` and `inRef` are history variables too: the
events that were seen when `tabs` and `tabsRef` were brought up to date.  A new
tab and the one that follows the last close, the status a tab shows, and the
exports that also forbid a close are left out.

### ResultCache

One handle of `result_store.rs` and the calls that use it.  A view is a sort and
a filter (`descriptor_signature`), `counted` its filter alone
(`count_signature`); a row is its position in a view, so a page is an interval:
`[of, first, count, more]`.  The page algorithms (`MissingRanges`, `Batch`,
`BuildPages`, `Evict`, `RowsAt`, `VisibleRows`, `HasMoreRows`) are operators that
follow the code with a page size, margin and limit of pages as constants.
`queue` is the fair mutex `query_lock`: its head holds it.

| Code | Actions |
|---|---|
| `get_query_result_window`, service.rs:329-359 | `RequestWindow`, `ReturnWindow` |
| `load_replayable_query_result_window`, driver.rs:200-248 | `LockQuery`, `ReplacePages`, `FetchMissing`, `LoadWindow`, `FailWindow` |
| `get_query_result_count`, service.rs:363-402 | `RequestCount`, `SetTotal`, `FailCount` |

The table does not change while the cache lives: the code asks PostgreSQL anew
for every batch and promises no snapshot, so nothing could be said otherwise.
A row is identified with its position because every batch, the first included,
is read with an order that is total up to equal rows (`build_replayable_order_clause`,
driver.rs:490-512).

### Connections

A profile is a row (`row`: `bare`, or `secret` when it names a password) and an
entry of the OS keychain (`keychain`).  A handler in flight is a record of `call`
whose `at` is the await it stands at; `Acts` are activations, which nothing holds
back, `Edit` the one save, test, delete or disconnect that the workspace's
`isBusy` lets through.  `torn` is a history variable: the profiles whose save or
delete ended between the two stores.

| Code | Actions |
|---|---|
| `connectConnection`, useConnectionWorkspace.ts:260-288 | `Activate`, `ConnectReply`, `EndActivation` |
| save, test, delete and disconnect of the workspace | `StartSave`, `StartTest`, `StartDelete`, `StartDisconnect`, `EditReply` |
| `get_saved_connection`, service.rs:73-103 | `SelectProfile` |
| `load_saved_record`, `load_saved_secret`, 447-476 | `ReadRow` |
| `connect_saved_connection`, 242-295 | `ReadRow`, `DriveConnect`, `TakeSession`, `PersistConnect`, `PublishSession` |
| `disconnect_active_connection`, 297-304 | `TakeSession` |
| `delete_saved_connection`, 306-352 | `ReadRow`, `CheckActive`, `TakeSession`, `DeletePassword`, `DeleteRow` |
| `save_connection`, 105-187 | `ReadRow`, `SavePassword`, `SaveRow`, `SaveSelection` |
| `test_connection`, 189-239 | `ReadRow`, `DriveTest` |
| the end of the process and `bootstrap` | `Restart` |

A restart drops handlers, the session and the workspace, at any point, and keeps
rows, keychain and selection.  The parameters of a connection are abstracted to
whether the server accepts or refuses them, which may change from call to call,
and whether it is one that may take the connection and never answer (`Silent`).
A call that stands at `driver` with a profile in `Silent` may stay there
(`AwaitsSilent`): the ten seconds of `connect_timeout` (driver.rs:68) are those of
the socket, and the client of the pool, the startup handshake and the two
queries (146-160) have no limit.

### SchemaRefresh

One connection and one schema.  Paths are sequences of segments, a scope is the
path of the node whose children it holds, and `nodes` is the table
`schema_cache` (its key and its `parent_path`).  `catalog` is what PostgreSQL
would answer; `Ddl` changes it at any time, between the two queries of one
refresh too.  A refresh task is the record `job[s]`: `introspect`, `columns` and
`indexes` (the queries of a relation), `write`, `persist` (the failure),
`release` (event and key).  An introspection of a scope in `Unanswered` may wait
for ever (`AwaitsPostgres`): neither `pool.get` (introspection.rs:41), on the four
clients that hanging runs may hold, nor the queries have a time limit.

| Code | Actions |
|---|---|
| `list_children`, service.rs:58-116 | `ListChildren`, `ReadScopeNodes`, `ReadInFlight`, `EnsureRefresh`, `Answer`, `RefuseList` |
| `refresh_scope`, `ensure_refresh`, 118-271 | `RefreshScope`, `EnsureRefresh`, `Answer`, `EmitQueued`, `ReleaseKey` |
| `run_refresh_job`, 273-426 | `WriteScope`, `WriteScopeFails`, `PersistFailure` |
| `introspect_scope`, introspection.rs:26-209 | `IntrospectRoot`, `IntrospectSchema`, `IntrospectRelation`, `IntrospectColumns`, `IntrospectIndexes`, `IntrospectFails` |
| `replace_schema_scope`, repository.rs:628-776 | `ReplaceScope` |
| `record_schema_scope_failure`, repository.rs:789-826 | `RecordFailure` |

`ReplaceScope` is one transaction: the rows of the scope and, by the recursive
query, all below them go and the new ones come, unless one has a path that a row
elsewhere still has, which breaks the primary key and rolls back.  The SQLite
write and the panic that the outer task sees have the same effect on the cache,
so both are `IntrospectFails` or `WriteScopeFails`.  `written` is a history
variable: what the last write of a scope stored.

### Library

Three users of the SQLite file with one thing in common: each statement commits
by itself.  `Scripts` is the list of migrations, each script a row of statements
with what happens when a statement runs again; `ran` says how far each has got
and `recorded` what `migration_state` says of it.  A history entry is an id and
a second (`datetime()` drops what is below), `since` a history variable: the ids
that no prune has followed.  A saved query is its creation time.

| Code | Actions |
|---|---|
| `Repository::new`, `apply_migrations`, repository.rs:119-125, 1186-1245 | `StartUp`, `SkipApplied`, `RunStatement`, `RecordMigration`, `EndMigrations` |
| `seed_phase_one`, 127-148 | `SeedPhaseOne` |
| `record_history_entry`, `prune_query_history`, 150-177, 1087-1108 | `RecordHistoryEntry`, `PruneQueryHistory`, `PruneFails` |
| `list_query_history`, productivity/service.rs:28-66 | the operators `Rows`, `Page`, `HasMore` |
| `save_saved_query`, productivity/service.rs:108-159, repository.rs:330-411 | `StartSave`, `CheckConnection`, `CheckSavedQuery`, `ReadCreatedAt`, `UpsertSavedQuery` |
| `delete_saved_query`, 161-190 | `StartDelete`, `CheckSavedQuery`, `DeleteSavedQuery` |
| the end of the process | `Crash` |

The model shows a start that cannot succeed any more (`stage = "broken"`): a
script that adds several columns, cut off after the first, fails on it when it
runs again.  `RecordedIsApplied` holds all the same, because the version is
recorded last.

## Runs

| Run | Shows |
|---|---|
| `query_safety` | the invariants below and the refinement of `TabRuns`, with three calls over two tabs, one pooled client, one session that comes and goes, a statement that never ends and a history that cannot be written |
| `query_liveness` | `CancelledRunEnds`, `EveryRunEnds` with two clients |
| `stray_cancel` (violation) | a late cancel request is reported as the cancellation of another run |
| `export_safety` | counts, tokens, files and terminal events of two exports of the same result sets to the same destination beside a run that clears the tab |
| `export_liveness` | a loaded export ends beside a run that hangs |
| `workspace_safety` | `ShownRunIsCancellable`, `FreeTabCanRun`, `KeptResultIsShown`: what a tab shows agrees with the service, unless a reply was out of turn or an event never reached the tabs, for two calls over two tabs, a buffer of three events and closes between the renders |
| `stuck_tab` (violation) | a late reply leaves a tab that refuses every later run |
| `result_cache` | `WindowIsExact`, `PagesAreExact`, `FillIsComplete`, `VisibleSupportsScroll`, `TotalIsOfFilter`, `HasMoreIsExact`, `CacheBounded` for two windows and a count over two sorts and two filters |
| `connections` | `SecretsFollowRows`, `RefusedConnectKeepsSession`, `ActivationEnds` with two overlapping activations beside a save, test, delete or disconnect, failures, restarts and a server that never answers |
| `deleted_profile` (violation) | a connect under way when its profile is deleted opens a session of it |
| `schema` | `KeyMeansRefresh`, `ScopeIsOneIntrospection`, `FoundIsListed`, `RefreshEnds` with two calls or refreshes at a time, of the root, which may never be answered, a schema and a relation that turns from a table into a view |
| `library` | `RecordedIsApplied`, `HistoryIsBounded`, `CreationIsKept` with starts cut off anywhere, two writers of history and three calls over one saved query |

Bounds.  The properties of the service relate two runs (of one tab, or of one
client) and an onlooker: three calls over two tabs have every pattern of
sharing, and a tab can be used three times in succession.  One client makes
every pair of runs contend; with two the liveness runs have a client that a
hanging statement does not take.  Two batches distinguish the first, a middle
and the last window of an export.  A buffer of three events is smaller than the
events of two runs, so that losing them is reached; the instance that is to
show a defect not due to loss has the code's 12.
In `workspace_safety` two calls are those of one tab, one after the other or the
second refused during the first, or of two tabs one of which is closed while the
other has updates that wait.  Calls and tabs are interchangeable (`SYMMETRY`).
`late` and `lost` never shrink, and once one of them is not empty all that is left
to check is the types; such states are checked and not explored from
(`CONSTRAINT MCInOrder`).  Runs end completed or failed: to the tabs a cancelled
run is one that failed.
Pages of two rows and results of 3 and 11 rows give a short last page, windows
that start inside a page, span several or lie past the end, gaps on both sides
of a cached run, and more pages than the four the cache keeps.
In `connections` two profiles are enough for a session of another profile than
the one saved or deleted (`Edited` is the one that is); two activations supersede
each other, and a third would only repeat it.  The server of one profile is
`Silent`, that of the other answers.
In `schema` the relation has one column and no index, which keeps the run short
of five minutes: scopes and paths, not the number of rows, are what refreshes
share, and the proofs are for any columns and indexes.  The root is
`Unanswered`.  `MaxRunning = 1` admits a call while one other
call or refresh is under way, so that two calls race for a key and two refreshes
overlap, of any two of the root, the schema, and the relation as a table and as
a view; the schema's scope is listed, the others are refreshed
on request, as a listing ends in the same `ensure_refresh`.  The relation changes
its kind once, which is what gives two scopes the same column path.
In `library` three of the four ids fill a history that retains two and leave one
for the entry between an insert and its prune; two seconds give entries of equal
and of different age; three calls are a save between the statements of another
and the delete that lets it be a new row.

Fairness.  tokio polls every ready task, so each call past its admission and
each spawned task takes the step that is there to take (`WF` on `StartQuery(j)`,
`QueryTask(j)`, `ExportTask(x)`, `CallSteps(c)`, and, with the exceptions below, on
`JobSteps(s)` and `Handler(c)`), and the answers of calls reach the workspace
(`Replies(a)`, `EditReply`).  SQLite and the keychain answer or fail.  Neither
users nor failures, restarts or DDL are obliged to act.

What waits for PostgreSQL need not go on, as the code puts no limit on these
waits.  Liveness is claimed up to them, each with a name:

- a run: for a statement that hangs (unless it is cancelled), for a client of the
  pool, and behind `Poisoned`, a client stuck behind an abandoned statement whose
  cancel request failed, which the code cannot leave;
- an activation: `AwaitsSilent`, for a server that took the connection.  Its end
  is forced (`WF` of `~AwaitsSilent(c) /\ Handler(c)`) only for servers that are not
  `Silent`; one that is may still answer, or not;
- a refresh: `AwaitsPostgres`, for a client or an answer, in the same way.

The server ends statements that do not hang and acts on the requests it got.

## Proofs

What all of them have in common: one inductive invariant per module, a
conjunction of named parts; a lemma per part that says what a step does to it;
one theorem that the invariant always holds; and the properties of the runs as
its consequences.

### The service

`ServiceInv` of `QueryService_proofs` has, beside the types, four parts, each of
which uses those before it:

1. `ReservationInv`: who has a tab and what `tab_jobs` says of it.  Mutual
   exclusion is not inductive by itself; that a reservation names its holder or
   is the placeholder of the one call that is about to name it, is.
2. `TokenInv`: who is in the registry, by `pc`.
3. `TraceInv`: what a call that has not got to some step cannot have left.
4. `ResultInv`: which result sets a tab's holder has to find or may not find in
   the store, with what `keep` spared.

It is kept by every step of the service *whatever exports do to
`activeExports`*, so that it carries over to the composition.

The invariants the runs check follow as `Typed`, `TabsExclude`,
`ReservationsMatch`, `CancelAlwaysReaches`, `AnnouncedResultsAreStored`,
`TabsKeepOneResult` and `RefusalsLeaveNothing`.  `QueryService_refinement`
proves `Refinement`: under the mapping of `QueryService!Abstract` every step is
a step of `TabRuns` or a stutter, with the invariants above as what the guards
of the abstract steps need.  The assumptions are those on the constants named in
`QueryService`: distinct placeholders, and sessions that belong to connections.

### Exports

`ResultExport_proofs` proves `ExportInv` for any number of runs, exports, paths
and batches: `ServiceInv` next to `ExportTypeInv`, `TrackedMatchesExports`,
`CancelReachesExport` and `FileInv`.  The count of a result set is the
cardinality of the set of exports between `TrackExport` and `ReleaseExport`,
which is what needs `ExportAssumption` (finitely many exports): each step adds
one element to that set, takes one out or leaves it.
What became of the file has to be known from `OpenFile` on and, when a
cancellation or failure removes it again, until the terminal event, with the
exports to the same path left out (`Alone`).  `ServiceBesideExports` says that the
service keeps its promises in the composition, `SparedResultsOnly` what a tab
may keep there, and `TerminalEventsAreLast` is the action property.

### The editor's tabs

`QueryWorkspace_proofs` proves `WorkspaceInv` for any number of calls and tabs
and every size of the buffer.  What the three properties say at rest or of one
run is far from inductive, because events that were emitted long ago are still
to be applied, and what was applied is still to be rendered.  The invariant
relates three things:

- `RunsInv`: a run that is not over for the window (`Busy`) is the only owner of
  its tab, and what the tab keeps is the owner's once that is announced.
- `EmissionInv`: the wire (the kept events, then those on their way) and `seen`
  together hold exactly the events that are due by the phases of the runs, each
  once.  An event that is not there is in `lost`.
- `OrderInv`: `Past(k)` is what the window will know when it has read the wire
  up to its k-th event.  Each of these pasts is `Ordered`: it has at most one
  run per tab announced and not over, no event of a run without the earlier
  ones, and, once it has the terminal event of the run whose result set the tab
  keeps, the terminal event of every other run announced in the tab.  Emitting
  adds one past, which is ordered because it agrees with the service as it is
  now (`WholeIsOrdered`); receiving and reading only take pasts away.  `inTabs`,
  which was such a past once, stays ordered.

`ViewInv` then says that each copy of the tabs agrees with the events it was
brought up to date with, `View(next, seen)`, `View(tabs, inTabs)` and
`View(tabsRef, inRef)`, unless a reply was out of turn or an event never reached
the tabs.  Applying one event leads from one past to the next (`ViewOfNext`), so
reading, which folds over the buffer, does (`ViewRead`); a render copies a view
with what it is a view of; and a close makes `tabsRef` the tabs to come, which
agrees with all that was seen of the tabs that remain, or else an event is lost.
A reply handled in turn agrees with what is known because no other run of the
tab is shown and its own is not over.  The assumptions are `BufferAssumption`,
App keeps at least one event and `NoJob` is no run, and `OutcomesAssumption`,
runs end in one of the three ways.  `ComposedServiceRuns` says that the window
does not disturb what `TabRuns` promises.

### The page cache

`ResultCache_proofs` proves `WindowsAreExact`, `PagesStayExact` and
`FillsComplete` for every table, page size, margin and number of calls.  A
window is exact because, when `load_window` cuts it, every page it touches that
has rows is cached; that needs, while the call fills the cache, that such a page
is cached or still to be read (`FillIsComplete`), that no other call replaces
the cache meanwhile (`HolderWorks`), and that the pages there are exact
(`PagesAreExact`): together with the shape of the state this is `CacheInv`.  The
data lemmas say that `missing_page_ranges` covers the range (`GapsCover`, from
the well-foundedness of the natural numbers), that a batch is cut into exact
pages (`BuildIsExact`), that eviction keeps the anchor (`EvictKeepsAnchor`), and
that the slices of exact pages are the rows of the request (`RowsAreExact`).
`TotalsAgree` needs no strengthening.

The size of the cache is bounded because each of the evictions ends at the limit
or with the anchor alone (`EvictBounds`), which the pages' distances from it
decide; it needs that what is cached is finite and that a call under way has one
of the requests (`Bounded`).  `CacheTyped` adds `QueueInv` (the lock's queue names
each call once) and `CountInv`.  `ScrollIsSupported` and `MoreRowsAreTold` are
about the sums and maxima over cached pages of `visible_row_count` and
`cache_has_more_rows`: the highest cached page decides the first; fewer rows are
buffered than the view has exactly when a page is missing (`BufferedAll`), which
is when the code finds a gap or a highest page with more after it (`GapOrMore`).
The assumptions are those on the page constants and bounds in `ResultCache`.

### Connections, schema and library

`Connections_proofs` proves, for any profiles and activations, `Typed`,
`RefusalKeepsSession` and `SecretsFollow`.  A handler that works on a profile has
one, only the gated call saves and deletes, and a connect that comes to take the
old session out is one whose server took the connection (`CallOK`, `Opening`);
hence no refused connect closes a session, and `PublishSession` opens one and
never clears it.  That row and keychain
agree is not inductive: a save has the password in the keychain before the row
names it, a delete has it out before the row is gone, and both decide by what
they read of the row several awaits ago.  `SecretInv` adds those two
intermediate states and that what was read still holds of the row, which is so
because the workspace lets one save or delete run at a time.  The assumption is
`ConnAssumption`: the gated call is not an activation, and no id is `NoProfile`.

`SchemaRefresh_proofs` proves `Typed`, `KeysMeanRefreshes`, `ScopesAreWhole` and
`FoundAreListed` for any relations, columns, indexes, DDL, callers and scopes.
`KeyInv` ties a key to the one call between `insert` and `spawn`, or to the one
task, that will remove it.  `CacheInv` ties the rows of the cache to what the
last refresh of each scope wrote: besides `ScopeIsOneIntrospection` it needs that
a node's scope has a row and that no two nodes have one path, which is what the
primary key guards when a relation changes its kind.  Both rest on what a task
carries being nodes of its own scope (`TypeInv`).  The assumption is
`ScopeAssumption`: what callers ask for are scopes.

`Library_proofs` proves `RecordedAreApplied` and `CreationsAreKept`.  The first
needs how far a start has got (`Reached`): it comes to a version when those
before it are recorded, and to a statement when those before it have run, in
this start or in an earlier one that was cut off; nothing is assumed.  The
module also proves `HistoryStaysBounded` and, which no instance can show,
`ListingsComplete`: paging with pages of any size lists the whole history.
`HistoryInv` says that ids identify entries, so that "newest first" is a strict
order and every entry has a position that no other has (`PositionsAreDense`), and
that what lies above the limit was inserted since the last prune (`Counted`).
Ids are numbers there and the limit is one (`HistoryAssumption`).

### Folds and recursions

`FoldLeft` over the events, the sums and maxima over pages and the pages of a
listing are functions chosen to satisfy a recursion.  The induction theorems of
the library take the induction predicate as an operator, which the provers here
cannot instantiate.  The proofs go round them: they exhibit a function that
satisfies the recursion, so that the chosen one does, and argue by a least
counterexample in a set of numbers (`LeastNat`, from the well-foundedness of the
natural numbers).

### What stays model-checked

Liveness (`CancelledRunEnds`, `EveryRunEnds`, `EveryExportEnds`, `ActivationEnds`,
`RefreshEnds`), because fairness and `ENABLED` are out of the prover's reach; and
the three runs that end in a counterexample, which are no theorems.  Every other
property of the runs is a theorem.

## What the checks found

`stray_cancel`, `stuck_tab` and `deleted_profile` are runs with a counterexample,
each against a sentence of the repository that the code does not keep;
`PROJECT.json` quotes them.  Seen on the way, and not the subject of a run of
their own:

- A cancellation accepted late is followed by a completed run, and the stray
  cancel of `stray_cancel`, when it meets the first batch of a replayable result,
  is reported as a failure instead (driver.rs:132-149, 369-375).
- The queued event of an export is out before the export can be cancelled.
- A connect closes the old session only when its server took the connection, so
  that a refused connect keeps it (`RefusedConnectKeepsSession`).
  `docs/MVP/PHASE2_PLAN.md:39` has it the other way round: "Connecting to a
  different profile must disconnect the current one first, then replace the
  active session snapshot in app state."  The property is about the code, which
  does not do what that sentence says.
- When the selection cannot be persisted after the old session was closed
  (service.rs:270-284), the workspace goes on showing a session that is gone; and of
  two activations under way, the second publishes over the session of the first.
- A server that takes a connection and then hangs leaves the workspace
  connecting; an introspection that waits for a client leaves its key, so that
  every later refresh of the scope is answered with the one under way.
- A tab can be closed before its call is answered, over a run that goes on, where
  `docs/MVP/PHASE4_PLAN.md:21` says "Closing a tab should never discard a running
  query silently".
- `closeTab` writes back tabs without the updates that wait in a transition
  (useQueryWorkspace.ts:294-313).  Their events are marked seen and do not come
  again: another tab can stay with the job of a run that is over, or without its
  result set.  Two closes in a row bring the first tab back.
- An interrupted migration that adds columns fails on every later start.

## Not modelled, and the plan

The order so far: the runs of the query service first, as they are what the
program is for; their composition with exports and with the editor's tabs; the
page cache; then the services around them (`Connections`, `SchemaRefresh`,
`Library`).  What is left:

1. `ResultCache`: filtering and sorting of buffered results, which are loaded
   whole and share nothing.
2. `QueryWorkspace`: result windows and counts, exports in the tab, new tabs.
3. The schema tree of `useSchemaBrowser.ts` (what it reloads on which event) and
   the paging and search state of `useProductivityWorkspace.ts`.

Left out for good: CSV text, cell decoding and SQL text generation (layout of
data), statement slicing and completion (text algorithms of the editor, without
state), the mock job of the bootstrap phase (the registry it uses is the one of
`QueryService`), contracts and guards (shape checks), the shell, and the scripts.
The ranking of the schema search and the search filters of the listings are
left out: they choose among rows and change none.
