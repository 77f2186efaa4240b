--------------------------- MODULE SchemaRefresh ---------------------------
(***************************************************************************)
(* The schema browser's cache and its background refreshes:                *)
(* schema/service.rs over schema/introspection.rs (what PostgreSQL says)   *)
(* and the cache tables of persistence/repository.rs, for one connection   *)
(* and one schema of it.  A list call reads the cache and, when it has     *)
(* nothing or something old, starts a refresh; refreshes of different      *)
(* scopes run side by side and replace rows of one table.                  *)
(***************************************************************************)
EXTENDS Naturals, Sequences, FiniteSets, SequencesExt

CONSTANTS Relations,  \* names of relations
          Columns,    \* their columns
          Indexes,    \* and the indexes of those that are tables
          Callers,    \* list and refresh calls in progress
          Changes,    \* what DDL does to a relation: <<kind, new kind>>
          Unanswered, \* scopes whose refresh may wait for PostgreSQL for ever
          Listed,     \* bound: the scopes that are listed
          Refreshed,  \* bound: the scopes that are refreshed on request
          MaxRunning  \* bound: refreshes and calls under way when a call comes

VARIABLES catalog,    \* kind of each relation in PostgreSQL
          nodes,      \* table schema_cache: path (its key) and parent_path
          row,        \* table schema_cache_scopes: status of each scope
          inFlight,   \* SchemaService::in_flight
          job,        \* the refresh task of each scope
          call,       \* list_children and refresh_scope calls
          written     \* what the last write of each scope stored (history)

stored == <<nodes, row, written>>
vars == <<catalog, stored, inFlight, job, call>>

Kinds == {"table", "view"}

(* Paths are sequences of segments; a scope is named by the path of the    *)
(* node whose children it holds, and the kind is the path's first segment. *)
Root == <<>>
SchemaPath == <<"schema">>
RelationPath(kind, r) == <<kind, r>>
ChildPath(kind, s, name) == <<kind, s[2], name>>

\* parse_scope: the path has the shape that the kind asks for.
ParseScope(kind, path) ==
    CASE kind = "root"   -> path = Root
      [] kind = "schema" -> path = SchemaPath
      [] kind \in Kinds  -> Len(path) = 2 /\ path[1] = kind
      [] OTHER           -> FALSE

RelationScopes == {RelationPath(kind, r) : kind \in Kinds, r \in Relations}
Scopes == {Root, SchemaPath} \cup RelationScopes

ASSUME ScopeAssumption == Listed \cup Refreshed \cup Unanswered \subseteq Scopes

(* The nodes that PostgreSQL's rows become, under the scope they are for.  *)
Node(path, parent) == [path |-> path, parent |-> parent]
SchemaNode == Node(SchemaPath, Root)
RelationNode(r) == Node(RelationPath(catalog[r], r), SchemaPath)
(* Mutant: the parent's path takes the prefix of the column's own.         *)
ColumnUnderPrefix(s, c) == Node(ChildPath("column", s, c), <<"column", s[2]>>)

ColumnNode(s, c) == Node(ChildPath("column", s, c), s)
IndexNode(s, i) == Node(ChildPath("index", s, i), s)

RelationNodes == {RelationNode(r) : r \in {q \in Relations : catalog[q] \in Kinds}}
ColumnNodes(s) == {ColumnNode(s, c) : c \in IF catalog[s[2]] = "absent" THEN {} ELSE Columns}
IndexNodes(s) == {IndexNode(s, i) : i \in IF catalog[s[2]] = "table" THEN Indexes ELSE {}}

\* relation_kind_matches_scope; a relation that is gone matches neither kind.
KindMatches(s) == catalog[s[2]] = s[1]

NoJob == [at |-> "none", found |-> {}]
\* bare: the call knows of no cached node and of no refresh.
NoCall == [at |-> "idle", s |-> Root, status |-> "none", bare |-> FALSE]

SchemaInit ==
    /\ catalog = [r \in Relations |-> "table"]
    /\ nodes = {}
    /\ row = [s \in Scopes |-> "none"]
    /\ inFlight = {}
    /\ job = [s \in Scopes |-> NoJob]
    /\ call = [c \in Callers |-> NoCall]
    /\ written = [s \in Scopes |-> {}]

---------------------------------------------------------------------------
(* The world: DDL run by anyone, and two minutes passing. *)

Ddl(r, kind) ==
    /\ <<catalog[r], kind>> \in Changes
    /\ catalog' = [catalog EXCEPT ![r] = kind]
    /\ UNCHANGED <<stored, inFlight, job, call>>

Age(s) ==
    /\ row[s] = "fresh"
    /\ row' = [row EXCEPT ![s] = "old"]
    /\ UNCHANGED <<catalog, nodes, written, inFlight, job, call>>

---------------------------------------------------------------------------
(* list_children and refresh_scope *)

\* A path that the kind does not fit is refused before anything happens.
Accepted(c, kind, path) ==
    /\ call[c] = NoCall
    /\ ParseScope(kind, path)
    /\ Cardinality(inFlight) + Cardinality({d \in Callers : call[d] # NoCall}) <= MaxRunning

\* load_schema_scope reads the scope's row and then, in a statement of its
\* own, its nodes.
ScopeRow(s) == row[s]

ListChildren(c, kind, path) ==
    /\ Accepted(c, kind, path)
    /\ call' = [call EXCEPT ![c] = [NoCall EXCEPT !.s = path, !.at = "nodes",
                                       !.status = ScopeRow(path)]]
    /\ UNCHANGED <<catalog, stored, inFlight, job>>

RefreshScope(c, kind, path) ==
    /\ Accepted(c, kind, path)
    /\ call' = [call EXCEPT ![c] = [NoCall EXCEPT !.s = path, !.at = "ensure"]]
    /\ UNCHANGED <<catalog, stored, inFlight, job>>

ChildrenOf(s) == {n \in nodes : n.parent = s}

CacheStatus(status, some) ==
    CASE status = "failed" -> IF some THEN "stale" ELSE "empty"
      [] status = "none"   -> "empty"
      [] status = "old"    -> "stale"
      [] status = "fresh"  -> "fresh"

ReadScopeNodes(c) ==
    /\ call[c].at = "nodes"
    /\ LET some   == ChildrenOf(call[c].s) # {}
           status == CacheStatus(call[c].status, some)
       IN call' = [call EXCEPT ![c] = [at |-> "flight", s |-> @.s, status |-> status,
                                       bare |-> ~some /\ status = "empty"]]
    /\ UNCHANGED <<catalog, stored, inFlight, job>>

\* refresh_in_flight; a scope that is fresh is answered as it is.
ReadInFlight(c) ==
    /\ call[c].at = "flight"
    /\ call' = [call EXCEPT ![c] =
          IF @.status = "fresh" THEN NoCall
          ELSE [NoCall EXCEPT !.s = call[c].s, !.at = "ensure",
                              !.bare = call[c].bare /\ call[c].s \notin inFlight]]
    /\ UNCHANGED <<catalog, stored, inFlight, job>>

\* ensure_refresh: the key is looked up and inserted under the lock.
EnsureRefresh(c) ==
    /\ call[c].at = "ensure" /\ call[c].s \notin inFlight
    /\ call' = [call EXCEPT ![c].at = "emit", ![c].bare = FALSE]
    /\ inFlight' = inFlight \cup {call[c].s}
    /\ UNCHANGED <<catalog, stored, job>>

\* A refresh is running: the call answers that, or what it read.
Answer(c) ==
    /\ call[c].at = "ensure" /\ call[c].s \in inFlight /\ ~call[c].bare
    /\ call' = [call EXCEPT ![c] = NoCall]
    /\ UNCHANGED <<catalog, stored, inFlight, job>>

\* A list call that read nothing, and no refresh, before that one started,
\* fails.
RefuseList(c) ==
    /\ call[c].at = "ensure" /\ call[c].s \in inFlight /\ call[c].bare
    /\ call' = [call EXCEPT ![c] = NoCall]
    /\ UNCHANGED <<catalog, stored, inFlight, job>>

(* Mutant: a call that could not queue its refresh leaves the key.         *)
EmitQueuedKeepsKey(c) ==
    /\ call[c].at = "emit"
    /\ \/ job' = [job EXCEPT ![call[c].s] = [NoJob EXCEPT !.at = "introspect"]]
       \/ UNCHANGED job
    /\ call' = [call EXCEPT ![c] = NoCall]
    /\ UNCHANGED <<catalog, stored, inFlight>>

\* The queued event goes out, the task is spawned and the call answers;
\* without the event the key is taken back and the call fails.
EmitQueued(c) ==
    /\ call[c].at = "emit"
    /\ \/ /\ job' = [job EXCEPT ![call[c].s] = [NoJob EXCEPT !.at = "introspect"]]
          /\ UNCHANGED inFlight
       \/ /\ inFlight' = inFlight \ {call[c].s}
          /\ UNCHANGED job
    /\ call' = [call EXCEPT ![c] = NoCall]
    /\ UNCHANGED <<catalog, stored>>

(* search_cache: every cached node whose name or path matches; the limit    *)
(* and the order of the answer are left out.                               *)
Matches(n, name) == name \in Range(n.path)
SearchCache(name) == {n \in nodes : Matches(n, name)}

---------------------------------------------------------------------------
(* The refresh task *)

Step(s, at, found) == job' = [job EXCEPT ![s] = [at |-> at, found |-> found]]

\* introspect_scope: one query for the root and one for a schema; for a
\* relation its kind first, then its columns and its indexes.
IntrospectRoot ==
    /\ job[Root].at = "introspect"
    /\ Step(Root, "write", {SchemaNode})
    /\ UNCHANGED <<catalog, stored, inFlight, call>>

IntrospectSchema ==
    /\ job[SchemaPath].at = "introspect"
    /\ Step(SchemaPath, "write", RelationNodes)
    /\ UNCHANGED <<catalog, stored, inFlight, call>>

IntrospectRelation(s) ==
    /\ job[s].at = "introspect" /\ s \in RelationScopes
    /\ Step(s, IF KindMatches(s) THEN "columns" ELSE "persist", {})
    /\ UNCHANGED <<catalog, stored, inFlight, call>>

\* Each of whatever the relation is by then.
IntrospectColumns(s) ==
    /\ job[s].at = "columns"
    /\ Step(s, "indexes", ColumnNodes(s))
    /\ UNCHANGED <<catalog, stored, inFlight, call>>

IntrospectIndexes(s) ==
    /\ job[s].at = "indexes"
    /\ Step(s, "write", job[s].found \cup IndexNodes(s))
    /\ UNCHANGED <<catalog, stored, inFlight, call>>

Introspecting == {"introspect", "columns", "indexes"}

\* No pool, no client, a query that fails, a panic that the outer task sees.
IntrospectFails(s) ==
    /\ job[s].at \in Introspecting
    /\ Step(s, "persist", {})
    /\ UNCHANGED <<catalog, stored, inFlight, call>>

\* The recursive query of replace_schema_scope: paths of the cached nodes
\* below a scope; a chain from the root has three.
Below(paths) == paths \cup {n.path : n \in {m \in nodes : m.parent \in paths}}
Descendants(s) == Below(Below({n.path : n \in ChildrenOf(s)}))

(* Mutant: only the scope's own nodes are deleted.                         *)
KeptBelow(s) == {n \in nodes : n.parent # s}

Kept(s) == {n \in nodes : n.parent # s /\ n.parent \notin Descendants(s)}
KeptRow(s) == [t \in Scopes |-> IF t \in Descendants(s) THEN "none" ELSE row[t]]

(* Mutant: the insert does not mind an id that is there.                   *)
ReplaceScopeBlindly(s, found) ==
    /\ nodes' = Kept(s) \cup found
    /\ row' = [KeptRow(s) EXCEPT ![s] = "fresh"]
    /\ written' = [t \in Scopes |-> IF t = s THEN found
                                    ELSE IF t \in Descendants(s) THEN {} ELSE written[t]]

\* One transaction: the scope and what is cached below it go, its new nodes
\* come.  A node id that another scope still holds breaks the primary key.
ReplaceScope(s, found) ==
    /\ {n.path : n \in found} \cap {n.path : n \in Kept(s)} = {}
    /\ nodes' = Kept(s) \cup found
    /\ row' = [KeptRow(s) EXCEPT ![s] = "fresh"]
    /\ written' = [t \in Scopes |-> IF t = s THEN found
                                    ELSE IF t \in Descendants(s) THEN {} ELSE written[t]]

WriteScope(s) ==
    /\ job[s].at = "write"
    /\ ReplaceScope(s, job[s].found)
    /\ Step(s, "release", {})
    /\ UNCHANGED <<catalog, inFlight, call>>

\* The write fails, or the read that follows its commit does.
WriteScopeFails(s) ==
    /\ job[s].at = "write"
    /\ ReplaceScope(s, job[s].found) \/ UNCHANGED stored
    /\ Step(s, "persist", {})
    /\ UNCHANGED <<catalog, inFlight, call>>

\* record_schema_scope_failure
RecordFailure(s) == row' = [row EXCEPT ![s] = "failed"]

\* persist_refresh_failure; a write that fails is only reported.
PersistFailure(s) ==
    /\ job[s].at = "persist"
    /\ RecordFailure(s) \/ UNCHANGED row
    /\ Step(s, "release", {})
    /\ UNCHANGED <<catalog, nodes, written, inFlight, call>>

(* Mutant: only a refresh that wrote its scope gives the key back.         *)
ReleaseKeyIfFresh(s) ==
    /\ job[s].at = "release" /\ row[s] = "fresh"
    /\ inFlight' = inFlight \ {s}
    /\ Step(s, "none", {})
    /\ UNCHANGED <<catalog, stored, call>>

\* The completed or failed event, and after it the key goes.
ReleaseKey(s) ==
    /\ job[s].at = "release"
    /\ inFlight' = inFlight \ {s}
    /\ Step(s, "none", {})
    /\ UNCHANGED <<catalog, stored, call>>

---------------------------------------------------------------------------
CallSteps(c) ==
    \/ ReadScopeNodes(c) \/ ReadInFlight(c)
    \/ EnsureRefresh(c) \/ EmitQueued(c) \/ Answer(c) \/ RefuseList(c)

JobSteps(s) ==
    \/ s = Root /\ IntrospectRoot
    \/ s = SchemaPath /\ IntrospectSchema
    \/ IntrospectRelation(s) \/ IntrospectColumns(s) \/ IntrospectIndexes(s)
    \/ IntrospectFails(s)
    \/ WriteScope(s) \/ WriteScopeFails(s)
    \/ PersistFailure(s) \/ ReleaseKey(s)

SchemaNext ==
    \/ \E r \in Relations, kind \in {"absent", "view"} : Ddl(r, kind)
    \/ \E s \in Listed : Age(s)
    \/ \E s \in Scopes : JobSteps(s)
    \/ \E c \in Callers, kind \in Kinds \cup {"root", "schema"} :
         \/ \E s \in Listed : ListChildren(c, kind, s)
         \/ \E s \in Refreshed : RefreshScope(c, kind, s)
    \/ \E c \in Callers : CallSteps(c)

SchemaSpec == SchemaInit /\ [][SchemaNext]_vars

\* An introspection waits, without a time limit, for a client of the pool that
\* it shares with the runs, and then for each of its queries.
AwaitsPostgres(s) == s \in Unanswered /\ job[s].at \in Introspecting

\* Spawned tasks and accepted calls run on, and of those whose scope is not in
\* Unanswered the introspection ends or fails.
FairSchemaSpec ==
    /\ SchemaSpec
    /\ \A s \in Scopes : WF_vars(~AwaitsPostgres(s) /\ JobSteps(s))
    /\ \A c \in Callers : WF_vars(CallSteps(c))

---------------------------------------------------------------------------
Paths == Scopes \cup {ChildPath(kind, s, name) : kind \in {"column", "index"},
                         s \in RelationScopes, name \in Columns \cup Indexes}
Nodes == [path : Paths, parent : Scopes]
CallRecords == [at : {"idle", "nodes", "flight", "ensure", "emit"}, s : Scopes,
                status : {"none", "fresh", "old", "failed", "empty", "stale"}, bare : BOOLEAN]

SchemaTypeOK ==
    /\ catalog \in [Relations -> Kinds \cup {"absent"}]
    /\ nodes \subseteq Nodes /\ written \in [Scopes -> SUBSET Nodes]
    /\ row \in [Scopes -> {"none", "fresh", "old", "failed"}]
    /\ inFlight \subseteq Scopes
    /\ job \in [Scopes -> [at : {"none", "write", "persist", "release"} \cup Introspecting,
                           found : SUBSET Nodes]]
    /\ call \in [Callers -> CallRecords]

\* A key is in in_flight exactly while one refresh of its scope is being
\* started or runs: none is refused for nothing, no two run at once.
KeyMeansRefresh ==
    \A s \in Scopes :
        LET starting == {c \in Callers : call[c].at = "emit" /\ call[c].s = s}
        IN /\ s \in inFlight <=> (job[s].at # "none" \/ starting # {})
           /\ Cardinality(starting) + (IF job[s].at # "none" THEN 1 ELSE 0) <= 1

\* The cached nodes of a scope are those of one introspection of it, the
\* last one written, whole: refreshes of scopes above and below it that end
\* in between, and refreshes of it that fail, mix nothing in and lose nothing.
ScopeIsOneIntrospection == \A s \in Scopes : ChildrenOf(s) = written[s]

\* What a search finds belongs to a scope that has a row, and no two nodes
\* that it finds have one path: a listing shows it under that scope, and as
\* something that ages and is refreshed.
FoundIsListed ==
    \A name \in Relations \cup Columns \cup Indexes : \A n \in SearchCache(name) :
        /\ row[n.parent] # "none"
        /\ \A m \in nodes : m.path = n.path => m = n

\* Every refresh gives its key back, after a panic too, unless it waits for a
\* client or for a query that never comes back: its scope is then refused
\* every later refresh.
RefreshEnds == \A s \in Scopes : s \in inFlight ~> s \notin inFlight \/ AwaitsPostgres(s)
=============================================================================
