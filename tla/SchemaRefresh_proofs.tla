----------------------- MODULE SchemaRefresh_proofs -----------------------
(***************************************************************************)
(* Proofs about SchemaRefresh, for any relations, columns, indexes, DDL,   *)
(* callers and scopes.  A key is tied to the one call or task that will    *)
(* remove it; cached rows are tied to what the tasks carry.                *)
(***************************************************************************)
EXTENDS SchemaRefresh, FiniteSetTheorems, TLAPS

(* A task carries nodes of its scope; a call has the status of a row until *)
(* it has read the nodes.                                                  *)
TypeInv ==
    /\ SchemaTypeOK
    /\ \A s \in Scopes : \A n \in job[s].found : n.parent = s
    /\ \A s \in Scopes : job[s].at \in {"columns", "indexes"} => s \in RelationScopes
    /\ \A c \in Callers : call[c].at = "nodes" =>
          call[c].status \in {"none", "fresh", "old", "failed"}

Starting(c, s) == call[c].at = "emit" /\ call[c].s = s

(* A key is that of one call between insert and spawn, or of one task.     *)
KeyInv ==
    \A s \in Scopes :
        /\ s \in inFlight <=> job[s].at # "none" \/ \E c \in Callers : Starting(c, s)
        /\ \A c, d \in Callers : Starting(c, s) /\ Starting(d, s) => c = d
        /\ job[s].at # "none" => \A c \in Callers : ~Starting(c, s)

(* Cached nodes belong to a scope with a row and have paths of their own.  *)
CacheInv ==
    /\ ScopeIsOneIntrospection
    /\ \A n \in nodes : row[n.parent] # "none"
    /\ \A n, m \in nodes : n.path = m.path => n = m

---------------------------------------------------------------------------
(* Whatever a task introspects is of its scope. *)
LEMMA IntrospectedNodes ==
    ASSUME SchemaTypeOK
    PROVE  /\ \A n \in {SchemaNode} : n \in Nodes /\ n.parent = Root
           /\ \A n \in RelationNodes : n \in Nodes /\ n.parent = SchemaPath
           /\ \A s \in RelationScopes : \A n \in ColumnNodes(s) \cup IndexNodes(s) :
                 n \in Nodes /\ n.parent = s
<1>1. \A path \in Paths, parent \in Scopes :
         Node(path, parent) \in Nodes /\ Node(path, parent).parent = parent
  BY DEF Node, Nodes
<1>2. Root \in Scopes /\ SchemaPath \in Scopes /\ Scopes \subseteq Paths
  BY DEF Scopes, Paths
<1>3. \A n \in {SchemaNode} : n \in Nodes /\ n.parent = Root
  BY <1>1, <1>2 DEF SchemaNode
<1>4. \A n \in RelationNodes : n \in Nodes /\ n.parent = SchemaPath
  <2>1. \A r \in Relations : catalog[r] \in Kinds => RelationPath(catalog[r], r) \in Scopes
    BY DEF Scopes, RelationScopes
  <2> QED
    BY <1>1, <1>2, <2>1 DEF RelationNodes, RelationNode
<1>5. \A s \in RelationScopes : \A n \in ColumnNodes(s) \cup IndexNodes(s) :
         n \in Nodes /\ n.parent = s
  <2>1. \A s \in RelationScopes, name \in Columns \cup Indexes :
           ChildPath("column", s, name) \in Paths /\ ChildPath("index", s, name) \in Paths
    BY DEF Paths
  <2>2. RelationScopes \subseteq Scopes
    BY DEF Scopes
  <2> QED
    BY <1>1, <2>1, <2>2 DEF ColumnNodes, ColumnNode, IndexNodes, IndexNode
<1> QED
  BY <1>3, <1>4, <1>5

(* The tables and calls keep their shape, and nodes their parent. *)
THEOREM TypeCorrect == SchemaSpec => []TypeInv
<1>1. SchemaInit => TypeInv
  <2>1. Root \in Scopes
    BY DEF Scopes
  <2> QED
    BY <2>1 DEF SchemaInit, TypeInv, SchemaTypeOK, NoJob, NoCall, Kinds, CallRecords
<1>2. TypeInv /\ [SchemaNext]_vars => TypeInv'
  <2> SUFFICES ASSUME TypeInv, [SchemaNext]_vars
               PROVE  TypeInv'
    OBVIOUS
  <2> USE DEF TypeInv, SchemaTypeOK, stored, Introspecting
  <2>0. Root \in Scopes
    BY DEF Scopes
  <2>1. ASSUME NEW r \in Relations, NEW kind \in {"absent", "view"}, Ddl(r, kind) PROVE TypeInv'
    BY <2>1 DEF Ddl, Kinds
  <2>2. ASSUME NEW s \in Listed, Age(s) PROVE TypeInv'
    BY <2>2 DEF Age
  <2>3. NoCall \in CallRecords
    BY <2>0 DEF NoCall, CallRecords
  <2>4. ASSUME NEW c \in Callers, NEW kind, NEW s \in Listed \cup Refreshed,
               ListChildren(c, kind, s) \/ RefreshScope(c, kind, s)
        PROVE TypeInv'
    <3>1. s \in Scopes
      BY ScopeAssumption
    <3>2. CASE ListChildren(c, kind, s)
      BY <3>1, <3>2 DEF ListChildren, ScopeRow, NoCall, CallRecords
    <3>3. CASE RefreshScope(c, kind, s)
      BY <3>1, <3>3 DEF RefreshScope, NoCall, CallRecords
    <3> QED
      BY <2>4, <3>2, <3>3
  <2>5. ASSUME NEW c \in Callers, CallSteps(c) PROVE TypeInv'
    <3>1. CASE ReadScopeNodes(c)
      <4>1. \A some \in BOOLEAN : CacheStatus(call[c].status, some) \in {"empty", "stale", "fresh"}
        BY <3>1 DEF ReadScopeNodes, CacheStatus
      <4> DEFINE some == ChildrenOf(call[c].s) # {}
      <4>2. call' = [call EXCEPT ![c] = [at |-> "flight", s |-> call[c].s,
                    status |-> CacheStatus(call[c].status, some),
                    bare |-> ~some /\ CacheStatus(call[c].status, some) = "empty"]]
        BY <3>1 DEF ReadScopeNodes
      <4>3. some \in BOOLEAN
        OBVIOUS
      <4> HIDE DEF some
      <4>4. CacheStatus(call[c].status, some) \in {"empty", "stale", "fresh"}
        BY <4>1, <4>3
      <4>5. ASSUME NEW status \in {"empty", "stale", "fresh"}, NEW bare \in BOOLEAN,
                   call' = [call EXCEPT ![c] = [at |-> "flight", s |-> call[c].s,
                                                   status |-> status, bare |-> bare]]
            PROVE  /\ call' \in [Callers -> CallRecords]
                   /\ \A d \in Callers : call'[d].at = "nodes" => d # c /\ call'[d] = call[d]
        BY <4>5 DEF CallRecords
      <4>6. /\ call' \in [Callers -> CallRecords]
            /\ \A d \in Callers : call'[d].at = "nodes" => d # c /\ call'[d] = call[d]
        BY <4>2, <4>4, <4>5
      <4> QED
        BY <3>1, <4>6 DEF ReadScopeNodes
    <3>2. CASE ReadInFlight(c)
      BY <2>0, <2>3, <3>2 DEF ReadInFlight, NoCall, CallRecords
    <3>3. CASE EnsureRefresh(c)
      <4>1. [call[c] EXCEPT !.at = "emit", !.bare = FALSE] \in CallRecords
        BY DEF CallRecords
      <4>2. call' = [call EXCEPT ![c] = [call[c] EXCEPT !.at = "emit", !.bare = FALSE]]
        BY <3>3 DEF EnsureRefresh, CallRecords
      <4>3. call' \in [Callers -> CallRecords]
        BY <4>1, <4>2
      <4>4. call[c].s \in Scopes
        BY DEF CallRecords
      <4> QED
        BY <3>3, <4>3, <4>4 DEF EnsureRefresh
    <3>4. CASE EmitQueued(c)
      <4> DEFINE Queued == [at |-> "introspect", found |-> {}]
      <4>0. /\ Queued \in [at : {"none", "write", "persist", "release"} \cup Introspecting,
                           found : SUBSET Nodes]
            /\ Queued.found = {} /\ Queued.at = "introspect"
        OBVIOUS
      <4> HIDE DEF Queued
      <4>1. /\ job' \in [Scopes -> [at : {"none", "write", "persist", "release"} \cup Introspecting,
                                    found : SUBSET Nodes]]
            /\ \A s \in Scopes : job'[s] = job[s] \/ job'[s] = Queued
        <5>1. job' = job \/ job' = [job EXCEPT ![call[c].s] = Queued]
          BY <3>4 DEF EmitQueued, NoJob, Queued
        <5> QED
          BY <4>0, <5>1
      <4>2. call' \in [Callers -> CallRecords]
            /\ \A d \in Callers : call'[d] = call[d] \/ call'[d].at = "idle"
        BY <2>3, <3>4 DEF EmitQueued, NoCall
      <4> QED
        BY <3>4, <4>0, <4>1, <4>2 DEF EmitQueued, CallRecords
    <3>5. CASE Answer(c)
      BY <2>3, <3>5 DEF Answer, NoCall
    <3>6. CASE RefuseList(c)
      BY <2>3, <3>6 DEF RefuseList, NoCall
    <3> QED
      BY <2>5, <3>1, <3>2, <3>3, <3>4, <3>5, <3>6 DEF CallSteps
  <2>6. ASSUME NEW s \in Scopes, JobSteps(s) PROVE TypeInv'
    <3>1. CASE s = Root /\ IntrospectRoot
      BY <3>1, IntrospectedNodes DEF IntrospectRoot, Step
    <3>2. CASE s = SchemaPath /\ IntrospectSchema
      BY <3>2, IntrospectedNodes DEF IntrospectSchema, Step
    <3>3. CASE IntrospectRelation(s) \/ IntrospectFails(s)
      <4>1. PICK at \in {"columns", "persist"} : Step(s, at, {})
        BY <3>3 DEF IntrospectRelation, IntrospectFails
      <4> QED
        BY <3>3, <4>1 DEF IntrospectRelation, IntrospectFails, Step
    <3>4. CASE IntrospectColumns(s) \/ IntrospectIndexes(s)
      <4>1. s \in RelationScopes
        BY <3>4 DEF IntrospectColumns, IntrospectIndexes
      <4>2. PICK at \in {"indexes", "write"}, found \in SUBSET Nodes :
               /\ Step(s, at, found)
               /\ \A n \in found : n.parent = s
        <5>1. CASE IntrospectColumns(s)
          BY <4>1, <5>1, IntrospectedNodes DEF IntrospectColumns
        <5>2. CASE IntrospectIndexes(s)
          <6>1. job[s].found \in SUBSET Nodes /\ \A n \in job[s].found : n.parent = s
            OBVIOUS
          <6> QED
            BY <4>1, <5>2, <6>1, IntrospectedNodes DEF IntrospectIndexes
        <5> QED
          BY <3>4, <5>1, <5>2
      <4> QED
        BY <3>4, <4>1, <4>2 DEF IntrospectColumns, IntrospectIndexes, Step
    <3>5. ASSUME ReplaceScope(s, job[s].found)
          PROVE  /\ nodes' \subseteq Nodes /\ written' \in [Scopes -> SUBSET Nodes]
                 /\ row' \in [Scopes -> {"none", "fresh", "old", "failed"}]
      BY <3>5 DEF ReplaceScope, Kept, KeptRow
    <3>6. CASE WriteScope(s)
      BY <3>5, <3>6 DEF WriteScope, Step
    <3>7. CASE WriteScopeFails(s)
      BY <3>5, <3>7 DEF WriteScopeFails, Step
    <3>8. CASE PersistFailure(s)
      <4>1. row' \in [Scopes -> {"none", "fresh", "old", "failed"}]
        BY <3>8 DEF PersistFailure, RecordFailure
      <4> QED
        BY <3>8, <4>1 DEF PersistFailure, Step
    <3>9. CASE ReleaseKey(s)
      BY <3>9 DEF ReleaseKey, Step
    <3> QED
      BY <2>6, <3>1, <3>2, <3>3, <3>4, <3>6, <3>7, <3>8, <3>9 DEF JobSteps
  <2>7. CASE UNCHANGED vars
    BY <2>7 DEF vars
  <2> QED
    BY <2>1, <2>2, <2>4, <2>5, <2>6, <2>7 DEF SchemaNext
<1> QED
  BY <1>1, <1>2, PTL DEF SchemaSpec

(* The state keeps its shape: scopes, nodes and calls are what they are. *)
THEOREM Typed == SchemaSpec => []SchemaTypeOK
<1>1. TypeInv => SchemaTypeOK
  BY DEF TypeInv
<1> QED
  BY <1>1, TypeCorrect, PTL

(* A key belongs to one call or one task. *)
THEOREM KeysCorrect == SchemaSpec => []KeyInv
<1>1. SchemaInit => KeyInv
  BY DEF SchemaInit, KeyInv, Starting, NoJob, NoCall
<1>2. KeyInv /\ TypeInv /\ [SchemaNext]_vars => KeyInv'
  <2> SUFFICES ASSUME KeyInv, TypeInv, [SchemaNext]_vars
               PROVE  KeyInv'
    OBVIOUS
  <2>1. ASSUME UNCHANGED <<inFlight, job>>,
               \A c \in Callers :
                  (call[c].at = "emit" \/ call'[c].at = "emit") => call'[c] = call[c]
        PROVE  KeyInv'
    <3>1. \A c \in Callers, s \in Scopes : Starting(c, s)' <=> Starting(c, s)
      BY <2>1 DEF Starting
    <3> QED
      BY <2>1, <3>1 DEF KeyInv
  <2> USE DEF KeyInv, Starting, TypeInv, SchemaTypeOK, CallRecords, Introspecting
  <2>2. ASSUME NEW s \in Scopes, UNCHANGED <<inFlight, call>>, NEW at, at # "none", NEW found,
               job[s].at # "none", Step(s, at, found)
        PROVE  KeyInv'
    BY <2>2 DEF Step
  <2>3. ASSUME NEW r \in Relations, NEW kind \in {"absent", "view"}, Ddl(r, kind) PROVE KeyInv'
    BY <2>1, <2>3 DEF Ddl
  <2>4. ASSUME NEW s \in Listed, Age(s) PROVE KeyInv'
    BY <2>1, <2>4 DEF Age
  <2>5. ASSUME NEW c \in Callers, NEW kind, NEW s \in Listed \cup Refreshed,
               ListChildren(c, kind, s) \/ RefreshScope(c, kind, s)
        PROVE KeyInv'
    <3>1. call[c] = NoCall /\ call'[c].at \in {"nodes", "ensure"}
      <4>1. CASE ListChildren(c, kind, s)
        BY <4>1 DEF ListChildren, Accepted, NoCall
      <4>2. CASE RefreshScope(c, kind, s)
        BY <4>2 DEF RefreshScope, Accepted, NoCall
      <4> QED
        BY <2>5, <4>1, <4>2
    <3>2. \A d \in Callers \ {c} : call'[d] = call[d]
      BY <2>5 DEF ListChildren, RefreshScope
    <3>3. call[c].at # "emit"
      BY <3>1 DEF NoCall
    <3> QED
      BY <2>1, <2>5, <3>1, <3>2, <3>3 DEF ListChildren, RefreshScope
  <2>6. ASSUME NEW c \in Callers, CallSteps(c) PROVE KeyInv'
    <3>1. CASE ReadScopeNodes(c)
      BY <2>1, <3>1 DEF ReadScopeNodes
    <3>2. CASE ReadInFlight(c)
      BY <2>1, <3>2 DEF ReadInFlight, NoCall
    <3>3. CASE EnsureRefresh(c)
      <4>0. PICK k \in Scopes : k = call[c].s
        OBVIOUS
      <4>1. k \notin inFlight /\ inFlight' = inFlight \cup {k} /\ job' = job
        BY <3>3, <4>0 DEF EnsureRefresh
      <4>2. \A d \in Callers :
               IF d = c THEN call'[d].at = "emit" /\ call'[d].s = k /\ call[d].at # "emit"
                        ELSE call'[d] = call[d]
        BY <3>3, <4>0 DEF EnsureRefresh
      <4>3. \A t \in Scopes \ {k} :
               /\ t \in inFlight' <=> job'[t].at # "none" \/ \E d \in Callers : Starting(d, t)'
               /\ \A d, e \in Callers : Starting(d, t)' /\ Starting(e, t)' => d = e
               /\ job'[t].at # "none" => \A d \in Callers : ~Starting(d, t)'
        <5>1. \A t \in Scopes \ {k}, d \in Callers : Starting(d, t)' <=> Starting(d, t)
          BY <4>2
        <5> QED
          BY <4>1, <5>1
      <4>4. /\ k \in inFlight' /\ Starting(c, k)' /\ job'[k].at = "none"
            /\ \A d \in Callers : Starting(d, k)' => d = c
        BY <4>1, <4>2
      <4> QED
        BY <4>3, <4>4
    <3>4. CASE EmitQueued(c)
      BY <3>4 DEF EmitQueued, NoJob, NoCall
    <3>5. CASE Answer(c) \/ RefuseList(c)
      BY <2>1, <3>5 DEF Answer, RefuseList, NoCall
    <3> QED
      BY <2>6, <3>1, <3>2, <3>3, <3>4, <3>5 DEF CallSteps
  <2>7. ASSUME NEW s \in Scopes, JobSteps(s) PROVE KeyInv'
    <3>1. CASE \/ s = Root /\ IntrospectRoot
               \/ s = SchemaPath /\ IntrospectSchema
               \/ IntrospectColumns(s) \/ IntrospectIndexes(s)
      <4>1. PICK at \in {"indexes", "write"} : \E found : Step(s, at, found)
        BY <3>1 DEF IntrospectRoot, IntrospectSchema, IntrospectColumns, IntrospectIndexes
      <4>2. PICK found : Step(s, at, found)
        BY <4>1
      <4> QED
        BY <2>2, <3>1, <4>2 DEF IntrospectRoot, IntrospectSchema, IntrospectColumns,
           IntrospectIndexes
    <3>2. CASE IntrospectRelation(s) \/ IntrospectFails(s)
      <4>1. PICK at \in {"columns", "persist"} : Step(s, at, {})
        BY <3>2 DEF IntrospectRelation, IntrospectFails
      <4> QED
        BY <2>2, <3>2, <4>1 DEF IntrospectRelation, IntrospectFails
    <3>3. CASE WriteScope(s) \/ WriteScopeFails(s) \/ PersistFailure(s)
      BY <2>2, <3>3 DEF WriteScope, WriteScopeFails, PersistFailure
    <3>4. CASE ReleaseKey(s)
      BY <3>4 DEF ReleaseKey, Step
    <3> QED
      BY <2>7, <3>1, <3>2, <3>3, <3>4 DEF JobSteps
  <2>8. CASE UNCHANGED vars
    BY <2>1, <2>8 DEF vars
  <2> QED
    BY <2>3, <2>4, <2>5, <2>6, <2>7, <2>8 DEF SchemaNext
<1> QED
  BY <1>1, <1>2, TypeCorrect, PTL DEF SchemaSpec

(* Every key is that of one refresh that is being started or runs. *)
THEOREM KeysMeanRefreshes == SchemaSpec => []KeyMeansRefresh
<1>1. KeyInv => KeyMeansRefresh
  <2> SUFFICES ASSUME KeyInv, NEW s \in Scopes
               PROVE  LET starting == {c \in Callers : call[c].at = "emit" /\ call[c].s = s}
                      IN /\ s \in inFlight <=> (job[s].at # "none" \/ starting # {})
                         /\ Cardinality(starting) + (IF job[s].at # "none" THEN 1 ELSE 0) <= 1
    BY DEF KeyMeansRefresh
  <2> DEFINE starting == {c \in Callers : call[c].at = "emit" /\ call[c].s = s}
  <2>1. s \in inFlight <=> (job[s].at # "none" \/ starting # {})
    BY DEF KeyInv, Starting
  <2>2. CASE starting = {}
    <3>1. Cardinality(starting) = 0
      BY <2>2, FS_EmptySet
    <3> QED
      BY <2>1, <3>1
  <2>3. CASE starting # {}
    <3>1. PICK c \in starting : TRUE
      BY <2>3
    <3>2. starting = {c} /\ job[s].at = "none"
      BY <3>1 DEF KeyInv, Starting
    <3>3. Cardinality(starting) = 1
      BY <3>2, FS_Singleton
    <3> QED
      BY <2>1, <3>2, <3>3
  <2> QED
    BY <2>2, <2>3
<1> QED
  BY <1>1, KeysCorrect, PTL

(* Refreshes of any scopes, in any order, leave the cache whole. *)
THEOREM CacheCorrect == SchemaSpec => []CacheInv
<1>1. SchemaInit => CacheInv
  BY DEF SchemaInit, CacheInv, ScopeIsOneIntrospection, ChildrenOf
<1>2. CacheInv /\ TypeInv /\ [SchemaNext]_vars => CacheInv'
  <2> SUFFICES ASSUME CacheInv, TypeInv, [SchemaNext]_vars
               PROVE  CacheInv'
    OBVIOUS
  <2> USE DEF CacheInv, ScopeIsOneIntrospection, ChildrenOf
  <2>1. /\ row \in [Scopes -> {"none", "fresh", "old", "failed"}] /\ nodes \subseteq Nodes
        /\ \A n \in nodes : n.parent \in Scopes
    BY DEF TypeInv, SchemaTypeOK, Nodes
  <2>2. ASSUME UNCHANGED stored PROVE CacheInv'
    BY <2>2 DEF stored
  <2>3. ASSUME NEW s \in Listed, Age(s) PROVE CacheInv'
    BY <2>1, <2>3 DEF Age
  <2>4. ASSUME NEW s \in Scopes, UNCHANGED <<nodes, written>>, RecordFailure(s) \/ UNCHANGED row
        PROVE  CacheInv'
    BY <2>1, <2>4 DEF RecordFailure
  <2>5. ASSUME NEW s \in Scopes, ReplaceScope(s, job[s].found) PROVE CacheInv'
    <3> DEFINE found == job[s].found
    <3>1. \A n \in found : n \in Nodes /\ n.parent = s
      BY DEF TypeInv, SchemaTypeOK
    <3>2. \A n \in nodes' : \/ n \in found
                            \/ n \in nodes /\ n.parent # s /\ n.parent \notin Descendants(s)
      BY <2>5 DEF ReplaceScope, Kept
    <3>3. \A t \in Scopes : ChildrenOf(t)' = written'[t]
      BY <2>5, <3>1 DEF ReplaceScope, Kept
    <3>4. \A n \in nodes' : row'[n.parent] # "none"
      BY <2>1, <2>5, <3>1, <3>2 DEF ReplaceScope, KeptRow
    <3>5. \A n, m \in nodes' : n.path = m.path => n = m
      <4>1. \A n, m \in found : n.path = m.path => n = m
        BY <3>1 DEF Nodes
      <4>2. \A n \in found, m \in Kept(s) : n.path # m.path
        BY <2>5 DEF ReplaceScope
      <4>3. nodes' = Kept(s) \cup found /\ Kept(s) \subseteq nodes
        BY <2>5 DEF ReplaceScope, Kept
      <4> QED
        BY <4>1, <4>2, <4>3
    <3> QED
      BY <3>3, <3>4, <3>5
  <2>6. ASSUME NEW s \in Scopes, JobSteps(s) PROVE CacheInv'
    <3>1. CASE \/ s = Root /\ IntrospectRoot
               \/ s = SchemaPath /\ IntrospectSchema
               \/ IntrospectRelation(s) \/ IntrospectColumns(s) \/ IntrospectIndexes(s)
               \/ IntrospectFails(s)
               \/ ReleaseKey(s)
      BY <2>2, <3>1 DEF IntrospectRoot, IntrospectSchema, IntrospectRelation, IntrospectColumns,
         IntrospectIndexes, IntrospectFails, ReleaseKey
    <3>2. CASE WriteScope(s) \/ WriteScopeFails(s)
      BY <2>2, <2>5, <3>2 DEF WriteScope, WriteScopeFails
    <3>3. CASE PersistFailure(s)
      BY <2>4, <3>3 DEF PersistFailure
    <3> QED
      BY <2>6, <3>1, <3>2, <3>3 DEF JobSteps
  <2>7. ASSUME NEW r \in Relations, NEW kind \in {"absent", "view"}, Ddl(r, kind) PROVE CacheInv'
    BY <2>2, <2>7 DEF Ddl
  <2>8. ASSUME NEW c \in Callers, NEW kind, NEW s,
               CallSteps(c) \/ ListChildren(c, kind, s) \/ RefreshScope(c, kind, s)
        PROVE CacheInv'
    BY <2>2, <2>8 DEF CallSteps, ReadScopeNodes, ReadInFlight, EnsureRefresh, EmitQueued, Answer,
       RefuseList, ListChildren, RefreshScope
  <2>9. CASE UNCHANGED vars
    BY <2>2, <2>9 DEF vars
  <2> QED
    BY <2>3, <2>6, <2>7, <2>8, <2>9 DEF SchemaNext
<1> QED
  BY <1>1, <1>2, TypeCorrect, PTL DEF SchemaSpec

(* What a scope shows is one introspection of it. *)
THEOREM ScopesAreWhole == SchemaSpec => []ScopeIsOneIntrospection
<1>1. CacheInv => ScopeIsOneIntrospection
  BY DEF CacheInv
<1> QED
  BY <1>1, CacheCorrect, PTL

(* What a search finds is listed in one scope, which has a row. *)
THEOREM FoundAreListed == SchemaSpec => []FoundIsListed
<1>1. CacheInv => FoundIsListed
  BY DEF CacheInv, FoundIsListed, SearchCache
<1> QED
  BY <1>1, CacheCorrect, PTL
===========================================================================
