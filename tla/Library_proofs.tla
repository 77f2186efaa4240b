------------------------- MODULE Library_proofs ---------------------------
(***************************************************************************)
(* Proofs about Library: the migrations of starts that are cut short, the  *)
(* creation times of saved queries, and the query history, for any number  *)
(* of calls.                                                               *)
(***************************************************************************)
EXTENDS Library, FiniteSetTheorems, WellFoundedInduction, TLAPS

(* Where a start stands, and the length of a script, as names that the     *)
(* provers need not look into.                                             *)
Version == at[1]
Statement == at[2]
Size(k) == Len(Scripts[k])

(* Versions are recorded in order, each with its whole script in the file. *)
Applied ==
    /\ recorded \subseteq Versions /\ ran \in [Versions -> Nat]
    /\ \A k \in recorded : ran[k] = Size(k)
    /\ \A k \in Versions : ran[k] <= Size(k)
    /\ \A k \in recorded, j \in Versions : j < k => j \in recorded

(* A start comes to a version when those before it are recorded, and to a  *)
(* statement when those before it have run.                                *)
Reached ==
    /\ Version \in 1..8 /\ Statement \in Nat
    /\ stage = "migrating" =>
         /\ \A j \in Versions : j < Version => j \in recorded
         /\ Version \in Versions => ran[Version] >= Statement /\ Statement <= Size(Version)
    /\ stage \in {"seeding", "up"} => recorded = Versions

MigrationInv == Applied /\ Reached

---------------------------------------------------------------------------
LEMMA Sizes == Versions = 1..7 /\ \A k \in 1..7 : Size(k) \in Nat \ {0}
<1>1. Versions = 1..7
  BY DEF Versions, Scripts
<1>2. Len(Scripts[1]) = 1 /\ Len(Scripts[4]) = 1 /\ Len(Scripts[6]) = 1
  BY DEF Scripts
<1>3. Len(Scripts[2]) = 3 /\ Len(Scripts[7]) = 3
  BY DEF Scripts
<1>4. Len(Scripts[3]) = 2 /\ Len(Scripts[5]) = 4
  BY DEF Scripts
<1>5. /\ Size(1) = 1 /\ Size(4) = 1 /\ Size(6) = 1
      /\ Size(2) = 3 /\ Size(7) = 3
      /\ Size(3) = 2 /\ Size(5) = 4
  BY <1>2, <1>3, <1>4 DEF Size
<1>6. \A k \in 1..7 : k = 1 \/ k = 2 \/ k = 3 \/ k = 4 \/ k = 5 \/ k = 6 \/ k = 7
  OBVIOUS
<1> QED
  BY <1>1, <1>5, <1>6

(* Recorded migrations are applied. *)
THEOREM MigrationsCorrect == LibSpec => []MigrationInv
<1>1. LibInit => MigrationInv
  <2> SUFFICES ASSUME LibInit PROVE MigrationInv
    OBVIOUS
  <2>1. /\ Version = 1 /\ Statement = 0 /\ stage = "down" /\ recorded = {}
        /\ ran = [k \in Versions |-> 0]
    BY DEF LibInit, Version, Statement
  <2> QED
    BY <2>1, Sizes DEF MigrationInv, Applied, Reached
<1>2. MigrationInv /\ [LibNext]_vars => MigrationInv'
  <2> SUFFICES ASSUME MigrationInv, [LibNext]_vars
               PROVE  MigrationInv'
    OBVIOUS
  <2> USE DEF MigrationInv, Applied, Reached
  <2>1. ASSUME UNCHANGED migration PROVE MigrationInv'
    BY <2>1 DEF migration, Version, Statement
  <2>2. CASE Crash
    BY <2>2 DEF Crash, Version, Statement
  <2>3. CASE StartUp
    <3>1. /\ Version' = 1 /\ Statement' = 0
          /\ UNCHANGED <<recorded, ran>> /\ stage' = "migrating"
      BY <2>3 DEF StartUp, Version, Statement
    <3> QED
      BY <3>1, Sizes
  <2>4. CASE SkipApplied
    <3>1. /\ Version \in recorded /\ Version' = Version + 1 /\ Statement' = 0
          /\ UNCHANGED <<stage, recorded, ran>> /\ stage = "migrating"
      BY <2>4 DEF SkipApplied, Version, Statement
    <3> QED
      BY <3>1, Sizes
  <2>5. CASE RunStatement
    <3>1. /\ Version \in Versions \ recorded /\ Statement < Size(Version)
          /\ stage = "migrating" /\ UNCHANGED recorded
      BY <2>5 DEF RunStatement, Version, Statement, Size
    <3>2. CASE MayRun(Version, Statement + 1)
      <4>1. /\ Version' = Version /\ Statement' = Statement + 1 /\ UNCHANGED stage
            /\ \/ ran' = [ran EXCEPT ![Version] = Statement + 1]
               \/ ran' = ran /\ ~(Statement + 1 > ran[Version])
        BY <2>5, <3>1, <3>2 DEF RunStatement, Version, Statement
      <4> QED
        BY <3>1, <4>1, Sizes
    <3>3. CASE ~MayRun(Version, Statement + 1)
      <4>1. UNCHANGED <<Version, Statement, ran>> /\ stage' = "broken"
        BY <2>5, <3>3 DEF RunStatement, Version, Statement
      <4> QED
        BY <3>1, <4>1
    <3> QED
      BY <3>2, <3>3
  <2>6. CASE RecordMigration
    <3>1. /\ Version \in Versions \ recorded /\ Statement = Size(Version)
          /\ recorded' = recorded \cup {Version}
          /\ Version' = Version + 1 /\ Statement' = 0
          /\ UNCHANGED <<stage, ran>> /\ stage = "migrating"
      BY <2>6 DEF RecordMigration, Version, Statement, Size
    <3>2. ran[Version] = Size(Version)
      BY <3>1, Sizes
    <3> QED
      BY <3>1, <3>2, Sizes
  <2>7. CASE EndMigrations
    <3>1. /\ Version \notin Versions /\ stage = "migrating" /\ stage' = "seeding"
          /\ UNCHANGED <<Version, Statement, recorded, ran>>
      BY <2>7 DEF EndMigrations, Version, Statement
    <3>2. \A j \in Versions : j < Version
      BY <3>1, Sizes
    <3>3. recorded = Versions
      BY <3>1, <3>2
    <3> QED
      BY <3>1, <3>3
  <2>8. CASE SeedPhaseOne
    BY <2>8 DEF SeedPhaseOne, Version, Statement
  <2>9. ASSUME NEW w \in Writers, PruneQueryHistory(w) \/ PruneFails(w)
        PROVE  MigrationInv'
    BY <2>1, <2>9 DEF PruneQueryHistory, PruneFails
  <2>10. ASSUME NEW w \in Writers, NEW id \in Ids, RecordHistoryEntry(w, id)
         PROVE  MigrationInv'
    BY <2>1, <2>10 DEF RecordHistoryEntry
  <2>11. ASSUME NEW c \in Calls, NEW q \in Queries, StartSave(c, q) \/ StartDelete(c, q)
         PROVE  MigrationInv'
    BY <2>1, <2>11 DEF StartSave, StartDelete
  <2>12. ASSUME NEW c \in Calls,
                \/ CheckConnection(c)
                \/ CheckSavedQuery(c)
                \/ ReadCreatedAt(c)
                \/ UpsertSavedQuery(c)
                \/ DeleteSavedQuery(c)
         PROVE  MigrationInv'
    BY <2>1, <2>12 DEF CheckConnection, CheckSavedQuery, ReadCreatedAt,
       UpsertSavedQuery, DeleteSavedQuery
  <2>13. CASE Tick \/ UNCHANGED vars
    BY <2>1, <2>13 DEF Tick, vars
  <2>14. \/ Tick \/ UNCHANGED vars
         \/ Crash \/ StartUp \/ SkipApplied \/ RunStatement
         \/ RecordMigration \/ EndMigrations \/ SeedPhaseOne
         \/ \E w \in Writers : PruneQueryHistory(w) \/ PruneFails(w)
         \/ \E w \in Writers, id \in Ids : RecordHistoryEntry(w, id)
         \/ \E c \in Calls, q \in Queries : StartSave(c, q) \/ StartDelete(c, q)
         \/ \E c \in Calls : \/ CheckConnection(c) \/ CheckSavedQuery(c) \/ ReadCreatedAt(c)
                             \/ UpsertSavedQuery(c) \/ DeleteSavedQuery(c)
    BY Zenon DEF LibNext
  <2> QED
    BY <2>2, <2>3, <2>4, <2>5, <2>6, <2>7, <2>8, <2>9, <2>10, <2>11, <2>12, <2>13, <2>14
<1> QED
  BY <1>1, <1>2, PTL DEF LibSpec

(* Whatever starts were cut short, a recorded migration has run whole. *)
THEOREM RecordedAreApplied == LibSpec => []RecordedIsApplied
<1>1. MigrationInv => RecordedIsApplied
  BY DEF MigrationInv, Applied, Reached, Size, RecordedIsApplied
<1> QED
  BY <1>1, MigrationsCorrect, PTL

---------------------------------------------------------------------------
(* Only the last statement of a save or a delete writes saved queries.     *)
LEMMA OnlySaved ==
    ASSUME LibNext, saved' # saved
    PROVE  \E c \in Calls : UpsertSavedQuery(c) \/ DeleteSavedQuery(c)
<1> USE DEF library, log, migration
<1>1. ~(Tick \/ Crash \/ StartUp \/ SkipApplied \/ RunStatement)
  BY DEF Tick, Crash, StartUp, SkipApplied, RunStatement
<1>2. ~(RecordMigration \/ EndMigrations \/ SeedPhaseOne)
  BY DEF RecordMigration, EndMigrations, SeedPhaseOne
<1>3. \A w : ~(PruneQueryHistory(w) \/ PruneFails(w)) /\ \A id : ~RecordHistoryEntry(w, id)
  BY DEF PruneQueryHistory, PruneFails, RecordHistoryEntry
<1>4. \A c : /\ ~(CheckConnection(c) \/ CheckSavedQuery(c) \/ ReadCreatedAt(c))
             /\ \A q : ~(StartSave(c, q) \/ StartDelete(c, q))
  BY DEF CheckConnection, CheckSavedQuery, ReadCreatedAt, StartSave, StartDelete
<1> QED
  BY <1>1, <1>2, <1>3, <1>4, Zenon DEF LibNext

SavedInv == saved = [q \in Queries |-> saved[q]]

LEMMA SavedIsFunction == LibSpec => []SavedInv
<1>1. LibInit => SavedInv
  BY DEF LibInit, SavedInv
<1>2. SavedInv /\ [LibNext]_vars => SavedInv'
  <2> SUFFICES ASSUME SavedInv, LibNext, saved' # saved PROVE SavedInv'
    BY DEF SavedInv, vars, library
  <2>1. PICK c \in Calls : UpsertSavedQuery(c) \/ DeleteSavedQuery(c)
    BY OnlySaved
  <2>2. PICK q, v : saved' = [saved EXCEPT ![q] = v]
    BY <2>1 DEF UpsertSavedQuery, DeleteSavedQuery
  <2> QED
    BY <2>2 DEF SavedInv
<1> QED
  BY <1>1, <1>2, PTL DEF LibSpec

(* The creation time of a saved query that stays is the one it had.        *)
THEOREM CreationsAreKept == LibSpec => CreationIsKept
<1>1. SavedInv /\ [LibNext]_vars =>
        [\A q \in Queries : saved[q] # 0 /\ saved'[q] # 0 => saved'[q] = saved[q]]_vars
  <2> SUFFICES ASSUME SavedInv, LibNext, saved' # saved, NEW q \in Queries,
                      saved[q] # 0, saved'[q] # 0
               PROVE  saved'[q] = saved[q]
    BY DEF vars, library
  <2>1. PICK c \in Calls : UpsertSavedQuery(c) \/ DeleteSavedQuery(c)
    BY OnlySaved
  <2>2. CASE UpsertSavedQuery(c)
    <3>1. PICK p : saved' = [saved EXCEPT ![p] = StoredCreatedAt(p, CreatedAt(c))]
      BY <2>2 DEF UpsertSavedQuery
    <3> QED
      BY <3>1 DEF SavedInv, StoredCreatedAt, Exists
  <2>3. CASE DeleteSavedQuery(c)
    <3>1. PICK p : saved' = [saved EXCEPT ![p] = 0]
      BY <2>3 DEF DeleteSavedQuery
    <3> QED
      BY <3>1 DEF SavedInv
  <2> QED
    BY <2>1, <2>2, <2>3
<1> QED
  BY <1>1, SavedIsFunction, PTL DEF LibSpec, CreationIsKept

---------------------------------------------------------------------------
(* The query history *)

LEMMA LeastNat ==
  ASSUME NEW T, T \subseteq Nat, T # {}
  PROVE  \E x \in T : \A y \in T : x <= y
<1>1. IsWellFoundedOn(OpToRel(<, Nat), Nat)
  BY NatLessThanWellFounded
<1>2. PICK x \in T : \A y \in T : ~ (<<y, x>> \in OpToRel(<, Nat))
  BY <1>1, WFMin, Zenon
<1>3. ASSUME NEW y \in T PROVE x <= y
  <2>1. ~ (y < x)
    BY <1>2 DEF OpToRel
  <2> QED
    BY <2>1
<1> QED
  BY <1>3

(* The entries differ in their ids, so that newest first is an order.      *)
Entries ==
    /\ IsFiniteSet(history) /\ history \subseteq [id : Nat, second : Nat]
    /\ \A e, f \in history : e.id = f.id => e = f

(* What lies above the limit was inserted since the last prune.            *)
Counted ==
    /\ IsFiniteSet(since) /\ since \subseteq {e.id : e \in history}
    /\ Cardinality(history) <= Retained + Cardinality(since)

HistoryInv == clock \in Nat /\ Entries /\ Counted

Above(e) == {f \in history : Newer(f, e)}

LEMMA NewerOrder ==
  ASSUME Entries
  PROVE  \A e, f, g \in history :
           /\ ~Newer(e, e)
           /\ Newer(e, f) /\ Newer(f, g) => Newer(e, g)
           /\ e # f => Newer(e, f) \/ Newer(f, e)
<1>1. \A e \in history : e.id \in Nat /\ e.second \in Nat
  BY DEF Entries
<1> QED
  BY <1>1 DEF Entries, Newer

LEMMA PositionOrder ==
  ASSUME Entries
  PROVE  /\ \A e \in history : /\ Position(e) \in Nat /\ IsFiniteSet(Above(e))
                               /\ Position(e) = Cardinality(Above(e))
                               /\ Position(e) < Cardinality(history)
         /\ \A e, f \in history : Newer(e, f) => Position(e) < Position(f)
         /\ \A e, f \in history : Position(e) = Position(f) => e = f
<1>1. ASSUME NEW S, NEW T \in SUBSET S, IsFiniteSet(S), S # T
      PROVE  /\ IsFiniteSet(T) /\ Cardinality(T) < Cardinality(S)
             /\ Cardinality(T) \in Nat /\ Cardinality(S) \in Nat
  <2>1. /\ IsFiniteSet(T) /\ Cardinality(T) <= Cardinality(S)
        /\ Cardinality(S) # Cardinality(T)
    BY <1>1, FS_Subset
  <2>2. Cardinality(S) \in Nat /\ Cardinality(T) \in Nat
    BY <1>1, <2>1, FS_CardinalityType
  <2> QED
    BY <2>1, <2>2
<1>2. ASSUME NEW e \in history
      PROVE  /\ Position(e) \in Nat /\ IsFiniteSet(Above(e))
             /\ Position(e) = Cardinality(Above(e)) /\ Position(e) < Cardinality(history)
  <2>1. Above(e) \in SUBSET history /\ e \notin Above(e) /\ Above(e) # history
    BY NewerOrder DEF Above
  <2>2. Position(e) = Cardinality(Above(e))
    BY DEF Position, Above
  <2> QED
    BY <1>1, <2>1, <2>2 DEF Entries
<1>3. ASSUME NEW e \in history, NEW f \in history, Newer(e, f) PROVE Position(e) < Position(f)
  <2>1. Above(e) \in SUBSET Above(f) /\ e \in Above(f) /\ e \notin Above(e)
    BY <1>3, NewerOrder DEF Above
  <2>2. Cardinality(Above(e)) < Cardinality(Above(f))
    BY <1>1, <1>2, <2>1
  <2> QED
    BY <1>2, <2>2
<1>4. ASSUME NEW e \in history, NEW f \in history, Position(e) = Position(f) PROVE e = f
  BY <1>2, <1>3, <1>4, NewerOrder
<1> QED
  BY <1>2, <1>3, <1>4

(* Positions are counted without gaps.                                     *)
LEMMA PositionsAreDense ==
  ASSUME Entries, NEW e \in history, NEW k \in Nat, k <= Position(e)
  PROVE  \E f \in history : Position(f) = k
<1> DEFINE m == Position(e)
           h == [f \in Above(e) |-> Position(f)]
<1>1. /\ m \in Nat /\ IsFiniteSet(Above(e)) /\ m = Cardinality(Above(e))
      /\ Above(e) \subseteq history
      /\ \A f \in Above(e) : Position(f) \in 0..(m - 1)
  <2>1. ASSUME NEW f \in Above(e) PROVE Position(f) \in Nat /\ Position(f) < m
    BY PositionOrder DEF Above
  <2>2. m \in Nat /\ IsFiniteSet(Above(e)) /\ m = Cardinality(Above(e))
    BY PositionOrder
  <2> HIDE DEF m
  <2>3. \A f \in Above(e) : Position(f) \in 0..(m - 1)
    BY <2>1, <2>2
  <2> QED
    BY <2>2, <2>3 DEF Above
<1>2. h \in Injection(Above(e), 0..(m - 1))
  BY <1>1, PositionOrder DEF Injection, IsInjective
<1>3. IsFiniteSet(0..(m - 1)) /\ Cardinality(0..(m - 1)) = m
  <2> HIDE DEF m
  <2>1. 0 \in Int /\ m - 1 \in Int /\ (IF 0 > m - 1 THEN 0 ELSE m - 1 - 0 + 1) = m
    BY <1>1
  <2> QED
    BY <2>1, FS_Interval
<1> HIDE DEF h
<1>4. h \in Surjection(Above(e), 0..(m - 1))
  BY <1>1, <1>2, <1>3, FS_Injection
<1>5. CASE k = m
  BY <1>5
<1>6. CASE k < m
  <2>1. k \in 0..(m - 1)
    BY <1>1, <1>6
  <2>2. PICK f \in Above(e) : h[f] = k
    BY <1>4, <2>1 DEF Surjection
  <2> QED
    BY <1>1, <2>2 DEF h
<1> QED
  BY <1>1, <1>5, <1>6

---------------------------------------------------------------------------
(* Listing the history *)

Rest(offset) == {e \in history : Position(e) >= offset}

LEMMA RowsOfInterval ==
  ASSUME Entries, NEW limit \in Nat, NEW offset \in Nat
  PROVE  /\ Page(limit, offset) =
              {e \in history : Position(e) >= offset /\ Position(e) < offset + limit}
         /\ Rows(limit + 1, offset) =
              {e \in history : Position(e) >= offset /\ Position(e) <= offset + limit}
<1>1. \A e \in history : Position(e) \in Nat
  BY PositionOrder
<1>2. \A e \in history : Position(e) < offset + (limit + 1) <=> Position(e) <= offset + limit
  BY <1>1
<1>3. Rows(limit + 1, offset) =
        {e \in history : Position(e) >= offset /\ Position(e) <= offset + limit}
  BY <1>2 DEF Rows
<1>4. \A e \in history : Position(e) < offset + limit => Position(e) <= offset + limit
  BY <1>1
<1> QED
  BY <1>3, <1>4 DEF Page

(* The row that is read beyond the page is there when any row follows.     *)
LEMMA HasMoreIsRight ==
  ASSUME Entries, NEW limit \in Nat, NEW offset \in Nat
  PROVE  HasMore(limit, offset) <=> Rest(offset + limit) # {}
<1> DEFINE R == Rows(limit + 1, offset)
           h == [e \in R |-> Position(e)]
<1>1. R = {e \in history : Position(e) >= offset /\ Position(e) <= offset + limit}
  BY RowsOfInterval
<1>2. IsFiniteSet(R) /\ Cardinality(R) \in Nat
  <2>1. R \in SUBSET history /\ IsFiniteSet(history)
    BY <1>1 DEF Entries
  <2> HIDE DEF R
  <2> QED
    BY <2>1, FS_Subset, FS_CardinalityType
<1>3. \A e \in history : Position(e) \in Nat
  BY PositionOrder
<1>4. \A e, f \in R : h[e] = h[f] => e = f
  BY <1>1, PositionOrder
<1> HIDE DEF R
<1>5. ASSUME Rest(offset + limit) = {} PROVE Cardinality(R) <= limit
  <2> DEFINE S == offset..(offset + limit - 1)
  <2>1. \A e \in R : Position(e) \in S
    BY <1>1, <1>3, <1>5 DEF Rest
  <2>2. h \in Injection(R, S)
    BY <1>4, <2>1 DEF Injection, IsInjective
  <2>3. IsFiniteSet(S) /\ Cardinality(S) = limit
    <3>1. offset \in Int /\ offset + limit - 1 \in Int
      OBVIOUS
    <3>2. (IF offset > offset + limit - 1 THEN 0 ELSE offset + limit - 1 - offset + 1) = limit
      OBVIOUS
    <3> QED
      BY <3>1, <3>2, FS_Interval
  <2> HIDE DEF h, S
  <2> QED
    BY <2>2, <2>3, FS_Injection
<1>6. ASSUME Rest(offset + limit) # {} PROVE Cardinality(R) > limit
  <2> DEFINE S == offset..(offset + limit)
  <2>1. PICK e \in history : Position(e) >= offset + limit
    BY <1>6 DEF Rest
  <2>2. \A k \in S : \E f \in R : Position(f) = k
    <3> TAKE k \in S
    <3>1. k \in Nat /\ k <= Position(e) /\ k >= offset /\ k <= offset + limit
      BY <1>3, <2>1
    <3>2. PICK f \in history : Position(f) = k
      BY <2>1, <3>1, PositionsAreDense
    <3> QED
      BY <1>1, <3>1, <3>2
  <2>3. h \in Surjection(R, S)
    BY <1>1, <1>3, <2>2 DEF Surjection
  <2>4. IsFiniteSet(S) /\ Cardinality(S) = limit + 1
    <3>1. offset \in Int /\ offset + limit \in Int
      OBVIOUS
    <3>2. (IF offset > offset + limit THEN 0 ELSE offset + limit - offset + 1) = limit + 1
      OBVIOUS
    <3> QED
      BY <3>1, <3>2, FS_Interval
  <2> HIDE DEF h, S
  <2>5. Cardinality(S) <= Cardinality(R)
    BY <1>2, <2>3, FS_Surjection
  <2> QED
    BY <1>2, <2>4, <2>5
<1>7. HasMore(limit, offset) <=> Cardinality(R) > limit
  BY DEF HasMore, R
<1> QED
  BY <1>2, <1>5, <1>6, <1>7

ListStep(f, limit) ==
    [offset \in Nat |-> Page(limit, offset) \cup
                          IF HasMore(limit, offset) THEN f[offset + limit] ELSE {}]

LEMMA ListedIsFixpoint ==
  \A limit : Listed(limit) = (CHOOSE f : f = ListStep(f, limit))[0]
BY Zenon DEF Listed, ListStep

(* Following the pages shows the whole history (list_query_history).       *)
LEMMA ListingIsComplete ==
  ASSUME Entries, NEW limit \in Nat \ {0}
  PROVE  Listed(limit) = history
<1> DEFINE g == [offset \in Nat |-> Rest(offset)]
           f == CHOOSE h : h = ListStep(h, limit)
           N == Cardinality(history)
<1>1. \A e \in history : Position(e) \in Nat /\ Position(e) < N
  BY PositionOrder
<1>2. ASSUME NEW offset \in Nat
      PROVE  /\ Rest(offset) = Page(limit, offset) \cup Rest(offset + limit)
             /\ ~HasMore(limit, offset) <=> Rest(offset + limit) = {}
  <2>1. limit \in Nat /\ offset + limit \in Nat
    OBVIOUS
  <2>2. \A e \in history :
          Position(e) >= offset <=> \/ Position(e) >= offset /\ Position(e) < offset + limit
                                    \/ Position(e) >= offset + limit
    BY <1>1
  <2> QED
    BY <2>1, <2>2, RowsOfInterval, HasMoreIsRight DEF Rest
<1>3. g = ListStep(g, limit)
  BY <1>2 DEF ListStep
<1>4. f = ListStep(f, limit)
  <2> HIDE DEF g
  <2> QED
    BY <1>3, Zenon
<1> HIDE DEF f
<1>5. \A offset \in Nat :
        f[offset] = Page(limit, offset) \cup
                      IF HasMore(limit, offset) THEN f[offset + limit] ELSE {}
  BY <1>4, Zenon DEF ListStep
<1> DEFINE Bad == {offset \in Nat : f[offset] # Rest(offset)}
<1>6. ASSUME NEW offset \in Bad PROVE offset + limit \in Bad /\ offset < N
  <2>1. HasMore(limit, offset) /\ f[offset + limit] # Rest(offset + limit)
    BY <1>2, <1>5
  <2>2. PICK e \in history : Position(e) >= offset + limit
    BY <1>2, <2>1 DEF Rest
  <2>3. N \in Nat
    BY FS_CardinalityType DEF Entries
  <2> HIDE DEF N
  <2> QED
    BY <1>1, <2>1, <2>2, <2>3
<1>7. Bad = {}
  <2> SUFFICES ASSUME Bad # {} PROVE FALSE
    OBVIOUS
  <2> DEFINE T == {N - offset : offset \in Bad}
  <2>1. N \in Nat
    BY FS_CardinalityType DEF Entries
  <2> HIDE DEF N
  <2>2. T \subseteq Nat /\ T # {}
    BY <1>6, <2>1
  <2>3. PICK x \in T : \A y \in T : x <= y
    <3> HIDE DEF T
    <3> QED
      BY <2>2, LeastNat
  <2>4. PICK offset \in Bad : x = N - offset
    BY <2>3
  <2>5. N - (offset + limit) \in T /\ N - (offset + limit) < x
    BY <1>6, <2>1, <2>4
  <2>6. x <= N - (offset + limit)
    BY <2>3, <2>5
  <2> QED
    BY <2>1, <2>4, <2>5, <2>6
<1>8. f[0] = Rest(0) /\ Rest(0) = history
  BY <1>1, <1>7 DEF Rest
<1> QED
  BY <1>8, ListedIsFixpoint, Zenon DEF f

---------------------------------------------------------------------------
(* An insert is counted on both sides.                                     *)
LEMMA InsertStep ==
  ASSUME HistoryInv, NEW id \in Ids, Insert(id)
  PROVE  Entries' /\ Counted'
<1> DEFINE e == [id |-> id, second |-> clock]
<1>1. /\ id \notin {x.id : x \in history} /\ history' = history \cup {e}
      /\ since' = since \cup {id} /\ id \in Nat /\ clock \in Nat
  BY HistoryAssumption DEF Insert, HistoryInv
<1>2. e \notin history /\ id \notin since
  BY <1>1 DEF HistoryInv, Counted
<1>3. /\ IsFiniteSet(history') /\ Cardinality(history') = Cardinality(history) + 1
      /\ IsFiniteSet(since') /\ Cardinality(since') = Cardinality(since) + 1
      /\ Cardinality(history) \in Nat /\ Cardinality(since) \in Nat
  <2> HIDE DEF e
  <2> QED
    BY <1>1, <1>2, FS_AddElement, FS_CardinalityType DEF HistoryInv, Entries, Counted
<1>4. Entries'
  BY <1>1, <1>3 DEF HistoryInv, Entries
<1>5. since' \subseteq {x.id : x \in history'}
  BY <1>1 DEF HistoryInv, Counted
<1>6. Cardinality(history') <= Retained + Cardinality(since')
  <2> HIDE DEF e
  <2> QED
    BY <1>3, HistoryAssumption DEF HistoryInv, Counted
<1> QED
  BY <1>3, <1>4, <1>5, <1>6 DEF Counted

(* A prune leaves the retained entries, however many were there.           *)
LEMMA PruneStep ==
  ASSUME HistoryInv, history' = Newest, since' = {}
  PROVE  Entries' /\ Counted'
<1> DEFINE h == [e \in Newest |-> Position(e)]
<1>1. Newest \in SUBSET history /\ IsFiniteSet(history) /\ Entries
  BY DEF Newest, HistoryInv, Entries
<1>2. IsFiniteSet(Newest)
  BY <1>1, FS_Subset
<1>3. h \in Injection(Newest, 0..(Retained - 1))
  BY <1>1, PositionOrder, HistoryAssumption DEF Newest, Injection, IsInjective
<1>4. IsFiniteSet(0..(Retained - 1)) /\ Cardinality(0..(Retained - 1)) = Retained
  BY HistoryAssumption, FS_Interval
<1> HIDE DEF h
<1>5. Cardinality(Newest) <= Retained
  BY <1>3, <1>4, FS_Injection
<1>6. Entries'
  BY <1>1, <1>2 DEF Entries
<1>7. IsFiniteSet({}) /\ Cardinality({}) = 0
  BY FS_EmptySet
<1>8. Cardinality(history') <= Retained + Cardinality(since')
  BY <1>5, <1>7, HistoryAssumption, <1>2, FS_CardinalityType
<1> QED
  BY <1>6, <1>7, <1>8 DEF Counted

LEMMA Unlogged ==
  ASSUME HistoryInv, UNCHANGED <<history, since>>
  PROVE  Entries' /\ Counted'
BY DEF HistoryInv, Entries, Counted

LEMMA HistoryStep == HistoryInv /\ [LibNext]_vars => HistoryInv'
<1> SUFFICES ASSUME HistoryInv, [LibNext]_vars PROVE HistoryInv'
  OBVIOUS
<1> USE DEF migration, library, log
<1>1. CASE Tick \/ Crash \/ StartUp \/ SkipApplied \/ RunStatement
  BY <1>1, Unlogged DEF Tick, Crash, StartUp, SkipApplied, RunStatement, HistoryInv
<1>2. CASE RecordMigration \/ EndMigrations
  BY <1>2, Unlogged DEF RecordMigration, EndMigrations, HistoryInv
<1>3. CASE SeedPhaseOne
  BY <1>3, Unlogged, InsertStep DEF SeedPhaseOne, HistoryInv
<1>4. ASSUME NEW w \in Writers, PruneQueryHistory(w) PROVE HistoryInv'
  BY <1>4, PruneStep DEF PruneQueryHistory, HistoryInv
<1>5. ASSUME NEW w \in Writers, PruneFails(w) PROVE HistoryInv'
  BY <1>5, Unlogged DEF PruneFails, HistoryInv
<1>6. ASSUME NEW w \in Writers, NEW id \in Ids, RecordHistoryEntry(w, id) PROVE HistoryInv'
  BY <1>6, InsertStep DEF RecordHistoryEntry, HistoryInv
<1>7. ASSUME NEW c \in Calls, NEW q \in Queries, StartSave(c, q) \/ StartDelete(c, q)
      PROVE  HistoryInv'
  BY <1>7, Unlogged DEF StartSave, StartDelete, HistoryInv
<1>8. ASSUME NEW c \in Calls,
             \/ CheckConnection(c) \/ CheckSavedQuery(c) \/ ReadCreatedAt(c)
             \/ UpsertSavedQuery(c) \/ DeleteSavedQuery(c)
      PROVE  HistoryInv'
  BY <1>8, Unlogged DEF CheckConnection, CheckSavedQuery, ReadCreatedAt, UpsertSavedQuery,
     DeleteSavedQuery, HistoryInv
<1>9. CASE UNCHANGED vars
  BY <1>9, Unlogged DEF vars, HistoryInv
<1> QED
  BY <1>1, <1>2, <1>3, <1>4, <1>5, <1>6, <1>7, <1>8, <1>9, Zenon DEF LibNext

(* Whatever is recorded, pruned, refused or cut off, entries differ in their ids
   and no more of them lie above the limit than no prune has followed.       *)
THEOREM HistoryCorrect == LibSpec => []HistoryInv
<1>1. LibInit => HistoryInv
  <2> SUFFICES ASSUME LibInit PROVE HistoryInv
    OBVIOUS
  <2>1. clock = 1 /\ history = {} /\ since = {}
    BY DEF LibInit
  <2>2. IsFiniteSet({}) /\ Cardinality({}) = 0
    BY FS_EmptySet
  <2>3. Entries
    BY <2>1, <2>2 DEF Entries
  <2>4. Counted
    <3>1. Cardinality(history) = 0 /\ Cardinality(since) = 0
      BY <2>1, <2>2
    <3> QED
      BY <2>1, <2>2, <3>1, HistoryAssumption DEF Counted
  <2> QED
    BY <2>1, <2>3, <2>4 DEF HistoryInv
<1> QED
  BY <1>1, HistoryStep, PTL DEF LibSpec

(* Paging through the history with pages of any size shows every entry: what
   has_more says ends the paging neither early nor never.                   *)
THEOREM ListingsComplete == LibSpec => [](\A limit \in Nat \ {0} : Listed(limit) = history)
<1>1. HistoryInv => \A limit \in Nat \ {0} : Listed(limit) = history
  BY ListingIsComplete DEF HistoryInv
<1> QED
  BY <1>1, HistoryCorrect, PTL

(* The pages of a listing show every entry of the history, and the history
   holds no more than is retained but for entries not yet pruned after.    *)
THEOREM HistoryStaysBounded == LibSpec => []HistoryIsBounded
<1>1. HistoryInv => HistoryIsBounded
  <2> SUFFICES ASSUME HistoryInv, NEW limit \in 1..2
               PROVE  /\ Listed(limit) = history
                      /\ Cardinality(Listed(limit)) <= Retained + Cardinality(since)
    BY DEF HistoryIsBounded
  <2>1. Listed(limit) = history
    BY ListingIsComplete DEF HistoryInv
  <2> QED
    BY <2>1 DEF HistoryInv, Counted
<1> QED
  BY <1>1, HistoryCorrect, PTL
===========================================================================
