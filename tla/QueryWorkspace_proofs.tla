------------------------- MODULE QueryWorkspace_proofs ------------------------
(***************************************************************************)
(* The editor's side for every number of calls and tabs and every size of  *)
(* the event buffer: as long as no reply comes out of turn and every event *)
(* reaches the tabs, a tab shows the run that Cancel has to stop, is free   *)
(* when its runs are over, and shows the result set that is kept for it.    *)
(***************************************************************************)
EXTENDS QueryWorkspace, FiniteSetTheorems, SequenceTheorems, WellFoundedInduction, TLAPS

-----------------------------------------------------------------------------
(* Folds *)

LEMMA LeastNat ==
  ASSUME NEW T, T \subseteq Nat, T # {}
  PROVE  \E x \in T : \A y \in T : x <= y
<1>1. IsWellFoundedOn(OpToRel(<, Nat), Nat)
  BY NatLessThanWellFounded
<1>2. PICK x \in T : \A y \in T : ~ (<<y, x>> \in OpToRel(<, Nat))
  BY <1>1, WFMin, Zenon
<1>3. ASSUME NEW y \in T PROVE x <= y
  <2>1. ~ (y < x)
    BY <1>2 DEF OpToRel
  <2> QED
    BY <2>1
<1> QED
  BY <1>3

MaxOf(S) == CHOOSE x \in S : \A y \in S : x >= y

LEMMA MaxIsIn ==
  ASSUME NEW n \in Nat, NEW T \in SUBSET (1..n), T # {}
  PROVE  MaxOf(T) \in T /\ \A y \in T : MaxOf(T) >= y
<1> DEFINE Gaps == {n - x : x \in T}
<1>1. Gaps \subseteq Nat /\ Gaps # {}
  <2>1. \A x \in T : n - x \in Nat
    OBVIOUS
  <2> QED
    BY <2>1
<1>2. PICK g \in Gaps : \A y \in Gaps : g <= y
  <2> HIDE DEF Gaps
  <2> QED
    BY <1>1, LeastNat
<1>3. PICK x \in T : g = n - x
  BY <1>2
<1>4. \A y \in T : n - x <= n - y /\ y \in Nat
  BY <1>2, <1>3
<1>5. \A y \in T : x >= y
  BY <1>3, <1>4
<1> QED
  BY <1>5 DEF MaxOf

(* FoldLeft is the choice of a function that satisfies this recursion over the
   sets of positions, the largest position being applied last. *)
FoldStep(f, base, s) ==
  [T \in SUBSET DOMAIN s |->
     IF T = {} THEN base ELSE LET x == MaxOf(T) IN ApplyIfUnseen(f[T \ {x}], s[x])]

LEMMA FoldIsFixpoint ==
  \A base, s :
    FoldLeft(ApplyIfUnseen, base, s) = (CHOOSE f : f = FoldStep(f, base, s))[DOMAIN s]
BY Zenon DEF FoldLeft, MapThenFoldSet, FoldStep, MaxOf, Max

(* There is such a function: one step more is right for sets of one position
   more. *)
LEMMA FoldExists ==
  ASSUME NEW base, NEW s \in Seq(Events)
  PROVE  \E f : f = FoldStep(f, base, s)
<1> DEFINE D == DOMAIN s
           Right(f, k) == \A T \in SUBSET D : Cardinality(T) <= k => f[T] = FoldStep(f, base, s)[T]
           Bad == {k \in Nat : \A f : ~Right(f, k)}
<1>1. /\ D = 1..Len(s) /\ Len(s) \in Nat /\ IsFiniteSet(D) /\ Cardinality(D) \in Nat
  <2>1. D = 1..Len(s) /\ Len(s) \in Nat /\ 1 \in Int /\ Len(s) \in Int
    OBVIOUS
  <2> HIDE DEF D
  <2> QED
    BY <2>1, FS_Interval, FS_CardinalityType
<1>2. \A T \in SUBSET D : /\ IsFiniteSet(T) /\ Cardinality(T) \in Nat
                          /\ Cardinality(T) <= Cardinality(D)
                          /\ Cardinality(T) = 0 <=> T = {}
                          /\ T # {} => MaxOf(T) \in T
  <2> HIDE DEF D
  <2> QED
    BY <1>1, FS_Subset, FS_CardinalityType, FS_EmptySet, MaxIsIn
<1>3. ASSUME NEW f, NEW k \in Nat, Right(f, k) PROVE Right(FoldStep(f, base, s), k + 1)
  <2> DEFINE g == FoldStep(f, base, s)
  <2> SUFFICES ASSUME NEW T \in SUBSET D, Cardinality(T) <= k + 1
               PROVE  g[T] = FoldStep(g, base, s)[T]
    OBVIOUS
  <2>1. CASE T = {}
    BY <2>1 DEF FoldStep
  <2>2. CASE T # {}
    <3> DEFINE x == MaxOf(T)
               r == T \ {x}
    <3>1. x \in T /\ r \in SUBSET D
      BY <1>2, <2>2
    <3>2. Cardinality(r) <= k
      <4>1. Cardinality(r) = Cardinality(T) - 1 /\ Cardinality(T) \in Nat
        BY <1>2, <3>1, FS_RemoveElement
      <4> QED
        BY <4>1
    <3>3. f[r] = g[r]
      BY <1>3, <3>1, <3>2
    <3>4. g[T] = ApplyIfUnseen(f[r], s[x]) /\ FoldStep(g, base, s)[T] = ApplyIfUnseen(g[r], s[x])
      BY <2>2, Zenon DEF FoldStep
    <3> QED
      BY <3>3, <3>4
  <2> QED
    BY <2>1, <2>2
<1>4. Right([T \in SUBSET D |-> base], 0)
  BY <1>2 DEF FoldStep
<1>5. Bad = {}
  <2> SUFFICES ASSUME Bad # {} PROVE FALSE
    OBVIOUS
  <2>1. PICK k \in Bad : \A y \in Bad : k <= y
    <3>1. Bad \subseteq Nat
      OBVIOUS
    <3> HIDE DEF Bad
    <3> QED
      BY <3>1, LeastNat
  <2>2. k \in Nat /\ k # 0
    BY <1>4
  <2>3. k - 1 \in Nat /\ k - 1 \notin Bad /\ (k - 1) + 1 = k
    BY <2>1, <2>2
  <2>4. PICK f : Right(f, k - 1)
    <3> HIDE DEF Right
    <3> QED
      BY <2>3
  <2>5. Right(FoldStep(f, base, s), (k - 1) + 1)
    BY <1>3, <2>3, <2>4
  <2>6. Right(FoldStep(f, base, s), k)
    <3> HIDE DEF Right
    <3> QED
      BY <2>3, <2>5
  <2> QED
    BY <2>1, <2>6
<1>6. PICK f : Right(f, Cardinality(D))
  <2> HIDE DEF Right
  <2> QED
    BY <1>1, <1>5
<1> DEFINE h == FoldStep(f, base, s)
<1>7. \A T \in SUBSET D : f[T] = h[T]
  BY <1>2, <1>6
<1>8. \A T \in SUBSET D : h[T] = FoldStep(h, base, s)[T]
  <2> TAKE T \in SUBSET D
  <2>1. CASE T = {}
    BY <2>1 DEF FoldStep
  <2>2. CASE T # {}
    <3>1. T \ {MaxOf(T)} \in SUBSET D
      OBVIOUS
    <3>2. /\ h[T] = ApplyIfUnseen(f[T \ {MaxOf(T)}], s[MaxOf(T)])
          /\ FoldStep(h, base, s)[T] = ApplyIfUnseen(h[T \ {MaxOf(T)}], s[MaxOf(T)])
      BY <2>2, Zenon DEF FoldStep
    <3> QED
      BY <1>7, <3>1, <3>2
  <2> QED
    BY <2>1, <2>2
<1>9. /\ h = [T \in SUBSET D |-> h[T]]
      /\ FoldStep(h, base, s) = [T \in SUBSET D |-> FoldStep(h, base, s)[T]]
  BY DEF FoldStep
<1>10. h = FoldStep(h, base, s)
  <2> HIDE DEF h
  <2> QED
    BY <1>8, <1>9, Zenon
<1> QED
  BY <1>10

(* What holds of the tabs before the first event and is kept by each, holds
   after the last. *)
LEMMA FoldInduction ==
  ASSUME NEW base, NEW s \in Seq(Events), NEW G, <<0, base>> \in G,
         \A k \in 1..Len(s) : \A ts :
           <<k - 1, ts>> \in G => <<k, ApplyIfUnseen(ts, s[k])>> \in G
  PROVE  <<Len(s), FoldLeft(ApplyIfUnseen, base, s)>> \in G
<1> DEFINE n == Len(s)
           f == CHOOSE g : g = FoldStep(g, base, s)
           Bad == {k \in 0..n : <<k, f[1..k]>> \notin G}
<1>1. n \in Nat /\ DOMAIN s = 1..n
  OBVIOUS
<1>2. f = FoldStep(f, base, s)
  BY FoldExists, Zenon
<1> HIDE DEF f
<1>3. f[{}] = base
  <2>1. {} \in SUBSET DOMAIN s
    OBVIOUS
  <2> QED
    BY <1>2, <2>1, Zenon DEF FoldStep
<1>4. ASSUME NEW k \in 1..n PROVE f[1..k] = ApplyIfUnseen(f[1..(k - 1)], s[k])
  <2>1. 1..k \in SUBSET (1..n) /\ 1..k # {} /\ k \in 1..k
    <3>1. k \in Nat /\ 1 <= k /\ k <= n
      BY <1>1
    <3> HIDE DEF n
    <3>2. k \in 1..k /\ \A x \in 1..k : x \in 1..n
      BY <1>1, <3>1
    <3> QED
      BY <3>2
  <2>2. MaxOf(1..k) = k
    <3>1. MaxOf(1..k) \in 1..k /\ MaxOf(1..k) >= k
      BY <1>1, <2>1, MaxIsIn
    <3> QED
      BY <1>1, <3>1
  <2>3. (1..k) \ {k} = 1..(k - 1)
    BY <1>1
  <2>4. f[1..k] = ApplyIfUnseen(f[(1..k) \ {MaxOf(1..k)}], s[MaxOf(1..k)])
    <3>1. 1..k \in SUBSET DOMAIN s
      BY <1>1, <2>1
    <3> QED
      BY <1>2, <2>1, <3>1, Zenon DEF FoldStep
  <2> QED
    BY <2>2, <2>3, <2>4
<1>5. Bad = {}
  <2> SUFFICES ASSUME Bad # {} PROVE FALSE
    OBVIOUS
  <2>1. PICK k \in Bad : \A y \in Bad : k <= y
    <3>1. Bad \subseteq Nat
      BY <1>1
    <3> HIDE DEF Bad
    <3> QED
      BY <3>1, LeastNat
  <2>2. k # 0
    <3>1. 1..0 = {}
      OBVIOUS
    <3> QED
      BY <1>3, <2>1, <3>1
  <2>3. k \in 1..n /\ k - 1 \in 0..n /\ ~(k <= k - 1)
    BY <1>1, <2>1, <2>2
  <2>4. <<k - 1, f[1..(k - 1)]>> \in G
    BY <2>1, <2>3
  <2>5. <<k, f[1..k]>> \in G
    BY <1>4, <2>3, <2>4
  <2> QED
    BY <2>1, <2>5
<1>6. <<n, f[1..n]>> \in G
  BY <1>1, <1>5
<1>7. FoldLeft(ApplyIfUnseen, base, s) = f[1..n]
  BY <1>1, FoldIsFixpoint, Zenon DEF f
<1> QED
  BY <1>6, <1>7

-----------------------------------------------------------------------------
(* Types *)

RunTypes ==
  /\ phase \in [JobIds -> Phases]
  /\ owner \in [Tabs -> SUBSET JobIds] /\ kept \in [Tabs -> SUBSET JobIds]

TypeInv == WorkspaceTypeOK /\ RunTypes

(* What a view of the tabs is: some tabs, each with its state. *)
LEMMA ViewFacts ==
  ASSUME NEW ts \in Views
  PROVE  /\ DOMAIN ts \in SUBSET Tabs
         /\ \A t \in DOMAIN ts : ts[t] \in TabStates
         /\ \A t \in DOMAIN ts : \A v \in TabStates :
              /\ [ts EXCEPT ![t] = v] \in Views
              /\ DOMAIN [ts EXCEPT ![t] = v] = DOMAIN ts
              /\ [ts EXCEPT ![t] = v][t] = v
              /\ \A x \in DOMAIN ts : x # t => [ts EXCEPT ![t] = v][x] = ts[x]
<1>1. PICK S \in SUBSET Tabs : ts \in [S -> TabStates]
  BY DEF Views
<1>2. DOMAIN ts = S
  BY <1>1
<1>3. ASSUME NEW t \in S, NEW v \in TabStates
      PROVE  /\ [ts EXCEPT ![t] = v] \in [S -> TabStates]
             /\ [ts EXCEPT ![t] = v][t] = v
             /\ \A x \in S : x # t => [ts EXCEPT ![t] = v][x] = ts[x]
  <2> HIDE DEF TabStates
  <2> QED
    BY <1>1, <1>3
<1> HIDE DEF TabStates
<1> QED
  BY <1>1, <1>2, <1>3 DEF Views

LEMMA RestrictFacts ==
  ASSUME NEW ts \in Views, NEW t
  PROVE  LET new == Restrict(ts, DOMAIN ts \ {t})
         IN  /\ new \in Views /\ DOMAIN new = DOMAIN ts \ {t}
             /\ \A x \in DOMAIN new : new[x] = ts[x]
<1> DEFINE new == Restrict(ts, DOMAIN ts \ {t})
<1>1. /\ DOMAIN new = DOMAIN ts \ {t} /\ DOMAIN new \in SUBSET Tabs
      /\ \A x \in DOMAIN new : new[x] = ts[x] /\ ts[x] \in TabStates
      /\ new = [x \in DOMAIN new |-> new[x]]
  BY ViewFacts DEF Restrict
<1> HIDE DEF new
<1>2. new \in [DOMAIN new -> TabStates]
  BY <1>1
<1>3. new \in Views
  BY <1>1, <1>2 DEF Views
<1> QED
  BY <1>1, <1>3 DEF new

LEMMA ApplyTyped ==
  ASSUME NEW ts \in Views, NEW e \in Events, target \in [JobIds -> Tabs]
  PROVE  ApplyIfUnseen(ts, e) \in Views
<1> DEFINE t == target[e.job]
           new == [job     |-> IF e.status \in Final THEN NoJob ELSE e.job,
                   summary |-> IF e.rows THEN {e.job} ELSE ts[t].summary]
<1>1. ApplyQueryEvent(ts, e) = IF t \notin DOMAIN ts THEN ts ELSE [ts EXCEPT ![t] = new]
  BY Zenon DEF ApplyQueryEvent
<1>2. ASSUME t \in DOMAIN ts PROVE new \in TabStates
  <2>1. ts[t].summary \in SUBSET JobIds
    BY <1>2, ViewFacts DEF TabStates
  <2>2. e.job \in JobIds
    BY DEF Events
  <2> QED
    BY <2>1, <2>2 DEF TabStates
<1> HIDE DEF new, t
<1> QED
  BY <1>1, <1>2, ViewFacts DEF ApplyIfUnseen

LEMMA ReadTyped ==
  ASSUME TypeInv, next' = FoldLeft(ApplyIfUnseen, next, buffer)
  PROVE  next' \in Views
<1> DEFINE G == (0..Len(buffer)) \X Views
<1>1. /\ next \in Views /\ buffer \in Seq(Events) /\ target \in [JobIds -> Tabs]
      /\ Len(buffer) \in Nat
  BY DEF TypeInv, WorkspaceTypeOK
<1>2. <<0, next>> \in G
  BY <1>1
<1>3. ASSUME NEW k \in 1..Len(buffer), NEW ts, <<k - 1, ts>> \in G
      PROVE  <<k, ApplyIfUnseen(ts, buffer[k])>> \in G
  <2>1. ts \in Views /\ buffer[k] \in Events /\ k \in 0..Len(buffer)
    BY <1>1, <1>3
  <2>2. ApplyIfUnseen(ts, buffer[k]) \in Views
    BY <1>1, <2>1, ApplyTyped
  <2> QED
    BY <2>1, <2>2
<1> HIDE DEF G
<1>4. <<Len(buffer), FoldLeft(ApplyIfUnseen, next, buffer)>> \in G
  BY <1>1, <1>2, <1>3, FoldInduction
<1> QED
  BY <1>4 DEF G

(* handleQueryEvent drops the oldest event, or none. *)
LEMMA ReceiveFacts ==
  ASSUME TypeInv, ReceiveEvent
  PROVE  \E cut \in {0, 1} :
           /\ events # <<>> /\ events' = Tail(events) /\ buffer' \in Seq(Events)
           /\ Len(buffer') = Len(buffer) + 1 - cut /\ Len(buffer') <= EventBuffer
           /\ \A i \in 1..Len(buffer') :
                buffer'[i] = IF i + cut <= Len(buffer) THEN buffer[i + cut] ELSE events[1]
           /\ lost' = lost \cup
                ((IF cut = 1 THEN {IF Len(buffer) > 0 THEN buffer[1] ELSE events[1]} ELSE {})
                   \ seen)
<1> DEFINE all == Append(buffer, Head(events))
           cut == IF Len(all) > EventBuffer THEN 1 ELSE 0
<1>1. /\ events # <<>> /\ events' = Tail(events)
      /\ buffer' = SubSeq(all, cut + 1, Len(all))
      /\ lost' = lost \cup (ToSet(SubSeq(all, 1, cut)) \ seen)
  BY DEF ReceiveEvent
<1>2. /\ buffer \in Seq(Events) /\ events \in Seq(Events) /\ Len(buffer) <= EventBuffer
      /\ EventBuffer \in Nat \ {0} /\ Len(buffer) \in Nat
  BY BufferAssumption DEF TypeInv, WorkspaceTypeOK
<1>3. /\ all \in Seq(Events) /\ Len(all) = Len(buffer) + 1 /\ Head(events) = events[1]
      /\ \A i \in 1..Len(all) : all[i] = IF i <= Len(buffer) THEN buffer[i] ELSE events[1]
  BY <1>1, <1>2
<1> HIDE DEF all
<1>4. cut \in {0, 1} /\ Len(all) - cut <= EventBuffer
  BY <1>2, <1>3
<1> HIDE DEF cut
<1>5. /\ buffer' \in Seq(Events) /\ Len(buffer') = Len(all) - cut
      /\ \A i \in 1..Len(buffer') : buffer'[i] = all[i + cut]
      /\ ToSet(SubSeq(all, 1, cut)) = IF cut = 1 THEN {all[1]} ELSE {}
  <2>1. /\ Len(all) \in Nat /\ Len(all) \in Int /\ cut \in Int /\ cut + 1 \in Int
        /\ cut <= Len(all) /\ \A i \in (cut + 1)..Len(all) : all[i] \in Events
    <3>1. Len(all) \in Nat /\ Len(all) > 0 /\ \A i \in 1..Len(all) : all[i] \in Events
      BY <1>2, <1>3
    <3>2. cut \in Int /\ cut + 1 \in Int /\ cut <= Len(all) /\ cut >= 0
      BY <1>4, <3>1
    <3> QED
      BY <3>1, <3>2
  <2>2. /\ SubSeq(all, cut + 1, Len(all)) \in Seq(Events)
        /\ Len(SubSeq(all, cut + 1, Len(all))) = Len(all) - (cut + 1) + 1
        /\ \A i \in 1..(Len(all) - (cut + 1) + 1) :
             SubSeq(all, cut + 1, Len(all))[i] = all[(cut + 1) + i - 1]
    BY <2>1, SubSeqProperties
  <2>3. /\ buffer' \in Seq(Events) /\ Len(buffer') = Len(all) - (cut + 1) + 1
        /\ \A i \in 1..(Len(all) - (cut + 1) + 1) : buffer'[i] = all[(cut + 1) + i - 1]
    BY <1>1, <2>2
  <2>4. Len(buffer') = Len(all) - cut /\ \A i \in 1..Len(buffer') : (cut + 1) + i - 1 = i + cut
    <3>1. Len(buffer') = Len(all) - cut
      BY <2>1, <2>3
    <3>2. \A i \in Nat : (cut + 1) + i - 1 = i + cut
      BY <2>1
    <3> QED
      BY <2>1, <3>1, <3>2
  <2>5. \A i \in 1..Len(buffer') : buffer'[i] = all[i + cut]
    BY <2>3, <2>4
  <2>6. CASE cut = 0
    <3>1. SubSeq(all, 1, 0) = <<>>
      BY SubSeqEmpty
    <3>2. ToSet(SubSeq(all, 1, 0)) = {}
      BY <3>1 DEF ToSet
    <3> QED
      BY <2>3, <2>4, <2>5, <2>6, <3>2
  <2>7. CASE cut = 1
    <3> DEFINE first == SubSeq(all, 1, 1)
    <3>1. first \in Seq(Events) /\ Len(first) = 1 /\ first[1] = all[1]
      <4>0. \A i \in 1..1 : all[i] \in Events
        BY <1>2, <1>3
      <4>1. /\ first \in Seq(Events) /\ Len(first) = 1 - 1 + 1
            /\ \A i \in 1..(1 - 1 + 1) : first[i] = all[1 + i - 1]
        BY <2>1, <4>0, SubSeqProperties
      <4> QED
        BY <4>1
    <3> HIDE DEF first
    <3>2. ToSet(first) = {all[1]}
      <4>1. DOMAIN first = {1}
        BY <3>1
      <4> QED
        BY <3>1, <4>1 DEF ToSet
    <3> QED
      BY <2>3, <2>4, <2>5, <2>7, <3>2 DEF first
  <2> QED
    BY <1>4, <2>6, <2>7
<1>6. \A i \in 1..Len(buffer') :
        buffer'[i] = IF i + cut <= Len(buffer) THEN buffer[i + cut] ELSE events[1]
  BY <1>2, <1>3, <1>4, <1>5
<1>7. lost' = lost \cup
        ((IF cut = 1 THEN {IF Len(buffer) > 0 THEN buffer[1] ELSE events[1]} ELSE {}) \ seen)
  BY <1>1, <1>2, <1>3, <1>5
<1> USE <1>4
<1> WITNESS cut \in {0, 1}
<1> QED
  BY <1>1, <1>2, <1>3, <1>4, <1>5, <1>6, <1>7

LEMMA EmitTyped ==
  ASSUME TypeInv, NEW j \in JobIds, NEW s \in Statuses, NEW r \in BOOLEAN,
         EmitOrLose(Event(j, s, r))
  PROVE  events' \in Seq(Events) /\ lost' \subseteq Events
<1> DEFINE e == Event(j, s, r)
<1>1. e \in Events /\ events \in Seq(Events) /\ lost \subseteq Events
  BY DEF Events, Event, TypeInv, WorkspaceTypeOK
<1> HIDE DEF e
<1>2. \/ events' = Append(events, e) /\ lost' = lost
      \/ events' = events /\ lost' = lost \cup {e}
  BY DEF EmitOrLose, Emit, e
<1>3. Append(events, e) \in Seq(Events)
  BY <1>1, AppendProperties
<1> QED
  BY <1>1, <1>2, <1>3

(* A step of the service changes what a run and its tab have, and no other. *)
LEMMA RunSteps ==
  ASSUME TypeInv, NEW j \in JobIds, Service(j)
  PROVE  /\ \E s \in Phases : phase' = [phase EXCEPT ![j] = s]
         /\ \E o \in SUBSET JobIds : owner' = [owner EXCEPT ![target[j]] = o]
         /\ \E k \in SUBSET JobIds : kept' = [kept EXCEPT ![target[j]] = k]
<1> DEFINE t == target[j]
<1>1. /\ t \in Tabs /\ phase[j] \in Phases
      /\ owner[t] \in SUBSET JobIds /\ kept[t] \in SUBSET JobIds
      /\ phase = [phase EXCEPT ![j] = phase[j]]
      /\ owner = [owner EXCEPT ![t] = owner[t]]
      /\ kept = [kept EXCEPT ![t] = kept[t]]
      /\ {} \in SUBSET JobIds /\ {j} \in SUBSET JobIds /\ kept[t] \cup {j} \in SUBSET JobIds
      /\ {"claimed", "queued", "running", "refused"} \cup Final \subseteq Phases
  BY DEF TypeInv, RunTypes, WorkspaceTypeOK, Phases
<1> HIDE DEF t
<1>2. CASE RefuseCall(j)
  BY <1>1, <1>2, Zenon DEF RefuseCall, Refuse, Abandon, t
<1>3. CASE PrepareRun(j)
  BY <1>1, <1>3, Zenon DEF PrepareRun, Claim, Empty, t
<1>4. CASE AnnounceRun(j)
  BY <1>1, <1>4, Zenon DEF AnnounceRun, Announce, t
<1>5. CASE StartRun(j)
  BY <1>1, <1>5, Zenon DEF StartRun, Start, t
<1>6. CASE FinishRun(j)
  BY <1>1, <1>6, OutcomesAssumption, Zenon DEF FinishRun, Finish, t
<1>7. CASE ReportRun(j)
  BY <1>1, <1>7, Zenon DEF ReportRun, runVars, t
<1>8. CASE ReleaseRun(j)
  BY <1>1, <1>8, Zenon DEF ReleaseRun, Release, t
<1> QED
  BY <1>2, <1>3, <1>4, <1>5, <1>6, <1>7, <1>8 DEF Service, t

LEMMA ServiceTyped ==
  ASSUME TypeInv, NEW j \in JobIds, Service(j)
  PROVE  TypeInv'
<1> USE DEF TypeInv, RunTypes
<1>1. /\ target[j] \in Tabs /\ j \in JobIds
      /\ phase[j] \in Phases
      /\ call \in [JobIds -> {"none", "sent", "accepted", "refused", "handled"}]
  BY DEF WorkspaceTypeOK
<1>2. RunTypes'
  <2>1. /\ \E s \in Phases : phase' = [phase EXCEPT ![j] = s]
        /\ \E o \in SUBSET JobIds : owner' = [owner EXCEPT ![target[j]] = o]
        /\ \E k \in SUBSET JobIds : kept' = [kept EXCEPT ![target[j]] = k]
    BY RunSteps
  <2>2. phase' \in [JobIds -> Phases]
    BY <2>1
  <2>3. owner' \in [Tabs -> SUBSET JobIds]
    BY <2>1
  <2>4. kept' \in [Tabs -> SUBSET JobIds]
    BY <2>1
  <2> QED
    BY <2>2, <2>3, <2>4
<1>3. UNCHANGED <<target, buffer, seen, viewVars, late>>
  BY DEF Service, RefuseCall, PrepareRun, AnnounceRun, StartRun, FinishRun, ReportRun, ReleaseRun,
     unchangedByService
<1>4. /\ call' \in [JobIds -> {"none", "sent", "accepted", "refused", "handled"}]
      /\ reported' \subseteq JobIds
  BY <1>1 DEF WorkspaceTypeOK, Service, RefuseCall, PrepareRun, AnnounceRun, StartRun, FinishRun,
     ReportRun, ReleaseRun, Answer, wireVars, unchangedByService
<1>5. events' \in Seq(Events) /\ lost' \subseteq Events
  <2>1. CASE AnnounceRun(j) \/ StartRun(j) \/ ReportRun(j)
    <3>1. {"queued", "running"} \cup Final \subseteq Statuses /\ FALSE \in BOOLEAN
          /\ (j \in kept[target[j]]) \in BOOLEAN
      BY DEF Statuses
    <3> QED
      BY <2>1, <3>1, EmitTyped DEF AnnounceRun, StartRun, ReportRun, EmitOrLose
  <2>2. CASE RefuseCall(j) \/ PrepareRun(j) \/ FinishRun(j) \/ ReleaseRun(j)
    BY <2>2 DEF WorkspaceTypeOK, RefuseCall, PrepareRun, FinishRun, ReleaseRun, wireVars
  <2> QED
    BY <2>1, <2>2 DEF Service
<1> QED
  BY <1>2, <1>3, <1>4, <1>5 DEF WorkspaceTypeOK, viewVars

LEMMA WindowTyped ==
  ASSUME TypeInv, NEW j \in JobIds, Window(j)
  PROVE  TypeInv'
<1>1. /\ target[j] \in Tabs /\ next \in Views /\ tabs \in Views
      /\ call \in [JobIds -> {"none", "sent", "accepted", "refused", "handled"}]
  BY DEF TypeInv, WorkspaceTypeOK
<1>2. UNCHANGED <<runVars, target, reported, events, buffer, seen, lost, tabsRef, inTabs, inRef>>
  BY DEF Window, StartTabQuery, HandleAccepted, HandleRefused, unchangedByEditor
<1>3. /\ call' \in [JobIds -> {"none", "sent", "accepted", "refused", "handled"}]
      /\ late' \subseteq JobIds
  BY <1>1 DEF TypeInv, WorkspaceTypeOK, Window, StartTabQuery, HandleAccepted, HandleRefused,
     Answer
<1>4. next' \in Views /\ tabs' \in Views
  <2>1. ASSUME NEW ts \in Views PROVE ShowQueued(ts, j) \in Views
    <3>1. [job |-> j, summary |-> {}] \in TabStates
      BY DEF TabStates
    <3> QED
      BY <3>1, ViewFacts DEF ShowQueued
  <2> QED
    BY <1>1, <2>1 DEF Window, StartTabQuery, HandleAccepted, HandleRefused
<1> QED
  BY <1>2, <1>3, <1>4 DEF TypeInv, WorkspaceTypeOK, RunTypes, runVars

LEMMA TypeStep ==
  ASSUME TypeInv, [WorkspaceNext]_workspaceVars
  PROVE  TypeInv'
<1>1. CASE ReceiveEvent
  <2>1. PICK cut \in {0, 1} :
          /\ events # <<>> /\ events' = Tail(events) /\ buffer' \in Seq(Events)
          /\ Len(buffer') <= EventBuffer
          /\ lost' = lost \cup
               ((IF cut = 1 THEN {IF Len(buffer) > 0 THEN buffer[1] ELSE events[1]} ELSE {}) \ seen)
    BY <1>1, ReceiveFacts
  <2>2. /\ Tail(events) \in Seq(Events) /\ events[1] \in Events
        /\ Len(buffer) > 0 => buffer[1] \in Events
    BY <2>1, HeadTailProperties DEF TypeInv, WorkspaceTypeOK
  <2>3. lost' \subseteq Events
    BY <2>1, <2>2 DEF TypeInv, WorkspaceTypeOK
  <2>4. UNCHANGED <<runVars, call, target, reported, seen, viewVars, late>>
    BY <1>1 DEF ReceiveEvent
  <2> QED
    BY <2>1, <2>2, <2>3, <2>4 DEF TypeInv, WorkspaceTypeOK, RunTypes, runVars, viewVars
<1>2. CASE ReadEvents
  <2>1. next' \in Views
    BY <1>2, ReadTyped DEF ReadEvents
  <2>2. seen' \subseteq Events /\ seen \subseteq seen'
    <3>1. \A i \in DOMAIN buffer : buffer[i] \in Events
      BY DEF TypeInv, WorkspaceTypeOK
    <3> QED
      BY <1>2, <3>1 DEF ReadEvents, Unseen, ToSet, TypeInv, WorkspaceTypeOK
  <2> QED
    BY <1>2, <2>1, <2>2 DEF ReadEvents, unchangedByReading, TypeInv, WorkspaceTypeOK, RunTypes,
       runVars, wireVars
<1>3. ASSUME NEW t \in Tabs, CloseTab(t) PROVE TypeInv'
  <2>1. next' \in Views
    BY <1>3, RestrictFacts DEF CloseTab, TypeInv, WorkspaceTypeOK
  <2> QED
    BY <1>3, <2>1 DEF CloseTab, TypeInv, WorkspaceTypeOK, RunTypes, runVars, wireVars
<1>4. CASE Render \/ UNCHANGED workspaceVars
  BY <1>4 DEF Render, RenderUrgent, ComputeAhead, RenderTransition, unchangedByRender,
     workspaceVars, runVars, wireVars, viewVars, TypeInv, WorkspaceTypeOK, RunTypes
<1> QED
  BY <1>1, <1>2, <1>3, <1>4, ServiceTyped, WindowTyped DEF WorkspaceNext

LEMMA TypeStart ==
  ASSUME WorkspaceInit
  PROVE  TypeInv
<1>1. next \in Views
  <2>1. [job |-> NoJob, summary |-> {}] \in TabStates
    BY DEF TabStates
  <2>2. next \in [Tabs -> TabStates]
    BY <2>1 DEF WorkspaceInit
  <2> QED
    BY <2>2 DEF Views
<1> QED
  BY <1>1, BufferAssumption DEF WorkspaceInit, Init, TypeInv, WorkspaceTypeOK, RunTypes, Phases

-----------------------------------------------------------------------------
(* Runs and tabs *)

Announced(j) == phase[j] \in {"queued", "running"} \cup Final

(* The run has its tab and has not said that it is over. *)
Busy(j) ==
  \/ phase[j] \in {"claimed", "queued", "running"}
  \/ phase[j] \in Final /\ j \notin reported

(* A busy run is the only owner of its tab. *)
OwnersAreBusy ==
  /\ \A t \in Tabs : \A j \in owner[t] :
       target[j] = t /\ owner[t] = {j} /\ phase[j] \notin {"new", "refused"}
  /\ \A j \in JobIds : Busy(j) => j \in owner[target[j]]

(* What was said of a run is true of it. *)
ToldIsTrue ==
  /\ \A j \in reported : phase[j] \in Final
  /\ \A j \in JobIds : call[j] = "accepted" => Announced(j)

(* A tab keeps the result set of a run that completed in it, and none beside
   the owner's once the owner is announced. *)
KeptOfOwner ==
  /\ \A t \in Tabs : \A j \in owner[t] : Announced(j) => kept[t] \subseteq {j}
  /\ \A t \in Tabs : \A j \in kept[t] : target[j] = t /\ phase[j] = "completed" /\ kept[t] = {j}

RunsInv == OwnersAreBusy /\ ToldIsTrue /\ KeptOfOwner

LEMMA RunsService ==
  ASSUME TypeInv, RunsInv, NEW j \in JobIds, Service(j)
  PROVE  RunsInv'
<1>1. /\ target \in [JobIds -> Tabs] /\ target' = target
      /\ call \in [JobIds -> {"none", "sent", "accepted", "refused", "handled"}]
      /\ phase \in [JobIds -> Phases] /\ owner \in [Tabs -> SUBSET JobIds]
      /\ kept \in [Tabs -> SUBSET JobIds] /\ reported \subseteq JobIds
  BY DEF TypeInv, RunTypes, WorkspaceTypeOK, Service, RefuseCall, PrepareRun, AnnounceRun, StartRun,
     FinishRun, ReportRun, ReleaseRun, unchangedByService
<1> DEFINE t == target[j]
<1>2. t \in Tabs /\ owner[t] \subseteq JobIds /\ kept[t] \subseteq JobIds
  BY <1>1
<1> HIDE DEF t
<1> USE DEF OwnersAreBusy, ToldIsTrue, KeptOfOwner, Busy, Announced, Final
<1>3. CASE Refuse(j) /\ RefuseCall(j)
  <2>1. /\ phase[j] = "new" /\ phase' = [phase EXCEPT ![j] = "refused"]
        /\ UNCHANGED <<owner, kept, reported>> /\ call' = [call EXCEPT ![j] = "refused"]
    BY <1>3 DEF Refuse, RefuseCall, Answer
  <2> QED
    BY <1>1, <2>1 DEF RunsInv
<1>4. CASE Abandon(j, t) /\ RefuseCall(j)
  <2>1. /\ j \in owner[t] /\ phase[j] = "claimed" /\ phase' = [phase EXCEPT ![j] = "refused"]
        /\ owner' = [owner EXCEPT ![t] = {}]
        /\ UNCHANGED <<kept, reported>> /\ call' = [call EXCEPT ![j] = "refused"]
    BY <1>4 DEF Abandon, RefuseCall, Answer
  <2>2. owner[t] = {j} /\ t = target[j]
    BY <1>2, <2>1 DEF RunsInv, t
  <2> QED
    BY <1>1, <1>2, <2>1, <2>2 DEF RunsInv
<1>5. CASE Claim(j, t) /\ PrepareRun(j)
  <2>1. /\ phase[j] = "new" /\ phase' = [phase EXCEPT ![j] = "claimed"]
        /\ owner[t] = {} /\ owner' = [owner EXCEPT ![t] = {j}]
        /\ UNCHANGED <<kept, reported, call>> /\ t = target[j]
    BY <1>5 DEF Claim, PrepareRun, wireVars, t
  <2> QED
    BY <1>1, <1>2, <2>1 DEF RunsInv
<1>6. CASE Empty(j, t) /\ PrepareRun(j)
  <2>1. /\ j \in owner[t] /\ phase[j] = "claimed" /\ kept' = [kept EXCEPT ![t] = {}]
        /\ UNCHANGED <<owner, phase, reported, call>>
    BY <1>6 DEF Empty, PrepareRun, wireVars
  <2> QED
    BY <1>1, <1>2, <2>1 DEF RunsInv
<1>7. CASE AnnounceRun(j)
  <2>1. /\ j \in owner[t] /\ phase[j] = "claimed" /\ kept[t] = {} /\ t = target[j]
        /\ phase' = [phase EXCEPT ![j] = "queued"] /\ call' = [call EXCEPT ![j] = "accepted"]
        /\ UNCHANGED <<owner, kept, reported>>
    BY <1>7 DEF AnnounceRun, Announce, Answer, t
  <2> QED
    BY <1>1, <1>2, <2>1 DEF RunsInv
<1>8. CASE StartRun(j)
  <2>1. /\ j \in owner[t] /\ phase[j] = "queued" /\ t = target[j]
        /\ phase' = [phase EXCEPT ![j] = "running"]
        /\ UNCHANGED <<owner, kept, reported, call>>
    BY <1>8 DEF StartRun, Start, t
  <2> QED
    BY <1>1, <1>2, <2>1 DEF RunsInv
<1>9. CASE FinishRun(j)
  <2>1. PICK s \in Final : Finish(j, t, s)
    BY <1>9, OutcomesAssumption DEF FinishRun, t
  <2>2. /\ j \in owner[t] /\ phase[j] = "running" /\ t = target[j]
        /\ phase' = [phase EXCEPT ![j] = s]
        /\ UNCHANGED <<owner, reported, call>>
        /\ kept' = kept \/ (s = "completed" /\ kept' = [kept EXCEPT ![t] = kept[t] \cup {j}])
    BY <1>9, <2>1, OutcomesAssumption DEF FinishRun, Finish, wireVars, t
  <2>3. /\ kept[t] \subseteq {j} /\ j \notin kept[t] /\ owner[t] = {j} /\ j \notin reported
        /\ \A x \in Tabs : j \notin kept[x]
    BY <1>1, <1>2, <2>2 DEF RunsInv
  <2>4. kept[t] = {}
    BY <2>3
  <2>5. (OwnersAreBusy /\ ToldIsTrue)'
    BY <1>1, <1>2, <2>1, <2>2, <2>3 DEF RunsInv
  <2>6. KeptOfOwner'
    <3>1. CASE kept' = kept
      BY <1>1, <1>2, <2>1, <2>2, <2>3, <2>4, <3>1 DEF RunsInv
    <3>2. CASE s = "completed" /\ kept' = [kept EXCEPT ![t] = {j}]
      BY <1>1, <1>2, <2>1, <2>2, <2>3, <2>4, <3>2 DEF RunsInv
    <3> QED
      BY <2>2, <2>4, <3>1, <3>2
  <2> QED
    BY <2>5, <2>6 DEF RunsInv
<1>10. CASE ReportRun(j)
  <2>1. /\ phase[j] \in Final /\ reported' = reported \cup {j}
        /\ UNCHANGED <<owner, kept, phase, call>>
    BY <1>10 DEF ReportRun, runVars
  <2> QED
    BY <1>1, <2>1 DEF RunsInv
<1>11. CASE ReleaseRun(j)
  <2>1. /\ j \in owner[t] /\ phase[j] \in Final /\ j \in reported /\ t = target[j]
        /\ owner' = [owner EXCEPT ![t] = {}]
        /\ UNCHANGED <<kept, phase, call, reported>>
    BY <1>11 DEF ReleaseRun, Release, wireVars, t
  <2>2. owner[t] = {j}
    BY <1>2, <2>1 DEF RunsInv
  <2> QED
    BY <1>1, <1>2, <2>1, <2>2 DEF RunsInv
<1> QED
  BY <1>3, <1>4, <1>5, <1>6, <1>7, <1>8, <1>9, <1>10, <1>11 DEF Service, RefuseCall, PrepareRun, t

LEMMA RunsStep ==
  ASSUME TypeInv, RunsInv, [WorkspaceNext]_workspaceVars
  PROVE  RunsInv'
<1> USE DEF OwnersAreBusy, ToldIsTrue, KeptOfOwner, Busy, Announced
<1>1. ASSUME NEW j \in JobIds, Window(j) PROVE RunsInv'
  <2>1. /\ UNCHANGED <<owner, kept, phase, target, reported>>
        /\ \A i \in JobIds : call'[i] = "accepted" => call[i] = "accepted"
    BY <1>1 DEF TypeInv, WorkspaceTypeOK, Window, StartTabQuery, HandleAccepted, HandleRefused,
       Answer, unchangedByEditor, runVars
  <2> QED
    BY <2>1 DEF RunsInv
<1>2. CASE (\E t \in Tabs : CloseTab(t)) \/ ReceiveEvent \/ ReadEvents \/ Render
           \/ UNCHANGED workspaceVars
  <2>1. UNCHANGED <<owner, kept, phase, target, reported, call>>
    BY <1>2 DEF CloseTab, ReceiveEvent, ReadEvents, Render, RenderUrgent, ComputeAhead,
       RenderTransition, workspaceVars, wireVars, unchangedByReading, unchangedByRender, runVars
  <2> QED
    BY <2>1 DEF RunsInv
<1> QED
  BY <1>1, <1>2, RunsService DEF WorkspaceNext

-----------------------------------------------------------------------------
(* The wire: the events that App keeps, then those on their way *)

WireLen == Len(buffer) + Len(events)
At(i) == IF i <= Len(buffer) THEN buffer[i] ELSE events[i - Len(buffer)]

(* What the window may come to know, in the order it does: what it has applied,
   with the events on the wire before the k-th. *)
Past(k) == seen \cup {At(i) : i \in 1..(k - 1)}
Pasts == {Past(k) : k \in 1..(WireLen + 1)}
All == Past(WireLen + 1)

LEMMA WireTyped ==
  ASSUME TypeInv
  PROVE  /\ Len(buffer) \in Nat /\ Len(events) \in Nat /\ WireLen \in Nat
         /\ \A i \in 1..WireLen : At(i) \in Events
         /\ All = seen \cup {At(i) : i \in 1..WireLen}
         /\ All \subseteq Events /\ All \in Pasts
         /\ \A S \in Pasts : S \subseteq All
<1>1. /\ buffer \in Seq(Events) /\ events \in Seq(Events) /\ seen \subseteq Events
      /\ Len(buffer) \in Nat /\ Len(events) \in Nat
  BY DEF TypeInv, WorkspaceTypeOK
<1>2. WireLen \in Nat
  BY <1>1 DEF WireLen
<1>3. \A i \in 1..WireLen : At(i) \in Events
  BY <1>1 DEF WireLen, At
<1>4. (WireLen + 1) - 1 = WireLen /\ WireLen + 1 \in 1..(WireLen + 1)
  BY <1>2
<1>5. All = seen \cup {At(i) : i \in 1..WireLen} /\ All \in Pasts
  BY <1>4 DEF All, Past, Pasts
<1>6. ASSUME NEW S \in Pasts PROVE S \subseteq All
  <2>1. PICK k \in 1..(WireLen + 1) : S = Past(k)
    BY <1>6 DEF Pasts
  <2>2. \A i \in 1..(k - 1) : i \in 1..WireLen
    BY <1>2
  <2> QED
    BY <1>5, <2>1, <2>2 DEF Past
<1> QED
  BY <1>1, <1>2, <1>3, <1>5, <1>6

LEMMA WireRests ==
  ASSUME UNCHANGED <<events, buffer, seen>>
  PROVE  WireLen' = WireLen /\ Pasts' = Pasts /\ All' = All /\ \A i : At(i)' = At(i)
BY DEF WireLen, Pasts, All, Past, At

(* An emitted event comes after all others. *)
LEMMA WireGrows ==
  ASSUME TypeInv, NEW e \in Events, events' = Append(events, e), UNCHANGED <<buffer, seen>>
  PROVE  /\ WireLen' = WireLen + 1
         /\ \A i \in 1..WireLen : At(i)' = At(i)
         /\ \A n : n = WireLen + 1 => At(n)' = e
         /\ All' = All \cup {e}
         /\ Pasts' = Pasts \cup {All \cup {e}}
<1>1. /\ events \in Seq(Events) /\ Len(buffer) \in Nat /\ Len(events) \in Nat
  BY DEF TypeInv, WorkspaceTypeOK
<1>2. /\ Len(events') = Len(events) + 1 /\ events'[Len(events) + 1] = e
      /\ \A i \in 1..Len(events) : events'[i] = events[i]
  BY <1>1, AppendProperties
<1>3. WireLen \in Nat /\ WireLen' = WireLen + 1
  BY <1>1, <1>2 DEF WireLen
<1>4. \A i \in 1..WireLen : At(i)' = At(i)
  BY <1>1, <1>2 DEF At, WireLen
<1>5. \A n : n = WireLen + 1 => At(n)' = e
  BY <1>1, <1>2 DEF At, WireLen
<1>6. ASSUME NEW k \in 1..(WireLen + 1) PROVE Past(k)' = Past(k)
  <2>1. \A i \in 1..(k - 1) : i \in 1..WireLen
    BY <1>3
  <2> QED
    BY <1>4, <2>1 DEF Past
<1>7. All' = All \cup {e}
  <2>1. /\ (WireLen' + 1) - 1 = WireLen + 1 /\ (WireLen + 1) - 1 = WireLen
        /\ 1..(WireLen + 1) = (1..WireLen) \cup {WireLen + 1}
    BY <1>3
  <2>2. All' = seen \cup {At(i)' : i \in 1..(WireLen + 1)}
    BY <2>1 DEF All, Past
  <2>3. All = seen \cup {At(i) : i \in 1..WireLen}
    BY <2>1 DEF All, Past
  <2> QED
    BY <1>4, <1>5, <2>1, <2>2, <2>3
<1>8. 1..(WireLen' + 1) = (1..(WireLen + 1)) \cup {WireLen' + 1}
  BY <1>3
<1>9. Pasts' = {Past(k)' : k \in 1..(WireLen' + 1)}
  BY DEF Pasts
<1>10. \A k : k = WireLen' + 1 => Past(k)' = All'
  BY DEF All
<1> QED
  BY <1>3, <1>4, <1>5, <1>6, <1>7, <1>8, <1>9, <1>10 DEF Pasts

(* An event that the buffer drops is off the wire; if it had been applied, the
   window knows as much as before. *)
LEMMA WireMoves ==
  ASSUME TypeInv, ReceiveEvent
  PROVE  /\ \E cut \in {0, 1} : /\ WireLen' = WireLen - cut
                                /\ \A i \in 1..WireLen' : At(i)' = At(i + cut)
         /\ All' \subseteq All
         /\ lost \subseteq lost'
         /\ lost' = {} => All' = All /\ Pasts' \subseteq Pasts
<1>1. PICK cut \in {0, 1} :
           /\ events # <<>> /\ events' = Tail(events) /\ buffer' \in Seq(Events)
           /\ Len(buffer') = Len(buffer) + 1 - cut /\ Len(buffer') <= EventBuffer
           /\ \A i \in 1..Len(buffer') :
                buffer'[i] = IF i + cut <= Len(buffer) THEN buffer[i + cut] ELSE events[1]
           /\ lost' = lost \cup
                ((IF cut = 1 THEN {IF Len(buffer) > 0 THEN buffer[1] ELSE events[1]} ELSE {})
                   \ seen)
  BY ReceiveFacts
<1>2. /\ events \in Seq(Events) /\ Len(buffer) \in Nat /\ Len(events) \in Nat /\ Len(events) > 0
      /\ Len(events') = Len(events) - 1
      /\ \A i \in 1..Len(events') : events'[i] = events[i + 1]
  BY <1>1, HeadTailProperties DEF TypeInv, WorkspaceTypeOK
<1>3. seen' = seen
  BY DEF ReceiveEvent
<1>4. WireLen' = WireLen - cut /\ WireLen \in Nat /\ WireLen' \in Nat /\ WireLen >= 1
  BY <1>1, <1>2 DEF WireLen
<1>5. \A i \in 1..WireLen' : At(i)' = At(i + cut)
  BY <1>1, <1>2, <1>4 DEF At, WireLen
<1>6. lost' = lost \cup ((IF cut = 1 THEN {At(1)} ELSE {}) \ seen)
  BY <1>1, <1>2 DEF At
<1>7. ASSUME NEW k \in 1..(WireLen' + 1)
      PROVE  /\ k + cut \in 1..(WireLen + 1)
             /\ Past(k)' \subseteq Past(k + cut)
             /\ lost' = {} => Past(k)' = Past(k + cut)
  <2>1. CASE cut = 0
    <3>1. \A i \in 1..(k - 1) : i \in 1..WireLen' /\ i + 0 = i
      BY <1>4
    <3>2. \A i \in 1..(k - 1) : At(i)' = At(i)
      BY <1>5, <2>1, <3>1
    <3>3. k + cut = k /\ k \in 1..(WireLen + 1)
      BY <1>4, <2>1
    <3> QED
      BY <1>3, <3>2, <3>3 DEF Past
  <2>2. CASE cut = 1
    <3>1. \A i \in 1..(k - 1) : i \in 1..WireLen' /\ i + 1 \in 1..((k + 1) - 1)
      BY <1>4
    <3>2. \A i \in 1..(k - 1) : At(i)' = At(i + 1)
      BY <1>5, <2>2, <3>1
    <3>3. k + cut = k + 1 /\ k + 1 \in 1..(WireLen + 1)
      BY <1>4, <2>2
    <3>4. \A i \in 1..((k + 1) - 1) : i = 1 \/ (i - 1 \in 1..(k - 1) /\ (i - 1) + 1 = i)
      BY <1>4
    <3>5. {At(i)' : i \in 1..(k - 1)} \subseteq {At(i) : i \in 1..((k + 1) - 1)}
      BY <3>1, <3>2
    <3>6. {At(i) : i \in 1..((k + 1) - 1)} \subseteq {At(1)} \cup {At(i)' : i \in 1..(k - 1)}
      <4> SUFFICES ASSUME NEW i \in 1..((k + 1) - 1), i # 1
                   PROVE  At(i) \in {At(n)' : n \in 1..(k - 1)}
        OBVIOUS
      <4>1. i - 1 \in 1..(k - 1) /\ (i - 1) + 1 = i
        BY <3>4
      <4>2. At(i - 1)' = At(i)
        BY <3>2, <4>1
      <4> QED
        BY <4>1, <4>2
    <3>7. lost' = {} => At(1) \in seen
      BY <1>6, <2>2
    <3> QED
      BY <1>3, <3>3, <3>5, <3>6, <3>7 DEF Past
  <2> QED
    BY <2>1, <2>2
<1>8. (WireLen' + 1) + cut = WireLen + 1 /\ WireLen' + 1 \in 1..(WireLen' + 1)
  BY <1>4
<1>9. /\ \A k : k = WireLen' + 1 => Past(k)' = All'
      /\ Pasts' = {Past(k)' : k \in 1..(WireLen' + 1)}
  BY DEF All, Pasts
<1>10. All' \subseteq All /\ (lost' = {} => All' = All /\ Pasts' \subseteq Pasts)
  BY <1>7, <1>8, <1>9 DEF All, Pasts
<1> QED
  BY <1>4, <1>5, <1>6, <1>10

(* Reading makes the past what it was to be once the kept events are applied. *)
LEMMA WireReads ==
  ASSUME TypeInv, ReadEvents
  PROVE  /\ WireLen' = WireLen /\ \A i : At(i)' = At(i)
         /\ All' = All /\ Pasts' \subseteq Pasts
         /\ seen' = Past(Len(buffer) + 1)
<1>1. UNCHANGED <<buffer, events>> /\ seen' = seen \cup ToSet(buffer)
  BY DEF ReadEvents, unchangedByReading, wireVars, Unseen
<1>2. /\ Len(buffer) \in Nat /\ Len(events) \in Nat /\ WireLen \in Nat /\ WireLen >= Len(buffer)
      /\ DOMAIN buffer = 1..Len(buffer)
  BY DEF TypeInv, WorkspaceTypeOK, WireLen
<1>3. WireLen' = WireLen /\ \A i : At(i)' = At(i)
  BY <1>1 DEF WireLen, At
<1>4. ToSet(buffer) = {At(i) : i \in 1..Len(buffer)}
  <2>1. \A i \in 1..Len(buffer) : At(i) = buffer[i]
    BY <1>2 DEF At
  <2> QED
    BY <1>2, <2>1 DEF ToSet
<1>5. seen' = Past(Len(buffer) + 1)
  <2>1. (Len(buffer) + 1) - 1 = Len(buffer)
    BY <1>2
  <2> QED
    BY <1>1, <1>4, <2>1 DEF Past
<1>6. ASSUME NEW k \in 1..(WireLen + 1)
      PROVE  \E m \in 1..(WireLen + 1) : m >= k /\ Past(k)' = Past(m)
  <2>0. Past(k)' = seen \cup {At(i) : i \in 1..Len(buffer)} \cup {At(i) : i \in 1..(k - 1)}
    BY <1>1, <1>3, <1>4 DEF Past
  <2>1. CASE k <= Len(buffer) + 1
    <3>1. /\ (Len(buffer) + 1) - 1 = Len(buffer)
          /\ Len(buffer) + 1 \in 1..(WireLen + 1)
          /\ \A i \in 1..(k - 1) : i \in 1..Len(buffer)
      BY <1>2, <2>1
    <3>2. Past(k)' = Past(Len(buffer) + 1)
      BY <2>0, <3>1 DEF Past
    <3> QED
      BY <2>1, <3>1, <3>2
  <2>2. CASE ~(k <= Len(buffer) + 1)
    <3>1. k >= k /\ \A i \in 1..Len(buffer) : i \in 1..(k - 1)
      BY <1>2, <2>2
    <3>2. Past(k)' = Past(k)
      BY <2>0, <3>1 DEF Past
    <3> QED
      BY <3>1, <3>2
  <2> QED
    BY <2>1, <2>2
<1>7. Pasts' \subseteq Pasts
  <2>1. Pasts' = {Past(k)' : k \in 1..(WireLen + 1)}
    BY <1>3 DEF Pasts
  <2> QED
    BY <1>6, <2>1 DEF Pasts
<1>8. All' = All
  <2>1. PICK n \in 1..(WireLen + 1) : n = WireLen + 1
    BY <1>2
  <2>2. PICK m \in 1..(WireLen + 1) : m >= n /\ Past(n)' = Past(m)
    BY <1>6, <2>1
  <2>3. m = WireLen + 1
    BY <1>2, <2>1, <2>2
  <2>4. All' = Past(n)'
    BY <1>3, <2>1 DEF All
  <2> QED
    BY <2>2, <2>3, <2>4 DEF All
<1> QED
  BY <1>3, <1>5, <1>7, <1>8

-----------------------------------------------------------------------------
(* Events and the runs they tell of *)

Kinds == {"queued", "running", "over"}
Kind(e) == IF e.status \in Final THEN "over" ELSE e.status

(* The event of this kind has been emitted for the run. *)
Due(j, k) ==
  \/ k = "queued" /\ Announced(j)
  \/ k = "running" /\ phase[j] \in {"running"} \cup Final
  \/ k = "over" /\ j \in reported

Has(S, j, k) == \E e \in S : e.job = j /\ Kind(e) = k

(* A terminal event tells of the result set that the tab still keeps. *)
RowsOK(e) ==
  /\ Kind(e) = "over" /\ e.job \in kept[target[e.job]] => e.rows
  /\ Kind(e) # "over" => ~e.rows

EventsAreTrue == \A e \in All : Due(e.job, Kind(e)) /\ RowsOK(e)
OneOfAKind == \A e, f \in All : e.job = f.job /\ Kind(e) = Kind(f) => e = f
NoneTwice == \A i, k \in 1..WireLen : At(i) = At(k) => i = k
NoneMissing == lost = {} => \A j \in JobIds : \A k \in Kinds : Due(j, k) => Has(All, j, k)

EmissionInv == EventsAreTrue /\ OneOfAKind /\ NoneTwice /\ NoneMissing

LEMMA KindTyped ==
  ASSUME NEW e \in Events
  PROVE  e.job \in JobIds /\ Kind(e) \in Kinds
BY DEF Events, Statuses, Kind, Kinds

(* No step takes back what is due. *)
RunsAdvance ==
  /\ UNCHANGED target
  /\ \A j \in JobIds : \A k \in Kinds : Due(j, k) => Due(j, k)'
  /\ \A j \in JobIds : j \in kept'[target[j]] => j \in kept[target[j]] \/ ~Due(j, "over")
  /\ \A j \in JobIds : Due(j, "queued")' => Due(j, "queued") \/ kept'[target[j]] = {}

(* A step emits the one event that becomes due with it, or none, or loses it. *)
Emits(e) ==
  /\ ~Due(e.job, Kind(e))
  /\ \A j \in JobIds : \A k \in Kinds :
       Due(j, k)' <=> Due(j, k) \/ (j = e.job /\ k = Kind(e))
  /\ RowsOK(e)'
  /\ events' = Append(events, e) /\ UNCHANGED lost

EmitsNone ==
  /\ \A j \in JobIds : \A k \in Kinds : Due(j, k)' <=> Due(j, k)
  /\ UNCHANGED <<events, lost>>

Loses == UNCHANGED events /\ lost' # {}

LEMMA ServiceEmits ==
  ASSUME TypeInv, RunsInv, NEW j \in JobIds, Service(j)
  PROVE  /\ RunsAdvance
         /\ EmitsNone \/ Loses \/ \E e \in Events : Emits(e)
<1>1. /\ target \in [JobIds -> Tabs] /\ target' = target
      /\ phase \in [JobIds -> Phases] /\ kept \in [Tabs -> SUBSET JobIds]
      /\ reported \subseteq JobIds
  BY DEF TypeInv, RunTypes, WorkspaceTypeOK, Service, RefuseCall, PrepareRun, AnnounceRun, StartRun,
     FinishRun, ReportRun, ReleaseRun, unchangedByService
<1> DEFINE t == target[j]
<1>2. t \in Tabs /\ \A i \in JobIds : target[i] \in Tabs
  BY <1>1
<1> HIDE DEF t
<1> USE DEF Due, Announced, Final, Kinds
<1>3. CASE RefuseCall(j) \/ ReleaseRun(j) \/ PrepareRun(j)
  <2>1. /\ UNCHANGED <<reported, events, lost>>
        /\ phase' = phase
             \/ (phase[j] \in {"new", "claimed"} /\ \E s \in {"refused", "claimed"} :
                   phase' = [phase EXCEPT ![j] = s])
        /\ kept' = kept \/ kept' = [kept EXCEPT ![t] = {}]
    BY <1>3 DEF RefuseCall, ReleaseRun, PrepareRun, Refuse, Abandon, Claim, Empty, Release,
       wireVars, t
  <2>2. /\ UNCHANGED <<reported, events, lost>>
        /\ \A i \in JobIds : phase'[i] = phase[i]
                \/ (phase[i] \in {"new", "claimed"} /\ phase'[i] \in {"refused", "claimed"})
        /\ \A x \in Tabs : kept'[x] \subseteq kept[x]
    BY <1>1, <1>2, <2>1
  <2>3. EmitsNone
    BY <2>2 DEF EmitsNone
  <2>4. RunsAdvance
    BY <1>1, <1>2, <2>2 DEF RunsAdvance
  <2> QED
    BY <2>3, <2>4
<1>4. CASE FinishRun(j)
  <2>1. PICK s \in Final : Finish(j, t, s) /\ UNCHANGED <<wireVars, lost>>
    BY <1>4, OutcomesAssumption DEF FinishRun, t
  <2>2. /\ UNCHANGED <<reported, events, lost>> /\ phase[j] = "running"
        /\ phase' = [phase EXCEPT ![j] = s]
        /\ kept' = kept \/ kept' = [kept EXCEPT ![t] = kept[t] \cup {j}]
    BY <2>1 DEF Finish, wireVars
  <2>3. j \notin reported
    BY <1>1, <2>2 DEF RunsInv, ToldIsTrue
  <2>4. EmitsNone
    BY <1>1, <2>1, <2>2 DEF EmitsNone
  <2>5. \A i \in JobIds : i \in kept'[target[i]] => i \in kept[target[i]] \/ i = j
    BY <1>1, <1>2, <2>2
  <2>6. RunsAdvance
    BY <1>1, <2>3, <2>4, <2>5 DEF RunsAdvance, EmitsNone
  <2> QED
    BY <2>4, <2>6
<1>5. CASE AnnounceRun(j)
  <2> DEFINE e == Event(j, "queued", FALSE)
  <2>1. /\ phase[j] = "claimed" /\ kept[t] = {} /\ phase' = [phase EXCEPT ![j] = "queued"]
        /\ UNCHANGED <<kept, reported, lost>> /\ events' = Append(events, e)
    BY <1>5 DEF AnnounceRun, Announce, Emit, t
  <2>2. e \in Events /\ e.job = j /\ Kind(e) = "queued" /\ ~e.rows
    BY DEF Event, Events, Statuses, Kind
  <2> HIDE DEF e
  <2>3. Emits(e)
    BY <1>1, <2>1, <2>2 DEF Emits, RowsOK, Kind
  <2>4. RunsAdvance
    BY <1>1, <1>2, <2>1 DEF RunsAdvance, t
  <2> QED
    BY <2>2, <2>3, <2>4
<1>6. CASE StartRun(j)
  <2> DEFINE e == Event(j, "running", FALSE)
  <2>1. /\ phase[j] = "queued" /\ phase' = [phase EXCEPT ![j] = "running"]
        /\ UNCHANGED <<kept, reported>> /\ EmitOrLose(e)
    BY <1>6 DEF StartRun, Start, t
  <2>2. e \in Events /\ e.job = j /\ Kind(e) = "running" /\ ~e.rows
    BY DEF Event, Events, Statuses, Kind
  <2> HIDE DEF e
  <2>3. Emits(e) \/ Loses
    <3>1. CASE Emit(e)
      BY <1>1, <2>1, <2>2, <3>1 DEF Emit, Emits, RowsOK, Kind
    <3> QED
      BY <2>1, <3>1 DEF EmitOrLose, Loses
  <2>4. RunsAdvance
    BY <1>1, <1>2, <2>1 DEF RunsAdvance, t
  <2> QED
    BY <2>2, <2>3, <2>4
<1>7. CASE ReportRun(j)
  <2>0. PICK r \in BOOLEAN : r = (j \in kept[t])
    <3>1. (j \in kept[t]) \in BOOLEAN
      OBVIOUS
    <3> QED
      BY <3>1, Zenon
  <2>1. /\ phase[j] \in Final /\ j \notin reported /\ reported' = reported \cup {j}
        /\ UNCHANGED <<kept, phase>>
        /\ EmitOrLose(Event(j, phase[j], r))
    BY <1>7, <2>0 DEF ReportRun, runVars, t
  <2>2. PICK e \in Events : e = Event(j, phase[j], r)
    BY <2>1 DEF Event, Events, Statuses
  <2>3. e.job = j /\ Kind(e) = "over" /\ e.rows = r
    BY <2>1, <2>2 DEF Event, Kind
  <2>4. j \in kept[target[j]] => e.rows
    BY <2>0, <2>3 DEF t
  <2>5. Emits(e) \/ Loses
    <3>1. ~Due(e.job, Kind(e))
      BY <2>1, <2>3
    <3>2. \A i \in JobIds : \A k \in Kinds :
            Due(i, k)' <=> Due(i, k) \/ (i = e.job /\ k = Kind(e))
      BY <1>1, <2>1, <2>3
    <3>3. RowsOK(e)'
      BY <1>1, <2>1, <2>3, <2>4 DEF RowsOK, Kind
    <3>4. CASE Emit(e)
      BY <3>1, <3>2, <3>3, <3>4 DEF Emit, Emits
    <3> QED
      BY <2>1, <2>2, <3>4 DEF EmitOrLose, Loses
  <2>6. RunsAdvance
    BY <1>1, <1>2, <2>1 DEF RunsAdvance, t
  <2> QED
    BY <2>5, <2>6
<1> QED
  BY <1>3, <1>4, <1>5, <1>6, <1>7 DEF Service

(* The window emits nothing, and changes no run. *)
LEMMA WindowEmitsNone ==
  ASSUME TypeInv, \/ \E j \in JobIds : Window(j)
                  \/ \E t \in Tabs : CloseTab(t)
                  \/ ReceiveEvent
                  \/ ReadEvents
                  \/ Render
                  \/ UNCHANGED workspaceVars
  PROVE  /\ UNCHANGED <<runVars, target, reported>>
         /\ RunsAdvance
         /\ \A j \in JobIds : \A k \in Kinds : Due(j, k)' <=> Due(j, k)
<1>1. UNCHANGED <<runVars, target, reported>>
  BY DEF Window, StartTabQuery, HandleAccepted, HandleRefused, CloseTab, ReceiveEvent, ReadEvents,
     Render, RenderUrgent, ComputeAhead, RenderTransition, workspaceVars, wireVars,
     unchangedByEditor, unchangedByReading, unchangedByRender
<1> QED
  BY <1>1 DEF RunsAdvance, Due, Announced, runVars, Kinds

LEMMA EmissionService ==
  ASSUME TypeInv, RunsInv, EmissionInv, NEW j \in JobIds, Service(j)
  PROVE  EmissionInv'
<1>1. /\ UNCHANGED <<buffer, seen, target>>
      /\ target \in [JobIds -> Tabs]
  BY DEF TypeInv, WorkspaceTypeOK, Service, RefuseCall, PrepareRun, AnnounceRun, StartRun,
     FinishRun, ReportRun, ReleaseRun, unchangedByService
<1>2. RunsAdvance
  BY ServiceEmits
<1>3. \A e \in All : e \in Events /\ e.job \in JobIds /\ Kind(e) \in Kinds
  BY WireTyped, KindTyped
<1>4. \A e : Kind(e)' = Kind(e)
  BY DEF Kind
<1>5. ASSUME NEW e \in All PROVE Due(e.job, Kind(e))' /\ RowsOK(e)'
  <2>1. Due(e.job, Kind(e)) /\ RowsOK(e)
    BY DEF EmissionInv, EventsAreTrue
  <2>2. Due(e.job, Kind(e))'
    BY <1>2, <1>3, <1>4, <2>1 DEF RunsAdvance
  <2>3. Kind(e) = "over" /\ e.job \in kept'[target[e.job]] => e.rows
    BY <1>2, <1>3, <2>1 DEF RunsAdvance, RowsOK
  <2> QED
    BY <1>1, <1>4, <2>1, <2>2, <2>3 DEF RowsOK
<1>6. CASE EmitsNone \/ Loses
  <2>1. WireLen' = WireLen /\ All' = All /\ \A i : At(i)' = At(i)
    BY <1>1, <1>6, WireRests DEF EmitsNone, Loses
  <2>2. EventsAreTrue'
    BY <1>5, <2>1 DEF EventsAreTrue
  <2>3. OneOfAKind' /\ NoneTwice'
    BY <1>4, <2>1 DEF EmissionInv, OneOfAKind, NoneTwice
  <2>4. NoneMissing'
    BY <1>1, <1>4, <1>6, <2>1 DEF EmissionInv, NoneMissing, Has, EmitsNone, Loses
  <2> QED
    BY <2>2, <2>3, <2>4 DEF EmissionInv
<1>7. CASE \E e \in Events : Emits(e)
  <2>1. PICK e \in Events : Emits(e)
    BY <1>7
  <2>2. /\ WireLen' = WireLen + 1 /\ WireLen \in Nat
        /\ \A i \in 1..WireLen : At(i)' = At(i)
        /\ \A n : n = WireLen + 1 => At(n)' = e
        /\ All' = All \cup {e}
    BY <1>1, <2>1, WireGrows, WireTyped DEF Emits
  <2>3. e.job \in JobIds /\ Kind(e) \in Kinds
    BY KindTyped
  <2>4. \A f \in All : ~(f.job = e.job /\ Kind(f) = Kind(e))
    BY <2>1 DEF Emits, EmissionInv, EventsAreTrue
  <2>5. EventsAreTrue'
    BY <1>4, <1>5, <2>1, <2>2, <2>3 DEF EventsAreTrue, Emits
  <2>6. OneOfAKind'
    BY <1>4, <2>2, <2>4 DEF EmissionInv, OneOfAKind
  <2>7. NoneTwice'
    <3>1. e \notin All
      BY <2>4
    <3>2. \A i \in 1..WireLen : At(i) \in All
      BY WireTyped
    <3>3. ASSUME NEW i \in 1..WireLen', NEW k \in 1..WireLen', At(i)' = At(k)' PROVE i = k
      <4>1. (i \in 1..WireLen \/ i = WireLen + 1) /\ (k \in 1..WireLen \/ k = WireLen + 1)
        BY <2>2
      <4>2. CASE i \in 1..WireLen /\ k \in 1..WireLen
        BY <2>2, <3>3, <4>2 DEF EmissionInv, NoneTwice
      <4>3. CASE i = WireLen + 1 /\ k \in 1..WireLen
        BY <2>2, <3>1, <3>2, <3>3, <4>3
      <4>4. CASE i \in 1..WireLen /\ k = WireLen + 1
        BY <2>2, <3>1, <3>2, <3>3, <4>4
      <4> QED
        BY <4>1, <4>2, <4>3, <4>4
    <3> QED
      BY <3>3 DEF NoneTwice
  <2>8. NoneMissing'
    BY <1>1, <1>4, <2>1, <2>2 DEF EmissionInv, NoneMissing, Has, Emits
  <2> QED
    BY <2>5, <2>6, <2>7, <2>8 DEF EmissionInv
<1> QED
  BY <1>6, <1>7, ServiceEmits

LEMMA EmissionStep ==
  ASSUME TypeInv, RunsInv, EmissionInv, [WorkspaceNext]_workspaceVars
  PROVE  EmissionInv'
<1>1. CASE \E j \in JobIds : Service(j)
  BY <1>1, EmissionService
<1>2. CASE \/ \E j \in JobIds : Window(j)
           \/ \E t \in Tabs : CloseTab(t)
           \/ ReceiveEvent
           \/ ReadEvents
           \/ Render
           \/ UNCHANGED workspaceVars
  <2>1. /\ UNCHANGED <<kept, target>>
        /\ \A j \in JobIds : \A k \in Kinds : Due(j, k)' <=> Due(j, k)
    BY <1>2, WindowEmitsNone DEF runVars
  <2>2. \A e : (Kind(e)' = Kind(e)) /\ (RowsOK(e)' <=> RowsOK(e))
    BY <2>1 DEF Kind, RowsOK
  <2>3. \A e \in All : e.job \in JobIds /\ Kind(e) \in Kinds
    BY WireTyped, KindTyped
  <2>4. /\ All' \subseteq All /\ lost \subseteq lost' /\ NoneTwice'
        /\ lost' = {} => All' = All
    <3>1. CASE ReceiveEvent
      <4>1. PICK cut \in {0, 1} : /\ WireLen' = WireLen - cut
                                  /\ \A i \in 1..WireLen' : At(i)' = At(i + cut)
        BY <3>1, WireMoves
      <4>2. WireLen \in Nat /\ cut \in Int
        BY WireTyped
      <4>3. ASSUME NEW i \in 1..WireLen', NEW k \in 1..WireLen', At(i)' = At(k)' PROVE i = k
        <5>1. /\ i + cut \in 1..WireLen /\ k + cut \in 1..WireLen
              /\ i + cut = k + cut => i = k
          BY <4>1, <4>2
        <5>2. At(i + cut) = At(k + cut)
          BY <4>1, <4>3
        <5> QED
          BY <5>1, <5>2 DEF EmissionInv, NoneTwice
      <4> QED
        BY <3>1, <4>3, WireMoves DEF NoneTwice
    <3>2. CASE ReadEvents
      <4>1. WireLen' = WireLen /\ All' = All /\ (\A i : At(i)' = At(i)) /\ lost' = lost
        BY <3>2, WireReads DEF ReadEvents, unchangedByReading
      <4> QED
        BY <4>1 DEF EmissionInv, NoneTwice
    <3>3. CASE \/ \E j \in JobIds : Window(j)
               \/ \E t \in Tabs : CloseTab(t)
               \/ Render
               \/ UNCHANGED workspaceVars
      <4>1. UNCHANGED <<events, buffer, seen>> /\ lost \subseteq lost'
        BY <3>3 DEF Window, StartTabQuery, HandleAccepted, HandleRefused, CloseTab, Render,
           RenderUrgent, ComputeAhead, RenderTransition, workspaceVars, wireVars,
           unchangedByEditor, unchangedByRender
      <4>2. WireLen' = WireLen /\ All' = All /\ \A i : At(i)' = At(i)
        BY <4>1, WireRests
      <4> QED
        BY <4>1, <4>2 DEF EmissionInv, NoneTwice
    <3> QED
      BY <1>2, <3>1, <3>2, <3>3
  <2>5. EventsAreTrue'
    BY <2>1, <2>2, <2>3, <2>4 DEF EmissionInv, EventsAreTrue
  <2>6. OneOfAKind'
    BY <2>2, <2>4 DEF EmissionInv, OneOfAKind
  <2>7. NoneMissing'
    BY <2>1, <2>2, <2>4 DEF EmissionInv, NoneMissing, Has
  <2> QED
    BY <2>4, <2>5, <2>6, <2>7 DEF EmissionInv
<1> QED
  BY <1>1, <1>2 DEF WorkspaceNext

-----------------------------------------------------------------------------
(* The order in which the window comes to know the events *)

(* The run is announced in S and not over. *)
Live(S, j) == Has(S, j, "queued") /\ ~Has(S, j, "over")

OneLive(S) ==
  \A i, j \in JobIds : Live(S, i) /\ Live(S, j) /\ target[i] = target[j] => i = j

InTurn(S) ==
  \A j \in JobIds : /\ Has(S, j, "over") => Has(S, j, "running")
                    /\ Has(S, j, "running") => Has(S, j, "queued")

(* The run that left the result set of a tab is the last that the tab had. *)
KeeperIsLast(S) ==
  \A t \in Tabs : \A j \in kept[t] :
    Has(S, j, "over") =>
      \A i \in JobIds : target[i] = t /\ Due(i, "queued") => Has(S, i, "over")

Ordered(S) == OneLive(S) /\ InTurn(S) /\ KeeperIsLast(S)

(* What tabs was brought up to date with was once all that had been read. *)
OrderInv == lost = {} => \A S \in Pasts \cup {inTabs} : Ordered(S)

(* Once every event is known, the window knows the runs as they are. *)
LEMMA WholeIsOrdered == TypeInv /\ RunsInv /\ EmissionInv /\ lost = {} => Ordered(All)
<1> SUFFICES ASSUME TypeInv, RunsInv, EmissionInv, lost = {}
             PROVE  Ordered(All)
  OBVIOUS
<1>1. \A j \in JobIds : \A k \in Kinds : Has(All, j, k) <=> Due(j, k)
  BY DEF EmissionInv, NoneMissing, EventsAreTrue, Has
<1>2. "queued" \in Kinds /\ "running" \in Kinds /\ "over" \in Kinds
  BY DEF Kinds
<1>3. \A j \in JobIds : /\ Due(j, "queued") <=> Announced(j)
                        /\ Due(j, "running") <=> phase[j] \in {"running"} \cup Final
                        /\ Due(j, "over") <=> j \in reported
  BY DEF Due
<1>4. \A j \in JobIds : target[j] \in Tabs
  BY DEF TypeInv, WorkspaceTypeOK
<1>5. \A j \in JobIds : Announced(j) /\ j \notin reported => j \in owner[target[j]]
  BY DEF RunsInv, OwnersAreBusy, Busy, Announced
<1>6. OneLive(All)
  <2> SUFFICES ASSUME NEW i \in JobIds, NEW j \in JobIds, Live(All, i), Live(All, j),
                      target[i] = target[j]
               PROVE  i = j
    BY DEF OneLive
  <2>1. i \in owner[target[i]] /\ j \in owner[target[i]]
    BY <1>1, <1>2, <1>3, <1>5 DEF Live
  <2> QED
    BY <1>4, <2>1 DEF RunsInv, OwnersAreBusy
<1>7. InTurn(All)
  BY <1>1, <1>2, <1>3 DEF InTurn, RunsInv, ToldIsTrue, Announced
<1>8. KeeperIsLast(All)
  <2> SUFFICES ASSUME NEW t \in Tabs, NEW j \in kept[t], Has(All, j, "over"),
                      NEW i \in JobIds, target[i] = t, Due(i, "queued"), ~Has(All, i, "over")
               PROVE  FALSE
    BY DEF KeeperIsLast
  <2>1. j \in JobIds
    BY DEF TypeInv, RunTypes
  <2>2. i \in owner[t] /\ Announced(i)
    BY <1>1, <1>2, <1>3, <1>5
  <2>3. kept[t] \subseteq {i}
    BY <2>2 DEF RunsInv, KeptOfOwner
  <2> QED
    BY <2>3
<1> QED
  BY <1>6, <1>7, <1>8 DEF Ordered

LEMMA OrderService ==
  ASSUME TypeInv, TypeInv', RunsInv, RunsInv', EmissionInv, EmissionInv', OrderInv,
         NEW j \in JobIds, Service(j)
  PROVE  OrderInv'
<1> SUFFICES ASSUME lost' = {}, NEW S, S \in Pasts' \cup {inTabs'} PROVE Ordered(S)'
  BY DEF OrderInv
<1>1. UNCHANGED <<buffer, seen, target, inTabs>>
  BY DEF Service, RefuseCall, PrepareRun, AnnounceRun, StartRun, FinishRun, ReportRun, ReleaseRun,
     unchangedByService, viewVars
<1>2. RunsAdvance /\ lost = {} /\ (EmitsNone \/ \E e \in Events : Emits(e))
  BY ServiceEmits DEF Emits, EmitsNone, Loses
<1>3. \A R, i, k : Has(R, i, k)' <=> Has(R, i, k)
  BY DEF Has, Kind
<1>4. CASE S \in Pasts \cup {inTabs}
  <2>1. Ordered(S) /\ S \subseteq All
    BY <1>2, <1>4, WireTyped DEF OrderInv, TypeInv, WorkspaceTypeOK
  <2>2. OneLive(S)' /\ InTurn(S)'
    BY <1>1, <1>3, <2>1 DEF Ordered, OneLive, InTurn, Live
  <2>3. KeeperIsLast(S)'
    <3> SUFFICES ASSUME NEW t \in Tabs, NEW i \in kept'[t], Has(S, i, "over"),
                        NEW n \in JobIds, target[n] = t, Due(n, "queued")'
                 PROVE  Has(S, n, "over")
      BY <1>1, <1>3 DEF KeeperIsLast
    <3>1. i \in JobIds /\ target[i] = t
      BY <1>1 DEF TypeInv, RunTypes, RunsInv, KeptOfOwner
    <3>2. Due(i, "over")
      BY <2>1 DEF Has, EmissionInv, EventsAreTrue
    <3>3. i \in kept[t]
      BY <1>2, <3>1, <3>2 DEF RunsAdvance
    <3>4. Due(n, "queued")
      BY <1>2 DEF RunsAdvance
    <3> QED
      BY <2>1, <3>3, <3>4 DEF Ordered, KeeperIsLast
  <2> QED
    BY <2>2, <2>3 DEF Ordered
<1>5. CASE S \notin Pasts \cup {inTabs}
  <2>1. PICK e \in Events : Emits(e)
    BY <1>1, <1>2, <1>5, WireRests DEF EmitsNone
  <2>2. All' = All \cup {e} /\ Pasts' = Pasts \cup {All \cup {e}}
    BY <1>1, <2>1, WireGrows DEF Emits
  <2>3. S = All'
    BY <1>1, <1>5, <2>2
  <2>4. Ordered(All)'
    <3>1. (TypeInv /\ RunsInv /\ EmissionInv /\ lost = {} => Ordered(All))'
      BY WholeIsOrdered, PTL
    <3> QED
      BY <3>1
  <2> HIDE DEF All
  <2> QED
    BY <2>3, <2>4
<1> QED
  BY <1>4, <1>5

LEMMA OrderStep ==
  ASSUME TypeInv, TypeInv', RunsInv, RunsInv', EmissionInv, EmissionInv', OrderInv,
         [WorkspaceNext]_workspaceVars
  PROVE  OrderInv'
<1>1. CASE \E j \in JobIds : Service(j)
  BY <1>1, OrderService
<1>2. CASE \/ \E j \in JobIds : Window(j)
           \/ \E t \in Tabs : CloseTab(t)
           \/ ReceiveEvent
           \/ ReadEvents
           \/ Render
           \/ UNCHANGED workspaceVars
  <2>1. /\ UNCHANGED <<kept, target>>
        /\ \A j \in JobIds : \A k \in Kinds : Due(j, k)' <=> Due(j, k)
    BY <1>2, WindowEmitsNone DEF runVars
  <2>2. \A S : Ordered(S) => Ordered(S)'
    <3>1. \A S, i, k : Has(S, i, k)' <=> Has(S, i, k)
      BY DEF Has, Kind
    <3>2. \A j \in JobIds : Due(j, "queued")' <=> Due(j, "queued")
      BY <2>1 DEF Kinds
    <3>3. \A S : OneLive(S) => OneLive(S)'
      BY <2>1, <3>1 DEF OneLive, Live
    <3>4. \A S : InTurn(S) => InTurn(S)'
      BY <3>1 DEF InTurn
    <3>5. \A S : KeeperIsLast(S) => KeeperIsLast(S)'
      BY <2>1, <3>1, <3>2 DEF KeeperIsLast
    <3> QED
      BY <3>3, <3>4, <3>5 DEF Ordered
  <2>3. lost \subseteq lost' /\ (lost' = {} => Pasts' \subseteq Pasts)
    <3>1. CASE ReceiveEvent
      BY <3>1, WireMoves
    <3>2. CASE ReadEvents
      BY <3>2, WireReads DEF ReadEvents, unchangedByReading
    <3>3. CASE \/ \E j \in JobIds : Window(j)
               \/ \E t \in Tabs : CloseTab(t)
               \/ Render
               \/ UNCHANGED workspaceVars
      <4>1. UNCHANGED <<events, buffer, seen>> /\ lost \subseteq lost'
        BY <3>3 DEF Window, StartTabQuery, HandleAccepted, HandleRefused, CloseTab, Render,
           RenderUrgent, ComputeAhead, RenderTransition, workspaceVars, wireVars,
           unchangedByEditor, unchangedByRender
      <4> QED
        BY <4>1, WireRests
    <3> QED
      BY <1>2, <3>1, <3>2, <3>3
  <2>4. inTabs' = inTabs \/ inTabs' \in Pasts
    <3>1. 1 \in 1..(WireLen + 1) /\ Past(1) = seen
      BY WireTyped DEF Past
    <3>2. seen \in Pasts
      BY <3>1 DEF Pasts
    <3> QED
      BY <1>2, <3>2 DEF Window, StartTabQuery, HandleAccepted, HandleRefused, CloseTab,
         ReceiveEvent, ReadEvents, Render, RenderUrgent, ComputeAhead, RenderTransition,
         workspaceVars, viewVars, unchangedByEditor, unchangedByReading
  <2> QED
    BY <2>2, <2>3, <2>4 DEF OrderInv
<1> QED
  BY <1>1, <1>2 DEF WorkspaceNext

-----------------------------------------------------------------------------
(* What the tabs show *)

(* A tab shows the run of its own that is announced and not over. *)
ShowsLive(ts, S) ==
  \A j \in JobIds : target[j] \in DOMAIN ts /\ Live(S, j) => ts[target[j]].job = j

ShowsNoOther(ts, S) ==
  \A t \in DOMAIN ts : \A j \in JobIds :
    ts[t].job = j => Due(j, "queued") /\ target[j] = t /\ ~Has(S, j, "over")

ShowsKept(ts, S) ==
  \A t \in DOMAIN ts : \A j \in kept[t] : Has(S, j, "over") => ts[t].summary = {j}

View(ts, S) == ShowsLive(ts, S) /\ ShowsNoOther(ts, S) /\ ShowsKept(ts, S)

ViewInv == late = {} /\ lost = {} => View(next, seen) /\ View(tabs, inTabs) /\ View(tabsRef, inRef)

(* Applying the next event keeps the tabs in step with what is known. *)
LEMMA ViewOfNext ==
  ASSUME TypeInv, RunsInv, EmissionInv, NEW ts \in Views, NEW S, NEW e,
         S \cup {e} \subseteq All, e \notin S, Ordered(S), Ordered(S \cup {e}), View(ts, S)
  PROVE  View(ApplyQueryEvent(ts, e), S \cup {e})
<1> DEFINE j == e.job
           t == target[e.job]
           R == S \cup {e}
           open == DOMAIN ts
           new == ApplyQueryEvent(ts, e)
<1>1. /\ e \in All /\ e \in Events /\ j \in JobIds /\ t \in Tabs /\ t = target[j]
      /\ open \subseteq Tabs /\ NoJob \notin JobIds /\ kept \in [Tabs -> SUBSET JobIds]
  BY WireTyped, KindTyped, BufferAssumption, ViewFacts DEF TypeInv, RunTypes, WorkspaceTypeOK
<1>2. \A i, k : Has(R, i, k) <=> Has(S, i, k) \/ (i = j /\ k = Kind(e))
  BY DEF Has
<1>3. ~Has(S, j, Kind(e))
  BY <1>1 DEF Has, EmissionInv, OneOfAKind
<1>4. Due(j, Kind(e)) /\ RowsOK(e)
  BY <1>1 DEF EmissionInv, EventsAreTrue
<1>5. Due(j, "queued")
  BY <1>1, <1>4 DEF Due, RunsInv, ToldIsTrue, Announced, Final
<1>6. \A x \in open : \A i \in kept[x] : i \in JobIds /\ target[i] = x
  BY <1>1 DEF RunsInv, KeptOfOwner
<1>7. Kind(e) \in Kinds /\ (Kind(e) = "over" <=> e.status \in Final)
  BY <1>1, KindTyped DEF Kind, Kinds, Events, Statuses, Final
<1>8. CASE t \notin open
  <2>1. new = ts
    BY <1>8, Zenon DEF ApplyQueryEvent
  <2>2. \A i \in JobIds : target[i] \in open => i # j
    BY <1>1, <1>8
  <2> HIDE DEF new, j, t, R, open
  <2>3. ShowsLive(ts, R)
    BY <1>2, <2>2 DEF View, ShowsLive, Live, open
  <2>4. ShowsNoOther(ts, R)
    BY <1>2, <2>2 DEF View, ShowsNoOther, open
  <2>5. ShowsKept(ts, R)
    BY <1>2, <1>6, <2>2 DEF View, ShowsKept, open
  <2> QED
    BY <2>1, <2>3, <2>4, <2>5 DEF View, new, R
<1>9. CASE t \in open
  <2> DEFINE shown == IF e.status \in Final THEN NoJob ELSE e.job
             result == IF e.rows THEN {e.job} ELSE ts[t].summary
  <2>1. /\ DOMAIN new = open /\ \A x \in open : x # t => new[x] = ts[x]
        /\ new[t].job = shown /\ new[t].summary = result
    <3> DEFINE v == [job |-> shown, summary |-> result]
    <3>1. v \in TabStates
      <4>1. ts[t].summary \in SUBSET JobIds
        BY <1>9, ViewFacts DEF TabStates
      <4> QED
        BY <1>1, <4>1 DEF TabStates
    <3>2. new = [ts EXCEPT ![t] = v]
      BY <1>9, Zenon DEF ApplyQueryEvent
    <3>3. v.job = shown /\ v.summary = result
      OBVIOUS
    <3> HIDE DEF v, new, shown, result, t
    <3> QED
      BY <1>9, <3>1, <3>2, <3>3, ViewFacts
  <2>2. /\ Kind(e) = "over" => shown = NoJob
        /\ Kind(e) # "over" => shown = j
        /\ e.rows => result = {j}
    BY <1>7
  <2> HIDE DEF new, j, t, R, shown, result, open
  <2>3. CASE Kind(e) = "over"
    <3>1. Live(S, j)
      <4>1. Has(R, j, "over") /\ "queued" # Kind(e) /\ "running" # Kind(e)
        BY <1>2, <2>3
      <4>2. Has(R, j, "queued")
        BY <1>1, <4>1 DEF Ordered, InTurn, R
      <4> QED
        BY <1>2, <1>3, <2>3, <4>1, <4>2 DEF Live
    <3>2. ShowsLive(new, R)
      <4> SUFFICES ASSUME NEW i \in JobIds, target[i] \in open, Live(R, i)
                   PROVE  new[target[i]].job = i
        BY <2>1 DEF ShowsLive
      <4>1. i # j /\ Live(S, i)
        BY <1>2, <2>3 DEF Live
      <4>2. target[i] # t
        BY <1>1, <3>1, <4>1 DEF Ordered, OneLive
      <4> QED
        BY <1>1, <2>1, <4>1, <4>2 DEF View, ShowsLive, open
    <3>3. ShowsNoOther(new, R)
      <4> SUFFICES ASSUME NEW x \in open, NEW i \in JobIds, new[x].job = i
                   PROVE  Due(i, "queued") /\ target[i] = x /\ ~Has(R, i, "over")
        BY <2>1 DEF ShowsNoOther
      <4>1. x # t
        BY <1>1, <2>1, <2>2, <2>3
      <4>2. Due(i, "queued") /\ target[i] = x /\ ~Has(S, i, "over")
        BY <1>1, <2>1, <4>1 DEF View, ShowsNoOther, open
      <4> QED
        BY <1>1, <1>2, <4>1, <4>2
    <3>4. ShowsKept(new, R)
      <4> SUFFICES ASSUME NEW x \in open, NEW i \in kept[x], Has(R, i, "over")
                   PROVE  new[x].summary = {i}
        BY <2>1 DEF ShowsKept
      <4>1. CASE i = j
        <5>1. x = t
          BY <1>1, <1>6, <4>1
        <5>2. e.rows
          BY <1>4, <2>3, <4>1, <5>1 DEF RowsOK, j, t
        <5> QED
          BY <2>1, <2>2, <4>1, <5>1, <5>2
      <4>2. CASE i # j
        <5>1. Has(S, i, "over")
          BY <1>2, <4>2
        <5>2. x # t
          BY <1>1, <1>3, <1>5, <2>3, <5>1 DEF Ordered, KeeperIsLast
        <5> QED
          BY <1>1, <2>1, <5>1, <5>2 DEF View, ShowsKept, open
      <4> QED
        BY <4>1, <4>2
    <3> QED
      BY <3>2, <3>3, <3>4 DEF View, new, R
  <2>4. CASE Kind(e) # "over"
    <3>1. ~Has(S, j, "over") /\ ~Has(R, j, "over")
      <4>1. Kind(e) = "queued" \/ Kind(e) = "running"
        BY <1>7, <2>4 DEF Kinds
      <4>2. ~Has(S, j, "over")
        BY <1>1, <1>3, <4>1 DEF Ordered, InTurn
      <4> QED
        BY <1>2, <2>4, <4>2
    <3>2. Live(R, j)
      <4>1. Has(R, j, Kind(e)) /\ (Kind(e) = "queued" \/ Kind(e) = "running")
        BY <1>2, <1>7, <2>4 DEF Kinds
      <4>2. Has(R, j, "queued")
        BY <1>1, <4>1 DEF Ordered, InTurn, R
      <4> QED
        BY <3>1, <4>2 DEF Live
    <3>3. ShowsLive(new, R)
      <4> SUFFICES ASSUME NEW i \in JobIds, target[i] \in open, Live(R, i)
                   PROVE  new[target[i]].job = i
        BY <2>1 DEF ShowsLive
      <4>1. CASE target[i] = t
        <5>1. i = j
          BY <1>1, <3>2, <4>1 DEF Ordered, OneLive, R
        <5> QED
          BY <2>1, <2>2, <2>4, <4>1, <5>1
      <4>2. CASE target[i] # t
        <5>1. i # j /\ Live(S, i)
          BY <1>1, <1>2, <4>2 DEF Live
        <5> QED
          BY <1>1, <2>1, <4>2, <5>1 DEF View, ShowsLive, open
      <4> QED
        BY <4>1, <4>2
    <3>4. ShowsNoOther(new, R)
      <4> SUFFICES ASSUME NEW x \in open, NEW i \in JobIds, new[x].job = i
                   PROVE  Due(i, "queued") /\ target[i] = x /\ ~Has(R, i, "over")
        BY <2>1 DEF ShowsNoOther
      <4>1. CASE x = t
        BY <1>1, <1>5, <2>1, <2>2, <2>4, <3>1, <4>1
      <4>2. CASE x # t
        <5>1. Due(i, "queued") /\ target[i] = x /\ ~Has(S, i, "over")
          BY <1>1, <2>1, <4>2 DEF View, ShowsNoOther, open
        <5> QED
          BY <1>2, <2>4, <5>1
      <4> QED
        BY <4>1, <4>2
    <3>5. ShowsKept(new, R)
      <4> SUFFICES ASSUME NEW x \in open, NEW i \in kept[x], Has(R, i, "over")
                   PROVE  new[x].summary = {i}
        BY <2>1 DEF ShowsKept
      <4>1. Has(S, i, "over")
        BY <1>2, <2>4
      <4>2. x # t
        BY <1>1, <1>5, <3>1, <4>1 DEF Ordered, KeeperIsLast
      <4> QED
        BY <1>1, <2>1, <4>1, <4>2 DEF View, ShowsKept, open
    <3> QED
      BY <3>3, <3>4, <3>5 DEF View, new, R
  <2> QED
    BY <2>3, <2>4 DEF new, R
<1> QED
  BY <1>8, <1>9

(* So applying the kept events one after the other does. *)
LEMMA ViewRead ==
  ASSUME TypeInv, RunsInv, EmissionInv, OrderInv, lost = {}, View(next, seen)
  PROVE  View(FoldLeft(ApplyIfUnseen, next, buffer), Past(Len(buffer) + 1))
<1> DEFINE G == {p \in (0..Len(buffer)) \X Views : View(p[2], Past(p[1] + 1))}
<1>1. /\ next \in Views /\ buffer \in Seq(Events) /\ target \in [JobIds -> Tabs]
      /\ Len(buffer) \in Nat /\ WireLen \in Nat /\ Len(buffer) <= WireLen
  BY WireTyped DEF TypeInv, WorkspaceTypeOK, WireLen
<1>2. <<0, next>> \in G
  <2>1. Past(0 + 1) = seen
    BY DEF Past
  <2> QED
    BY <1>1, <2>1
<1>3. ASSUME NEW k \in 1..Len(buffer), NEW ts, <<k - 1, ts>> \in G
      PROVE  <<k, ApplyIfUnseen(ts, buffer[k])>> \in G
  <2> DEFINE e == buffer[k]
             S == Past(k)
  <2>1. /\ k \in Nat /\ (k - 1) + 1 = k /\ (k + 1) - 1 = k /\ k \in 1..WireLen
        /\ 1..k = (1..(k - 1)) \cup {k} /\ k \notin 1..(k - 1)
        /\ \A i \in 1..(k - 1) : i \in 1..WireLen
        /\ k \in 1..(WireLen + 1) /\ k + 1 \in 1..(WireLen + 1)
    BY <1>1
  <2>2. ts \in Views /\ View(ts, S)
    BY <1>3, <2>1
  <2>3. e = At(k) /\ e \in Events
    BY <1>1 DEF At
  <2>4. Past(k + 1) = S \cup {e}
    BY <2>1, <2>3 DEF Past
  <2>5. Ordered(S) /\ Ordered(S \cup {e}) /\ S \cup {e} \subseteq All
    <3>1. S \in Pasts /\ S \cup {e} \in Pasts
      BY <2>1, <2>4 DEF Pasts
    <3> QED
      BY <3>1, WireTyped DEF OrderInv
  <2>6. ApplyIfUnseen(ts, e) \in Views /\ k \in 0..Len(buffer)
    BY <1>1, <2>2, <2>3, ApplyTyped
  <2>7. View(ApplyIfUnseen(ts, e), S \cup {e})
    <3>1. CASE e \in seen
      <4>1. S \cup {e} = S
        BY <3>1 DEF Past
      <4> QED
        BY <2>2, <3>1, <4>1 DEF ApplyIfUnseen
    <3>2. CASE e \notin seen
      <4>1. e \notin S
        BY <2>1, <2>3, <3>2 DEF Past, EmissionInv, NoneTwice
      <4>2. View(ApplyQueryEvent(ts, e), S \cup {e})
        <5> HIDE DEF S, e
        <5> QED
          BY <2>2, <2>5, <4>1, ViewOfNext
      <4> QED
        BY <3>2, <4>2 DEF ApplyIfUnseen
    <3> QED
      BY <3>1, <3>2
  <2> HIDE DEF S, e
  <2>8. View(ApplyIfUnseen(ts, e), Past(k + 1))
    BY <2>4, <2>7
  <2> QED
    BY <2>6, <2>8 DEF e
<1> HIDE DEF G
<1>4. <<Len(buffer), FoldLeft(ApplyIfUnseen, next, buffer)>> \in G
  BY <1>1, <1>2, <1>3, FoldInduction
<1> QED
  BY <1>4 DEF G

(* A step of the service keeps a view in step with the events it was brought up
   to date with. *)
LEMMA ViewService ==
  ASSUME TypeInv, RunsInv, EmissionInv, NEW j \in JobIds, Service(j),
         NEW ts \in Views, NEW S, S \subseteq seen, View(ts, S), UNCHANGED <<ts, S>>
  PROVE  View(ts, S)'
<1>0. \A R, i, k : Has(R, i, k)' <=> Has(R, i, k)
  BY DEF Has, Kind
<1>1. UNCHANGED target /\ DOMAIN ts \subseteq Tabs
  BY ViewFacts DEF Service, RefuseCall, PrepareRun, AnnounceRun, StartRun, FinishRun, ReportRun,
     ReleaseRun, unchangedByService
<1>2. RunsAdvance /\ "queued" \in Kinds
  BY ServiceEmits DEF Kinds
<1>3. ShowsLive(ts, S)'
  BY <1>0, <1>1 DEF View, ShowsLive, Live
<1>4. ShowsNoOther(ts, S)'
  BY <1>0, <1>1, <1>2 DEF View, ShowsNoOther, RunsAdvance
<1>5. ShowsKept(ts, S)'
  <2> SUFFICES ASSUME NEW t \in DOMAIN ts, NEW i \in kept'[t], Has(S, i, "over")
               PROVE  ts[t].summary = {i}
    BY <1>0, <1>1 DEF ShowsKept
  <2>1. t \in Tabs
    BY <1>1
  <2>2. (TypeInv /\ RunsInv)'
    BY ServiceTyped, RunsService
  <2>3. i \in JobIds /\ target[i] = t
    BY <1>1, <2>1, <2>2 DEF TypeInv, RunTypes, RunsInv, KeptOfOwner
  <2>4. Due(i, "over")
    BY WireTyped DEF Has, EmissionInv, EventsAreTrue, All, Past
  <2>5. i \in kept[t]
    BY <1>2, <2>3, <2>4 DEF RunsAdvance
  <2> QED
    BY <2>5 DEF View, ShowsKept
<1> QED
  BY <1>3, <1>4, <1>5 DEF View

(* So does a reply that comes in its turn. *)
LEMMA ViewQueued ==
  ASSUME TypeInv, RunsInv, NEW j \in JobIds, call[j] = "accepted",
         NEW ts \in Views, NEW S, S \subseteq Events, Ordered(S), View(ts, S),
         ~Has(S, j, "over"), ~ShowsAnother(ts, j)
  PROVE  View(ShowQueued(ts, j), S)
<1> DEFINE t == target[j]
           new == ShowQueued(ts, j)
<1>1. /\ t \in Tabs /\ DOMAIN ts \subseteq Tabs /\ NoJob \notin JobIds
      /\ kept \in [Tabs -> SUBSET JobIds]
  BY ViewFacts, BufferAssumption DEF TypeInv, RunTypes, WorkspaceTypeOK
<1>2. Due(j, "queued")
  BY DEF RunsInv, ToldIsTrue, Due
<1>3. CASE t \notin DOMAIN ts
  BY <1>3 DEF ShowQueued
<1>4. CASE t \in DOMAIN ts
  <2>1. ts[t].job \in {NoJob, j}
    BY <1>4 DEF ShowsAnother
  <2>2. /\ DOMAIN new = DOMAIN ts /\ \A x \in DOMAIN ts : x # t => new[x] = ts[x]
        /\ new[t].job = j
    <3> DEFINE v == [job |-> j, summary |-> {}]
    <3>1. v \in TabStates /\ v.job = j
      BY DEF TabStates
    <3>2. new = [ts EXCEPT ![t] = v]
      BY <1>4, Zenon DEF ShowQueued
    <3> HIDE DEF v, new, t
    <3> QED
      BY <1>4, <3>1, <3>2, ViewFacts
  <2> HIDE DEF new
  <2>3. ShowsLive(new, S)
    <3> SUFFICES ASSUME NEW i \in JobIds, target[i] \in DOMAIN ts, Live(S, i)
                 PROVE  new[target[i]].job = i
      BY <2>2 DEF ShowsLive
    <3>1. ts[target[i]].job = i
      BY DEF View, ShowsLive
    <3> QED
      BY <1>1, <2>1, <2>2, <3>1
  <2>4. ShowsNoOther(new, S)
    <3> SUFFICES ASSUME NEW x \in DOMAIN ts, NEW i \in JobIds, new[x].job = i
                 PROVE  Due(i, "queued") /\ target[i] = x /\ ~Has(S, i, "over")
      BY <2>2 DEF ShowsNoOther
    <3> QED
      BY <1>2, <2>2 DEF View, ShowsNoOther
  <2>5. ShowsKept(new, S)
    <3> SUFFICES ASSUME NEW x \in DOMAIN ts, NEW i \in kept[x], Has(S, i, "over")
                 PROVE  new[x].summary = {i}
      BY <2>2 DEF ShowsKept
    <3>1. x # t
      BY <1>1, <1>2 DEF Ordered, KeeperIsLast
    <3> QED
      BY <2>2, <3>1 DEF View, ShowsKept
  <2> QED
    BY <2>3, <2>4, <2>5 DEF View, new
<1> QED
  BY <1>3, <1>4

(* A view says the same before and after a step that changes no run. *)
LEMMA ViewRests ==
  ASSUME UNCHANGED <<runVars, target, reported>>
  PROVE  \A ts, S : /\ ShowsLive(ts, S) <=> ShowsLive(ts, S)'
                    /\ ShowsNoOther(ts, S) <=> ShowsNoOther(ts, S)'
                    /\ ShowsKept(ts, S) <=> ShowsKept(ts, S)'
BY DEF ShowsLive, ShowsNoOther, ShowsKept, Live, Has, Kind, Due, Announced, runVars

LEMMA ViewStep ==
  ASSUME TypeInv, RunsInv, EmissionInv, OrderInv, ViewInv, [WorkspaceNext]_workspaceVars
  PROVE  ViewInv'
<1> SUFFICES ASSUME late' = {}, lost' = {}
             PROVE  (View(next, seen) /\ View(tabs, inTabs) /\ View(tabsRef, inRef))'
  BY DEF ViewInv
<1>0. /\ next \in Views /\ tabs \in Views /\ tabsRef \in Views
      /\ inTabs \subseteq seen /\ inRef \subseteq seen /\ seen \subseteq Events
  BY DEF TypeInv, WorkspaceTypeOK
<1>1. ASSUME NEW j \in JobIds, Service(j)
      PROVE  (View(next, seen) /\ View(tabs, inTabs) /\ View(tabsRef, inRef))'
  <2>1. UNCHANGED <<next, tabs, tabsRef, inTabs, inRef, seen, late>> /\ lost \subseteq lost'
    BY <1>1 DEF Service, RefuseCall, PrepareRun, AnnounceRun, StartRun, FinishRun, ReportRun,
       ReleaseRun, Emit, EmitOrLose, unchangedByService, viewVars
  <2>2. View(next, seen) /\ View(tabs, inTabs) /\ View(tabsRef, inRef)
    BY <2>1 DEF ViewInv
  <2> QED
    BY <1>0, <1>1, <2>1, <2>2, ViewService
<1>2. CASE \/ \E j \in JobIds : Window(j)
           \/ \E t \in Tabs : CloseTab(t)
           \/ ReceiveEvent
           \/ ReadEvents
           \/ Render
           \/ UNCHANGED workspaceVars
  <2>1. UNCHANGED <<runVars, target, reported>>
    BY <1>2, WindowEmitsNone
  <2>2. View(next', seen') /\ View(tabs', inTabs') /\ View(tabsRef', inRef')
    <3>1. late = {} /\ lost = {}
      <4>1. late \subseteq late' /\ lost \subseteq lost'
        BY <1>2, WireMoves DEF Window, StartTabQuery, HandleAccepted, HandleRefused, CloseTab,
           ReceiveEvent, ReadEvents, Render, RenderUrgent, ComputeAhead, RenderTransition,
           workspaceVars, unchangedByEditor, unchangedByReading, unchangedByRender
      <4> QED
        BY <4>1
    <3>2. View(next, seen) /\ View(tabs, inTabs) /\ View(tabsRef, inRef)
      BY <3>1 DEF ViewInv
    <3>3. ASSUME NEW j \in JobIds, HandleAccepted(j)
          PROVE  View(next', seen') /\ View(tabs', inTabs') /\ View(tabsRef', inRef')
      <4>1. /\ UNCHANGED <<seen, inTabs, tabsRef, inRef>> /\ call[j] = "accepted"
            /\ next' = ShowQueued(next, j) /\ tabs' = ShowQueued(tabs, j)
            /\ ~\E e \in seen : e.job = j /\ e.status \in Final
            /\ ~ShowsAnother(next, j) /\ ~ShowsAnother(tabs, j)
        BY <3>3 DEF HandleAccepted, unchangedByEditor
      <4>2. Ordered(seen) /\ Ordered(inTabs)
        <5>1. 1 \in 1..(WireLen + 1) /\ Past(1) = seen
          BY WireTyped DEF Past
        <5>2. seen \in Pasts
          BY <5>1 DEF Pasts
        <5> QED
          BY <3>1, <5>2 DEF OrderInv
      <4>3. ~Has(seen, j, "over") /\ ~Has(inTabs, j, "over")
        <5>1. \A e \in seen : Kind(e) = "over" => e.status \in Final
          BY <1>0 DEF Events, Statuses, Kind, Final
        <5> QED
          BY <1>0, <4>1, <5>1 DEF Has
      <4>4. inTabs \subseteq Events
        BY <1>0
      <4> QED
        BY <1>0, <3>2, <4>1, <4>2, <4>3, <4>4, ViewQueued
    <3>4. ASSUME NEW t \in Tabs, CloseTab(t)
          PROVE  View(next', seen') /\ View(tabs', inTabs') /\ View(tabsRef', inRef')
      <4>1. /\ UNCHANGED <<seen, tabs, inTabs, tabsRef, inRef, target>>
            /\ next' = Restrict(tabsRef, DOMAIN tabsRef \ {t})
            /\ \A e \in seen \ inRef : target[e.job] \notin DOMAIN next'
        BY <3>4 DEF CloseTab, wireVars
      <4>2. DOMAIN next' \subseteq DOMAIN tabsRef /\ \A x \in DOMAIN next' : next'[x] = tabsRef[x]
        BY <1>0, <4>1, RestrictFacts
      <4>3. \A j \in JobIds : target[j] \in DOMAIN next' =>
              \A k : Has(seen, j, k) <=> Has(inRef, j, k)
        BY <1>0, <4>1 DEF Has
      <4>4. DOMAIN tabsRef \subseteq Tabs
        BY <1>0, ViewFacts
      <4>5. ShowsLive(next', seen)
        BY <3>2, <4>2, <4>3 DEF View, ShowsLive, Live
      <4>6. ShowsNoOther(next', seen)
        BY <3>2, <4>2, <4>3 DEF View, ShowsNoOther
      <4>7. ShowsKept(next', seen)
        <5>1. \A x \in DOMAIN next' : \A i \in kept[x] : i \in JobIds /\ target[i] = x
          BY <4>2, <4>4 DEF TypeInv, RunTypes, RunsInv, KeptOfOwner
        <5> QED
          BY <3>2, <4>2, <4>3, <5>1 DEF View, ShowsKept
      <4> QED
        BY <3>2, <4>1, <4>5, <4>6, <4>7 DEF View
    <3>5. CASE ReadEvents
      <4>1. /\ UNCHANGED <<tabs, inTabs, tabsRef, inRef>>
            /\ next' = FoldLeft(ApplyIfUnseen, next, buffer)
            /\ seen' = Past(Len(buffer) + 1)
        BY <3>5, WireReads DEF ReadEvents, unchangedByReading
      <4> QED
        BY <3>1, <3>2, <4>1, ViewRead
    <3>6. CASE Render
      BY <3>2, <3>6 DEF Render, RenderUrgent, ComputeAhead, RenderTransition, unchangedByRender
    <3>7. CASE \/ \E j \in JobIds : StartTabQuery(j) \/ HandleRefused(j)
               \/ ReceiveEvent
               \/ UNCHANGED workspaceVars
      <4>1. UNCHANGED <<next, seen, tabs, inTabs, tabsRef, inRef>>
        BY <3>7 DEF StartTabQuery, HandleRefused, ReceiveEvent, workspaceVars, unchangedByEditor,
           viewVars
      <4> QED
        BY <3>2, <4>1
    <3> QED
      BY <1>2, <3>3, <3>4, <3>5, <3>6, <3>7 DEF Window
  <2> QED
    BY <2>1, <2>2, ViewRests DEF View
<1> QED
  BY <1>1, <1>2 DEF WorkspaceNext

-----------------------------------------------------------------------------
(* The theorems *)

WorkspaceInv == TypeInv /\ RunsInv /\ EmissionInv /\ OrderInv /\ ViewInv

LEMMA WorkspaceStart ==
  ASSUME WorkspaceInit
  PROVE  WorkspaceInv
<1>1. TypeInv
  BY TypeStart
<1>2. /\ \A j \in JobIds : phase[j] = "new" /\ call[j] = "none"
      /\ \A t \in Tabs : owner[t] = {} /\ kept[t] = {} /\ next[t].job = NoJob
      /\ reported = {} /\ events = <<>> /\ buffer = <<>> /\ seen = {} /\ lost = {}
      /\ DOMAIN next = Tabs /\ tabs = next /\ tabsRef = next /\ inTabs = {} /\ inRef = {}
  BY DEF WorkspaceInit, Init
<1>3. RunsInv
  BY <1>2 DEF RunsInv, OwnersAreBusy, ToldIsTrue, KeptOfOwner, Busy, Announced, Final
<1>4. WireLen = 0 /\ All = {} /\ \A S \in Pasts : S = {}
  <2>1. WireLen = 0
    BY <1>2 DEF WireLen
  <2>2. All = {}
    BY <1>1, <1>2, <2>1, WireTyped
  <2> QED
    BY <1>1, <2>1, <2>2, WireTyped
<1>5. \A j \in JobIds : \A k : ~Due(j, k)
  BY <1>2 DEF Due, Announced, Final
<1>6. EmissionInv
  BY <1>4, <1>5 DEF EmissionInv, EventsAreTrue, OneOfAKind, NoneTwice, NoneMissing
<1>7. OrderInv
  BY <1>2, <1>4 DEF OrderInv, Ordered, OneLive, InTurn, KeeperIsLast, Live, Has
<1>8. ViewInv
  BY <1>2, BufferAssumption DEF ViewInv, View, ShowsLive, ShowsNoOther, ShowsKept, Live, Has
<1> QED
  BY <1>1, <1>3, <1>6, <1>7, <1>8 DEF WorkspaceInv

LEMMA WorkspaceStep ==
  ASSUME WorkspaceInv, [WorkspaceNext]_workspaceVars
  PROVE  WorkspaceInv'
<1> USE DEF WorkspaceInv
<1>1. TypeInv'
  BY TypeStep
<1>2. RunsInv'
  BY RunsStep
<1>3. EmissionInv'
  BY EmissionStep
<1>4. OrderInv'
  BY <1>1, <1>2, <1>3, OrderStep
<1>5. ViewInv'
  BY ViewStep
<1> QED
  BY <1>1, <1>2, <1>3, <1>4, <1>5

(* The service's runs and tabs, the events emitted and on their way, and what
   the tabs show keep the relations stated above in every step of either side. *)
THEOREM WorkspaceCorrect == WorkspaceSpec => []WorkspaceInv
<1>1. WorkspaceInit => WorkspaceInv
  BY WorkspaceStart
<1>2. WorkspaceInv /\ [WorkspaceNext]_workspaceVars => WorkspaceInv'
  BY WorkspaceStep
<1> QED
  BY <1>1, <1>2, PTL DEF WorkspaceSpec

(* Every variable of the composition keeps its type: the buffer never holds more
   than EventBuffer events, and no event or reply puts a tab in a state the
   window does not know. *)
THEOREM WorkspaceTyped == WorkspaceSpec => []WorkspaceTypeOK
<1>1. WorkspaceInv => WorkspaceTypeOK
  BY DEF WorkspaceInv, TypeInv
<1> QED
  BY <1>1, WorkspaceCorrect, PTL

LEMMA RenderedIsHas ==
  ASSUME TypeInv, NEW j
  PROVE  /\ Rendered(j, {"queued"}) <=> Has(inRef, j, "queued")
         /\ Rendered(j, Final) <=> Has(inRef, j, "over")
<1>1. inRef \subseteq Events
  BY DEF TypeInv, WorkspaceTypeOK
<1>2. \A e \in inRef : /\ Kind(e) = "queued" <=> e.status = "queued"
                       /\ Kind(e) = "over" <=> e.status \in Final
  BY <1>1 DEF Events, Statuses, Kind, Final
<1> QED
  BY <1>2 DEF Rendered, Has

(* However the replies, the events, the renders of either kind and the closing of
   other tabs interleave: a tab that has its run's queued event, and not its
   terminal event, names that run in the tabs that cancelTabQuery of
   useQueryWorkspace.ts reads.  It takes that no reply was out of turn, and that
   every event emitted was applied: none failed to be emitted, left the buffer
   unread or was overwritten by a close before it was rendered. *)
THEOREM ShownRunsCancellable == WorkspaceSpec => []ShownRunIsCancellable
<1>1. WorkspaceInv => ShownRunIsCancellable
  BY RenderedIsHas DEF WorkspaceInv, ViewInv, View, ShowsLive, Live, ShownRunIsCancellable
<1> QED
  BY <1>1, WorkspaceCorrect, PTL

(* At rest the window knows all there is to know, and shows it. *)
LEMMA AtRest ==
  ASSUME WorkspaceInv, Quiescent, late = {}, lost = {}
  PROVE  /\ \A j \in JobIds : \A k \in Kinds : Due(j, k) => Has(seen, j, k)
         /\ \A t \in Tabs : owner[t] = {}
         /\ \A j \in JobIds : ~Busy(j)
         /\ View(tabsRef, seen)
<1>1. TypeInv
  BY DEF WorkspaceInv
<1>2. /\ events = <<>> /\ DOMAIN buffer = 1..Len(buffer) /\ Len(buffer) \in Nat
      /\ \A i \in 1..Len(buffer) : buffer[i] \in seen
  BY <1>1 DEF Quiescent, Unseen, ToSet, TypeInv, WorkspaceTypeOK
<1>3. All = seen
  <2>1. WireLen = Len(buffer)
    BY <1>2 DEF WireLen
  <2>2. \A i \in 1..WireLen : At(i) \in seen
    BY <1>2, <2>1 DEF At
  <2> QED
    BY <1>1, <2>2, WireTyped
<1>4. \A t \in Tabs : owner[t] = {}
  BY DEF Quiescent
<1>5. \A j \in JobIds : target[j] \in Tabs
  BY <1>1 DEF TypeInv, WorkspaceTypeOK
<1>6. \A j \in JobIds : ~Busy(j)
  BY <1>4, <1>5 DEF WorkspaceInv, RunsInv, OwnersAreBusy
<1>7. View(tabsRef, seen)
  BY DEF Quiescent, WorkspaceInv, ViewInv
<1> QED
  BY <1>3, <1>4, <1>6, <1>7 DEF WorkspaceInv, EmissionInv, NoneMissing

(* On the same two conditions, and once everything is rendered, a tab whose runs
   are all over shows no job, so that startTabQuery takes the next one: whichever
   of its runs were refused meanwhile, and whichever other tabs closed. *)
THEOREM FreeTabsRun == WorkspaceSpec => []FreeTabCanRun
<1>1. ASSUME WorkspaceInv PROVE FreeTabCanRun
  <2> SUFFICES ASSUME Quiescent, late = {}, lost = {}, NEW t \in DOMAIN tabsRef,
                      tabsRef[t].job # NoJob
               PROVE  FALSE
    BY DEF FreeTabCanRun
  <2>1. t \in Tabs /\ tabsRef[t].job \in JobIds
    BY <1>1, ViewFacts DEF WorkspaceInv, TypeInv, WorkspaceTypeOK, TabStates
  <2> DEFINE j == tabsRef[t].job
  <2>2. Due(j, "queued") /\ ~Has(seen, j, "over")
    BY <1>1, <2>1, AtRest DEF View, ShowsNoOther
  <2>3. ~Due(j, "over") /\ ~Busy(j)
    BY <1>1, <2>1, <2>2, AtRest DEF Kinds
  <2> HIDE DEF j
  <2> QED
    BY <2>2, <2>3 DEF Due, Announced, Busy
<1> QED
  BY <1>1, WorkspaceCorrect, PTL

(* On the same two conditions, a tab at rest shows the result set that the service
   keeps for it, whichever runs it had before and whichever other tabs closed. *)
THEOREM KeptResultsShown == WorkspaceSpec => []KeptResultIsShown
<1>1. ASSUME WorkspaceInv PROVE KeptResultIsShown
  <2> SUFFICES ASSUME Quiescent, late = {}, lost = {}, NEW t \in DOMAIN tabsRef,
                      NEW j \in kept[t]
               PROVE  tabsRef[t].summary = kept[t]
    BY DEF KeptResultIsShown
  <2>1. t \in Tabs /\ j \in JobIds
    BY <1>1, ViewFacts DEF WorkspaceInv, TypeInv, RunTypes, WorkspaceTypeOK
  <2>2. phase[j] = "completed" /\ kept[t] = {j}
    BY <1>1, <2>1 DEF WorkspaceInv, RunsInv, KeptOfOwner
  <2>3. Due(j, "over")
    BY <1>1, <2>1, <2>2, AtRest DEF Busy, Final, Due
  <2>4. Has(seen, j, "over")
    BY <1>1, <2>1, <2>3, AtRest DEF Kinds
  <2> QED
    BY <1>1, <2>2, <2>4, AtRest DEF View, ShowsKept
<1> QED
  BY <1>1, WorkspaceCorrect, PTL

(* The service as the window meets it still does what TabRuns promises. *)
THEOREM ComposedServiceRuns == WorkspaceSpec => Spec
<1>1. WorkspaceInit => Init
  BY DEF WorkspaceInit
<1>2. TypeInv /\ [WorkspaceNext]_workspaceVars => [Next]_runVars
  <2> SUFFICES ASSUME TypeInv, [WorkspaceNext]_workspaceVars
               PROVE  [Next]_runVars
    OBVIOUS
  <2>1. ASSUME NEW j \in JobIds, Service(j) PROVE [Next]_runVars
    <3>1. target[j] \in Tabs
      BY DEF TypeInv, WorkspaceTypeOK
    <3> QED
      BY <2>1, <3>1, OutcomesAssumption DEF Service, RefuseCall, PrepareRun, AnnounceRun,
         StartRun, FinishRun, ReportRun, ReleaseRun, Next
  <2>2. CASE \/ \E j \in JobIds : Window(j)
             \/ \E t \in Tabs : CloseTab(t)
             \/ ReceiveEvent
             \/ ReadEvents
             \/ Render
             \/ UNCHANGED workspaceVars
    BY <2>2, WindowEmitsNone
  <2> QED
    BY <2>1, <2>2 DEF WorkspaceNext
<1>3. WorkspaceInv => TypeInv
  BY DEF WorkspaceInv
<1> QED
  BY <1>1, <1>2, <1>3, WorkspaceCorrect, PTL DEF WorkspaceSpec, Spec

==============================================================================
