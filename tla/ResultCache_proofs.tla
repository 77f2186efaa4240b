------------------------- MODULE ResultCache_proofs -------------------------
(***************************************************************************)
(* What the window cache keeps for every number of calls, every table and   *)
(* every page size: a known total is that of the cached filter, the cached  *)
(* pages are those of their view, and so is every window that is returned.  *)
(***************************************************************************)
EXTENDS ResultCache, FiniteSetTheorems, WellFoundedInduction, TLAPS

-----------------------------------------------------------------------------
(* Arithmetic *)

LEMMA LeastNat ==
  ASSUME NEW T, T \subseteq Nat, T # {}
  PROVE  \E x \in T : \A y \in T : x <= y
<1>1. IsWellFoundedOn(OpToRel(<, Nat), Nat)
  BY NatLessThanWellFounded
<1>2. PICK x \in T : \A y \in T : ~ (<<y, x>> \in OpToRel(<, Nat))
  BY <1>1, WFMin, Zenon
<1>3. ASSUME NEW y \in T PROVE x <= y
  <2>1. ~ (y < x)
    BY <1>2 DEF OpToRel
  <2> QED BY <2>1
<1> QED BY <1>3

LEMMA DivBounds ==
  ASSUME NEW a \in Nat, NEW n \in Nat \ {0}
  PROVE  (a \div n) \in Nat /\ (a \div n) * n <= a /\ a < (a \div n) * n + n
OBVIOUS

LEMMA NextMultiple ==
  ASSUME NEW a \in Nat, NEW b \in Nat, NEW n \in Nat \ {0}, a < b
  PROVE  a * n + n <= b * n
OBVIOUS

(* A quotient is monotone in what is divided. *)
LEMMA DivMonotone ==
  ASSUME NEW a \in Nat, NEW b \in Nat, NEW n \in Nat \ {0}, a <= b
  PROVE  a \div n <= b \div n
<1> DEFINE x == a \div n
           y == b \div n
<1>1. x \in Nat /\ x * n <= a
  BY DivBounds
<1>2. y \in Nat /\ b < y * n + n
  BY DivBounds
<1> HIDE DEF x, y
<1>3. y < x => y * n + n <= x * n
  BY <1>1, <1>2, NextMultiple
<1>4. x * n \in Nat /\ y * n \in Nat
  BY <1>1, <1>2
<1>5. x <= y
  BY <1>1, <1>2, <1>3, <1>4
<1> QED BY <1>5 DEF x, y

-----------------------------------------------------------------------------
(* Missing ranges *)

Ranges == {r \in [start : Nat, end : Nat] : r.start <= r.end}

(* Every page of the range that is not cached is in one of the runs that
   missing_page_ranges returns. *)
LEMMA GapsCover ==
  ASSUME NEW cached, NEW range \in Ranges,
         NEW p \in range.start..range.end, p \notin cached
  PROVE  \E gap \in MissingRanges(cached, range) : p \in gap.start..gap.end
<1> DEFINE Up == {e \in Nat : e \in p..range.end /\ (e = range.end \/ e + 1 \in cached)}
           Down == {k \in Nat : /\ p - k >= range.start
                                /\ p - k = range.start \/ p - k - 1 \in cached}
<1>0. range.start \in Nat /\ range.end \in Nat /\ p \in Nat /\ range.start <= p /\ p <= range.end
  BY DEF Ranges
<1>1. range.end \in Up
  BY <1>0
<1>2. PICK e \in Up : \A y \in Up : e <= y
  BY <1>1, LeastNat
<1>3. p - range.start \in Down
  BY <1>0
<1>4. PICK k \in Down : \A y \in Down : k <= y
  BY <1>3, LeastNat
<1> DEFINE gap == [start |-> p - k, end |-> e]
<1>5. \A y \in p..e : y \notin cached
  <2> SUFFICES ASSUME NEW y \in p..e, y \in cached PROVE FALSE
    OBVIOUS
  <2>1. y # p /\ y \in Nat /\ y > p /\ y <= e
    BY <1>0, <1>2
  <2>2. y - 1 \in Up
    BY <2>1, <1>0, <1>2
  <2> QED BY <2>1, <2>2, <1>2
<1>6. \A y \in (p - k)..p : y \notin cached
  <2> SUFFICES ASSUME NEW y \in (p - k)..p, y \in cached PROVE FALSE
    OBVIOUS
  <2>1. y # p /\ y \in Nat /\ y < p /\ y >= p - k
    BY <1>0, <1>4
  <2>2. p - (y + 1) \in Down
    <3>1. p - (y + 1) \in Nat
      BY <2>1, <1>0
    <3>2. p - (p - (y + 1)) = y + 1 /\ p - (p - (y + 1)) - 1 = y
      BY <2>1, <1>0
    <3>3. y + 1 >= range.start
      BY <2>1, <1>0, <1>4
    <3> QED BY <3>1, <3>2, <3>3
  <2> QED BY <2>1, <2>2, <1>0, <1>4
<1>7. gap \in [start : range.start..range.end, end : range.start..range.end]
  BY <1>0, <1>2, <1>4
<1>8. (gap.start..gap.end) \cap cached = {}
  BY <1>0, <1>2, <1>4, <1>5, <1>6
<1>9. gap.start <= gap.end
  BY <1>0, <1>2, <1>4
<1>10. gap.start = range.start \/ gap.start - 1 \in cached
  BY <1>4
<1>11. gap.end = range.end \/ gap.end + 1 \in cached
  BY <1>2
<1>12. gap \in MissingRanges(cached, range)
  BY <1>7, <1>8, <1>9, <1>10, <1>11 DEF MissingRanges
<1>13. p \in gap.start..gap.end
  BY <1>0, <1>2, <1>4
<1> QED BY <1>12, <1>13

LEMMA GapsAreRanges ==
  ASSUME NEW cached, NEW range \in Ranges
  PROVE  MissingRanges(cached, range) \subseteq Ranges
BY DEF MissingRanges, Ranges

-----------------------------------------------------------------------------
(* Pages *)

LEMMA Constants ==
  /\ PageSize \in Nat /\ PageSize > 0 /\ Margin \in Nat
  /\ Sizes \subseteq Nat /\ Offsets \subseteq Nat /\ Limits \subseteq Nat \ {0}
  /\ FirstView \in Views
BY PageAssumption, BoundAssumption, ViewAssumption

(* The pages cut from a batch are those of its view in the range that have
   rows, and none of these is missing (build_cached_pages). *)
LEMMA BuildIsExact ==
  ASSUME size \in [Filters -> Nat], NEW view \in Views, NEW range \in Ranges
  PROVE  LET new == BuildPages(range.start, Batch(view, range))
         IN  /\ DOMAIN new \subseteq Nat
             /\ DOMAIN new \subseteq range.start..range.end
             /\ \A p \in DOMAIN new : new[p] = PageOf(view, p)
             /\ \A p \in DOMAIN new : p * PageSize < size[view.filter]
             /\ \A p \in range.start..range.end :
                  p * PageSize < size[view.filter] => p \in DOMAIN new
<1> DEFINE n == PageSize
           s == range.start
           e == range.end
           N == size[view.filter]
           keep == (e - s + 1) * n
           left == Minus(N, s * n)
           read == Least(left, keep + 1)
           count == Least(read, keep)
           last == Minus(count, 1) \div n
           new == BuildPages(s, Batch(view, range))
<1>1. n \in Nat \ {0} /\ s \in Nat /\ e \in Nat /\ s <= e /\ N \in Nat
  BY Constants DEF Ranges, Views
<1>2. Batch(view, range) = [of |-> view, first |-> s * n, count |-> count, more |-> read > keep]
  BY DEF Batch
<1>3. new = [p \in {m \in s..(s + last) : count > 0} |->
               [of    |-> view,
                first |-> s * n + (p - s) * n,
                count |-> Least(n, count - (p - s) * n),
                more  |-> p - s < last \/ read > keep]]
  <2> DEFINE b == Batch(view, range)
  <2>1. b.of = view /\ b.first = s * n /\ b.count = count /\ b.more = (read > keep)
    BY <1>2
  <2> HIDE DEF b, count, read, keep
  <2>2. BuildPages(s, b) = [p \in {m \in s..(s + Minus(b.count, 1) \div n) : b.count > 0} |->
               [of    |-> b.of,
                first |-> b.first + (p - s) * n,
                count |-> Least(n, b.count - (p - s) * n),
                more  |-> p - s < Minus(b.count, 1) \div n \/ b.more]]
    BY Zenon DEF BuildPages
  <2>3. BuildPages(s, b) = [p \in {m \in s..(s + last) : count > 0} |->
               [of    |-> view,
                first |-> s * n + (p - s) * n,
                count |-> Least(n, count - (p - s) * n),
                more  |-> p - s < last \/ read > keep]]
    BY <2>1, <2>2, Zenon
  <2> QED BY <2>3, Zenon DEF b
<1>4. keep \in Nat /\ s * n \in Nat /\ keep >= n
  <2>1. s * n \in Nat
    BY <1>1
  <2>2. (e - s + 1) * n >= 1 * n
    <3>1. e - s + 1 \in Nat /\ e - s + 1 >= 1
      BY <1>1
    <3>2. \A a \in Nat : a >= 1 => a * n \in Nat /\ a * n >= n
      BY <1>1, NextMultiple
    <3> QED BY <3>1, <3>2, <1>1
  <2> QED BY <2>1, <2>2, <1>1
<1>5. left \in Nat /\ read \in Nat /\ count \in Nat /\ count <= keep /\ count <= left
      /\ left = IF N > s * n THEN N - s * n ELSE 0
  BY <1>1, <1>4 DEF Minus, Least
<1>6. CASE count = 0
  <2>1. DOMAIN new = {}
    BY <1>3, <1>6
  <2>2. left = 0
    BY <1>1, <1>4, <1>5, <1>6 DEF Least
  <2>3. N <= s * n
    BY <2>2, <1>5, <1>1, <1>4
  <2>4. \A p \in s..e : p * n >= s * n /\ p * n \in Nat
    <3> TAKE p \in s..e
    <3>1. p \in Nat /\ (p = s \/ s < p)
      BY <1>1
    <3> QED BY <3>1, <1>1, NextMultiple
  <2> QED BY <2>1, <2>3, <2>4, <1>1, <1>4
<1>7. CASE count > 0
  <2>1. last \in Nat /\ last * n <= count - 1 /\ count - 1 < last * n + n
    <3>1. Minus(count, 1) = count - 1 /\ count - 1 \in Nat
      BY <1>5, <1>7 DEF Minus
    <3> QED BY <3>1, <1>1, DivBounds
  <2>2. DOMAIN new = s..(s + last)
    BY <1>3, <1>7
  <2>3. DOMAIN new \subseteq Nat
    BY <2>1, <2>2, <1>1
  <2>4. left = N - s * n
    BY <1>5, <1>7, <1>1, <1>4
  <2>5. ASSUME NEW p \in s..(s + last) PROVE new[p] = PageOf(view, p)
    <3> DEFINE i == p - s
               x == i * n
    <3>1. i \in Nat /\ i <= last /\ p \in Nat /\ p = s + i
      BY <2>1, <1>1
    <3>2. x \in Nat /\ (s + i) * n = s * n + x
      BY <3>1, <1>1
    <3>3. x <= last * n /\ last * n \in Nat
      BY <3>1, <2>1, <1>1, NextMultiple
    <3>4. i < last => x + n <= last * n
      BY <3>1, <2>1, <1>1, NextMultiple
    <3>5. p * n = s * n + x
      BY <3>1, <3>2
    <3>6. PageOf(view, p) = [of |-> view, first |-> s * n + x,
                             count |-> Least(n, left - x), more |-> left - x > n]
      <4>1. N - p * n = left - x
        BY <3>5, <2>4, <1>1, <1>4, <3>2
      <4> QED BY <4>1, <3>5 DEF PageOf
    <3>7. new[p] = [of |-> view, first |-> s * n + x,
                    count |-> Least(n, count - x), more |-> i < last \/ read > keep]
      BY <1>3, <1>7
    <3> HIDE DEF i, x, new, last
    <3>8. CASE left <= keep
      <4>1. count = left /\ ~(read > keep)
        BY <3>8, <1>4, <1>5 DEF Least
      <4>2. (i < last) <=> (left - x > n)
        <5>1. i < last => left - x > n
          BY <4>1, <3>4, <3>2, <3>3, <2>1, <1>1, <1>5
        <5>2. i = last => x = last * n
          BY DEF x
        <5>3. i = last => ~(left - x > n)
          BY <4>1, <5>2, <2>1, <1>1, <1>5, <3>2, <3>3
        <5> QED BY <5>1, <5>3, <3>1, <2>1
      <4>3. (i < last \/ read > keep) = (left - x > n)
        BY <4>1, <4>2
      <4> QED BY <3>6, <3>7, <4>1, <4>3
    <3>9. CASE left > keep
      <4>1. count = keep /\ read > keep
        BY <3>9, <1>4, <1>5 DEF Least
      <4>2. last < e - s + 1
        <5>1. last >= e - s + 1 => (e - s + 1) * n <= last * n
          BY <2>1, <1>1, NextMultiple
        <5> QED BY <5>1, <4>1, <2>1, <1>1, <1>4, <3>3
      <4>3. x + n <= keep
        <5>1. i < e - s + 1 /\ e - s + 1 \in Nat
          BY <4>2, <3>1, <2>1, <1>1
        <5>2. i * n + n <= (e - s + 1) * n
          BY <5>1, <3>1, <1>1, NextMultiple
        <5> QED BY <5>2 DEF x
      <4>4. Least(n, count - x) = n /\ Least(n, left - x) = n /\ left - x > n
        <5> HIDE DEF count, keep, left, read
        <5>1. n \in Nat /\ keep - x >= n /\ left - x > n /\ count - x >= n
          BY <4>1, <4>3, <3>9, <3>2, <1>1, <1>4, <1>5
        <5>2. \A a \in Int : a >= n => Least(n, a) = n
          BY <5>1 DEF Least
        <5>3. count - x \in Int /\ left - x \in Int
          BY <1>5, <3>2
        <5> QED BY <5>1, <5>2, <5>3
      <4>5. (i < last \/ read > keep) = (left - x > n)
        BY <4>1, <4>4
      <4> QED BY <3>6, <3>7, <4>4, <4>5
    <3> QED BY <3>8, <3>9, <1>4, <1>5
  <2>6. ASSUME NEW p \in s..e, p * n < N PROVE p \in s..(s + last)
    <3> SUFFICES ASSUME p > s + last PROVE FALSE
      BY <1>1, <2>1
    <3>1. p - s \in Nat /\ last + 1 <= p - s /\ p - s <= e - s
      BY <1>1, <2>1
    <3>2. last * n + n <= (p - s) * n
      <4> HIDE DEF last
      <4>1. last < p - s /\ last \in Nat
        BY <3>1, <2>1
      <4> QED BY <4>1, <3>1, <1>1, NextMultiple
    <3>3. p * n = s * n + (p - s) * n
      BY <1>1
    <3>4. (p - s) * n < left
      BY <3>3, <2>4, <2>6, <1>1, <1>4, <3>1
    <3>5. (p - s) * n + n <= keep
      <4>1. p - s < e - s + 1 /\ e - s + 1 \in Nat
        BY <3>1, <1>1
      <4> QED BY <4>1, <3>1, <1>1, NextMultiple
    <3>6. (p - s) * n \in Nat /\ last * n \in Nat
      BY <3>1, <1>1, <2>1
    <3>7. count >= (p - s) * n + 1
      BY <3>4, <3>5, <3>6, <1>1, <1>4, <1>5 DEF Least
    <3> HIDE DEF last, count
    <3>8. count - 1 >= last * n + n
      BY <3>2, <3>6, <3>7, <1>1, <1>5
    <3> QED BY <3>8, <3>6, <2>1, <1>1, <1>5
  <2>7. last < e - s + 1
    <3>1. last >= e - s + 1 => (e - s + 1) * n <= last * n
      BY <2>1, <1>1, NextMultiple
    <3>2. count - 1 < (e - s + 1) * n
      BY <1>5, <1>4, <1>1
    <3> HIDE DEF last, count
    <3>3. last * n \in Nat /\ count \in Nat /\ e - s + 1 \in Nat
      BY <2>1, <1>1, <1>5
    <3>4. (e - s + 1) * n \in Nat
      BY <3>3, <1>1
    <3> QED BY <3>1, <3>2, <3>3, <3>4, <2>1
  <2>8. ASSUME NEW p \in s..(s + last) PROVE p \in s..e /\ p * n < N
    <3> HIDE DEF last, count
    <3>1. p - s \in Nat /\ p - s <= last /\ p \in Nat
      BY <2>1, <1>1
    <3>2. (p - s) * n <= last * n
      BY <3>1, <2>1, <1>1, NextMultiple
    <3>3. p * n = s * n + (p - s) * n
      BY <3>1, <1>1
    <3>4. (p - s) * n \in Nat /\ last * n \in Nat
      BY <3>1, <2>1, <1>1
    <3>5. p * n < N
      BY <3>2, <3>3, <3>4, <2>1, <2>4, <1>1, <1>4, <1>5
    <3> QED BY <3>1, <3>5, <2>7, <2>1, <1>1
  <2>9. /\ DOMAIN new \subseteq Nat /\ DOMAIN new \subseteq s..e
        /\ \A p \in DOMAIN new : new[p] = PageOf(view, p)
        /\ \A p \in DOMAIN new : p * n < N
        /\ \A p \in s..e : p * n < N => p \in DOMAIN new
    <3> HIDE DEF new, last, N
    <3> QED BY <2>2, <2>3, <2>5, <2>6, <2>8
  <2> QED BY <2>9, Zenon
<1> QED BY <1>5, <1>6, <1>7

(* Eviction changes no page and keeps those of the anchor. *)
LEMMA EvictKeepsAnchor ==
  ASSUME NEW ps, NEW anchor
  PROVE  /\ DOMAIN Evict(ps, anchor) \subseteq DOMAIN ps
         /\ \A p \in DOMAIN Evict(ps, anchor) : Evict(ps, anchor)[p] = ps[p]
         /\ DOMAIN ps \cap anchor.start..anchor.end \subseteq DOMAIN Evict(ps, anchor)
BY DEF Evict

-----------------------------------------------------------------------------
(* Windows *)

WindowRequests == [view : Views, offset : Nat, limit : Nat \ {0}]

LEMMA RequestFacts ==
  /\ Requests \subseteq WindowRequests
  /\ NoRequest \in WindowRequests
<1>1. ASSUME NEW q \in Requests PROVE q \in WindowRequests
  BY Constants DEF Requests, WindowRequests
<1>2. NoRequest \in WindowRequests
  BY Constants DEF NoRequest, WindowRequests
<1> QED BY <1>1, <1>2

(* The range that is read holds the range that is returned. *)
LEMMA AnchorInMargin ==
  ASSUME NEW q \in WindowRequests
  PROVE  /\ Anchor(q) \in Ranges /\ WithMargin(Anchor(q)) \in Ranges
         /\ Anchor(q).start..Anchor(q).end
              \subseteq WithMargin(Anchor(q)).start..WithMargin(Anchor(q)).end
         /\ Anchor(q).start = q.offset \div PageSize
         /\ Anchor(q).end = (q.offset + q.limit - 1) \div PageSize
<1> DEFINE a == q.offset \div PageSize
           b == (q.offset + q.limit - 1) \div PageSize
<1>1. q.offset \in Nat /\ q.offset + q.limit - 1 \in Nat /\ q.offset <= q.offset + q.limit - 1
      /\ PageSize \in Nat \ {0} /\ q.limit \in Nat /\ q.limit > 0
  BY Constants DEF WindowRequests
<1>2. a \in Nat /\ b \in Nat /\ a <= b
  BY <1>1, DivBounds, DivMonotone
<1>3. Minus(q.offset + q.limit, 1) = q.offset + q.limit - 1
  BY <1>1 DEF Minus
<1>4. Anchor(q) = [start |-> a, end |-> b]
  BY <1>3, Zenon DEF Anchor, PageRange
<1> HIDE DEF a, b
<1>5. WithMargin(Anchor(q)) = [start |-> Minus(a, Margin), end |-> b + Margin]
  BY <1>4 DEF WithMargin
<1>6. Minus(a, Margin) \in Nat /\ Minus(a, Margin) <= a /\ b + Margin \in Nat /\ b <= b + Margin
  BY <1>2, Constants DEF Minus
<1>7. Anchor(q) \in Ranges
  BY <1>2, <1>4 DEF Ranges
<1>8. WithMargin(Anchor(q)) \in Ranges
  BY <1>2, <1>5, <1>6 DEF Ranges
<1>9. a..b \subseteq Minus(a, Margin)..(b + Margin)
  BY <1>2, <1>6
<1> QED BY <1>4, <1>5, <1>7, <1>8, <1>9 DEF a, b

(* With exact pages, of which those that the request touches are cached,
   load_window cuts exactly the rows of the request. *)
LEMMA RowsAreExact ==
  ASSUME size \in [Filters -> Nat], NEW q \in WindowRequests,
         DOMAIN pages \subseteq Nat, PagesAreExact, descriptor = q.view,
         \A p \in Anchor(q).start..Anchor(q).end :
           p * PageSize < size[q.view.filter] => p \in DOMAIN pages
  PROVE  RowsAt(q) = RowsOf(q)
<1>9. /\ Anchor(q).start = q.offset \div PageSize
      /\ Anchor(q).end = (q.offset + q.limit - 1) \div PageSize
  BY AnchorInMargin, Zenon
<1> DEFINE n == PageSize
           N == size[q.view.filter]
           low == q.offset
           high == q.offset + q.limit
           from(p) == Least(Minus(low, p * n), pages[p].count)
           to(p) == Least(Minus(high, p * n), pages[p].count)
           cut(p) == {<<pages[p].of, pages[p].first + i>> : i \in from(p)..(to(p) - 1)}
           touched == (Anchor(q).start..Anchor(q).end) \cap DOMAIN pages
<1>1. n \in Nat \ {0} /\ N \in Nat /\ low \in Nat /\ high \in Nat /\ low < high
  BY Constants DEF WindowRequests, Views
<1>2. RowsAt(q) = UNION {cut(p) : p \in touched}
  BY Zenon DEF RowsAt
<1>3. RowsOf(q) = {<<q.view, pos>> : pos \in low..(Least(high, N) - 1)}
  BY Zenon DEF RowsOf
<1>4. \A p \in touched :
        /\ p \in Nat /\ p * n \in Nat
        /\ pages[p].of = q.view /\ pages[p].first = p * n
        /\ pages[p].count = Least(n, N - p * n) /\ pages[p].count \in Int
  <2> TAKE p \in touched
  <2>1. p \in Nat /\ p * n \in Nat
    BY <1>1
  <2>2. pages[p] = PageOf(q.view, p)
    BY DEF PagesAreExact
  <2> QED BY <2>1, <2>2, <1>1 DEF PageOf, Least
<1>10. Anchor(q).start = low \div n /\ Anchor(q).end = (high - 1) \div n
  <2>1. q.offset + q.limit - 1 = high - 1
    BY DEF WindowRequests
  <2> QED BY <1>9, <2>1
<1> HIDE DEF touched, n, N, low, high
<1>5. ASSUME NEW p \in touched, NEW i \in from(p)..(to(p) - 1)
      PROVE  <<pages[p].of, pages[p].first + i>> \in RowsOf(q)
  <2> DEFINE c == pages[p].count
             x == p * n
  <2>1. x \in Nat /\ c \in Int /\ c <= N - x /\ pages[p].of = q.view /\ pages[p].first = x
    <3>1. Least(n, N - p * n) <= N - p * n
      BY <1>1, <1>4 DEF Least
    <3> QED BY <3>1, <1>4
  <2> HIDE DEF c, x
  <2>2. i \in Int /\ i >= Least(Minus(low, x), c) /\ i < Least(Minus(high, x), c)
    <3>1. from(p) = Least(Minus(low, x), c) /\ to(p) = Least(Minus(high, x), c)
      BY DEF c, x
    <3>2. from(p) \in Int /\ to(p) \in Int
      BY <3>1, <2>1, <1>1 DEF Least, Minus
    <3> HIDE DEF from, to
    <3> QED BY <3>1, <3>2
  <2>3. i < c /\ i >= Minus(low, x) /\ i < Minus(high, x)
    BY <2>1, <2>2, <1>1 DEF Least, Minus
  <2>4. i >= 0 /\ x + i >= low /\ x + i < high /\ x + i < N
    BY <2>1, <2>3, <2>2, <1>1 DEF Minus
  <2>5. x + i \in low..(Least(high, N) - 1)
    BY <2>1, <2>2, <2>4, <1>1 DEF Least
  <2> QED BY <2>1, <2>5, <1>3
<1>6. ASSUME NEW pos \in low..(Least(high, N) - 1)
      PROVE  \E p \in touched : <<q.view, pos>> \in cut(p)
  <2> DEFINE p == pos \div n
             x == p * n
             c == pages[p].count
  <2>1. pos \in Nat /\ low <= pos /\ pos < high /\ pos < N
    BY <1>1 DEF Least
  <2>2. p \in Nat /\ x <= pos /\ pos < x + n
    BY <2>1, <1>1, DivBounds
  <2>3. x \in Nat
    BY <2>2, <1>1
  <2>4. low \div n <= p /\ p <= (high - 1) \div n
    <3>1. high - 1 \in Nat /\ pos <= high - 1
      BY <2>1, <1>1
    <3> QED BY <3>1, <2>1, <1>1, DivMonotone
  <2>5. p \in Anchor(q).start..Anchor(q).end
    <3>1. Anchor(q).start = low \div n /\ Anchor(q).end = (high - 1) \div n
      BY <1>10
    <3>2. Anchor(q).start \in Nat /\ Anchor(q).end \in Nat
      BY AnchorInMargin DEF Ranges
    <3> HIDE DEF p
    <3> QED BY <2>2, <2>4, <3>1, <3>2
  <2>6. p \in touched
    <3>1. p * PageSize < size[q.view.filter]
      BY <2>1, <2>2, <2>3, <1>1 DEF n, N
    <3> HIDE DEF p
    <3> QED BY <2>5, <3>1 DEF touched
  <2> HIDE DEF p
  <2>7. pages[p].of = q.view /\ pages[p].first = x /\ c = Least(n, N - x) /\ c \in Int
    BY <2>6, <1>4
  <2> HIDE DEF x, c
  <2>8. pos - x \in Int /\ pos - x < c /\ pos - x >= 0
    BY <2>7, <2>1, <2>2, <2>3, <1>1 DEF Least
  <2>9. pos - x >= Least(Minus(low, x), c) /\ pos - x <= Least(Minus(high, x), c) - 1
    BY <2>7, <2>1, <2>3, <2>8, <1>1 DEF Least, Minus
  <2>10. pos - x \in from(p)..(to(p) - 1)
    <3>1. from(p) = Least(Minus(low, x), c) /\ to(p) = Least(Minus(high, x), c)
      BY DEF c, x
    <3>2. from(p) \in Int /\ to(p) \in Int
      BY <3>1, <2>7, <2>3, <1>1 DEF Least, Minus
    <3> HIDE DEF from, to
    <3> QED BY <3>1, <3>2, <2>8, <2>9
  <2>11. pages[p].first + (pos - x) = pos
    BY <2>7, <2>1, <2>3
  <2>12. <<q.view, pos>> \in cut(p)
    BY <2>7, <2>10, <2>11
  <2> QED BY <2>6, <2>12
<1>7. RowsAt(q) \subseteq RowsOf(q)
  BY <1>2, <1>5
<1>8. RowsOf(q) \subseteq RowsAt(q)
  <2> SUFFICES ASSUME NEW row \in RowsOf(q) PROVE row \in RowsAt(q)
    OBVIOUS
  <2>1. PICK pos \in low..(Least(high, N) - 1) : row = <<q.view, pos>>
    BY <1>3
  <2>2. PICK p \in touched : row \in cut(p)
    BY <1>6, <2>1
  <2> HIDE DEF cut
  <2> QED BY <2>2, <1>2
<1> QED BY <1>7, <1>8

-----------------------------------------------------------------------------
(* The inductive invariant *)

WindowPlaces == {"idle", "waiting", "replacing", "filling", "answered"}

CacheShape ==
  /\ size \in [Filters -> Nat] /\ descriptor \in Views /\ DOMAIN pages \subseteq Nat
  /\ queue \in Seq(Windows)
  /\ wpc \in [Windows -> WindowPlaces] /\ request \in [Windows -> WindowRequests]
  /\ missing \in [Windows -> SUBSET Ranges] /\ answer = [w \in Windows |-> answer[w]]

(* Only the call at the head of the queue reads into the cache. *)
HolderWorks == \A w \in Windows : wpc[w] \in {"replacing", "filling"} => HoldsLock(w)

CacheInv == CacheShape /\ HolderWorks /\ PagesAreExact /\ FillIsComplete /\ WindowIsExact

LEMMA OneHolder ==
  ASSUME HolderWorks, NEW v \in Windows, NEW w \in Windows,
         wpc[v] \in {"replacing", "filling"}, wpc[w] \in {"replacing", "filling"}
  PROVE  v = w
BY DEF HolderWorks, HoldsLock

FillOf(w) ==
  wpc[w] = "filling" =>
    /\ descriptor = request[w].view
    /\ \A p \in Anchor(request[w]).start..Anchor(request[w]).end :
         p * PageSize < size[descriptor.filter] =>
           p \in DOMAIN pages \/ \E range \in missing[w] : p \in range.start..range.end

AnswerOf(w) == wpc[w] = "answered" => answer[w].rows = RowsOf(request[w])

LEMMA ByWindow ==
  /\ FillIsComplete <=> \A w \in Windows : FillOf(w)
  /\ WindowIsExact <=> \A w \in Windows : AnswerOf(w)
  /\ FillIsComplete' <=> \A w \in Windows : FillOf(w)'
  /\ WindowIsExact' <=> \A w \in Windows : AnswerOf(w)'
BY Zenon DEF FillIsComplete, FillOf, WindowIsExact, AnswerOf

(* A window that does not move, beside a cache that does not change. *)
LEMMA FillFrame ==
  ASSUME NEW w \in Windows, UNCHANGED <<size, descriptor, pages>>, FillOf(w),
         wpc'[w] = wpc[w], request'[w] = request[w], missing'[w] = missing[w]
  PROVE  FillOf(w)'
BY DEF FillOf, Anchor, PageRange

LEMMA AnswerFrame ==
  ASSUME NEW w \in Windows, UNCHANGED size, AnswerOf(w),
         wpc'[w] = wpc[w], request'[w] = request[w], answer'[w] = answer[w]
  PROVE  AnswerOf(w)'
<1>1. RowsOf(request[w])' = RowsOf(request[w])
  BY DEF RowsOf
<1> QED BY <1>1 DEF AnswerOf

LEMMA PagesFrame ==
  ASSUME PagesAreExact, UNCHANGED <<size, descriptor, pages>> PROVE PagesAreExact'
BY DEF PagesAreExact, PageOf

LEMMA CacheInvInit == CacheInit => CacheInv
<1> SUFFICES ASSUME CacheInit PROVE CacheInv
  OBVIOUS
<1> DEFINE first == [start |-> 0, end |-> 0]
<1>1. first \in Ranges
  BY DEF Ranges
<1>2. size \in [Filters -> Nat] /\ descriptor = FirstView /\ descriptor \in Views
  BY Constants DEF CacheInit
<1>3. pages = BuildPages(first.start, Batch(descriptor, first))
  BY DEF CacheInit
<1>4. DOMAIN pages \subseteq Nat /\ PagesAreExact
  <2> HIDE DEF first
  <2> QED BY <1>1, <1>2, <1>3, BuildIsExact DEF PagesAreExact
<1>5. CacheShape
  BY <1>2, <1>4, RequestFacts DEF CacheInit, CacheShape, WindowPlaces
<1>6. HolderWorks /\ FillIsComplete /\ WindowIsExact
  BY DEF CacheInit, HolderWorks, FillIsComplete, WindowIsExact
<1> QED BY <1>4, <1>5, <1>6 DEF CacheInv

(* Both ways to read pages in leave exact pages. *)
LEMMA ReadPages ==
  ASSUME CacheShape, NEW q \in WindowRequests, NEW range \in Ranges, NEW old,
         DOMAIN old \subseteq Nat,
         \A p \in DOMAIN old : old[p] = PageOf(q.view, p)
  PROVE  LET read == BuildPages(range.start, Batch(q.view, range))
             new  == Evict(InsertPages(read, old), Anchor(q))
         IN  /\ DOMAIN new \subseteq Nat
             /\ \A p \in DOMAIN new : new[p] = PageOf(q.view, p)
             /\ \A p \in Anchor(q).start..Anchor(q).end :
                  /\ p \in DOMAIN old => p \in DOMAIN new
                  /\ p \in range.start..range.end /\ p * PageSize < size[q.view.filter]
                       => p \in DOMAIN new
<1> DEFINE read == BuildPages(range.start, Batch(q.view, range))
           all == InsertPages(read, old)
           new == Evict(all, Anchor(q))
<1>1. /\ DOMAIN read \subseteq Nat
      /\ \A p \in DOMAIN read : read[p] = PageOf(q.view, p)
      /\ \A p \in range.start..range.end :
           p * PageSize < size[q.view.filter] => p \in DOMAIN read
  <2>1. q.view \in Views /\ size \in [Filters -> Nat]
    BY DEF WindowRequests, CacheShape
  <2> QED BY <2>1, BuildIsExact
<1> HIDE DEF read
<1>2. /\ DOMAIN all = DOMAIN read \cup DOMAIN old
      /\ \A p \in DOMAIN all : all[p] = IF p \in DOMAIN read THEN read[p] ELSE old[p]
  BY DEF InsertPages
<1>3. DOMAIN all \subseteq Nat /\ \A p \in DOMAIN all : all[p] = PageOf(q.view, p)
  BY <1>1, <1>2
<1> HIDE DEF all
<1>4. /\ DOMAIN new \subseteq DOMAIN all
      /\ \A p \in DOMAIN new : new[p] = all[p]
      /\ DOMAIN all \cap Anchor(q).start..Anchor(q).end \subseteq DOMAIN new
  BY EvictKeepsAnchor
<1> HIDE DEF new
<1>5. DOMAIN new \subseteq Nat /\ \A p \in DOMAIN new : new[p] = PageOf(q.view, p)
  BY <1>3, <1>4
<1>6. ASSUME NEW p \in Anchor(q).start..Anchor(q).end
      PROVE  /\ p \in DOMAIN old => p \in DOMAIN new
             /\ p \in range.start..range.end /\ p * PageSize < size[q.view.filter]
                  => p \in DOMAIN new
  BY <1>1, <1>2, <1>4
<1> QED BY <1>5, <1>6 DEF new, all, read

LEMMA CacheInvStep == CacheInv /\ [Next]_vars => CacheInv'
<1> SUFFICES ASSUME CacheInv, [Next]_vars PROVE CacheInv'
  OBVIOUS
<1>0. /\ CacheShape /\ HolderWorks /\ PagesAreExact
      /\ \A w \in Windows : FillOf(w) /\ AnswerOf(w)
  BY ByWindow DEF CacheInv
<1>a. ASSUME CacheShape', HolderWorks', PagesAreExact',
             \A v \in Windows : FillOf(v)' /\ AnswerOf(v)'
      PROVE  CacheInv'
  BY <1>a, ByWindow DEF CacheInv
<1>1. ASSUME NEW w \in Windows, NEW q \in Requests, RequestWindow(w, q) PROVE CacheInv'
  <2>0. /\ UNCHANGED <<size, descriptor, pages, missing, answer>>
        /\ wpc' = [wpc EXCEPT ![w] = "waiting"] /\ queue' = Append(queue, w)
        /\ request' = [request EXCEPT ![w] = q] /\ wpc[w] = "idle"
    BY <1>1 DEF RequestWindow, WindowAt, MoveWindow, cacheVars
  <2>1. CacheShape'
    BY <1>0, <2>0, RequestFacts DEF CacheShape, WindowPlaces
  <2>2. HolderWorks'
    BY <1>0, <2>0 DEF CacheShape, HolderWorks, HoldsLock
  <2>3. PagesAreExact'
    BY <1>0, <2>0, PagesFrame
  <2>4. ASSUME NEW v \in Windows PROVE FillOf(v)' /\ AnswerOf(v)'
    <3>1. CASE v = w
      BY <3>1, <1>0, <2>0 DEF FillOf, AnswerOf, CacheShape
    <3>2. CASE v # w
      BY <3>2, <1>0, <2>0, FillFrame, AnswerFrame DEF CacheShape
    <3> QED BY <3>1, <3>2
  <2> QED BY <2>1, <2>2, <2>3, <2>4, <1>a
<1>2. ASSUME NEW w \in Windows, LockQuery(w) PROVE CacheInv'
  <2> DEFINE q == request[w]
             range == WithMargin(Anchor(q))
             gaps == MissingRanges(DOMAIN pages, range)
  <2>0. /\ UNCHANGED <<size, descriptor, pages, queue, request, answer>>
        /\ wpc[w] = "waiting" /\ HoldsLock(w)
        /\ IF descriptor # q.view
           THEN wpc' = [wpc EXCEPT ![w] = "replacing"] /\ UNCHANGED missing
           ELSE /\ wpc' = [wpc EXCEPT ![w] = "filling"]
                /\ missing' = [missing EXCEPT ![w] = gaps]
    BY <1>2 DEF LockQuery, WindowAt, MoveWindow, cacheVars
  <2>1. q \in WindowRequests /\ range \in Ranges /\ gaps \subseteq Ranges
    BY <1>0, AnchorInMargin, GapsAreRanges DEF CacheShape
  <2>2. CacheShape'
    <3> HIDE DEF q, range, gaps
    <3> QED BY <1>0, <2>0, <2>1 DEF CacheShape, WindowPlaces
  <2>3. HolderWorks'
    BY <1>0, <2>0 DEF CacheShape, HolderWorks, HoldsLock
  <2>4. PagesAreExact'
    BY <1>0, <2>0, PagesFrame
  <2>5. ASSUME NEW v \in Windows PROVE FillOf(v)' /\ AnswerOf(v)'
    <3>1. CASE v = w
      <4>1. AnswerOf(v)'
        BY <3>1, <1>0, <2>0 DEF AnswerOf, CacheShape
      <4>2. CASE descriptor # q.view
        BY <3>1, <4>1, <4>2, <1>0, <2>0 DEF FillOf, CacheShape
      <4>3. CASE descriptor = q.view
        <5>1. missing'[w] = gaps
          BY <4>3, <1>0, <2>0 DEF CacheShape
        <5>2. ASSUME NEW p \in Anchor(q).start..Anchor(q).end, p \notin DOMAIN pages
              PROVE  \E gap \in gaps : p \in gap.start..gap.end
          <6>1. p \in range.start..range.end
            BY <2>1, AnchorInMargin
          <6> QED BY <6>1, <2>1, <5>2, GapsCover
        <5>3. Anchor(request[w])' = Anchor(q)
          BY <2>0 DEF Anchor, PageRange
        <5> HIDE DEF gaps, range
        <5>4. FillOf(w)'
          BY <4>3, <5>1, <5>2, <5>3, <2>0 DEF FillOf
        <5> QED BY <5>4, <4>1, <3>1
      <4> QED BY <4>2, <4>3
    <3>2. CASE v # w
      <4> HIDE DEF q, range, gaps
      <4>1. wpc'[v] = wpc[v] /\ missing'[v] = missing[v]
        BY <3>2, <1>0, <2>0 DEF CacheShape
      <4> QED BY <4>1, <1>0, <2>0, FillFrame, AnswerFrame
    <3> QED BY <3>1, <3>2
  <2> QED BY <2>2, <2>3, <2>4, <2>5, <1>a
<1>3. ASSUME NEW w \in Windows, ReplacePages(w) PROVE CacheInv'
  <2> DEFINE q == request[w]
             range == WithMargin(Anchor(q))
             read == BuildPages(range.start, Batch(q.view, range))
  <2>0. /\ UNCHANGED <<size, queue, request, missing, answer>>
        /\ wpc[w] = "replacing" /\ wpc' = [wpc EXCEPT ![w] = "filling"]
        /\ descriptor' = q.view /\ pages' = Evict(read, Anchor(q))
    BY <1>3 DEF ReplacePages, WindowAt, MoveWindow
  <2>1. q \in WindowRequests /\ range \in Ranges /\ q.view \in Views
    BY <1>0, AnchorInMargin DEF CacheShape, WindowRequests
  <2>2. /\ DOMAIN read \subseteq Nat
        /\ \A p \in DOMAIN read : read[p] = PageOf(q.view, p)
        /\ \A p \in range.start..range.end :
             p * PageSize < size[q.view.filter] => p \in DOMAIN read
    BY <1>0, <2>1, BuildIsExact DEF CacheShape
  <2>3. /\ DOMAIN pages' \subseteq DOMAIN read
        /\ \A p \in DOMAIN pages' : pages'[p] = read[p]
        /\ DOMAIN read \cap Anchor(q).start..Anchor(q).end \subseteq DOMAIN pages'
    <3> HIDE DEF read, q
    <3> QED BY <2>0, EvictKeepsAnchor
  <2>4. Anchor(request[w])' = Anchor(q)
    BY <2>0 DEF Anchor, PageRange
  <2> HIDE DEF read
  <2>5. CacheShape'
    BY <1>0, <2>0, <2>1, <2>2, <2>3 DEF CacheShape, WindowPlaces
  <2>6. HolderWorks'
    BY <1>0, <2>0 DEF CacheShape, HolderWorks, HoldsLock
  <2>7. PagesAreExact'
    BY <2>0, <2>2, <2>3 DEF PagesAreExact, PageOf
  <2>8. ASSUME NEW v \in Windows PROVE FillOf(v)' /\ AnswerOf(v)'
    <3>1. CASE v = w
      <4>1. AnswerOf(v)'
        BY <3>1, <1>0, <2>0 DEF AnswerOf, CacheShape
      <4>2. ASSUME NEW p \in Anchor(q).start..Anchor(q).end, p * PageSize < size[q.view.filter]
            PROVE  p \in DOMAIN pages'
        <5>1. p \in range.start..range.end
          BY <2>1, AnchorInMargin
        <5> QED BY <5>1, <4>2, <2>2, <2>3
      <4>3. FillOf(w)'
        <5> HIDE DEF range
        <5> QED BY <4>2, <2>0, <2>4 DEF FillOf
      <4> QED BY <4>1, <4>3, <3>1
    <3>2. CASE v # w
      <4>1. wpc[v] # "filling"
        BY <3>2, <1>0, <2>0, OneHolder
      <4>2. wpc'[v] = wpc[v]
        BY <3>2, <1>0, <2>0 DEF CacheShape
      <4>3. FillOf(v)'
        BY <4>1, <4>2 DEF FillOf
      <4> QED BY <4>2, <4>3, <1>0, <2>0, AnswerFrame
    <3> QED BY <3>1, <3>2
  <2> QED BY <2>5, <2>6, <2>7, <2>8, <1>a
<1>4. ASSUME NEW w \in Windows, FetchMissing(w) PROVE CacheInv'
  <2> DEFINE q == request[w]
  <2>1. PICK range \in missing[w] :
          /\ missing' = [missing EXCEPT ![w] = @ \ {range}]
          /\ pages' = IF descriptor = q.view
                      THEN Evict(InsertPages(BuildPages(range.start, Batch(q.view, range)), pages),
                                 Anchor(q))
                      ELSE pages
    BY <1>4 DEF FetchMissing
  <2>0. UNCHANGED <<size, descriptor, queue, request, wpc, answer>> /\ wpc[w] = "filling"
    BY <1>4 DEF FetchMissing, WindowAt
  <2>2. q \in WindowRequests /\ range \in Ranges
    BY <1>0, <2>1 DEF CacheShape
  <2>3. descriptor = q.view
    BY <1>0, <2>0 DEF FillOf
  <2>4. /\ DOMAIN pages' \subseteq Nat
        /\ \A p \in DOMAIN pages' : pages'[p] = PageOf(q.view, p)
        /\ \A p \in Anchor(q).start..Anchor(q).end :
             /\ p \in DOMAIN pages => p \in DOMAIN pages'
             /\ p \in range.start..range.end /\ p * PageSize < size[q.view.filter]
                  => p \in DOMAIN pages'
    <3>1. \A p \in DOMAIN pages : pages[p] = PageOf(q.view, p)
      BY <1>0, <2>3 DEF PagesAreExact
    <3>2. pages' = Evict(InsertPages(BuildPages(range.start, Batch(q.view, range)), pages),
                         Anchor(q))
      BY <2>1, <2>3
    <3>3. DOMAIN pages \subseteq Nat
      BY <1>0 DEF CacheShape
    <3> HIDE DEF q
    <3> QED BY <1>0, <2>2, <3>1, <3>2, <3>3, ReadPages
  <2>5. CacheShape'
    BY <1>0, <2>0, <2>1, <2>4 DEF CacheShape
  <2>6. HolderWorks'
    BY <1>0, <2>0 DEF HolderWorks, HoldsLock
  <2>7. PagesAreExact'
    BY <2>0, <2>3, <2>4 DEF PagesAreExact, PageOf
  <2>8. ASSUME NEW v \in Windows PROVE FillOf(v)' /\ AnswerOf(v)'
    <3>1. AnswerOf(v)'
      BY <1>0, <2>0, AnswerFrame
    <3>2. CASE v = w
      <4>1. missing'[w] = missing[w] \ {range}
        BY <1>0, <2>1 DEF CacheShape
      <4>2. Anchor(request[w])' = Anchor(q)
        BY <2>0 DEF Anchor, PageRange
      <4>3. ASSUME NEW p \in Anchor(q).start..Anchor(q).end, p * PageSize < size[q.view.filter]
            PROVE  p \in DOMAIN pages' \/ \E other \in missing'[w] : p \in other.start..other.end
        <5>1. p \in DOMAIN pages \/ \E other \in missing[w] : p \in other.start..other.end
          BY <1>0, <2>0, <2>3, <4>3 DEF FillOf
        <5> QED BY <5>1, <4>1, <4>3, <2>4
      <4>4. FillOf(w)'
        BY <4>2, <4>3, <2>0, <2>3 DEF FillOf
      <4> QED BY <3>1, <3>2, <4>4
    <3>3. CASE v # w
      <4>1. wpc[v] # "filling"
        BY <3>3, <1>0, <2>0, OneHolder
      <4> QED BY <3>1, <4>1, <2>0 DEF FillOf
    <3> QED BY <3>2, <3>3
  <2> QED BY <2>5, <2>6, <2>7, <2>8, <1>a
<1>5. ASSUME NEW w \in Windows, LoadWindow(w) PROVE CacheInv'
  <2> DEFINE q == request[w]
  <2>0. /\ UNCHANGED <<size, descriptor, pages, request, missing>>
        /\ wpc[w] = "filling" /\ missing[w] = {} /\ wpc' = [wpc EXCEPT ![w] = "answered"]
        /\ answer' = [answer EXCEPT ![w] = [rows |-> RowsAt(q), visible |-> VisibleRows(q)]]
        /\ queue' = Tail(queue)
    BY <1>5 DEF LoadWindow, WindowAt, MoveWindow, cacheVars
  <2>1. HoldsLock(w) /\ q \in WindowRequests
    BY <1>0, <2>0 DEF HolderWorks, CacheShape
  <2>2. CacheShape'
    <3>1. queue' \in Seq(Windows)
      BY <1>0, <2>0, <2>1 DEF CacheShape, HoldsLock
    <3> QED BY <1>0, <2>0, <3>1 DEF CacheShape, WindowPlaces
  <2>3. HolderWorks'
    <3> SUFFICES ASSUME NEW v \in Windows, wpc'[v] \in {"replacing", "filling"} PROVE FALSE
      BY DEF HolderWorks
    <3>1. v # w /\ wpc[v] \in {"replacing", "filling"}
      BY <1>0, <2>0 DEF CacheShape
    <3> QED BY <3>1, <1>0, <2>0, OneHolder
  <2>4. PagesAreExact'
    BY <1>0, <2>0, PagesFrame
  <2>5. RowsAt(q) = RowsOf(q)
    <3>1. descriptor = q.view /\ \A p \in Anchor(q).start..Anchor(q).end :
            p * PageSize < size[q.view.filter] => p \in DOMAIN pages
      BY <1>0, <2>0 DEF FillOf
    <3> HIDE DEF q
    <3> QED BY <3>1, <1>0, <2>1, RowsAreExact DEF CacheShape
  <2>6. ASSUME NEW v \in Windows PROVE FillOf(v)' /\ AnswerOf(v)'
    <3>1. CASE v = w
      <4>1. RowsOf(request[w])' = RowsOf(q)
        BY <2>0 DEF RowsOf
      <4>2. wpc'[w] = "answered" /\ answer'[w].rows = RowsAt(q)
        <5> HIDE DEF q
        <5> QED BY <1>0, <2>0 DEF CacheShape
      <4> QED BY <3>1, <4>1, <4>2, <2>5 DEF FillOf, AnswerOf
    <3>2. CASE v # w
      <4>1. wpc'[v] = wpc[v] /\ answer'[v] = answer[v]
        BY <3>2, <1>0, <2>0 DEF CacheShape
      <4> QED BY <4>1, <1>0, <2>0, FillFrame, AnswerFrame
    <3> QED BY <3>1, <3>2
  <2> QED BY <2>2, <2>3, <2>4, <2>6, <1>a
<1>6. ASSUME NEW w \in Windows, ReturnWindow(w) PROVE CacheInv'
  <2>0. /\ UNCHANGED <<size, descriptor, pages, queue, missing>>
        /\ wpc[w] = "answered" /\ wpc' = [wpc EXCEPT ![w] = "idle"]
        /\ request' = [request EXCEPT ![w] = NoRequest]
        /\ answer' = [answer EXCEPT ![w] = NoAnswer]
    BY <1>6 DEF ReturnWindow, WindowAt, MoveWindow, cacheVars
  <2>1. CacheShape'
    BY <1>0, <2>0, RequestFacts DEF CacheShape, WindowPlaces
  <2>2. HolderWorks'
    BY <1>0, <2>0 DEF CacheShape, HolderWorks, HoldsLock
  <2>3. PagesAreExact'
    BY <1>0, <2>0, PagesFrame
  <2>4. ASSUME NEW v \in Windows PROVE FillOf(v)' /\ AnswerOf(v)'
    <3>1. CASE v = w
      BY <3>1, <1>0, <2>0 DEF FillOf, AnswerOf, CacheShape
    <3>2. CASE v # w
      <4>1. wpc'[v] = wpc[v] /\ answer'[v] = answer[v] /\ request'[v] = request[v]
        BY <3>2, <1>0, <2>0 DEF CacheShape
      <4> QED BY <4>1, <1>0, <2>0, FillFrame, AnswerFrame
    <3> QED BY <3>1, <3>2
  <2> QED BY <2>1, <2>2, <2>3, <2>4, <1>a
<1>7. ASSUME NEW w \in Windows, FailWindow(w) PROVE CacheInv'
  <2>0. /\ UNCHANGED <<size, descriptor, pages, answer>>
        /\ wpc[w] \in {"replacing", "filling"} /\ wpc' = [wpc EXCEPT ![w] = "idle"]
        /\ request' = [request EXCEPT ![w] = NoRequest]
        /\ missing' = [missing EXCEPT ![w] = {}] /\ queue' = Tail(queue)
    BY <1>7 DEF FailWindow, WindowAt, MoveWindow, cacheVars
  <2>1. HoldsLock(w)
    BY <1>0, <2>0 DEF HolderWorks
  <2>2. CacheShape'
    <3>1. queue' \in Seq(Windows)
      BY <1>0, <2>0, <2>1 DEF CacheShape, HoldsLock
    <3> QED BY <1>0, <2>0, <3>1, RequestFacts DEF CacheShape, WindowPlaces
  <2>3. HolderWorks'
    <3> SUFFICES ASSUME NEW v \in Windows, wpc'[v] \in {"replacing", "filling"} PROVE FALSE
      BY DEF HolderWorks
    <3>1. v # w /\ wpc[v] \in {"replacing", "filling"}
      BY <1>0, <2>0 DEF CacheShape
    <3> QED BY <3>1, <1>0, <2>0, OneHolder
  <2>4. PagesAreExact'
    BY <1>0, <2>0, PagesFrame
  <2>5. ASSUME NEW v \in Windows PROVE FillOf(v)' /\ AnswerOf(v)'
    <3>1. CASE v = w
      BY <3>1, <1>0, <2>0 DEF FillOf, AnswerOf, CacheShape
    <3>2. CASE v # w
      <4>1. wpc'[v] = wpc[v] /\ missing'[v] = missing[v] /\ request'[v] = request[v]
        BY <3>2, <1>0, <2>0 DEF CacheShape
      <4> QED BY <4>1, <1>0, <2>0, FillFrame, AnswerFrame
    <3> QED BY <3>1, <3>2
  <2> QED BY <2>2, <2>3, <2>4, <2>5, <1>a
<1>8. ASSUME UNCHANGED <<size, descriptor, pages, windowVars>> PROVE CacheInv'
  <2>1. CacheShape' /\ HolderWorks'
    BY <1>0, <1>8 DEF CacheShape, HolderWorks, HoldsLock, windowVars
  <2>2. PagesAreExact'
    BY <1>0, <1>8, PagesFrame
  <2>3. \A v \in Windows : FillOf(v)' /\ AnswerOf(v)'
    BY <1>0, <1>8, FillFrame, AnswerFrame DEF windowVars
  <2> QED BY <2>1, <2>2, <2>3, <1>a
<1>9. ASSUME NEW c \in Counts, NEW f \in Filters, RequestCount(c, f) PROVE CacheInv'
  BY <1>8, <1>9 DEF RequestCount, cacheVars
<1>10. ASSUME NEW c \in Counts, SetTotal(c) \/ FailCount(c) PROVE CacheInv'
  BY <1>8, <1>10 DEF SetTotal, FailCount, EndCount
<1>11. CASE UNCHANGED vars
  BY <1>8, <1>11 DEF vars, cacheVars
<1> QED
  BY <1>1, <1>2, <1>3, <1>4, <1>5, <1>6, <1>7, <1>9, <1>10, <1>11 DEF Next, WindowSteps

LEMMA CacheInvHolds == Spec => []CacheInv
BY CacheInvInit, CacheInvStep, PTL DEF Spec

(* Every cached page is the page of the view that the cache is of, whatever
   was fetched, replaced or evicted, and by whom. *)
THEOREM PagesStayExact == Spec => []PagesAreExact
<1>1. CacheInv => PagesAreExact
  BY DEF CacheInv
<1> QED BY <1>1, CacheInvHolds, PTL

(* A call that fills the cache always has or still reads every page that its
   window needs. *)
THEOREM FillsComplete == Spec => []FillIsComplete
<1>1. CacheInv => FillIsComplete
  BY DEF CacheInv
<1> QED BY <1>1, CacheInvHolds, PTL

(* Every window that get_query_result_window returns has exactly the rows it
   was asked for. *)
THEOREM WindowsAreExact == Spec => []WindowIsExact
<1>1. CacheInv => WindowIsExact
  BY DEF CacheInv
<1> QED BY <1>1, CacheInvHolds, PTL

-----------------------------------------------------------------------------
(* Totals *)

LEMMA TotalInit == CacheInit => TotalIsOfFilter
BY DEF CacheInit, TotalIsOfFilter

(* Only a replaced cache changes what is counted, and it forgets the total of
   another filter; only a count sets the total, and it looks at the filter at
   that time. *)
LEMMA TotalStep == TotalIsOfFilter /\ [Next]_vars => TotalIsOfFilter'
<1> SUFFICES ASSUME TotalIsOfFilter, [Next]_vars PROVE TotalIsOfFilter'
  OBVIOUS
<1> USE DEF TotalIsOfFilter
<1>1. ASSUME NEW w \in Windows, NEW q \in Requests, RequestWindow(w, q) PROVE TotalIsOfFilter'
  BY <1>1 DEF RequestWindow, cacheVars
<1>2. ASSUME NEW w \in Windows, LockQuery(w) PROVE TotalIsOfFilter'
  BY <1>2 DEF LockQuery, cacheVars
<1>3. ASSUME NEW w \in Windows, ReplacePages(w) PROVE TotalIsOfFilter'
  <2>1. counted' = descriptor'.filter /\ size' = size
    BY <1>3 DEF ReplacePages
  <2>2. total' # Unknown => total' = total /\ counted' = counted
    BY <1>3 DEF ReplacePages
  <2> QED BY <2>1, <2>2
<1>4. ASSUME NEW w \in Windows, FetchMissing(w) PROVE TotalIsOfFilter'
  BY <1>4 DEF FetchMissing
<1>5. ASSUME NEW w \in Windows, LoadWindow(w) PROVE TotalIsOfFilter'
  BY <1>5 DEF LoadWindow, cacheVars
<1>6. ASSUME NEW w \in Windows, ReturnWindow(w) PROVE TotalIsOfFilter'
  BY <1>6 DEF ReturnWindow, cacheVars
<1>7. ASSUME NEW w \in Windows, FailWindow(w) PROVE TotalIsOfFilter'
  BY <1>7 DEF FailWindow, cacheVars
<1>8. ASSUME NEW c \in Counts, NEW f \in Filters, RequestCount(c, f) PROVE TotalIsOfFilter'
  BY <1>8 DEF RequestCount, cacheVars
<1>9. ASSUME NEW c \in Counts, SetTotal(c) PROVE TotalIsOfFilter'
  BY <1>9 DEF SetTotal, EndCount
<1>10. ASSUME NEW c \in Counts, FailCount(c) PROVE TotalIsOfFilter'
  BY <1>10 DEF FailCount, EndCount
<1>11. CASE UNCHANGED vars
  BY <1>11 DEF vars, cacheVars
<1> QED
  BY <1>1, <1>2, <1>3, <1>4, <1>5, <1>6, <1>7, <1>8, <1>9, <1>10, <1>11
  DEF Next, WindowSteps

(* A total that the cache reports is the count of the filter of its pages. *)
THEOREM TotalsAgree == Spec => []TotalIsOfFilter
BY TotalInit, TotalStep, PTL DEF Spec
-----------------------------------------------------------------------------
(* The size of the cache *)

(* The order of eviction is strict and total. *)
LEMMA NearerOrder ==
  ASSUME NEW anchor \in Ranges
  PROVE  \A p, q, r \in Nat :
           /\ ~Nearer(anchor, p, p)
           /\ Nearer(anchor, p, q) /\ Nearer(anchor, q, r) => Nearer(anchor, p, r)
           /\ p # q => Nearer(anchor, p, q) \/ Nearer(anchor, q, p)
<1>1. \A p \in Nat : Distance(p, anchor) \in Int
  BY DEF Distance, Minus, Ranges
<1> QED
  BY <1>1 DEF Nearer

(* Above MaxPages eviction leaves MaxPages pages, or those of the anchor. *)
LEMMA EvictBounds ==
  ASSUME NEW ps, IsFiniteSet(DOMAIN ps), DOMAIN ps \subseteq Nat, NEW anchor \in Ranges
  PROVE  \/ Cardinality(DOMAIN Evict(ps, anchor)) <= MaxPages
         \/ DOMAIN Evict(ps, anchor) \subseteq anchor.start..anchor.end
<1> DEFINE kept   == DOMAIN ps \cap anchor.start..anchor.end
           others == DOMAIN ps \ kept
           before(p) == {n \in others : Nearer(anchor, n, p)}
           rank(p) == Cardinality(before(p))
           chosen == {p \in others : Cardinality(kept) + rank(p) < MaxPages}
<1>1. Evict(ps, anchor) = IF Cardinality(DOMAIN ps) <= MaxPages THEN ps
                          ELSE [p \in kept \cup chosen |-> ps[p]]
  BY Zenon DEF Evict
<1>2. CASE Cardinality(DOMAIN ps) <= MaxPages
  BY <1>1, <1>2
<1>3. CASE ~(Cardinality(DOMAIN ps) <= MaxPages)
  <2>1. DOMAIN Evict(ps, anchor) = kept \cup chosen
    BY <1>1, <1>3
  <2>2. IsFiniteSet(kept) /\ IsFiniteSet(others) /\ IsFiniteSet(chosen)
        /\ Cardinality(kept) \in Nat /\ Cardinality(chosen) \in Nat
    <3>1. IsFiniteSet(kept) /\ IsFiniteSet(others) /\ IsFiniteSet(chosen)
      <4>1. kept \in SUBSET DOMAIN ps /\ others \in SUBSET DOMAIN ps /\ chosen \in SUBSET DOMAIN ps
        OBVIOUS
      <4> HIDE DEF kept, others, chosen
      <4> QED
        BY <4>1, FS_Subset
    <3> HIDE DEF kept, others, chosen
    <3> QED
      BY <3>1, FS_CardinalityType
  <2>3. ASSUME NEW p \in others PROVE IsFiniteSet(before(p)) /\ rank(p) \in Nat
    <3>1. before(p) \in SUBSET others
      OBVIOUS
    <3> HIDE DEF before, others
    <3> QED
      BY <3>1, <2>2, FS_Subset, FS_CardinalityType
  <2>4. ASSUME NEW p \in others, NEW q \in others, p # q, rank(p) = rank(q) PROVE FALSE
    <3>1. ASSUME NEW x \in others, NEW y \in others, Nearer(anchor, x, y)
          PROVE  rank(x) # rank(y)
      <4>1. before(x) \in SUBSET before(y) /\ x \in before(y) /\ x \notin before(x)
        BY <3>1, NearerOrder
      <4> HIDE DEF before
      <4> QED
        BY <4>1, <2>3, FS_Subset
    <3>2. Nearer(anchor, p, q) \/ Nearer(anchor, q, p)
      BY <2>4, NearerOrder
    <3> HIDE DEF rank, others
    <3> QED
      BY <2>4, <3>1, <3>2
  <2>5. CASE Cardinality(kept) >= MaxPages
    <3>1. ASSUME NEW p \in others PROVE ~(Cardinality(kept) + rank(p) < MaxPages)
      <4>1. rank(p) \in Nat
        BY <2>3
      <4> HIDE DEF rank, kept
      <4> QED
        BY <4>1, <2>2, <2>5, PageAssumption
    <3>2. chosen = {}
      BY <3>1
    <3> QED
      BY <2>1, <3>2
  <2>6. CASE Cardinality(kept) < MaxPages
    <3> DEFINE m == MaxPages - Cardinality(kept)
               f == [p \in chosen |-> rank(p)]
    <3>1. m \in Nat /\ m > 0
      BY <2>2, <2>6, PageAssumption
    <3>2. \A p \in chosen : rank(p) \in 0..(m - 1)
      <4> TAKE p \in chosen
      <4>1. Cardinality(kept) + rank(p) < MaxPages /\ rank(p) \in Nat
        BY <2>3
      <4> HIDE DEF kept, rank, others, chosen
      <4> QED
        BY <4>1, <2>2, <2>6, PageAssumption
    <3>3. f \in Injection(chosen, 0..(m - 1))
      <4>1. f \in [chosen -> 0..(m - 1)]
        BY <3>2
      <4>2. \A p, q \in chosen : f[p] = f[q] => p = q
        <5>1. chosen \subseteq others
          OBVIOUS
        <5> HIDE DEF rank, others, chosen
        <5> QED
          BY <5>1, <2>4
      <4> QED
        BY <4>1, <4>2 DEF Injection, IsInjective
    <3>4. IsFiniteSet(0..(m - 1)) /\ Cardinality(0..(m - 1)) = m
      BY <3>1, FS_Interval
    <3> HIDE DEF kept, chosen, m, f
    <3>5. Cardinality(chosen) <= m
      BY <3>3, <3>4, FS_Injection
    <3>6. Cardinality(kept \cup chosen) <= Cardinality(kept) + Cardinality(chosen)
      <4>1. Cardinality(kept \cap chosen) \in Nat
        BY <2>2, FS_Intersection, FS_CardinalityType
      <4>2. Cardinality(kept \cup chosen) \in Nat
        BY <2>2, FS_Union, FS_CardinalityType
      <4>3. Cardinality(kept \cup chosen)
              = Cardinality(kept) + Cardinality(chosen) - Cardinality(kept \cap chosen)
        BY <2>2, FS_Union
      <4>4. Cardinality(kept) \in Nat /\ Cardinality(chosen) \in Nat
        BY <2>2, FS_CardinalityType
      <4> QED
        BY <4>1, <4>3, <4>4
    <3>7. Cardinality(kept \cup chosen) \in Nat
      BY <2>2, FS_Union, FS_CardinalityType
    <3> QED
      BY <2>1, <2>2, <3>5, <3>6, <3>7, PageAssumption DEF m
  <2> QED
    BY <2>2, <2>5, <2>6, PageAssumption
<1> QED
  BY <1>2, <1>3

(* What bounds the cache: its pages have rows, and a call that works in it asks
   for one of the windows. *)
Bounded ==
  /\ IsFiniteSet(DOMAIN pages)
  /\ \A p \in DOMAIN pages : p * PageSize < size[descriptor.filter]
  /\ \A w \in Windows : wpc[w] # "idle" => request[w] \in Requests
  /\ CacheBounded

(* Evicting for a request of the program leaves a cache within the bound. *)
LEMMA EvictedIsBounded ==
  ASSUME NEW q \in Requests, NEW ps, IsFiniteSet(DOMAIN ps), DOMAIN ps \subseteq Nat,
         pages' = Evict(ps, Anchor(q))
  PROVE  IsFiniteSet(DOMAIN pages') /\ CacheBounded'
<1>1. Anchor(q) \in Ranges
  BY RequestFacts, AnchorInMargin
<1>2. DOMAIN pages' \in SUBSET DOMAIN ps
  BY EvictKeepsAnchor
<1>3. IsFiniteSet(DOMAIN pages')
  BY <1>2, FS_Subset
<1>4. \/ Cardinality(DOMAIN pages') <= MaxPages
      \/ DOMAIN pages' \subseteq Anchor(q).start..Anchor(q).end
  BY <1>1, EvictBounds
<1>5. \A r : Anchor(r)' = Anchor(r)
  BY DEF Anchor, PageRange
<1>6. CacheBounded'
  BY <1>4, <1>5, Zenon DEF CacheBounded
<1> QED
  BY <1>3, <1>6

(* Only a call that replaces or fills changes the pages. *)
LEMMA CacheSteps ==
  ASSUME [Next]_vars
  PROVE  /\ size' = size
         /\ \/ UNCHANGED <<descriptor, pages>>
            \/ \E w \in Windows : ReplacePages(w) \/ FetchMissing(w)
BY DEF Next, WindowSteps, RequestWindow, LockQuery, ReplacePages, FetchMissing, LoadWindow,
       ReturnWindow, FailWindow, SetTotal, FailCount, EndCount, RequestCount, vars, cacheVars

LEMMA RequestStep ==
  ASSUME CacheShape, [Next]_vars,
         \A w \in Windows : wpc[w] # "idle" => request[w] \in Requests
  PROVE  \A w \in Windows : wpc'[w] # "idle" => request'[w] \in Requests
<1> TAKE v \in Windows
<1> USE DEF CacheShape, WindowAt, MoveWindow
<1>1. ASSUME NEW w \in Windows, NEW q \in Requests, RequestWindow(w, q)
      PROVE  wpc'[v] # "idle" => request'[v] \in Requests
  BY <1>1 DEF RequestWindow
<1>2. ASSUME NEW w \in Windows, LockQuery(w) PROVE wpc'[v] # "idle" => request'[v] \in Requests
  BY <1>2 DEF LockQuery
<1>3. ASSUME NEW w \in Windows, ReplacePages(w) PROVE wpc'[v] # "idle" => request'[v] \in Requests
  BY <1>3 DEF ReplacePages
<1>4. ASSUME NEW w \in Windows, FetchMissing(w) PROVE wpc'[v] # "idle" => request'[v] \in Requests
  BY <1>4 DEF FetchMissing
<1>5. ASSUME NEW w \in Windows, LoadWindow(w) PROVE wpc'[v] # "idle" => request'[v] \in Requests
  BY <1>5 DEF LoadWindow
<1>6. ASSUME NEW w \in Windows, ReturnWindow(w) PROVE wpc'[v] # "idle" => request'[v] \in Requests
  BY <1>6 DEF ReturnWindow
<1>7. ASSUME NEW w \in Windows, FailWindow(w) PROVE wpc'[v] # "idle" => request'[v] \in Requests
  BY <1>7 DEF FailWindow
<1>8. CASE UNCHANGED windowVars
  BY <1>8 DEF windowVars
<1> QED
  BY <1>1, <1>2, <1>3, <1>4, <1>5, <1>6, <1>7, <1>8
  DEF Next, WindowSteps, SetTotal, FailCount, EndCount, RequestCount, vars

(* The pages of a batch: finitely many, all with rows. *)
LEMMA BatchPages ==
  ASSUME CacheShape, NEW q \in WindowRequests, NEW range \in Ranges
  PROVE  LET new == BuildPages(range.start, Batch(q.view, range))
         IN  /\ IsFiniteSet(DOMAIN new) /\ DOMAIN new \subseteq Nat
             /\ \A p \in DOMAIN new : p * PageSize < size[q.view.filter]
<1> DEFINE new == BuildPages(range.start, Batch(q.view, range))
<1>1. /\ DOMAIN new \subseteq Nat /\ DOMAIN new \subseteq range.start..range.end
      /\ \A p \in DOMAIN new : p * PageSize < size[q.view.filter]
  <2>1. q.view \in Views /\ size \in [Filters -> Nat]
    BY DEF WindowRequests, CacheShape
  <2> QED
    BY <2>1, BuildIsExact
<1> HIDE DEF new
<1>2. IsFiniteSet(DOMAIN new)
  <2>1. IsFiniteSet(range.start..range.end)
    <3>1. range.start \in Int /\ range.end \in Int
      BY DEF Ranges
    <3> QED
      BY <3>1, FS_Interval
  <2>2. DOMAIN new \in SUBSET (range.start..range.end)
    BY <1>1
  <2> QED
    BY <2>1, <2>2, FS_Subset
<1> QED
  BY <1>1, <1>2 DEF new

LEMMA BoundedInit == CacheInit => Bounded
<1> SUFFICES ASSUME CacheInit PROVE Bounded
  OBVIOUS
<1> DEFINE first == [start |-> 0, end |-> 0]
<1>1. first \in Ranges /\ first.start = 0 /\ first.end = 0
  BY DEF Ranges
<1>2. size \in [Filters -> Nat] /\ descriptor = FirstView /\ descriptor \in Views
  BY Constants DEF CacheInit
<1>3. pages = BuildPages(first.start, Batch(descriptor, first))
  BY DEF CacheInit
<1>4. /\ DOMAIN pages \subseteq first.start..first.end
      /\ \A p \in DOMAIN pages : p * PageSize < size[descriptor.filter]
  <2> HIDE DEF first
  <2> QED
    BY <1>1, <1>2, <1>3, BuildIsExact
<1>5. DOMAIN pages \in SUBSET (0..0)
  BY <1>1, <1>4
<1>6. IsFiniteSet(0..0) /\ Cardinality(0..0) = 1
  <2>1. 0 \in Int /\ IF 0 > 0 THEN FALSE ELSE 0 - 0 + 1 = 1
    OBVIOUS
  <2> QED
    BY <2>1, FS_Interval
<1>7. IsFiniteSet(DOMAIN pages) /\ Cardinality(DOMAIN pages) <= 1
  BY <1>5, <1>6, FS_Subset
<1>8. Cardinality(DOMAIN pages) <= MaxPages
  BY <1>7, FS_CardinalityType, PageAssumption
<1> QED
  BY <1>4, <1>7, <1>8 DEF Bounded, CacheBounded, CacheInit

LEMMA BoundedStep == CacheInv /\ Bounded /\ [Next]_vars => Bounded'
<1> SUFFICES ASSUME CacheInv, Bounded, [Next]_vars PROVE Bounded'
  OBVIOUS
<1>0. CacheShape /\ FillIsComplete
  BY DEF CacheInv
<1>1. \A w \in Windows : wpc'[w] # "idle" => request'[w] \in Requests
  BY <1>0, RequestStep DEF Bounded
<1>2. \A r : Anchor(r)' = Anchor(r)
  BY DEF Anchor, PageRange
<1>3. CASE UNCHANGED <<descriptor, pages>>
  <2>1. size' = size
    BY CacheSteps
  <2>2. CacheBounded'
    BY <1>2, <1>3 DEF CacheBounded, Bounded
  <2> QED
    BY <1>1, <1>3, <2>1, <2>2 DEF Bounded
<1>4. ASSUME NEW w \in Windows, ReplacePages(w) PROVE Bounded'
  <2> DEFINE q == request[w]
             range == WithMargin(Anchor(q))
             new == BuildPages(range.start, Batch(q.view, range))
  <2>1. /\ pages' = Evict(new, Anchor(q)) /\ descriptor' = q.view /\ size' = size
        /\ wpc[w] = "replacing"
    BY <1>4 DEF ReplacePages, WindowAt
  <2>2. q \in Requests /\ q \in WindowRequests /\ range \in Ranges
    BY <2>1, RequestFacts, AnchorInMargin DEF Bounded
  <2>3. /\ IsFiniteSet(DOMAIN new) /\ DOMAIN new \subseteq Nat
        /\ \A p \in DOMAIN new : p * PageSize < size[q.view.filter]
    BY <1>0, <2>2, BatchPages
  <2> HIDE DEF q, range, new
  <2>4. IsFiniteSet(DOMAIN pages') /\ CacheBounded'
    BY <2>1, <2>2, <2>3, EvictedIsBounded
  <2>5. DOMAIN pages' \subseteq DOMAIN new
    BY <2>1, EvictKeepsAnchor
  <2> QED
    BY <1>1, <2>1, <2>3, <2>4, <2>5 DEF Bounded
<1>5. ASSUME NEW w \in Windows, FetchMissing(w) PROVE Bounded'
  <2> DEFINE q == request[w]
  <2>1. PICK range \in missing[w] :
          pages' = IF descriptor = q.view
                   THEN Evict(InsertPages(BuildPages(range.start, Batch(q.view, range)), pages),
                                 Anchor(q))
                   ELSE pages
    BY <1>5 DEF FetchMissing
  <2>2. UNCHANGED <<size, descriptor>> /\ wpc[w] = "filling" /\ descriptor = q.view
    BY <1>0, <1>5 DEF FetchMissing, WindowAt, FillIsComplete
  <2>3. q \in Requests /\ q \in WindowRequests /\ range \in Ranges
    BY <1>0, <2>2, RequestFacts DEF Bounded, CacheShape
  <2> DEFINE read == BuildPages(range.start, Batch(q.view, range))
             new == InsertPages(read, pages)
  <2>4. /\ IsFiniteSet(DOMAIN read) /\ DOMAIN read \subseteq Nat
        /\ \A p \in DOMAIN read : p * PageSize < size[q.view.filter]
    BY <1>0, <2>3, BatchPages
  <2>5. pages' = Evict(new, Anchor(q))
    BY <2>1, <2>2
  <2> HIDE DEF q, read
  <2>6. DOMAIN new = DOMAIN read \cup DOMAIN pages
    BY DEF InsertPages
  <2> HIDE DEF new
  <2>7. /\ IsFiniteSet(DOMAIN new) /\ DOMAIN new \subseteq Nat
        /\ \A p \in DOMAIN new : p * PageSize < size[descriptor.filter]
    <3>1. IsFiniteSet(DOMAIN pages) /\ DOMAIN pages \subseteq Nat
          /\ \A p \in DOMAIN pages : p * PageSize < size[descriptor.filter]
      BY <1>0 DEF Bounded, CacheShape
    <3>2. IsFiniteSet(DOMAIN new)
      BY <2>4, <2>6, <3>1, FS_Union
    <3> QED
      BY <2>2, <2>4, <2>6, <3>1, <3>2
  <2>8. IsFiniteSet(DOMAIN pages') /\ CacheBounded'
    BY <2>3, <2>5, <2>7, EvictedIsBounded
  <2>9. DOMAIN pages' \subseteq DOMAIN new
    BY <2>5, EvictKeepsAnchor
  <2> QED
    BY <1>1, <2>2, <2>7, <2>8, <2>9 DEF Bounded
<1> QED
  BY <1>3, <1>4, <1>5, CacheSteps

(* The cache never holds more than MAX_CACHED_PAGES pages, or those of one
   request (evict_cached_pages). *)
THEOREM CacheStaysBounded == Spec => []CacheBounded
<1>1. CacheInv /\ Bounded => CacheBounded
  BY DEF Bounded
<1> QED
  BY <1>1, CacheInvInit, CacheInvStep, BoundedInit, BoundedStep, PTL DEF Spec
-----------------------------------------------------------------------------
(* Types *)

LEMMA JoinQueue ==
  ASSUME NEW q \in Seq(Windows), IsInjective(q), NEW w \in Windows, w \notin ToSet(q)
  PROVE  IsInjective(Append(q, w)) /\ ToSet(Append(q, w)) = ToSet(q) \cup {w}
<1> DEFINE n == Len(q) + 1
           new == Append(q, w)
<1>1. /\ Len(q) \in Nat /\ DOMAIN q = 1..Len(q) /\ DOMAIN new = 1..n
      /\ new[n] = w /\ \A i \in 1..Len(q) : new[i] = q[i]
  OBVIOUS
<1>2. \A i \in 1..n : i = n \/ i \in 1..Len(q)
  BY <1>1
<1> HIDE DEF new
<1>3. IsInjective(new)
  BY <1>1, <1>2 DEF IsInjective, ToSet
<1>4. ToSet(new) = ToSet(q) \cup {w}
  BY <1>1, <1>2 DEF ToSet
<1> QED
  BY <1>3, <1>4 DEF new

LEMMA LeaveQueue ==
  ASSUME NEW q \in Seq(Windows), IsInjective(q), q # <<>>
  PROVE  IsInjective(Tail(q)) /\ ToSet(Tail(q)) = ToSet(q) \ {Head(q)}
<1>1. /\ Len(q) \in Nat /\ Len(q) > 0 /\ Len(Tail(q)) = Len(q) - 1
      /\ DOMAIN q = 1..Len(q) /\ DOMAIN Tail(q) = 1..(Len(q) - 1)
      /\ Head(q) = q[1] /\ \A i \in 1..(Len(q) - 1) : Tail(q)[i] = q[i + 1]
  OBVIOUS
<1>2. IsInjective(Tail(q))
  BY <1>1 DEF IsInjective
<1>3. ASSUME NEW x \in ToSet(Tail(q)) PROVE x \in ToSet(q) \ {Head(q)}
  <2>1. PICK i \in 1..(Len(q) - 1) : x = q[i + 1]
    BY <1>1 DEF ToSet
  <2>2. i + 1 \in DOMAIN q /\ i + 1 # 1 /\ 1 \in DOMAIN q
    BY <1>1
  <2> QED
    BY <1>1, <2>1, <2>2 DEF ToSet, IsInjective
<1>4. ASSUME NEW x \in ToSet(q) \ {Head(q)} PROVE x \in ToSet(Tail(q))
  <2>1. PICK i \in 1..Len(q) : x = q[i]
    BY <1>1 DEF ToSet
  <2>2. i - 1 \in 1..(Len(q) - 1) /\ q[(i - 1) + 1] = x
    BY <1>1, <1>4, <2>1
  <2> QED
    BY <1>1, <2>2 DEF ToSet
<1> QED
  BY <1>2, <1>3, <1>4

(* query_lock names the calls that wait for it or work under it, once each. *)
InQueue == {w \in Windows : wpc[w] \in {"waiting", "replacing", "filling"}}
QueueInv == IsInjective(queue) /\ ToSet(queue) = InQueue

CountInv ==
  /\ counted \in Filters /\ total \in Nat \cup {Unknown}
  /\ cpc \in [Counts -> {"idle", "counting"}] /\ countOf \in [Counts -> Filters]

LEMMA QueueStep == CacheShape /\ HolderWorks /\ QueueInv /\ [Next]_vars => QueueInv'
<1> SUFFICES ASSUME CacheShape, HolderWorks, QueueInv, [Next]_vars PROVE QueueInv'
  OBVIOUS
<1>0. queue \in Seq(Windows) /\ wpc \in [Windows -> WindowPlaces]
  BY DEF CacheShape
<1> USE DEF WindowAt, MoveWindow
<1>1. ASSUME NEW w \in Windows, NEW q \in Requests, RequestWindow(w, q) PROVE QueueInv'
  <2>1. wpc[w] = "idle" /\ wpc' = [wpc EXCEPT ![w] = "waiting"] /\ queue' = Append(queue, w)
    BY <1>1 DEF RequestWindow
  <2>2. w \notin InQueue /\ InQueue' = InQueue \cup {w}
    BY <1>0, <2>1 DEF InQueue
  <2> QED
    BY <1>0, <2>1, <2>2, JoinQueue DEF QueueInv
<1>2. ASSUME NEW w \in Windows, w \in InQueue, queue' = queue,
             wpc' = [wpc EXCEPT ![w] = "replacing"] \/ wpc' = [wpc EXCEPT ![w] = "filling"]
      PROVE  QueueInv'
  <2>1. InQueue' = InQueue
    BY <1>0, <1>2 DEF InQueue
  <2> QED
    BY <1>2, <2>1 DEF QueueInv
<1>3. ASSUME NEW w \in Windows, wpc[w] \in {"replacing", "filling"}, queue' = Tail(queue),
             wpc' = [wpc EXCEPT ![w] = "answered"] \/ wpc' = [wpc EXCEPT ![w] = "idle"]
      PROVE  QueueInv'
  <2>1. queue # <<>> /\ Head(queue) = w
    BY <1>3 DEF HolderWorks, HoldsLock
  <2>2. InQueue' = InQueue \ {w}
    BY <1>0, <1>3 DEF InQueue
  <2> QED
    BY <1>0, <1>3, <2>1, <2>2, LeaveQueue DEF QueueInv
<1>4. ASSUME UNCHANGED <<queue, wpc>> PROVE QueueInv'
  BY <1>4 DEF QueueInv, InQueue
<1>5. ASSUME NEW w \in Windows, LockQuery(w) \/ ReplacePages(w) PROVE QueueInv'
  BY <1>2, <1>5 DEF LockQuery, ReplacePages, InQueue
<1>6. ASSUME NEW w \in Windows, LoadWindow(w) \/ FailWindow(w) PROVE QueueInv'
  BY <1>3, <1>6 DEF LoadWindow, FailWindow
<1>7. ASSUME NEW w \in Windows, ReturnWindow(w) PROVE QueueInv'
  <2>1. wpc[w] = "answered" /\ wpc' = [wpc EXCEPT ![w] = "idle"] /\ queue' = queue
    BY <1>7 DEF ReturnWindow
  <2>2. InQueue' = InQueue
    BY <1>0, <2>1 DEF InQueue
  <2> QED
    BY <2>1, <2>2 DEF QueueInv
<1>8. ASSUME NEW w \in Windows, FetchMissing(w) PROVE QueueInv'
  BY <1>4, <1>8 DEF FetchMissing
<1>9. CASE UNCHANGED windowVars
  BY <1>4, <1>9 DEF windowVars
<1> QED
  BY <1>1, <1>5, <1>6, <1>7, <1>8, <1>9
  DEF Next, WindowSteps, SetTotal, FailCount, EndCount, RequestCount, vars

LEMMA CountStep == CacheShape /\ CountInv /\ [Next]_vars => CountInv'
<1> SUFFICES ASSUME CacheShape, CountInv, [Next]_vars PROVE CountInv'
  OBVIOUS
<1>0. size \in [Filters -> Nat] /\ FirstView.filter \in Filters
  BY Constants DEF CacheShape, Views
<1> USE DEF CountInv
<1>1. ASSUME UNCHANGED <<cacheVars, countVars>> PROVE CountInv'
  BY <1>1 DEF cacheVars, countVars
<1>2. ASSUME NEW w \in Windows, ReplacePages(w) PROVE CountInv'
  <2>1. request[w].view.filter \in Filters
    BY DEF CacheShape, WindowRequests, Views
  <2>2. /\ counted' = request[w].view.filter /\ UNCHANGED countVars
        /\ total' \in {total, Unknown}
    BY <1>2 DEF ReplacePages
  <2> QED
    BY <2>1, <2>2 DEF countVars
<1>3. ASSUME NEW w \in Windows, FetchMissing(w) PROVE CountInv'
  BY <1>3 DEF FetchMissing, countVars
<1>4. ASSUME NEW c \in Counts, NEW f \in Filters, RequestCount(c, f) PROVE CountInv'
  BY <1>4 DEF RequestCount, cacheVars
<1>5. ASSUME NEW c \in Counts, SetTotal(c) \/ FailCount(c) PROVE CountInv'
  BY <1>0, <1>5 DEF SetTotal, FailCount, EndCount
<1>6. ASSUME NEW w \in Windows,
             \/ LockQuery(w) \/ LoadWindow(w) \/ ReturnWindow(w) \/ FailWindow(w)
             \/ \E q \in Requests : RequestWindow(w, q)
      PROVE  UNCHANGED <<cacheVars, countVars>>
  BY <1>6 DEF LockQuery, LoadWindow, ReturnWindow, FailWindow, RequestWindow
<1>7. CASE UNCHANGED vars
  BY <1>1, <1>7 DEF vars
<1> QED
  BY <1>1, <1>2, <1>3, <1>4, <1>5, <1>6, <1>7 DEF Next, WindowSteps

(* An exact page that has rows is a whole record. *)
LEMMA PageShape ==
  ASSUME size \in [Filters -> Nat], NEW view \in Views, NEW p \in Nat,
         p * PageSize < size[view.filter]
  PROVE  PageOf(view, p) \in [of : Views, first : Nat, count : 1..PageSize, more : BOOLEAN]
<1> DEFINE N == size[view.filter]
           x == p * PageSize
<1>1. N \in Nat /\ x \in Nat /\ x < N /\ PageSize \in Nat /\ PageSize > 0
  BY Constants DEF Views
<1> HIDE DEF N, x
<1>2. Least(PageSize, N - x) \in 1..PageSize /\ (N - x > PageSize) \in BOOLEAN
  BY <1>1 DEF Least
<1>3. PageOf(view, p) = [of |-> view, first |-> x, count |-> Least(PageSize, N - x),
                         more |-> N - x > PageSize]
  BY DEF PageOf, N, x
<1> QED
  BY <1>1, <1>2, <1>3

LEMMA TypesInit == CacheInit => QueueInv /\ CountInv
<1>1. FirstView.filter \in Filters
  BY Constants DEF Views
<1> QED
  BY <1>1 DEF CacheInit, QueueInv, CountInv, InQueue, IsInjective, ToSet

(* Every variable keeps its shape, and query_lock names each call once. *)
THEOREM CacheTyped == Spec => []CacheTypeOK
<1>1. CacheInv /\ Bounded /\ QueueInv /\ CountInv => CacheTypeOK
  <2> SUFFICES ASSUME CacheInv, Bounded, QueueInv, CountInv PROVE CacheTypeOK
    OBVIOUS
  <2>1. CacheShape /\ HolderWorks /\ PagesAreExact
    BY DEF CacheInv
  <2>2. \A p \in DOMAIN pages :
          pages[p] \in [of : Views, first : Nat, count : 1..PageSize, more : BOOLEAN]
    BY <2>1, PageShape DEF PagesAreExact, Bounded, CacheShape
  <2> QED
    BY <2>1, <2>2, Zenon DEF CacheTypeOK, CacheShape, HolderWorks, QueueInv, InQueue, CountInv
<1>2. CacheInv /\ QueueInv /\ CountInv /\ [Next]_vars => QueueInv' /\ CountInv'
  BY QueueStep, CountStep DEF CacheInv
<1> QED
  BY <1>1, <1>2, TypesInit, CacheInvInit, CacheInvStep, BoundedInit, BoundedStep, PTL DEF Spec

-----------------------------------------------------------------------------
(* Folds *)

(* The folds of the community modules take the elements of a set in the order
   that CHOOSE picks them, and are choices of a function that satisfies their
   recursion.  To reason about one, a function that does is exhibited, and what
   every such function computes is shown by induction over the subsets. *)
Pick(s) == CHOOSE x \in s : TRUE

LEMMA PickIsIn == \A s : s # {} => Pick(s) \in s
BY DEF Pick

LEMMA SubsetInduction ==
  ASSUME NEW S, IsFiniteSet(S), NEW G, {} \in G,
         \A T \in SUBSET S : T # {} /\ T \ {Pick(T)} \in G => T \in G
  PROVE  \A T \in SUBSET S : T \in G
<1> DEFINE Bad == {T \in SUBSET S : T \notin G}
           Sizes0 == {Cardinality(T) : T \in Bad}
<1> SUFFICES ASSUME Bad # {} PROVE FALSE
  OBVIOUS
<1>1. \A T \in SUBSET S : IsFiniteSet(T) /\ Cardinality(T) \in Nat
  BY FS_Subset, FS_CardinalityType
<1>2. PICK k \in Sizes0 : \A y \in Sizes0 : k <= y
  <2>1. Sizes0 \subseteq Nat /\ Sizes0 # {}
    BY <1>1
  <2> HIDE DEF Sizes0
  <2> QED
    BY <2>1, LeastNat
<1>3. PICK T \in Bad : k = Cardinality(T)
  BY <1>2
<1>4. T # {} /\ Pick(T) \in T
  BY PickIsIn
<1>5. T \ {Pick(T)} \in SUBSET S /\ Cardinality(T \ {Pick(T)}) = Cardinality(T) - 1
  BY <1>1, <1>4, FS_RemoveElement
<1>6. T \ {Pick(T)} \notin Bad
  <2>1. ~(Cardinality(T) <= Cardinality(T \ {Pick(T)}))
    BY <1>1, <1>3, <1>5
  <2> HIDE DEF Bad
  <2> QED
    BY <2>1, <1>2, <1>3
<1> QED
  BY <1>4, <1>5, <1>6

LEMMA GreatestBounds ==
  \A a, b \in Nat : Greatest(a, b) \in {a, b} /\ a <= Greatest(a, b) /\ b <= Greatest(a, b)
BY DEF Greatest

LEMMA MaximumExists ==
  ASSUME NEW S, IsFiniteSet(S), S \subseteq Nat
  PROVE  \A T \in SUBSET S : T # {} => \E m \in T : \A x \in T : x <= m
<1> DEFINE G == {T \in SUBSET S : T # {} => \E m \in T : \A x \in T : x <= m}
<1>1. {} \in G
  OBVIOUS
<1>2. ASSUME NEW T \in SUBSET S, T # {}, T \ {Pick(T)} \in G PROVE T \in G
  <2>1. Pick(T) \in T /\ T \subseteq Nat
    BY <1>2, PickIsIn
  <2>2. CASE T \ {Pick(T)} = {}
    <3>1. \A x \in T : x <= Pick(T)
      BY <2>1, <2>2
    <3> QED
      BY <2>1, <3>1
  <2>3. CASE T \ {Pick(T)} # {}
    <3>1. PICK m \in T \ {Pick(T)} : \A x \in T \ {Pick(T)} : x <= m
      BY <1>2, <2>3
    <3> DEFINE top == Greatest(m, Pick(T))
    <3>2. top \in {m, Pick(T)} /\ m <= top /\ Pick(T) <= top
      BY <2>1, <3>1, GreatestBounds
    <3> HIDE DEF top
    <3>3. top \in T /\ \A x \in T : x <= top
      BY <2>1, <3>1, <3>2
    <3> QED
      BY <3>3
  <2> QED
    BY <2>2, <2>3
<1> HIDE DEF G
<1>3. \A T \in SUBSET S : T \in G
  BY <1>1, <1>2, SubsetInduction
<1> QED
  BY <1>3 DEF G

MaxStep(f, S) ==
  [s \in SUBSET S |-> IF s = {} THEN 0 ELSE LET x == Pick(s) IN Greatest(x, f[s \ {x}])]

LEMMA MaxFold == \A S : FoldSet(Greatest, 0, S) = (CHOOSE f : f = MaxStep(f, S))[S]
BY Zenon DEF FoldSet, MapThenFoldSet, MaxStep, Pick

(* HighestKnown: the fold of Greatest is the largest member. *)
LEMMA FoldGreatest ==
  ASSUME NEW S, IsFiniteSet(S), S \subseteq Nat
  PROVE  /\ FoldSet(Greatest, 0, S) \in S \cup {0}
         /\ \A x \in S : x <= FoldSet(Greatest, 0, S)
<1> DEFINE g == [s \in SUBSET S |-> IF s = {} THEN 0 ELSE CHOOSE m \in s : \A x \in s : x <= m]
<1>1. \A s \in SUBSET S : s # {} => g[s] \in s /\ \A x \in s : x <= g[s]
  BY MaximumExists
<1>2. ASSUME NEW s \in SUBSET S, s # {} PROVE g[s] = Greatest(Pick(s), g[s \ {Pick(s)}])
  <2>1. Pick(s) \in s /\ s \subseteq Nat /\ Pick(s) \in Nat
    BY <1>2, PickIsIn
  <2>2. g[s] \in s /\ g[s] \in Nat /\ \A x \in s : x <= g[s]
    BY <1>1, <1>2
  <2>3. CASE s \ {Pick(s)} = {}
    <3>1. g[s \ {Pick(s)}] = 0 /\ g[s] = Pick(s)
      BY <2>2, <2>3
    <3>2. Greatest(Pick(s), 0) = Pick(s)
      BY <2>1 DEF Greatest
    <3> HIDE DEF g
    <3> QED
      BY <3>1, <3>2
  <2>4. CASE s \ {Pick(s)} # {}
    <3> DEFINE y == g[s \ {Pick(s)}]
    <3>1. y \in s \ {Pick(s)} /\ \A x \in s \ {Pick(s)} : x <= y
      BY <1>1, <2>4
    <3> HIDE DEF g, y
    <3>2. y \in Nat /\ y <= g[s] /\ Pick(s) <= g[s] /\ (g[s] = Pick(s) \/ g[s] <= y)
      BY <2>1, <2>2, <3>1
    <3>3. g[s] = Greatest(Pick(s), y)
      BY <2>1, <2>2, <3>2 DEF Greatest
    <3> QED
      BY <3>3 DEF y
  <2> QED
    BY <2>3, <2>4
<1>3. g = MaxStep(g, S)
  <2>1. \A s \in SUBSET S :
          g[s] = IF s = {} THEN 0 ELSE LET x == Pick(s) IN Greatest(x, g[s \ {x}])
    BY <1>2
  <2>2. g = [s \in SUBSET S |-> g[s]]
    OBVIOUS
  <2> HIDE DEF g
  <2> QED
    BY <2>1, <2>2, Zenon DEF MaxStep
<1> DEFINE f == CHOOSE h : h = MaxStep(h, S)
<1>4. f = MaxStep(f, S)
  <2> HIDE DEF g
  <2> QED
    BY <1>3, Zenon
<1> HIDE DEF f, g
<1> DEFINE G == {s \in SUBSET S : f[s] \in s \cup {0} /\ \A x \in s : x <= f[s]}
<1>5. \A s \in SUBSET S : f[s] = IF s = {} THEN 0 ELSE Greatest(Pick(s), f[s \ {Pick(s)}])
  BY <1>4, Zenon DEF MaxStep
<1>6. {} \in G
  BY <1>5
<1>7. ASSUME NEW s \in SUBSET S, s # {}, s \ {Pick(s)} \in G PROVE s \in G
  <2> DEFINE y == f[s \ {Pick(s)}]
  <2>1. Pick(s) \in s /\ s \subseteq Nat /\ Pick(s) \in Nat
    BY <1>7, PickIsIn
  <2>2. y \in (s \ {Pick(s)}) \cup {0} /\ \A x \in s \ {Pick(s)} : x <= y
    BY <1>7
  <2>3. f[s] = Greatest(Pick(s), y)
    BY <1>5, <1>7
  <2> HIDE DEF y
  <2>4. y \in Nat /\ Pick(s) \in Nat
    BY <2>1, <2>2
  <2>5. f[s] \in {Pick(s), y} /\ Pick(s) <= f[s] /\ y <= f[s]
    BY <2>3, <2>4, GreatestBounds
  <2>6. f[s] \in s \cup {0} /\ \A x \in s : x <= f[s]
    BY <2>1, <2>2, <2>4, <2>5
  <2> QED
    BY <2>6
<1> HIDE DEF G
<1>8. S \in G
  BY <1>6, <1>7, SubsetInduction
<1> QED
  BY <1>8, MaxFold, Zenon DEF G, f

-----------------------------------------------------------------------------
(* The visible row count *)

ViewRows == size[descriptor.filter]

(* What holds of the pages in every state, in terms of the view's rows. *)
LEMMA PageFacts ==
  ASSUME CacheShape, PagesAreExact, Bounded
  PROVE  /\ ViewRows \in Nat /\ PageSize \in Nat \ {0}
         /\ IsFiniteSet(DOMAIN pages) /\ DOMAIN pages \subseteq Nat
         /\ \A p \in DOMAIN pages :
              /\ p * PageSize \in Nat /\ p * PageSize < ViewRows
              /\ pages[p].count = Least(PageSize, ViewRows - p * PageSize)
              /\ pages[p].more <=> ViewRows - p * PageSize > PageSize
<1>1. ViewRows \in Nat /\ PageSize \in Nat \ {0} /\ DOMAIN pages \subseteq Nat
  BY Constants DEF ViewRows, CacheShape, Views
<1>2. ASSUME NEW p \in DOMAIN pages
      PROVE  /\ p * PageSize \in Nat /\ p * PageSize < ViewRows
             /\ pages[p].count = Least(PageSize, ViewRows - p * PageSize)
             /\ pages[p].more <=> ViewRows - p * PageSize > PageSize
  <2>1. pages[p] = PageOf(descriptor, p)
    BY DEF PagesAreExact
  <2>2. pages[p] = [of |-> descriptor, first |-> p * PageSize,
                    count |-> Least(PageSize, ViewRows - p * PageSize),
                    more |-> ViewRows - p * PageSize > PageSize]
    BY <2>1, Zenon DEF PageOf, ViewRows
  <2>3. p * PageSize \in Nat /\ p * PageSize < ViewRows
    BY <1>1 DEF Bounded, ViewRows
  <2> DEFINE c == Least(PageSize, ViewRows - p * PageSize)
             b == ViewRows - p * PageSize > PageSize
  <2>4. pages[p] = [of |-> descriptor, first |-> p * PageSize, count |-> c, more |-> b]
    BY <2>2
  <2> HIDE DEF c, b
  <2>5. pages[p].count = c /\ pages[p].more = b
    BY <2>4
  <2>6. /\ pages[p].count = Least(PageSize, ViewRows - p * PageSize)
        /\ pages[p].more <=> ViewRows - p * PageSize > PageSize
    BY <2>5, Zenon DEF c, b
  <2> QED
    BY <2>3, <2>6
<1> QED
  BY <1>1, <1>2 DEF Bounded

(* HighestKnown is where the highest cached row ends. *)
LEMMA HighestFacts ==
  ASSUME CacheShape, PagesAreExact, Bounded
  PROVE  /\ HighestKnown \in Nat /\ HighestKnown <= ViewRows
         /\ \A p \in DOMAIN pages : p * PageSize + pages[p].count <= HighestKnown
<1> DEFINE ends == {p * PageSize + pages[p].count : p \in DOMAIN pages}
<1>1. ASSUME NEW p \in DOMAIN pages
      PROVE  /\ p * PageSize + pages[p].count \in Nat
             /\ p * PageSize + pages[p].count <= ViewRows
  <2>1. /\ ViewRows \in Nat /\ PageSize \in Nat \ {0}
        /\ p * PageSize \in Nat /\ p * PageSize < ViewRows
        /\ pages[p].count = Least(PageSize, ViewRows - p * PageSize)
    BY PageFacts
  <2> DEFINE x == p * PageSize
  <2> HIDE DEF x
  <2>2. /\ x + Least(PageSize, ViewRows - x) \in Nat
        /\ x + Least(PageSize, ViewRows - x) <= ViewRows
    BY <2>1 DEF Least, x
  <2> QED
    BY <2>1, <2>2 DEF x
<1>2. ends \subseteq Nat
  BY <1>1
<1>3. IsFiniteSet(ends)
  <2>1. IsFiniteSet(DOMAIN pages)
    BY DEF Bounded
  <2> DEFINE h == [p \in DOMAIN pages |-> p * PageSize + pages[p].count]
  <2>2. h \in Surjection(DOMAIN pages, ends)
    BY DEF Surjection
  <2> HIDE DEF h, ends
  <2> QED
    BY <2>1, <2>2, FS_Surjection
<1>4. HighestKnown = FoldSet(Greatest, 0, ends)
  BY Zenon DEF HighestKnown
<1> HIDE DEF ends
<1>5. HighestKnown \in ends \cup {0} /\ \A x \in ends : x <= HighestKnown
  BY <1>2, <1>3, <1>4, FoldGreatest
<1>6. ViewRows \in Nat
  BY PageFacts
<1> QED
  BY <1>1, <1>2, <1>5, <1>6 DEF ends

LEMMA RowsCounted ==
  ASSUME size \in [Filters -> Nat], NEW q \in WindowRequests
  PROVE  LET N == size[q.view.filter]
             to == Least(q.offset + q.limit, N)
         IN  Cardinality(RowsOf(q)) = IF q.offset < to THEN to - q.offset ELSE 0
<1> DEFINE N == size[q.view.filter]
           to == Least(q.offset + q.limit, N)
           h == [pos \in q.offset..(to - 1) |-> <<q.view, pos>>]
<1>1. N \in Nat /\ q.offset \in Nat /\ q.offset + q.limit \in Nat
  BY DEF WindowRequests, Views
<1>2. to \in Nat
  BY <1>1 DEF Least
<1>3. RowsOf(q) = {<<q.view, pos>> : pos \in q.offset..(to - 1)}
  BY Zenon DEF RowsOf
<1>4. h \in Bijection(q.offset..(to - 1), RowsOf(q))
  <2> HIDE DEF N, to
  <2>1. h \in Surjection(q.offset..(to - 1), RowsOf(q))
    BY <1>3 DEF Surjection
  <2>2. h \in Injection(q.offset..(to - 1), RowsOf(q))
    BY <1>3 DEF Injection, IsInjective
  <2> QED
    BY <2>1, <2>2 DEF Bijection
<1> HIDE DEF N, to, h
<1>5. /\ IsFiniteSet(q.offset..(to - 1))
      /\ Cardinality(q.offset..(to - 1)) = IF q.offset > to - 1 THEN 0 ELSE (to - 1) - q.offset + 1
  <2>1. q.offset \in Int /\ to - 1 \in Int
    BY <1>1, <1>2
  <2> QED
    BY <2>1, FS_Interval
<1>6. Cardinality(RowsOf(q)) = Cardinality(q.offset..(to - 1))
  BY <1>4, <1>5, FS_Bijection DEF ExistsBijection
<1>7. Cardinality(RowsOf(q)) = IF q.offset < to THEN to - q.offset ELSE 0
  BY <1>1, <1>2, <1>5, <1>6
<1> QED
  BY <1>7 DEF to, N

ScrollOf(w) ==
  wpc[w] = "answered" =>
    LET rows == size[request[w].view.filter]
        end  == request[w].offset + Cardinality(answer[w].rows)
    IN  /\ answer[w].visible <= rows
        /\ rows > end <=> answer[w].visible > end

LEMMA ScrollByWindow ==
  /\ VisibleSupportsScroll <=> \A w \in Windows : ScrollOf(w)
  /\ VisibleSupportsScroll' <=> \A w \in Windows : ScrollOf(w)'
BY Zenon DEF VisibleSupportsScroll, ScrollOf

(* What a call that has every page of its window announces: the total, or a row
   past the window when a page says that rows follow, or else the end of the
   highest cached page, which is then the end of the view or within the window. *)
LEMMA VisibleIsRight ==
  ASSUME CacheShape, PagesAreExact, Bounded, TotalIsOfFilter,
         NEW q \in WindowRequests, descriptor = q.view,
         \A p \in Anchor(q).start..Anchor(q).end : p * PageSize < ViewRows => p \in DOMAIN pages
  PROVE  LET end == q.offset + Cardinality(RowsOf(q))
         IN  VisibleRows(q) <= ViewRows /\ (ViewRows > end <=> VisibleRows(q) > end)
<1> DEFINE n == PageSize
           N == ViewRows
           H == HighestKnown
           high == q.offset + q.limit
           last == Anchor(q).end
           found == Cardinality(RowsOf(q))
           end == q.offset + found
           beyond == \/ \E p \in DOMAIN pages : p > last
                     \/ last \in DOMAIN pages /\ pages[last].more
<1>1. /\ n \in Nat \ {0} /\ N \in Nat /\ q.offset \in Nat /\ high \in Nat /\ q.offset < high
      /\ H \in Nat /\ H <= N
  BY PageFacts, HighestFacts DEF WindowRequests
<1>2. found = IF q.offset < Least(high, N) THEN Least(high, N) - q.offset ELSE 0
  <2>1. size \in [Filters -> Nat] /\ N = size[q.view.filter]
    BY DEF CacheShape, ViewRows
  <2> HIDE DEF N, high
  <2> QED
    BY <2>1, RowsCounted DEF high
<1>3. last \in Nat /\ last * n <= high - 1 /\ high - 1 < last * n + n /\ last * n \in Nat
  <2>1. last = (high - 1) \div n
    <3>1. q.offset + q.limit - 1 = high - 1
      BY DEF WindowRequests
    <3> QED
      BY <3>1, AnchorInMargin
  <2>2. high - 1 \in Nat
    BY <1>1
  <2> DEFINE a == high - 1
  <2>3. (a \div n) \in Nat /\ (a \div n) * n <= a /\ a < (a \div n) * n + n
    <3> HIDE DEF a, n
    <3> QED
      BY <1>1, <2>2, DivBounds DEF a
  <2>4. last = a \div n
    BY <2>1
  <2> HIDE DEF last, a, n
  <2>5. last \in Nat /\ last * n <= a /\ a < last * n + n
    BY <2>3, <2>4
  <2> QED
    BY <1>1, <2>5 DEF a
<1>4. VisibleRows(q) = IF total # Unknown THEN total
                       ELSE IF beyond THEN Greatest(H, q.offset + Cardinality(RowsAt(q)) + 1)
                       ELSE H
  BY Zenon DEF VisibleRows
<1>5. RowsAt(q) = RowsOf(q)
  BY RowsAreExact DEF CacheShape, ViewRows
<1>6. total # Unknown => total = N
  BY DEF TotalIsOfFilter, ViewRows
<1>7. end \in Nat /\ (N > end => end = high) /\ (N > high => end = high /\ N > end)
  BY <1>1, <1>2 DEF Least
<1>8. beyond => N > high
  <2>1. ASSUME NEW p \in DOMAIN pages, p > last PROVE N > high
    <3>1. p \in Nat /\ p * n \in Nat /\ p * n < N
      BY PageFacts
    <3>2. last * n + n <= p * n
      BY <1>1, <1>3, <2>1, <3>1, NextMultiple
    <3> HIDE DEF n, N, last, high
    <3> QED
      BY <1>1, <1>3, <3>1, <3>2
  <2>2. ASSUME last \in DOMAIN pages, pages[last].more PROVE N > high
    <3>1. N - last * n > n
      BY <2>2, PageFacts
    <3> HIDE DEF n, N, last, high
    <3> QED
      BY <1>1, <1>3, <3>1
  <2> HIDE DEF N, high, last
  <2> QED
    BY <2>1, <2>2
<1>9. ~beyond /\ N > high => H = N
  <2> SUFFICES ASSUME ~beyond, N > high PROVE H = N
    OBVIOUS
  <2>1. last * n < N
    BY <1>1, <1>3
  <2>2. last \in Anchor(q).start..Anchor(q).end
    BY AnchorInMargin DEF Ranges
  <2>3. last \in DOMAIN pages
    BY <2>1, <2>2
  <2>4. /\ ~(N - last * n > n) /\ pages[last].count = Least(n, N - last * n)
        /\ last * n + pages[last].count <= H
    BY <2>3, PageFacts, HighestFacts
  <2> HIDE DEF n, N, H, last
  <2> QED
    BY <1>1, <1>3, <2>1, <2>4 DEF Least
<1> HIDE DEF n, N, H, high, last, found, beyond
<1>10. VisibleRows(q) <= N /\ (N > end <=> VisibleRows(q) > end)
  <2> DEFINE E == q.offset + found
  <2>1. VisibleRows(q) = IF total # Unknown THEN N
                         ELSE IF beyond THEN Greatest(H, E + 1) ELSE H
    BY <1>4, <1>5, <1>6 DEF found
  <2>2. E \in Nat /\ (N > E => E = high) /\ (N > high => E = high /\ N > E)
    BY <1>7
  <2> HIDE DEF E
  <2> QED
    BY <2>1, <2>2, <1>1, <1>8, <1>9 DEF Greatest, E
<1> QED
  BY <1>10 DEF N, found

(* An answer that is kept, beside a table that does not change. *)
LEMMA ScrollFrame ==
  ASSUME NEW w \in Windows, UNCHANGED size, ScrollOf(w),
         wpc'[w] = wpc[w], request'[w] = request[w], answer'[w] = answer[w]
  PROVE  ScrollOf(w)'
BY DEF ScrollOf

LEMMA ScrollStep ==
  CacheInv /\ Bounded /\ TotalIsOfFilter /\ VisibleSupportsScroll /\ [Next]_vars
    => VisibleSupportsScroll'
<1> SUFFICES ASSUME CacheInv, Bounded, TotalIsOfFilter, VisibleSupportsScroll, [Next]_vars,
                    NEW v \in Windows
             PROVE  ScrollOf(v)'
  BY ScrollByWindow
<1>0. CacheShape /\ PagesAreExact /\ FillOf(v) /\ ScrollOf(v) /\ size' = size
  BY ByWindow, ScrollByWindow, CacheSteps DEF CacheInv
<1>1. ASSUME NEW w \in Windows, LoadWindow(w) PROVE ScrollOf(v)'
  <2> DEFINE q == request[w]
  <2>1. /\ request' = request /\ wpc[w] = "filling" /\ missing[w] = {}
        /\ wpc' = [wpc EXCEPT ![w] = "answered"]
        /\ answer' = [answer EXCEPT ![w] = [rows |-> RowsAt(q), visible |-> VisibleRows(q)]]
    BY <1>1 DEF LoadWindow, WindowAt, MoveWindow
  <2>2. CASE v = w
    <3>1. /\ q \in WindowRequests /\ descriptor = q.view
          /\ \A p \in Anchor(q).start..Anchor(q).end : p * PageSize < ViewRows => p \in DOMAIN pages
      BY <1>0, <2>1, <2>2 DEF FillOf, CacheShape, ViewRows
    <3>2. answer'[w] = [rows |-> RowsAt(q), visible |-> VisibleRows(q)]
      <4> HIDE DEF q
      <4> QED
        BY <1>0, <2>1 DEF CacheShape
    <3> HIDE DEF q
    <3>3. RowsAt(q) = RowsOf(q)
      BY <1>0, <3>1, RowsAreExact DEF CacheShape, ViewRows
    <3>4. LET end == q.offset + Cardinality(RowsOf(q))
          IN  VisibleRows(q) <= ViewRows /\ (ViewRows > end <=> VisibleRows(q) > end)
      BY <1>0, <3>1, VisibleIsRight
    <3>5. /\ answer'[w].rows = RowsOf(q) /\ answer'[w].visible = VisibleRows(q)
          /\ size'[request'[w].view.filter] = ViewRows /\ request'[w] = q
      BY <1>0, <2>1, <3>1, <3>2, <3>3 DEF ViewRows, q
    <3> QED
      BY <2>2, <3>4, <3>5 DEF ScrollOf
  <2>3. CASE v # w
    <3>1. wpc'[v] = wpc[v] /\ answer'[v] = answer[v] /\ request'[v] = request[v]
      <4> HIDE DEF q
      <4> QED
        BY <1>0, <2>1, <2>3 DEF CacheShape
    <3> QED
      BY <1>0, <3>1, ScrollFrame
  <2> QED
    BY <2>2, <2>3
<1>2. ASSUME NEW w \in Windows, wpc'[w] # "answered",
             \A u \in Windows \ {w} :
               wpc'[u] = wpc[u] /\ request'[u] = request[u] /\ answer'[u] = answer[u]
      PROVE  ScrollOf(v)'
  <2>1. CASE v = w
    BY <1>2, <2>1 DEF ScrollOf
  <2>2. CASE v # w
    BY <1>0, <1>2, <2>2, ScrollFrame
  <2> QED
    BY <2>1, <2>2
<1>3. ASSUME UNCHANGED <<wpc, request, answer>> PROVE ScrollOf(v)'
  BY <1>0, <1>3, ScrollFrame
<1> USE DEF WindowAt, MoveWindow, CacheShape
<1>4. ASSUME NEW w \in Windows, NEW q \in Requests, RequestWindow(w, q) PROVE ScrollOf(v)'
  BY <1>0, <1>2, <1>4 DEF RequestWindow
<1>5. ASSUME NEW w \in Windows, LockQuery(w) PROVE ScrollOf(v)'
  BY <1>0, <1>2, <1>5 DEF LockQuery
<1>6. ASSUME NEW w \in Windows, ReplacePages(w) PROVE ScrollOf(v)'
  BY <1>0, <1>2, <1>6 DEF ReplacePages
<1>7. ASSUME NEW w \in Windows, FetchMissing(w) PROVE ScrollOf(v)'
  BY <1>3, <1>7 DEF FetchMissing
<1>8. ASSUME NEW w \in Windows, ReturnWindow(w) PROVE ScrollOf(v)'
  BY <1>0, <1>2, <1>8 DEF ReturnWindow
<1>9. ASSUME NEW w \in Windows, FailWindow(w) PROVE ScrollOf(v)'
  BY <1>0, <1>2, <1>9 DEF FailWindow
<1>10. CASE UNCHANGED windowVars
  BY <1>3, <1>10 DEF windowVars
<1> QED
  BY <1>1, <1>4, <1>5, <1>6, <1>7, <1>8, <1>9, <1>10
  DEF Next, WindowSteps, SetTotal, FailCount, EndCount, RequestCount, vars

(* The grid can scroll to every row of the view and to no other: the visible
   row count of an answer (cache_visible_row_count_for_request). *)
THEOREM ScrollIsSupported == Spec => []VisibleSupportsScroll
<1>1. CacheInit => VisibleSupportsScroll
  BY DEF CacheInit, VisibleSupportsScroll
<1> QED
  BY <1>1, ScrollStep, CacheInvInit, CacheInvStep, BoundedInit, BoundedStep, TotalInit, TotalStep,
     PTL DEF Spec

-----------------------------------------------------------------------------
(* has_more_rows *)

(* Every page but the last of the view is full. *)
Full(s) == Cardinality(s) * PageSize
LastPage == (ViewRows - 1) \div PageSize
Missing(s) == IF LastPage \in s THEN (LastPage + 1) * PageSize - ViewRows ELSE 0

SumStep(f, ps, S) ==
  [s \in SUBSET S |-> IF s = {} THEN 0 ELSE LET x == Pick(s) IN ps[x].count + f[s \ {x}]]

LEMMA SumFold ==
  \A ps : BufferedRows(ps) = (CHOOSE f : f = SumStep(f, ps, DOMAIN ps))[DOMAIN ps]
BY Zenon DEF BufferedRows, MapThenSumSet, MapThenFoldSet, SumStep, Pick

LEMMA LastPageFacts ==
  ASSUME CacheShape, PagesAreExact, Bounded, DOMAIN pages # {}
  PROVE  /\ ViewRows \in Nat /\ LastPage \in Nat /\ LastPage * PageSize \in Nat
         /\ LastPage * PageSize < ViewRows /\ ViewRows <= LastPage * PageSize + PageSize
         /\ (LastPage + 1) * PageSize = LastPage * PageSize + PageSize
         /\ \A p \in DOMAIN pages :
              /\ p \in 0..LastPage
              /\ pages[p].count = IF p = LastPage THEN ViewRows - LastPage * PageSize ELSE PageSize
              /\ pages[p].more <=> p # LastPage
<1> DEFINE n == PageSize
           N == ViewRows
           L == LastPage
<1>1. n \in Nat \ {0} /\ N \in Nat
  BY PageFacts
<1>2. N > 0
  <2>1. PICK p \in DOMAIN pages : TRUE
    OBVIOUS
  <2>2. p * n \in Nat /\ p * n < N
    BY PageFacts
  <2> HIDE DEF N, n
  <2> QED
    BY <1>1, <2>2
<1>3. L \in Nat /\ L * n <= N - 1 /\ N - 1 < L * n + n
  <2>1. N - 1 \in Nat
    BY <1>1, <1>2
  <2>2. L = (N - 1) \div n
    BY DEF LastPage
  <2> HIDE DEF N, n, L
  <2> QED
    BY <1>1, <2>1, <2>2, DivBounds
<1>4. L * n \in Nat /\ (L + 1) * n = L * n + n
  <2> HIDE DEF n, L
  <2> QED
    BY <1>1, <1>3
<1>5. ASSUME NEW p \in DOMAIN pages
      PROVE  /\ p \in 0..L /\ pages[p].count = IF p = L THEN N - L * n ELSE n
             /\ pages[p].more <=> p # L
  <2>1. /\ p \in Nat /\ p * n \in Nat /\ p * n < N
        /\ pages[p].count = Least(n, N - p * n) /\ (pages[p].more <=> N - p * n > n)
    BY PageFacts
  <2> HIDE DEF n, N, L
  <2>2. p > L => L * n + n <= p * n
    BY <1>1, <1>3, <2>1, NextMultiple
  <2>3. p < L => p * n + n <= L * n
    BY <1>1, <1>3, <2>1, NextMultiple
  <2>4. CASE p = L
    <3>1. ~(N - p * n > n)
      BY <1>1, <1>3, <1>4, <2>1, <2>4
    <3>2. Least(n, N - p * n) = N - p * n
      BY <1>1, <1>4, <2>1, <2>4, <3>1 DEF Least
    <3> QED
      BY <1>3, <2>1, <2>4, <3>1, <3>2
  <2>5. CASE p # L
    <3>1. p < L
      BY <1>1, <1>3, <1>4, <2>1, <2>2, <2>5
    <3>2. N - p * n > n
      BY <1>1, <1>3, <1>4, <2>1, <2>3, <3>1
    <3>3. Least(n, N - p * n) = n
      BY <1>1, <2>1, <3>2 DEF Least
    <3> QED
      BY <1>3, <2>1, <2>5, <3>1, <3>2, <3>3
  <2> QED
    BY <2>4, <2>5
<1>6. L * n < N /\ N <= L * n + n
  <2> HIDE DEF n, N, L
  <2> QED
    BY <1>1, <1>3, <1>4
<1> QED
  BY <1>1, <1>3, <1>4, <1>5, <1>6

(* buffered_row_count: all cached pages are full but the last of the view. *)
LEMMA BufferedIsExact ==
  ASSUME CacheShape, PagesAreExact, Bounded, DOMAIN pages # {}
  PROVE  BufferedRows(pages) = Full(DOMAIN pages) - Missing(DOMAIN pages)
<1> DEFINE D == DOMAIN pages
           n == PageSize
           N == ViewRows
           L == LastPage
           h == [s \in SUBSET D |-> Full(s) - Missing(s)]
<1>1. /\ IsFiniteSet(D) /\ n \in Nat \ {0} /\ N \in Nat /\ L * n \in Nat
      /\ (L + 1) * n = L * n + n
      /\ \A p \in D : pages[p].count = IF p = L THEN N - L * n ELSE n
  BY PageFacts, LastPageFacts
<1> HIDE DEF D
<1>2. ASSUME NEW s \in SUBSET D PROVE IsFiniteSet(s) /\ Cardinality(s) \in Nat /\ Full(s) \in Nat
  <2>1. IsFiniteSet(s) /\ Cardinality(s) \in Nat
    BY <1>1, FS_Subset, FS_CardinalityType
  <2> DEFINE c == Cardinality(s)
  <2>2. c * n \in Nat
    <3> HIDE DEF c, n
    <3> QED
      BY <1>1, <2>1 DEF c
  <2> QED
    BY <2>1, <2>2 DEF Full
<1>3. ASSUME NEW s \in SUBSET D, s # {}
      PROVE  h[s] = pages[Pick(s)].count + h[s \ {Pick(s)}]
  <2> DEFINE x == Pick(s)
             r == s \ {x}
  <2>1. x \in s /\ x \in D /\ r \in SUBSET D
    BY <1>3, PickIsIn
  <2>2. Full(s) = Full(r) + n
    <3>1. Cardinality(r) = Cardinality(s) - 1 /\ Cardinality(r) \in Nat /\ Cardinality(s) \in Nat
      BY <1>2, <2>1, FS_RemoveElement
    <3> DEFINE a == Cardinality(r)
               b == Cardinality(s)
    <3>2. b * n = a * n + n
      <4>1. b = a + 1 /\ a \in Nat
        BY <3>1
      <4> HIDE DEF a, b, n
      <4> QED
        BY <1>1, <4>1
    <3> QED
      BY <3>2 DEF Full
  <2>3. Full(r) \in Nat
    BY <1>2, <2>1
  <2> HIDE DEF x
  <2>4. CASE x = L
    <3>1. Missing(s) = L * n + n - N /\ Missing(r) = 0 /\ pages[x].count = N - L * n
      BY <1>1, <2>1, <2>4 DEF Missing
    <3>2. Full(s) - Missing(s) = pages[x].count + (Full(r) - Missing(r))
      <4> HIDE DEF r, n, N, L
      <4> QED
        BY <1>1, <2>2, <2>3, <3>1
    <3> QED
      BY <2>1, <3>2 DEF x
  <2>5. CASE x # L
    <3>1. Missing(s) = Missing(r) /\ pages[x].count = n /\ Missing(r) \in Int
      BY <1>1, <2>1, <2>5 DEF Missing
    <3>2. Full(s) - Missing(s) = pages[x].count + (Full(r) - Missing(r))
      <4> HIDE DEF r, n, N, L
      <4> QED
        BY <1>1, <2>2, <2>3, <3>1
    <3> QED
      BY <2>1, <3>2 DEF x
  <2> QED
    BY <2>4, <2>5
<1>4. h[{}] = 0
  <2>1. Cardinality({}) = 0
    BY FS_EmptySet
  <2>2. Full({}) = 0 /\ Missing({}) = 0
    BY <1>1, <2>1 DEF Full, Missing
  <2> QED
    BY <2>2
<1>5. h = SumStep(h, pages, D)
  <2>1. \A s \in SUBSET D :
          h[s] = IF s = {} THEN 0 ELSE LET x == Pick(s) IN pages[x].count + h[s \ {x}]
    BY <1>3, <1>4
  <2>2. h = [s \in SUBSET D |-> h[s]]
    OBVIOUS
  <2> HIDE DEF h
  <2> QED
    BY <2>1, <2>2, Zenon DEF SumStep
<1> DEFINE f == CHOOSE g : g = SumStep(g, pages, D)
<1>6. f = SumStep(f, pages, D)
  <2> HIDE DEF h
  <2> QED
    BY <1>5, Zenon
<1> HIDE DEF f
<1>7. \A s \in SUBSET D :
        f[s] = IF s = {} THEN 0 ELSE pages[Pick(s)].count + f[s \ {Pick(s)}]
  BY <1>6, Zenon DEF SumStep
<1> DEFINE G == {s \in SUBSET D : f[s] = h[s]}
<1> HIDE DEF h
<1>8. {} \in G
  BY <1>4, <1>7
<1>9. ASSUME NEW s \in SUBSET D, s # {}, s \ {Pick(s)} \in G PROVE s \in G
  BY <1>3, <1>7, <1>9
<1> HIDE DEF G
<1>10. D \in G
  BY <1>1, <1>8, <1>9, SubsetInduction
<1>11. f[D] = h[D]
  BY <1>10 DEF G
<1>12. BufferedRows(pages) = f[D]
  BY SumFold, Zenon DEF f, D
<1> QED
  BY <1>11, <1>12 DEF h, D

(* The cached rows are all rows of the view exactly when the cached pages are
   all its pages. *)
LEMMA BufferedAll ==
  ASSUME CacheShape, PagesAreExact, Bounded, DOMAIN pages # {}
  PROVE  BufferedRows(pages) < ViewRows <=> DOMAIN pages # 0..LastPage
<1> DEFINE D == DOMAIN pages
           n == PageSize
           N == ViewRows
           L == LastPage
           c == Cardinality(D)
           B == BufferedRows(pages)
<1>1. /\ n \in Nat \ {0} /\ N \in Nat /\ L \in Nat /\ L * n \in Nat /\ L * n < N /\ N <= L * n + n
      /\ (L + 1) * n = L * n + n /\ D \in SUBSET (0..L)
  BY PageFacts, LastPageFacts
<1>2. B = c * n - (IF L \in D THEN L * n + n - N ELSE 0)
  BY <1>1, BufferedIsExact DEF Full, Missing
<1>3. IsFiniteSet(0..L) /\ Cardinality(0..L) = L + 1
  <2>1. 0 \in Int /\ L \in Int /\ ~(0 > L) /\ L - 0 + 1 = L + 1
    BY <1>1
  <2> HIDE DEF L
  <2> QED
    BY <2>1, FS_Interval
<1>4. CASE D = 0..L
  <2>1. c = L + 1 /\ L \in D
    BY <1>1, <1>3, <1>4
  <2>2. B = N
    <3>1. c * n = L * n + n
      BY <1>1, <2>1
    <3> HIDE DEF n, N, L, c, B, D
    <3> QED
      BY <1>1, <1>2, <2>1, <3>1
  <2> QED
    BY <1>1, <1>4, <2>2
<1>5. CASE D # 0..L
  <2>1. c \in Nat /\ c <= L
    <3>1. c \in Nat /\ c < L + 1
      <4> DEFINE S == 0..L
      <4>1. IsFiniteSet(S) /\ D \in SUBSET S /\ D # S
        BY <1>1, <1>3, <1>5
      <4> HIDE DEF S, D
      <4>2. IsFiniteSet(D) /\ c <= Cardinality(S) /\ Cardinality(S) # c
        BY <4>1, FS_Subset
      <4>3. c \in Nat
        BY <4>2, FS_CardinalityType
      <4> HIDE DEF c, L
      <4> QED
        BY <1>1, <1>3, <4>2, <4>3 DEF S
    <3> QED
      BY <1>1, <3>1
  <2>2. c * n <= L * n /\ c * n \in Nat
    <3>1. c = L \/ c < L
      BY <1>1, <2>1
    <3> HIDE DEF c, L, n
    <3> QED
      BY <1>1, <2>1, <3>1, NextMultiple
  <2> HIDE DEF n, N, L, c, B, D
  <2>3. B < N
    BY <1>1, <1>2, <2>2
  <2> QED
    BY <1>5, <2>3 DEF B, N, D, L
<1> QED
  BY <1>4, <1>5

(* Without a total: all pages of the view are cached exactly when the first is,
   there is no gap, and no rows follow the last. *)
LEMMA GapOrMore ==
  ASSUME CacheShape, PagesAreExact, Bounded, DOMAIN pages # {}
  PROVE  (\E p \in DOMAIN pages :
            \/ p > 0 /\ p - 1 \notin DOMAIN pages
            \/ pages[p].more /\ \A m \in DOMAIN pages : m <= p)
         <=> DOMAIN pages # 0..LastPage
<1> DEFINE D == DOMAIN pages
           L == LastPage
<1>1. /\ IsFiniteSet(D) /\ L \in Nat /\ D \subseteq 0..L
      /\ \A p \in D : pages[p].more <=> p # L
  BY PageFacts, LastPageFacts
<1>2. ASSUME D = 0..L, NEW p \in D,
             \/ p > 0 /\ p - 1 \notin D
             \/ pages[p].more /\ \A m \in D : m <= p
      PROVE  FALSE
  BY <1>1, <1>2
<1>3. ASSUME D # 0..L
      PROVE  \E p \in D : \/ p > 0 /\ p - 1 \notin D
                          \/ pages[p].more /\ \A m \in D : m <= p
  <2>1. PICK k \in 0..L : k \notin D
    BY <1>1, <1>3
  <2> DEFINE Above == {p \in D : p > k}
  <2>2. CASE Above # {}
    <3>1. Above \subseteq Nat
      BY <1>1
    <3>2. PICK p \in Above : \A y \in Above : p <= y
      <4> HIDE DEF Above
      <4> QED
        BY <2>2, <3>1, LeastNat
    <3>3. p > 0 /\ p - 1 >= k /\ p \in Nat /\ k \in Nat
      BY <1>1, <3>2
    <3>4. p - 1 \notin D
      <4> SUFFICES ASSUME p - 1 \in D PROVE FALSE
        OBVIOUS
      <4>1. p - 1 # k
        BY <2>1
      <4>2. p - 1 \in Above
        BY <3>3, <4>1
      <4>3. p <= p - 1
        BY <3>2, <4>2
      <4> QED
        BY <3>3, <4>3
    <3> QED
      BY <3>2, <3>3, <3>4
  <2>3. CASE Above = {}
    <3>1. PICK p \in D : \A x \in D : x <= p
      <4>1. D \subseteq Nat /\ D # {}
        BY <1>1
      <4> HIDE DEF D
      <4> QED
        BY <1>1, <4>1, MaximumExists
    <3>2. p # L
      <4>1. p <= k /\ p # k /\ p \in Nat /\ k \in Nat /\ k <= L
        BY <1>1, <2>1, <2>3
      <4> HIDE DEF L
      <4> QED
        BY <1>1, <4>1
    <3> QED
      BY <1>1, <3>1, <3>2
  <2> QED
    BY <2>2, <2>3
<1> QED
  BY <1>2, <1>3

(* As long as a page is cached, has_more_rows says whether the view has rows
   that are not, with and without a total (cache_has_more_rows). *)
THEOREM MoreRowsAreTold == Spec => []HasMoreIsExact
<1>1. CacheInv /\ Bounded /\ TotalIsOfFilter => HasMoreIsExact
  <2> SUFFICES ASSUME CacheInv, Bounded, TotalIsOfFilter, DOMAIN pages # {}
               PROVE  HasMoreRows <=> BufferedRows(pages) < ViewRows
    BY DEF HasMoreIsExact, ViewRows
  <2>1. CacheShape /\ PagesAreExact
    BY DEF CacheInv
  <2>2. HasMoreRows = IF total # Unknown THEN BufferedRows(pages) < total
                      ELSE \E p \in DOMAIN pages :
                             \/ p > 0 /\ p - 1 \notin DOMAIN pages
                             \/ pages[p].more /\ \A m \in DOMAIN pages : m <= p
    BY Zenon DEF HasMoreRows
  <2>3. total # Unknown => total = ViewRows
    BY DEF TotalIsOfFilter, ViewRows
  <2>4. CASE total # Unknown
    BY <2>2, <2>3, <2>4
  <2>5. CASE total = Unknown
    BY <2>1, <2>2, <2>5, BufferedAll, GapOrMore, Zenon
  <2> QED
    BY <2>4, <2>5
<1> QED
  BY <1>1, CacheInvInit, CacheInvStep, BoundedInit, BoundedStep, TotalInit, TotalStep, PTL DEF Spec
==============================================================================
