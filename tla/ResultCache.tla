----------------------------- MODULE ResultCache -----------------------------
(***************************************************************************)
(* The window cache of one replayable result set: the handle of            *)
(* src-tauri/src/query/result_store.rs, load_replayable_query_result_window *)
(* and count_replayable_query_rows of query/driver.rs, and the two commands *)
(* of query/service.rs that call them.                                     *)
(*                                                                         *)
(* A replayable result keeps a few pages of the view it was last asked     *)
(* for; every other row is read from PostgreSQL again.  A view is a sort   *)
(* and a filter; a row of it is its position.  The table does not change.  *)
(***************************************************************************)
EXTENDS Integers, FiniteSets, FiniteSetsExt, SequencesExt

CONSTANTS
  Windows,     \* concurrent calls of get_query_result_window
  Counts,      \* concurrent calls of get_query_result_count
  Sorts,       \* orders of the rows
  Filters,     \* filters and quick filters
  FirstView,   \* the view of the statement as it was run
  Sizes,       \* bound: how many rows a filter may leave
  Offsets,     \* bound: the offsets asked for
  Limits,      \* bound: the limits asked for
  PageSize,    \* REPLAYABLE_PAGE_SIZE
  Margin,      \* REPLAYABLE_PREFETCH_PAGE_MARGIN
  MaxPages,    \* MAX_CACHED_PAGES
  Unknown      \* total_row_count is None

Views == [sort : Sorts, filter : Filters]
Requests == [view : Views, offset : Offsets, limit : Limits]

ASSUME ViewAssumption == FirstView \in Views
ASSUME PageAssumption == PageSize \in Nat \ {0} /\ Margin \in Nat /\ MaxPages \in Nat \ {0}
ASSUME BoundAssumption ==
  Sizes \subseteq Nat /\ Offsets \subseteq Nat /\ Limits \subseteq Nat \ {0}
ASSUME UnknownAssumption == Unknown \notin Nat

VARIABLES
  size,       \* the rows each filter leaves in PostgreSQL
  descriptor, \* the view the cached pages are of (descriptor_signature)
  counted,    \* the filter the total is of (count_signature)
  pages,      \* the cached pages: a function from page indexes
  total,      \* total_row_count
  queue,      \* query_lock: its holder first, then those that wait, in order
  wpc,        \* where each window call stands
  request,    \* what it asked for
  missing,    \* the page ranges it has still to read
  answer,     \* the window it returned
  cpc,        \* where each count call stands
  countOf     \* the filter it counts

cacheVars  == <<descriptor, counted, pages, total>>
windowVars == <<queue, wpc, request, missing, answer>>
countVars  == <<cpc, countOf>>
vars == <<size, cacheVars, windowVars, countVars>>

Least(a, b)    == IF a < b THEN a ELSE b
Greatest(a, b) == IF a > b THEN a ELSE b
Minus(a, b)    == IF a > b THEN a - b ELSE 0    \* saturating_sub

-----------------------------------------------------------------------------
(* Page arithmetic *)

PageRange(offset, limit) ==
  [start |-> offset \div PageSize, end |-> Minus(offset + limit, 1) \div PageSize]

WithMargin(range) ==
  [start |-> Minus(range.start, Margin), end |-> range.end + Margin]

Anchor(q) == PageRange(q.offset, q.limit)

(* Mutant: the run that is still open when the loop ends is forgotten. *)
MissingRangesNoTail(cached, range) ==
  {gap \in [start : range.start..range.end, end : range.start..range.end] :
     /\ gap.start <= gap.end
     /\ (gap.start..gap.end) \cap cached = {}
     /\ gap.start = range.start \/ gap.start - 1 \in cached
     /\ gap.end + 1 \in cached}

(* missing_page_ranges: the maximal runs of pages of the range that are not
   cached. *)
MissingRanges(cached, range) ==
  {gap \in [start : range.start..range.end, end : range.start..range.end] :
     /\ gap.start <= gap.end
     /\ (gap.start..gap.end) \cap cached = {}
     /\ gap.start = range.start \/ gap.start - 1 \in cached
     /\ gap.end = range.end \/ gap.end + 1 \in cached}

(* Mutant: the statement asks for no row beyond the range. *)
BatchWithoutExtraRow(view, range) ==
  [of |-> view, first |-> range.start * PageSize, more |-> FALSE,
   count |-> Least(Minus(size[view.filter], range.start * PageSize),
                   (range.end - range.start + 1) * PageSize)]

(* query_replayable_page_range with split_replayable_batch: the rows of the
   range, one row more being asked for to learn whether rows follow. *)
Batch(view, range) ==
  LET keep == (range.end - range.start + 1) * PageSize
      left == Minus(size[view.filter], range.start * PageSize)
      read == Least(left, keep + 1)
  IN  [of |-> view, first |-> range.start * PageSize, count |-> Least(read, keep),
       more |-> read > keep]

(* build_cached_pages: the batch in pages of PageSize rows, the last one
   possibly shorter. *)
BuildPages(start, batch) ==
  LET last == Minus(batch.count, 1) \div PageSize
  IN  [p \in {n \in start..(start + last) : batch.count > 0} |->
         [of    |-> batch.of,
          first |-> batch.first + (p - start) * PageSize,
          count |-> Least(PageSize, batch.count - (p - start) * PageSize),
          more  |-> p - start < last \/ batch.more]]

Distance(p, anchor) ==
  IF p < anchor.start THEN anchor.start - p ELSE Minus(p, anchor.end)

Nearer(anchor, p, q) ==
  \/ Distance(p, anchor) < Distance(q, anchor)
  \/ Distance(p, anchor) = Distance(q, anchor) /\ p < q

(* Mutant: nothing is evicted. *)
EvictNothing(ps, anchor) == ps

(* Mutant: the pages of the request get no preference. *)
EvictLast(ps, anchor) ==
  LET rank(p) == Cardinality({n \in DOMAIN ps : n < p})
  IN  [p \in {n \in DOMAIN ps : rank(n) < MaxPages} |-> ps[p]]

(* evict_cached_pages: above MaxPages the pages of the anchor stay, and the
   nearest others as long as there is room. *)
Evict(ps, anchor) ==
  LET kept   == DOMAIN ps \cap anchor.start..anchor.end
      others == DOMAIN ps \ kept
      rank(p) == Cardinality({n \in others : Nearer(anchor, n, p)})
      stay   == kept \cup {p \in others : Cardinality(kept) + rank(p) < MaxPages}
  IN  IF Cardinality(DOMAIN ps) <= MaxPages THEN ps ELSE [p \in stay |-> ps[p]]

(* buffered_row_count *)
BufferedRows(ps) == MapThenSumSet(LAMBDA p : ps[p].count, DOMAIN ps)

-----------------------------------------------------------------------------
(* The window that load_window cuts out of the cache *)

RowsAt(q) ==
  UNION {LET page == pages[p]
             from == Least(Minus(q.offset, p * PageSize), page.count)
             to   == Least(Minus(q.offset + q.limit, p * PageSize), page.count)
         IN  {<<page.of, page.first + i>> : i \in from..(to - 1)} :
         p \in (Anchor(q).start..Anchor(q).end) \cap DOMAIN pages}

HighestKnown == FoldSet(Greatest, 0, {p * PageSize + pages[p].count : p \in DOMAIN pages})

(* Mutant: no row is announced beyond the cached ones. *)
VisibleIsCached(q) == IF total # Unknown THEN total ELSE HighestKnown

(* cache_visible_row_count_for_request *)
VisibleRows(q) ==
  LET end    == Anchor(q).end
      beyond == \/ \E p \in DOMAIN pages : p > end
                \/ end \in DOMAIN pages /\ pages[end].more
  IN  IF total # Unknown THEN total
      ELSE IF beyond THEN Greatest(HighestKnown, q.offset + Cardinality(RowsAt(q)) + 1)
      ELSE HighestKnown

(* Mutant: the pages are taken to start with the first and to be adjacent. *)
HasMoreAfterOnly ==
  IF total # Unknown THEN BufferedRows(pages) < total
  ELSE \E p \in DOMAIN pages : pages[p].more /\ \A n \in DOMAIN pages : n <= p

(* cache_has_more_rows: before the first cached page, in a gap between two,
   or after the last. *)
HasMoreRows ==
  IF total # Unknown THEN BufferedRows(pages) < total
  ELSE \E p \in DOMAIN pages :
         \/ p > 0 /\ p - 1 \notin DOMAIN pages
         \/ pages[p].more /\ \A n \in DOMAIN pages : n <= p

-----------------------------------------------------------------------------
(* get_query_result_window.  A request with limit 0, of a result set that is
   gone or of a connection that is no longer active ends before the lock and
   changes nothing. *)

NoRequest == [view |-> FirstView, offset |-> 0, limit |-> 1]
NoAnswer == [rows |-> {}, visible |-> 0]

WindowAt(w, from) == wpc[w] = from
MoveWindow(w, to) == wpc' = [wpc EXCEPT ![w] = to]
HoldsLock(w) == queue # <<>> /\ Head(queue) = w

RequestWindow(w, q) ==
  /\ WindowAt(w, "idle")
  /\ MoveWindow(w, "waiting")
  /\ request' = [request EXCEPT ![w] = q]
  /\ queue' = Append(queue, w)
  /\ UNCHANGED <<size, cacheVars, missing, answer, countVars>>

(* The snapshot is taken under the lock: another view is read afresh, of the
   cached view only the missing pages are. *)
LockQuery(w) ==
  /\ WindowAt(w, "waiting") /\ HoldsLock(w)
  /\ LET q == request[w]
     IN  IF descriptor # q.view
         THEN MoveWindow(w, "replacing") /\ UNCHANGED missing
         ELSE /\ MoveWindow(w, "filling")
              /\ missing' = [missing EXCEPT ![w] =
                               MissingRanges(DOMAIN pages, WithMargin(Anchor(q)))]
  /\ UNCHANGED <<size, cacheVars, queue, request, answer, countVars>>

(* query_replayable_page_range and replace_cached_page_batch *)
ReplacePages(w) ==
  /\ WindowAt(w, "replacing")
  /\ LET q == request[w]
         range == WithMargin(Anchor(q))
     IN  /\ pages' = Evict(BuildPages(range.start, Batch(q.view, range)), Anchor(q))
         /\ descriptor' = q.view
         /\ counted' = q.view.filter
         /\ total' = IF counted = q.view.filter THEN total ELSE Unknown
  /\ MoveWindow(w, "filling")
  /\ UNCHANGED <<size, queue, request, missing, answer, countVars>>

InsertPages(new, old) ==
  [p \in DOMAIN new \cup DOMAIN old |-> IF p \in DOMAIN new THEN new[p] ELSE old[p]]

(* query_replayable_page_range and store_cached_page_batch, which drops a
   batch of another view; the ranges come in order. *)
FetchMissing(w) ==
  /\ WindowAt(w, "filling")
  /\ \E range \in missing[w] :
       /\ \A other \in missing[w] : range.start <= other.start
       /\ missing' = [missing EXCEPT ![w] = @ \ {range}]
       /\ LET q == request[w]
              new == BuildPages(range.start, Batch(q.view, range))
          IN  pages' = IF descriptor = q.view THEN Evict(InsertPages(new, pages), Anchor(q)) ELSE pages
  /\ UNCHANGED <<size, descriptor, counted, total, queue, wpc, request, answer, countVars>>

LoadWindow(w) ==
  /\ WindowAt(w, "filling") /\ missing[w] = {}
  /\ MoveWindow(w, "answered")
  /\ answer' = [answer EXCEPT ![w] =
                  [rows |-> RowsAt(request[w]), visible |-> VisibleRows(request[w])]]
  /\ queue' = Tail(queue)
  /\ UNCHANGED <<size, cacheVars, request, missing, countVars>>

ReturnWindow(w) ==
  /\ WindowAt(w, "answered")
  /\ MoveWindow(w, "idle")
  /\ request' = [request EXCEPT ![w] = NoRequest]
  /\ answer' = [answer EXCEPT ![w] = NoAnswer]
  /\ UNCHANGED <<size, cacheVars, queue, missing, countVars>>

(* Mutant: a failed read leaves the lock taken. *)
FailWindowKeepsLock(w) ==
  /\ WindowAt(w, "replacing") \/ (WindowAt(w, "filling") /\ missing[w] # {})
  /\ MoveWindow(w, "idle")
  /\ request' = [request EXCEPT ![w] = NoRequest]
  /\ missing' = [missing EXCEPT ![w] = {}]
  /\ UNCHANGED <<size, cacheVars, queue, answer, countVars>>

(* The client or the statement fails: the call returns the error, the pages
   read so far stay, and the guard is dropped. *)
FailWindow(w) ==
  /\ WindowAt(w, "replacing") \/ (WindowAt(w, "filling") /\ missing[w] # {})
  /\ MoveWindow(w, "idle")
  /\ request' = [request EXCEPT ![w] = NoRequest]
  /\ missing' = [missing EXCEPT ![w] = {}]
  /\ queue' = Tail(queue)
  /\ UNCHANGED <<size, cacheVars, answer, countVars>>

-----------------------------------------------------------------------------
(* get_query_result_count, which does not take query_lock *)

RequestCount(c, f) ==
  /\ cpc[c] = "idle"
  /\ cpc' = [cpc EXCEPT ![c] = "counting"]
  /\ countOf' = [countOf EXCEPT ![c] = f]
  /\ UNCHANGED <<size, cacheVars, windowVars>>

EndCount(c) ==
  /\ cpc[c] = "counting"
  /\ cpc' = [cpc EXCEPT ![c] = "idle"]
  /\ countOf' = [countOf EXCEPT ![c] = FirstView.filter]
  /\ UNCHANGED <<size, descriptor, counted, pages, windowVars>>

(* Mutant: the total is stored whatever filter it is of. *)
SetTotalAlways(c) == EndCount(c) /\ total' = size[countOf[c]]

(* count_replayable_query_rows and set_total_row_count_if_current *)
SetTotal(c) ==
  EndCount(c) /\ total' = IF counted = countOf[c] THEN size[countOf[c]] ELSE total

FailCount(c) == EndCount(c) /\ UNCHANGED total

-----------------------------------------------------------------------------
(* ReplayableQueryResultHandle::new with the first rows of the statement *)
CacheInit ==
  /\ size \in [Filters -> Sizes]
  /\ descriptor = FirstView /\ counted = FirstView.filter /\ total = Unknown
  /\ pages = BuildPages(0, Batch(FirstView, [start |-> 0, end |-> 0]))
  /\ queue = <<>>
  /\ wpc = [w \in Windows |-> "idle"] /\ request = [w \in Windows |-> NoRequest]
  /\ missing = [w \in Windows |-> {}] /\ answer = [w \in Windows |-> NoAnswer]
  /\ cpc = [c \in Counts |-> "idle"] /\ countOf = [c \in Counts |-> FirstView.filter]

WindowSteps(w) ==
  \/ LockQuery(w) \/ ReplacePages(w) \/ FetchMissing(w)
  \/ LoadWindow(w) \/ ReturnWindow(w) \/ FailWindow(w)

Next ==
  \/ \E w \in Windows : WindowSteps(w) \/ \E q \in Requests : RequestWindow(w, q)
  \/ \E c \in Counts : SetTotal(c) \/ FailCount(c) \/ \E f \in Filters : RequestCount(c, f)

Spec == CacheInit /\ [][Next]_vars

-----------------------------------------------------------------------------
(* Properties *)

(* Every variable keeps its shape: the cached pages are whole records at
   natural page indexes, and the queue of query_lock names each call once. *)
CacheTypeOK ==
  /\ descriptor \in Views /\ counted \in Filters /\ total \in Nat \cup {Unknown}
  /\ DOMAIN pages \subseteq Nat
  /\ \A p \in DOMAIN pages :
       pages[p] \in [of : Views, first : Nat, count : 1..PageSize, more : BOOLEAN]
  /\ queue \in Seq(Windows) /\ IsInjective(queue)
  /\ ToSet(queue) = {w \in Windows : wpc[w] \in {"waiting", "replacing", "filling"}}
  /\ \A w \in Windows : wpc[w] \in {"replacing", "filling"} => HoldsLock(w)
  /\ cpc \in [Counts -> {"idle", "counting"}] /\ countOf \in [Counts -> Filters]

PageOf(view, p) ==
  LET left == size[view.filter] - p * PageSize
  IN  [of |-> view, first |-> p * PageSize,
       count |-> Least(PageSize, left), more |-> left > PageSize]

(* However the pages came in, went out and were read again, a cached page is
   the page of the current view: its rows are those of its index, and its flag
   says whether rows follow (build_cached_pages, store_cached_page_batch). *)
PagesAreExact == \A p \in DOMAIN pages : pages[p] = PageOf(descriptor, p)

RowsOf(q) ==
  {<<q.view, pos>> : pos \in q.offset..(Least(q.offset + q.limit, size[q.view.filter]) - 1)}

(* A window that get_query_result_window returns has exactly the rows of its
   view between its offset and its limit, whatever was cached, evicted or
   replaced by another call meanwhile. *)
WindowIsExact ==
  \A w \in Windows : wpc[w] = "answered" => answer[w].rows = RowsOf(request[w])

(* While a call fills the cache under the lock, the pages are of its view, and
   a page of its window that has rows is cached or still to be read, although
   the batches before it may evict (missing_page_ranges, evict_cached_pages). *)
FillIsComplete ==
  \A w \in Windows :
    wpc[w] = "filling" =>
      /\ descriptor = request[w].view
      /\ \A p \in Anchor(request[w]).start..Anchor(request[w]).end :
           p * PageSize < size[descriptor.filter] =>
             p \in DOMAIN pages \/ \E range \in missing[w] : p \in range.start..range.end

(* The grid can scroll to every row and to no row that is not there: the
   visible row count of an answer is at most the rows of the view, and goes
   past the end of the window exactly when rows follow it. *)
VisibleSupportsScroll ==
  \A w \in Windows :
    wpc[w] = "answered" =>
      LET rows == size[request[w].view.filter]
          end  == request[w].offset + Cardinality(answer[w].rows)
      IN  /\ answer[w].visible <= rows
          /\ rows > end <=> answer[w].visible > end

(* A known total is the count of the filter of the cached pages, although
   counting runs beside the windows that change the filter
   (set_total_row_count_if_current, replace_cached_page_batch). *)
TotalIsOfFilter ==
  /\ counted = descriptor.filter
  /\ total # Unknown => total = size[counted]

(* As long as a page is cached, has_more_rows says whether the view has rows
   that are not, with and without a total (cache_has_more_rows). *)
HasMoreIsExact ==
  DOMAIN pages # {} => (HasMoreRows <=> BufferedRows(pages) < size[descriptor.filter])

(* The cache holds MAX_CACHED_PAGES pages, or the pages of one request when
   these are more (evict_cached_pages). *)
CacheBounded ==
  \/ Cardinality(DOMAIN pages) <= MaxPages
  \/ \E q \in Requests : DOMAIN pages \subseteq Anchor(q).start..Anchor(q).end
==============================================================================
