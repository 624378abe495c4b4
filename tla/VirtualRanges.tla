----------------------------- MODULE VirtualRanges -----------------------------
(***************************************************************************)
(* The kernel's table of virtual ranges (VirtualRanges in                  *)
(* kernel/memory.cpp): a sorted vector of ranges under one mutex, with a   *)
(* counter of its changes that is odd while one is under way               *)
(* (m_epoch).  The renderer asks it for the committed extent of every      *)
(* guest range it touches (ClampRangeSize) and answers most requests from  *)
(* a thread's cache of committed intervals, without the mutex, when the    *)
(* epoch is even and still the one the interval was found under.           *)
(*                                                                         *)
(* An update is computed by the code's own steps on the vector; what every *)
(* update and query should come to is said page by page (PageRanges).      *)
(***************************************************************************)
EXTENDS PageRanges, SequencesExt

CONSTANTS Kinds, \* what ranges are added as: [type, lone]
          Prot,  \* protections (a memory type is changed and compared alike)
          Name   \* range names

VARIABLES
  ranges, \* m_ranges
  writer, \* the holder of m_mutex in an update: none, before and after the change
  odd,    \* m_epoch is odd
  cached  \* the interval of one cache entry, NoInterval when its epoch is not m_epoch

vars == <<ranges, writer, odd, cached>>

NoInterval == <<0, 0>>

Init == ranges = <<>> /\ writer = "none" /\ odd = FALSE /\ cached = NoInterval

--------------------------------------------------------------------------------
\* The vector

End(r) == r.start + r.size

SameMergeKey(r, s) ==
  /\ ~r.lone /\ ~s.lone /\ r.type # "Direct" /\ s.type # "Direct"
  /\ r.type = s.type /\ r.prot = s.prot /\ r.name = s.name
Mergeable(r, s) == End(r) = s.start /\ SameMergeKey(r, s)

\* The part of r in start .. end - 1, its pages' offsets kept; none if empty.
Piece(r, start, end) ==
  [r EXCEPT !.start = start, !.size = end - start,
            !.offset = IF r.type = "Direct" THEN @ + start - r.start ELSE @]
AddPiece(r, start, end) == IF end <= start THEN <<>> ELSE <<Piece(r, start, end)>>

\* One pass of merging each range into the one before it.
MergePass(list) ==
  LET Join(done, r) ==
        IF done # <<>> /\ Mergeable(Last(done), r)
          THEN [done EXCEPT ![Len(done)].size = @ + r.size]
          ELSE Append(done, r)
  IN FoldLeft(Join, <<>>, list)

\* The range at index with the previous one, then with all that follow.
MergeAround(list, index) ==
  SubSeq(list, 1, index - 2) \o MergePass(SubSeq(list, Max({1, index - 1}), Len(list)))

\* Where a range that begins at start belongs.
LowerBound(list, start) == Cardinality({i \in DOMAIN list : list[i].start < start}) + 1

\* The ranges that overlap a span are those from first to last - 1.
OverlapSpan(list, start, size) ==
  LET upper == Cardinality({i \in DOMAIN list : list[i].start <= start}) + 1
      first == IF upper > 1 /\ End(list[upper - 1]) > start THEN upper - 1 ELSE upper
  IN [first |-> first,
      last |-> first + Cardinality({i \in first .. Len(list) : list[i].start < start + size})]

\* Mutant: the merge stops before the neighbour that follows the pieces.
SpliceShort(list, span, pieces) ==
  LET spliced == SubSeq(list, 1, span.first - 1) \o pieces \o SubSeq(list, span.last, Len(list))
      from == Max({1, span.first - 1})
      limit == Min({Len(spliced), span.first + Len(pieces) - 1})
  IN SubSeq(spliced, 1, from - 1) \o MergePass(SubSeq(spliced, from, limit))
     \o SubSeq(spliced, limit + 1, Len(spliced))

\* Pieces for the ranges of span, and a merge of the pieces and their two
\* neighbours alone.
SpliceUnlocked(list, span, pieces) ==
  LET spliced == SubSeq(list, 1, span.first - 1) \o pieces \o SubSeq(list, span.last, Len(list))
      from == Max({1, span.first - 1})
      limit == Min({Len(spliced), span.first + Len(pieces)})
  IN SubSeq(spliced, 1, from - 1) \o MergePass(SubSeq(spliced, from, limit))
     \o SubSeq(spliced, limit + 1, Len(spliced))

\* The part of each range that a span overlaps is edited, the rest of it kept.
EditUnlocked(list, start, size, Edit(_)) ==
  LET span == OverlapSpan(list, start, size)
      Parts(r) == LET from == Max({start, r.start})
                      to == Min({start + size, End(r)})
                  IN AddPiece(r, r.start, from) \o <<Edit(Piece(r, from, to))>>
                     \o AddPiece(r, to, End(r))
  IN IF span.first = span.last
       THEN list
       ELSE SpliceUnlocked(list, span,
              FlattenSeq([i \in 1 .. span.last - span.first |-> Parts(list[span.first + i - 1])]))

\* The first range of the span keeps its head, and the last one its tail.
RemoveUnlocked(list, start, size) ==
  LET span == OverlapSpan(list, start, size)
      head == list[span.first]
      tail == list[span.last - 1]
  IN IF span.first = span.last
       THEN list
       ELSE SpliceUnlocked(list, span,
              AddPiece(head, head.start, Max({start, head.start}))
              \o AddPiece(tail, Min({start + size, End(tail)}), End(tail)))

\* The range of a type that contains a page (a set of at most one).
FindContaining(list, a, type) ==
  LET span == OverlapSpan(list, a, 1)
  IN {r \in {list[i] : i \in span.first .. span.last - 1} : r.type = type /\ r.start <= a}

--------------------------------------------------------------------------------
\* The updates: what each call leaves and answers

Calls ==
  [op : {"Add"}, span : Spans, kind : Kinds, prot : Prot, name : Name]
  \cup [op : {"Remove", "ReleaseReserved", "ConsumeReserved", "ConsumeReservedSpan"}, span : Spans]
  \cup [op : {"Rename"}, span : Spans, name : Name]
  \cup [op : {"Protect"}, span : Spans, prot : Prot]

\* What the call adds: direct memory is at the offset of its own page here,
\* so that no two pages share one.
RangeOfCall(c) ==
  [start |-> c.span[1], size |-> c.span[2],
   offset |-> IF c.kind.type = "Direct" THEN c.span[1] ELSE 0,
   prot |-> c.prot, name |-> c.name, type |-> c.kind.type, lone |-> c.kind.lone]

Add(list, r) ==
  LET index == LowerBound(list, r.start)
      Clashes(s) == r.start < End(s) /\ s.start < End(r)
  IN IF \E i \in {index - 1, index} \cap DOMAIN list : Clashes(list[i])
       THEN [ok |-> FALSE, ranges |-> list]
       ELSE [ok |-> TRUE, ranges |-> MergeAround(InsertAt(list, index, r), index)]

\* The index of the range that is exactly the span (a set of at most one).
Exactly(list, start, size) ==
  {i \in {LowerBound(list, start)} \cap DOMAIN list :
     list[i].start = start /\ list[i].size = size}

RemoveRange(list, start, size) ==
  LET span == OverlapSpan(list, start, size)
  IN IF Exactly(list, start, size) # {}
       THEN [ok |-> TRUE, ranges |-> RemoveAt(list, LowerBound(list, start))]
       ELSE [ok |-> span.first # span.last, ranges |-> RemoveUnlocked(list, start, size)]

ReleaseReserved(list, start, size) ==
  [ok |-> TRUE,
   ranges |-> IF \E i \in Exactly(list, start, size) : list[i].type \in ReservedTypes
                THEN RemoveAt(list, LowerBound(list, start)) ELSE list]

ConsumeReserved(list, start, size) ==
  LET holds == \E r \in FindContaining(list, start, "Reserved") : start + size <= End(r)
  IN [ok |-> holds, ranges |-> IF holds THEN RemoveUnlocked(list, start, size) ELSE list]

\* The walk goes from the end of one reserved range to the next.
ConsumeReservedSpan(list, start, size) ==
  LET Walk[a \in start .. LastPage + 1] ==
        \/ a >= start + size
        \/ \E r \in FindContaining(list, a, "Reserved") : Walk[Min({start + size, End(r)})]
  IN [ok |-> Walk[start],
      ranges |-> IF Walk[start] THEN RemoveUnlocked(list, start, size) ELSE list]

Rename(list, start, size, name) ==
  LET Edit(r) == [r EXCEPT !.name = name]
  IN [ok |-> TRUE,
      ranges |->
        IF Exactly(list, start, size) # {}
          THEN LET index == LowerBound(list, start)
               IN MergeAround([list EXCEPT ![index] = Edit(@)], index)
          ELSE EditUnlocked(list, start, size, Edit)]

\* Protect and SetMemoryType
Protect(list, start, size, prot) ==
  LET Edit(r) == [r EXCEPT !.prot = prot]
  IN [ok |-> TRUE, ranges |-> EditUnlocked(list, start, size, Edit)]

After(c, list) ==
  CASE c.op = "Add" -> Add(list, RangeOfCall(c))
    [] c.op = "Remove" -> RemoveRange(list, c.span[1], c.span[2])
    [] c.op = "ReleaseReserved" -> ReleaseReserved(list, c.span[1], c.span[2])
    [] c.op = "ConsumeReserved" -> ConsumeReserved(list, c.span[1], c.span[2])
    [] c.op = "ConsumeReservedSpan" -> ConsumeReservedSpan(list, c.span[1], c.span[2])
    [] c.op = "Rename" -> Rename(list, c.span[1], c.span[2], c.name)
    [] c.op = "Protect" -> Protect(list, c.span[1], c.span[2], c.prot)

--------------------------------------------------------------------------------
\* The queries

\* The index of the last range that begins at or before page a; 0 if none.
Upper(list, a) == Cardinality({i \in DOMAIN list : list[i].start <= a})

\* The range that holds page a, or (flags = 1) the first one after it.
Query(list, a, orNext) ==
  LET i == Upper(list, a)
  IN IF i # 0 /\ a < End(list[i]) THEN {list[i]}
     ELSE IF orNext /\ i < Len(list) THEN {list[i + 1]} ELSE {}

\* The ranges' parts that cover a span without a gap; none if there is one.
QuerySpan(list, start, size) ==
  LET end == start + size
      Walk(seen, r) ==
        IF seen.current = end \/ seen.gap \/ End(r) <= seen.current THEN seen
        ELSE IF r.start > seen.current THEN [seen EXCEPT !.gap = TRUE]
        ELSE [seen EXCEPT !.parts = Append(@, Piece(r, seen.current, Min({end, End(r)}))),
                          !.current = Min({end, End(r)})]
      all == FoldLeft(Walk, [parts |-> <<>>, current |-> start, gap |-> FALSE],
                      SubSeq(list, Max({1, Upper(list, start)}), Len(list)))
  IN IF all.current = end THEN all.parts ELSE <<>>

\* The committed extent of a span from its start, and the interval of whole
\* ranges that the walk saw.
Clamp(list, start, size) ==
  LET i == Upper(list, start)
      r == list[i]
      Walk(seen, s) ==
        IF s.start = seen.end /\ s.type \notin ReservedTypes /\ seen.end - start < size
          THEN [seen EXCEPT !.end = End(s)] ELSE seen
      all == FoldLeft(Walk, [begin |-> r.start, end |-> End(r)], SubSeq(list, i + 1, Len(list)))
  IN IF i = 0 \/ start >= End(r) \/ r.type \in ReservedTypes
       THEN [size |-> 0, interval |-> NoInterval]
       ELSE [size |-> Min({size, all.end - start}), interval |-> <<all.begin, all.end>>]

\* The committed parts of a span, adjacent ones of a kind merged.
CommittedParts(list, start, size) ==
  LET Private(r) == r.type \in PrivateTypes
      Walk(parts, r) ==
        LET begin == Max({start, r.start})
            finish == Min({start + size, End(r)})
        IN IF r.start >= start + size \/ End(r) <= start \/ r.type \in ReservedTypes THEN parts
           ELSE IF parts # <<>> /\ Last(parts)[2] = begin /\ Last(parts)[3] = Private(r)
           THEN [parts EXCEPT ![Len(parts)][2] = finish]
           ELSE Append(parts, <<begin, finish, Private(r)>>)
  IN FoldLeft(Walk, <<>>, SubSeq(list, Max({1, Upper(list, start)}), Len(list)))

--------------------------------------------------------------------------------
\* The actions: an update holds the mutex for three steps that a reader of
\* the cache can tell apart; a query that takes the mutex is one.

\* Mutant: the epoch is not odd during the change.
BumpOnce == UNCHANGED <<odd, cached>>

\* A bump of m_epoch, after which no cached interval's epoch is the current one.
Bump == odd' = ~odd /\ cached' = NoInterval

\* Mutation's constructor, under the lock.
BeginUpdate == writer = "none" /\ writer' = "before" /\ Bump /\ UNCHANGED ranges

Update(c) ==
  /\ writer = "before"
  /\ ranges' = After(c, ranges).ranges
  /\ writer' = "after"
  /\ UNCHANGED <<odd, cached>>

\* Its destructor, then the unlock.
EndUpdate == writer = "after" /\ writer' = "none" /\ Bump /\ UNCHANGED ranges

\* The request may bypass the mutex.
Bypasses(start, size) == ~odd /\ start >= cached[1] /\ start + size <= cached[2]

\* ClampRangeSize when it may not.
ClampLocked(start, size) ==
  /\ writer = "none"
  /\ ~Bypasses(start, size)
  /\ LET walk == Clamp(ranges, start, size)
     IN walk.size # 0 /\ cached' = walk.interval
  /\ UNCHANGED <<ranges, writer, odd>>

Next ==
  \/ BeginUpdate
  \/ \E c \in Calls : Update(c)
  \/ EndUpdate
  \/ \E s \in Spans : ClampLocked(s[1], s[2])

Spec == Init /\ [][Next]_vars

--------------------------------------------------------------------------------
\* The page-wise reading of the vector, and of each update and query.
PagesOf(list) ==
  [a \in PageNo |->
     IF \E i \in DOMAIN list : a \in Span(list[i].start, list[i].size)
       THEN LET r == CHOOSE s \in ToSet(list) : a \in Span(s.start, s.size)
            IN [type |-> r.type, prot |-> r.prot, name |-> r.name, lone |-> r.lone,
                offset |-> Piece(r, a, a + 1).offset, first |-> a = r.start]
       ELSE Free]

PagesAfter(c, table) ==
  LET start == c.span[1]
      size == c.span[2]
      Named(p) == [p EXCEPT !.name = c.name]
      Protected(p) == [p EXCEPT !.prot = c.prot]
      When(ok, new) == [ok |-> ok, table |-> IF ok THEN new ELSE table]
  IN CASE c.op = "Add" -> When(~Overlaps(table, start, size), Added(table, start, size, RangeOfCall(c)))
       [] c.op = "Remove" -> When(Overlaps(table, start, size), Removed(table, start, size))
       [] c.op = "ReleaseReserved" ->
            [ok |-> TRUE,
             table |-> IF /\ AllOf(table, start, size, ReservedTypes)
                          /\ table[start].first /\ RangeOf(table, start) = Span(start, size)
                         THEN Removed(table, start, size) ELSE table]
       [] c.op = "ConsumeReserved" ->
            When(/\ AllOf(table, start, size, {"Reserved"})
                 /\ Span(start, size) \subseteq RangeOf(table, start),
                 Removed(table, start, size))
       [] c.op = "ConsumeReservedSpan" ->
            When(AllOf(table, start, size, {"Reserved"}), Removed(table, start, size))
       [] c.op = "Rename" -> [ok |-> TRUE, table |-> Edited(table, start, size, Named)]
       [] c.op = "Protect" -> [ok |-> TRUE, table |-> Edited(table, start, size, Protected)]

\* The ranges are sorted, disjoint and not empty, and no two neighbours could
\* be merged: what each search and each merge relies on.
RangesInv ==
  /\ writer \in {"none", "before", "after"} /\ odd = (writer # "none")
  /\ \A i \in DOMAIN ranges : ranges[i].size > 0 /\ End(ranges[i]) <= LastPage + 1
  /\ \A i \in 1 .. Len(ranges) - 1 :
       /\ End(ranges[i]) <= ranges[i + 1].start
       /\ ~Mergeable(ranges[i], ranges[i + 1])

\* Every call on a reachable vector does, page by page, what it should, and
\* answers so: the fast paths for an exact range, the search for the ranges
\* that overlap, and a merge of the pieces and their two neighbours alone,
\* which the comment at memory.cpp:685 says equals merging the whole list.
UpdatesArePagewise ==
  /\ RangesInv
  /\ writer = "before" =>
       \A c \in Calls : LET after == After(c, ranges)
                        IN [ok |-> after.ok, table |-> PagesOf(after.ranges)]
                             = PagesAfter(c, PagesOf(ranges))

\* Every query does too, and a thread that skips the mutex because of its
\* cached interval and the epoch gets the answer that the walk under the
\* mutex would give it now (487-495).
QueriesArePagewise ==
  LET table == PagesOf(ranges)
      Extent(s) == Cardinality({a \in Span(s[1], s[2]) : \A b \in s[1] .. a : Committed(table, b)})
      AsPart(r) == <<r.start, r.size>>
      CommittedPages(s) == {a \in Span(s[1], s[2]) : Committed(table, a)}
  IN \A s \in Spans :
       /\ writer = "none" =>
            /\ Clamp(ranges, s[1], s[2]).size = Extent(s)
            /\ {AsPart(r) : r \in ToSet(QuerySpan(ranges, s[1], s[2]))} =
                 IF Covered(table, s[1], s[2]) THEN PartsIn(table, s[1], s[2]) ELSE {}
            /\ UNION {{<<a, p[3]>> : a \in p[1] .. p[2] - 1} :
                     p \in ToSet(CommittedParts(ranges, s[1], s[2]))} =
                 {<<a, table[a].type \in PrivateTypes>> : a \in CommittedPages(s)}
            /\ {AsPart(r) : r \in Query(ranges, s[1], FALSE)} =
                 IF Used(table, s[1])
                   THEN {<<FirstOf(table, s[1]), Cardinality(RangeOf(table, s[1]))>>} ELSE {}
       /\ Bypasses(s[1], s[2]) => Extent(s) = s[2]

================================================================================
