------------------------------- MODULE PageRanges -------------------------------
(***************************************************************************)
(* What the kernel's table of virtual ranges (VirtualRanges in             *)
(* kernel/memory.cpp) says, page by page: of each page the properties of   *)
(* its range and whether a range begins at it.  Two adjacent ranges are    *)
(* one when nothing tells them apart (SameMergeKey), so where ranges of    *)
(* these begin follows from the pages; direct memory and ranges that must  *)
(* not coalesce keep the boundaries that calls have given them.            *)
(***************************************************************************)
EXTENDS Integers, FiniteSets

CONSTANT LastPage \* pages are 1 .. LastPage

PageNo == 1 .. LastPage
Span(start, size) == start .. start + size - 1
Spans == {s \in PageNo \X PageNo : s[1] + s[2] - 1 <= LastPage}

ReservedTypes == {"Reserved", "PoolReserved"}
PrivateTypes == {"Stack", "Code", "Runtime"}

Free == [type |-> "free", first |-> FALSE]
Used(table, a) == a \in PageNo /\ table[a] # Free
Committed(table, a) == Used(table, a) /\ table[a].type \notin ReservedTypes

\* SameMergeKey
Alike(r, s) ==
  /\ "Direct" \notin {r.type, s.type} /\ ~r.lone /\ ~s.lone
  /\ r.type = s.type /\ r.prot = s.prot /\ r.name = s.name

\* Adjacent ranges that are alike are one range.
Merged(table) ==
  [a \in PageNo |->
     IF Used(table, a) /\ Used(table, a - 1) /\ Alike(table[a - 1], table[a])
       THEN [table[a] EXCEPT !.first = FALSE]
       ELSE table[a]]

\* A range begins at each page of A (where there is one).
CutAt(table, A) ==
  [a \in PageNo |-> IF a \in A /\ Used(table, a) THEN [table[a] EXCEPT !.first = TRUE] ELSE table[a]]

\* The pages of the range that begins at page a, the first page of the range
\* that holds page a, and that range's pages.
RangeFrom(table, a) ==
  LET Ends == {b \in a + 1 .. LastPage + 1 : ~Used(table, b) \/ table[b].first}
  IN a .. (CHOOSE b \in Ends : \A c \in Ends : b <= c) - 1
FirstOf(table, a) == CHOOSE b \in 1 .. a : table[b].first /\ a \in RangeFrom(table, b)
RangeOf(table, a) == RangeFrom(table, FirstOf(table, a))

\* The ranges' parts within a span, as <<first page, size>>.
PartsIn(table, start, size) ==
  LET cut == CutAt(table, {start, start + size})
  IN {<<a, Cardinality(RangeFrom(cut, a))>> :
        a \in {b \in Span(start, size) : Used(cut, b) /\ cut[b].first}}

Covered(table, start, size) == \A a \in Span(start, size) : Used(table, a)
AllOf(table, start, size, types) ==
  \A a \in Span(start, size) : table[a].type \in types
Overlaps(table, start, size) == \E a \in Span(start, size) : Used(table, a)

\* Add, of a span that is free: r is the range's properties, its offset that
\* of its start.
Added(table, start, size, r) ==
  Merged([a \in PageNo |->
    IF a \in Span(start, size)
      THEN [type |-> r.type, prot |-> r.prot, name |-> r.name, lone |-> r.lone,
            offset |-> IF r.type = "Direct" THEN r.offset + a - start ELSE r.offset,
            first |-> a = start]
      ELSE table[a]])

\* Remove: what a range loses in the middle leaves two.
Removed(table, start, size) ==
  [a \in PageNo |-> IF a \in Span(start, size) THEN Free ELSE CutAt(table, {start + size})[a]]

\* Rename and Protect: the edit of every range's part in the span.
Edited(table, start, size, Edit(_)) ==
  LET cut == CutAt(table, {start, start + size})
  IN Merged([a \in PageNo |-> IF a \in Span(start, size) /\ Used(table, a)
                              THEN Edit(cut[a]) ELSE cut[a]])
=================================================================================
