------------------------------ MODULE GuestMemory ------------------------------
(***************************************************************************)
(* The kernel's memory manager (kernel/memory.cpp).  What the guest has    *)
(* mapped is written down in several ledgers: the table of virtual ranges, *)
(* the host's views (GuestAddressSpace), the blocks and mappings of direct *)
(* memory (PhysicalMemory), of flexible memory (FlexibleMemory) and of the *)
(* pool (PooledMemory), and the ranges the renderer may touch              *)
(* (MapGpuRange).  g_memory_operation_mutex makes each call one step       *)
(* towards the other guest threads; within it the ledgers change one after *)
(* the other, a step may be refused by the host, and what was done before  *)
(* it is then undone.  So a call is a function of the ledgers here,        *)
(* composed of the code's own steps in their order.                        *)
(*                                                                         *)
(* Pages are the unit of every address, size and offset.  The table is     *)
(* page-wise (PageRanges), which VirtualRanges justifies.                  *)
(***************************************************************************)
EXTENDS PageRanges, SequencesExt

CONSTANTS DirectPages,   \* the backing's pages of direct memory come first,
          FlexiblePages, \* then those of flexible memory
          Prot,          \* protections, positive numbers
          Name,          \* names that the guest gives ranges
          Anon,          \* the name of a reservation
          HostRefuses,   \* the host may refuse to map or unmap a page
          ReleasesSplit  \* direct memory is released whose mapping the table has split

VARIABLE mem \* the ledgers

vars == <<mem>>

DirectPage == 1 .. DirectPages
FlexiblePage == DirectPages + 1 .. DirectPages + FlexiblePages
NoView == 0
PrivateView == -1
NoMap == [at |-> 0, prot |-> 0, first |-> FALSE]
PooledTypes == {"Pooled", "PoolReserved"}
RuntimeTypes == {"Code", "Runtime"}

Init ==
  mem = [table |-> [a \in PageNo |-> Free],        \* g_virtual_ranges
         host |-> [a \in PageNo |-> NoView],       \* m_mapped, m_maps; NoView is m_free
         direct |-> {},                          \* m_physical, without the pool's
         expansions |-> {},                      \* m_expansions and their blocks
         maps |-> [a \in PageNo |-> NoMap],        \* PhysicalMemory::m_mappings
         flexible |-> [a \in PageNo |-> NoMap],    \* FlexibleMemory::m_allocated
         flexFree |-> FlexiblePage,              \* its m_free
         pool |-> [a \in PageNo |-> 0],            \* PooledMemory::m_mappings
         poolFree |-> {},                        \* its m_free
         committed |-> 0,                        \* g_memory_pool_committed
         gpu |-> {},                             \* m_mapped_ranges
         left |-> {},    \* committed pages that a failed unmap has left without gpu
         dead |-> FALSE] \* the program has ended itself

\* What a call answers, and the ledgers after it.
Did(m) == [ok |-> TRUE, m |-> m]
Refused(m) == [ok |-> FALSE, m |-> m]
Died(m) == [ok |-> FALSE, m |-> [m EXCEPT !.dead = TRUE]]

\* A step that follows one that was not refused, what a refused one is followed
\* by, and one that must not be refused.
Then(o, Step(_)) == IF o.ok THEN Step(o.m) ELSE o
OrElse(o, Undo(_)) == IF o.ok THEN o ELSE Refused(Undo(o.m).m)
OrDies(o) == IF o.ok THEN o ELSE Died(o.m)

\* The pages of a span in order, and the least n of a set of pages.
InOrder(start, size) == [i \in 1 .. size |-> start + i - 1]
Lowest(S, n) == SubSeq(SetToSortSeq(S, <), 1, n)

\* Steps, one for each element of seq, until one is refused.
Until(Step(_, _), m, seq) ==
  LET Next1(acc, e) == IF ~acc.ok THEN acc
                       ELSE LET o == Step(acc.m, e)
                            IN [ok |-> o.ok, m |-> o.m,
                                done |-> IF o.ok THEN Append(acc.done, e) ELSE acc.done]
  IN FoldLeft(Next1, [ok |-> TRUE, m |-> m, done |-> <<>>], seq)

--------------------------------------------------------------------------------
\* The host's views (GuestAddressSpace, GuestBackingStore); x is a page that
\* the host refuses to map or unmap in this call, if any.

HostFree(m, start, size) == \A a \in Span(start, size) : m.host[a] = NoView
Viewed(m, start, size, View(_)) ==
  [m EXCEPT !.host = [a \in PageNo |-> IF a \in Span(start, size) THEN View(a) ELSE @[a]]]
Backed(m, start, size) == \A a \in Span(start, size) : m.host[a] \in DirectPage \cup FlexiblePage

MapBacking(m, start, size, at, x) ==
  LET View(a) == at + a - start
  IN IF HostFree(m, start, size) /\ x \notin Span(start, size)
       THEN Did(Viewed(m, start, size, View)) ELSE Refused(m)

UnmapBacking(m, start, size, x) ==
  LET None(a) == NoView
  IN IF Backed(m, start, size) /\ x \notin Span(start, size)
       THEN Did(Viewed(m, start, size, None)) ELSE Refused(m)

Commit(m, start, size, x) ==
  LET View(a) == PrivateView
  IN IF HostFree(m, start, size) /\ x \notin Span(start, size)
       THEN Did(Viewed(m, start, size, View)) ELSE Refused(m)

ReleaseCommitted(m, start, size) ==
  LET None(a) == NoView
  IN IF \A a \in Span(start, size) : m.host[a] = PrivateView
       THEN Did(Viewed(m, start, size, None)) ELSE Refused(m)

MapGpu(m, start, size) ==
  [m EXCEPT !.gpu = @ \cup Span(start, size), !.left = @ \ Span(start, size)]
UnmapGpu(m, start, size) ==
  [m EXCEPT !.gpu = @ \ Span(start, size), !.left = @ \ Span(start, size)]

\* A failed unmap of a span restores the protection of what is left of it, but
\* not the renderer's range (RestoreGpuRangeProtection).
LeftMapped(m, start, size) ==
  [m EXCEPT !.left = @ \cup {a \in Span(start, size) : Committed(m.table, a)}]

\* The table of virtual ranges
AddRange(m, start, size, type, prot, name, offset, lone) ==
  [m EXCEPT !.table = Added(@, start, size, [type |-> type, prot |-> prot, name |-> name,
                                             offset |-> offset, lone |-> lone])]
Reserve(m, start, size, name) == AddRange(m, start, size, "Reserved", 0, name, 0, FALSE)
RemoveRange(m, start, size) == [m EXCEPT !.table = Removed(@, start, size)]

\* MemoryPoolSubtractCommitted
SubtractCommitted(m, size) ==
  [m EXCEPT !.committed = IF @ > size THEN @ - size ELSE 0]

\* FindGuestFreeRange: the lowest page from the hint that begins a free span (a
\* set of at most one).
FindGuestFreeRange(m, hint, size) ==
  LET Fits == {a \in PageNo : /\ a >= hint /\ <<a, size>> \in Spans
                            /\ HostFree(m, a, size) /\ ~Overlaps(m.table, a, size)}
  IN {a \in Fits : \A b \in Fits : a <= b}

--------------------------------------------------------------------------------
\* Direct memory (PhysicalMemory)

FreeDirect(m) == (DirectPage \ m.direct) \ UNION {Span(e[1], e[2]) : e \in m.expansions}

\* Alloc: the lowest free span from a page on (a set of at most one page).
Alloc(m, from, size) ==
  LET Fits == {p \in FreeDirect(m) : p >= from /\ Span(p, size) \subseteq FreeDirect(m)}
  IN {p \in Fits : \A q \in Fits : p <= q}

PhysicalMap(m, start, size, at, prot) ==
  [m EXCEPT !.maps = [a \in PageNo |->
     IF a \in Span(start, size) THEN [at |-> at + a - start, prot |-> prot, first |-> a = start]
     ELSE @[a]]]

\* Unmap: a span within one mapping; what follows it is a mapping of its own.
PhysicalUnmap(m, start, size) ==
  IF /\ \A a \in Span(start, size) : m.maps[a] # NoMap
     /\ \A a \in Span(start + 1, size - 1) : ~m.maps[a].first
    THEN Did([m EXCEPT !.maps = [a \in PageNo |->
           IF a \in Span(start, size) THEN NoMap
           ELSE IF a = start + size /\ @[a] # NoMap THEN [@[a] EXCEPT !.first = TRUE]
           ELSE @[a]]])
    ELSE Refused(m)

\* Mutant: only mappings that begin within the pages are found.
FindBegun(m, at, size) ==
  LET Shown == {a \in PageNo : m.maps[a].at \in Span(at, size)}
      Begins == {a \in Shown : m.maps[a].first}
      EndOf(a) == CHOOSE b \in a .. LastPage :
                    /\ a .. b \subseteq Shown /\ (a + 1 .. b) \cap Begins = {}
                    /\ b + 1 \notin Shown \/ b + 1 \in Begins
  IN SetToSortSeq({<<a, EndOf(a) - a + 1>> : a \in Begins}, LAMBDA c, d : c[1] < d[1])

\* FindMappings: the mappings' parts over direct pages, as <<page, size>> in
\* order.
FindMappings(m, at, size) ==
  LET Shown == {a \in PageNo : m.maps[a].at \in Span(at, size)}
      Begins == {a \in Shown : m.maps[a].first \/ a - 1 \notin Shown}
      EndOf(a) == CHOOSE b \in a .. LastPage :
                    /\ a .. b \subseteq Shown /\ (a + 1 .. b) \cap Begins = {}
                    /\ b + 1 \notin Shown \/ b + 1 \in Begins
  IN SetToSortSeq({<<a, EndOf(a) - a + 1>> : a \in Begins}, LAMBDA c, d : c[1] < d[1])

\* ProtectMapping
ProtectMapping(m, start, size, prot) ==
  [m EXCEPT !.maps = [a \in PageNo |->
     IF @[a] = NoMap THEN NoMap
     ELSE [@[a] EXCEPT !.first = @ \/ a \in {start, start + size},
                       !.prot = IF a \in Span(start, size) THEN prot ELSE @]]]

--------------------------------------------------------------------------------
\* Flexible memory and the pool

\* Map: the lowest free pages of the backing, each run of them a view; the
\* views made before a refused one are undone, so that the ledgers are kept.
FlexibleMap(m, start, size, prot, x) ==
  LET at == Lowest(m.flexFree, size)
      MapOne(k, a) == MapBacking(k, a, 1, at[a - start + 1], x)
      all == Until(MapOne, m, InOrder(start, size))
      UnmapOne(a, k) == UnmapBacking(k, a, 1, 0).m
  IN IF size > Cardinality(m.flexFree) THEN Refused(m)
     ELSE IF ~all.ok THEN Refused(FoldRight(UnmapOne, all.done, all.m))
     ELSE Did([all.m EXCEPT !.flexFree = @ \ Range(at),
                            !.flexible = [a \in PageNo |->
                              IF a \in Span(start, size)
                                THEN [NoMap EXCEPT !.at = at[a - start + 1], !.prot = prot]
                                ELSE @[a]]])

FlexibleUnmap(m, start, size, x) ==
  LET unmapped == UnmapBacking(m, start, size, x)
  IN IF (\E a \in Span(start, size) : m.flexible[a] = NoMap) \/ ~unmapped.ok
       THEN Refused(m)
       ELSE Did([unmapped.m EXCEPT
              !.flexFree = @ \cup {m.flexible[a].at : a \in Span(start, size)},
              !.flexible = [a \in PageNo |-> IF a \in Span(start, size) THEN NoMap ELSE @[a]]])

\* Restore, from the ledgers that Snapshot saw.
FlexibleRestore(m, old, start, size) ==
  LET View(a) == old.flexible[a].at
      at == {old.flexible[a].at : a \in Span(start, size)}
  IN IF HostFree(m, start, size) /\ at \subseteq m.flexFree
       THEN Did([Viewed(m, start, size, View) EXCEPT
              !.flexFree = @ \ at,
              !.flexible = [a \in PageNo |-> IF a \in Span(start, size) THEN old.flexible[a] ELSE @[a]]])
       ELSE Refused(m)

PoolAllocate(m, start, size) ==
  LET at == Lowest(m.poolFree, size)
  IN IF size > Cardinality(m.poolFree) THEN Refused(m)
     ELSE Did([m EXCEPT !.poolFree = @ \ Range(at),
                        !.pool = [a \in PageNo |-> IF a \in Span(start, size)
                                                   THEN at[a - start + 1] ELSE @[a]]])

PoolRelease(m, start, size) ==
  IF \E a \in Span(start, size) : m.pool[a] = 0 THEN Refused(m)
  ELSE Did([m EXCEPT !.poolFree = @ \cup {m.pool[a] : a \in Span(start, size)},
                     !.pool = [a \in PageNo |-> IF a \in Span(start, size) THEN 0 ELSE @[a]]])

\* UnmapPooledBackingTransactional, of pages in order.
UnmapPooled(m, pages, x) ==
  LET UnmapOne(k, a) == UnmapBacking(k, a, 1, x)
      all == Until(UnmapOne, m, pages)
      MapAgain(a, k) == MapBacking(k, a, 1, m.pool[a], 0).m
  IN IF all.ok THEN Did(all.m) ELSE Refused(FoldRight(MapAgain, all.done, all.m))

--------------------------------------------------------------------------------
\* Placing a mapping.  A reservation that is consumed or a span whose contents
\* are replaced is reserved again when the mapping is refused after all.

PartsInOrder(m, start, size) ==
  SetToSortSeq(PartsIn(m.table, start, size), LAMBDA c, d : c[1] < d[1])

\* One chunk of a span that is replaced, of the ledgers as they were: `host'
\* and `backend' are the chunks whose view and whose block have been taken.
TakeChunk(old, x, so, c) ==
  LET type == old.table[c[1]].type
      unviewed == UnmapBacking(so.m, c[1], c[2], x)
      unmapped == PhysicalUnmap(unviewed.m, c[1], c[2])
      Whole(o) == [ok |-> o.ok, m |-> o.m,
                   host |-> IF o.ok THEN so.host \cup {c} ELSE so.host,
                   backend |-> IF o.ok THEN so.backend \cup {c} ELSE so.backend]
  IN CASE ~so.ok -> so
       [] so.ok /\ type = "Direct" ->
            IF unviewed.ok THEN [Whole(unmapped) EXCEPT !.host = @ \cup {c}]
                           ELSE Whole(unviewed)
       [] so.ok /\ type = "Flexible" -> Whole(FlexibleUnmap(so.m, c[1], c[2], x))
       [] so.ok /\ type \in PrivateTypes -> Whole(ReleaseCommitted(so.m, c[1], c[2]))
       [] so.ok /\ type \in ReservedTypes ->
            [so EXCEPT !.ok = HostFree(so.m, c[1], c[2])]

\* restore_chunks: what was taken of a chunk comes back from what it was.
RestoreChunk(old, so, c) ==
  LET r == old.table[c[1]]
      viewed == IF c \in so.host THEN MapBacking(so.m, c[1], c[2], r.offset, 0) ELSE Did(so.m)
      o == CASE r.type = "Direct" ->
                  [viewed EXCEPT !.m = IF c \in so.backend
                     THEN PhysicalMap(@, c[1], c[2], r.offset, r.prot) ELSE @]
             [] r.type = "Flexible" /\ c \in so.backend -> FlexibleRestore(so.m, old, c[1], c[2])
             [] r.type \in PrivateTypes /\ c \in so.host -> Commit(so.m, c[1], c[2], 0)
             [] OTHER -> Did(so.m)
  IN [so EXCEPT !.ok = @ /\ o.ok, !.m = o.m]

AddAgain(old, m, c) ==
  LET r == old.table[c[1]]
  IN AddRange(m, c[1], c[2], r.type, r.prot, r.name, r.offset, r.lone)

\* Mutant: what is restored is not given back to the renderer.
RestoreUnseen(old, so, chunks) ==
  LET RestoreOne(c, k) == RestoreChunk(old, k, c)
      AddOne(k, c) == AddAgain(old, k, c)
      restored == FoldRight(RestoreOne, chunks, [so EXCEPT !.ok = TRUE])
  IN Refused(FoldLeft(AddOne, restored.m, chunks))

RestoreChunks(old, so, chunks) ==
  LET RestoreOne(c, k) == RestoreChunk(old, k, c)
      AddOne(k, c) == AddAgain(old, k, c)
      MapOne(k, c) == IF Committed(old.table, c[1]) THEN MapGpu(k, c[1], c[2]) ELSE k
      restored == FoldRight(RestoreOne, chunks, [so EXCEPT !.ok = TRUE])
      added == FoldLeft(AddOne, restored.m, chunks)
  IN IF restored.ok THEN Refused(FoldLeft(MapOne, added, chunks)) ELSE Died(added)

\* ReplaceFixedRangeWithReserved, of a span without pooled memory.
ReplaceFixed(m, start, size, x) ==
  LET chunks == PartsInOrder(m, start, size)
      OwnsChunk(c) ==
        /\ m.table[c[1]].type = "Direct" => Backed(m, c[1], c[2])
        /\ m.table[c[1]].type = "Flexible" =>
             \A a \in Span(c[1], c[2]) : m.flexible[a] # NoMap
      drained == RemoveRange(UnmapGpu(m, start, size), start, size)
      TakeOne(so, c) == TakeChunk(m, x, so, c)
      ReserveOrRestore(taken) ==
        IF taken.ok /\ HostFree(taken.m, start, size)
          THEN Did(Reserve(taken.m, start, size, Anon))
          ELSE RestoreChunks(m, taken, chunks)
  IN IF \E i \in DOMAIN chunks : ~OwnsChunk(chunks[i]) THEN Refused(m)
     ELSE ReserveOrRestore(FoldLeft(TakeOne,
            [ok |-> TRUE, m |-> drained, host |-> {}, backend |-> {}], chunks))

\* Where a mapping goes: `again' says that a reservation was consumed for it.
Nowhere(m) == [ok |-> FALSE, m |-> m, start |-> 0, again |-> FALSE, name |-> Anon]
Consumed(m, start, size) ==
  [ok |-> TRUE, m |-> RemoveRange(UnmapGpu(m, start, size), start, size),
   start |-> start, again |-> TRUE, name |-> m.table[start].name]
FreePlace(m, hint, size) ==
  LET found == FindGuestFreeRange(m, hint, size)
      start == CHOOSE a \in found : TRUE
  IN IF found = {} THEN Nowhere(m)
     ELSE [ok |-> TRUE, m |-> UnmapGpu(m, start, size), start |-> start,
           again |-> FALSE, name |-> Anon]
ConsumedIf(o, start, size) == IF o.ok THEN Consumed(o.m, start, size) ELSE Nowhere(o.m)
FixedPlace(m, start, size, x) ==
  ConsumedIf(IF AllOf(m.table, start, size, {"Reserved"}) THEN Did(m)
             ELSE ReplaceFixed(m, start, size, x), start, size)

LetGo(place, size) ==
  Refused(IF place.again THEN Reserve(place.m, place.start, size, place.name) ELSE place.m)

--------------------------------------------------------------------------------
\* The calls.  GUEST_MAP_NO_OVERWRITE only adds a refusal that changes nothing.

\* What was mapped at a place, in the table and for the renderer.
Enter(place, size, mapped, type, prot, name, offset) ==
  IF mapped.ok
    THEN Did(MapGpu(AddRange(mapped.m, place.start, size, type, prot, name, offset, FALSE),
                    place.start, size))
    ELSE LetGo(place, size)

DirectAt(place, size, at, prot, name, x) ==
  LET mapped == MapBacking(place.m, place.start, size, at, x)
      owned == [mapped EXCEPT !.m = PhysicalMap(@, place.start, size, at, prot)]
  IN IF place.ok THEN Enter(place, size, owned, "Direct", prot, name, at)
     ELSE Refused(place.m)

\* KernelMapDirectMemory; without a fixed address it takes a reservation at its
\* hint, or else what is free from the hint on.
MapDirect(m, hint, size, at, prot, name, fixed, x) ==
  IF ~(Span(at, size) \subseteq m.direct) THEN Refused(m)
  ELSE DirectAt(IF fixed THEN FixedPlace(m, hint, size, x)
                ELSE IF AllOf(m.table, hint, size, {"Reserved"}) THEN Consumed(m, hint, size)
                ELSE FreePlace(m, hint, size), size, at, prot, name, x)

FlexibleAt(place, size, prot, name, x) ==
  IF place.ok THEN Enter(place, size, FlexibleMap(place.m, place.start, size, prot, x),
                         "Flexible", prot, name, 0)
  ELSE Refused(place.m)

\* KernelMapNamedFlexibleMemory, without GUEST_MAP_NO_COALESCE: the range may
\* join its neighbours.
MapFlexible(m, hint, size, prot, name, fixed, x) ==
  IF size > Cardinality(m.flexFree) THEN Refused(m)
  ELSE FlexibleAt(IF fixed THEN FixedPlace(m, hint, size, x) ELSE FreePlace(m, hint, size),
                  size, prot, name, x)

\* KernelReserveVirtualRange
ReserveVirtualRange(m, hint, size, fixed, x) ==
  LET At(start, o) == [ok |-> o.ok, m |-> o.m, start |-> start]
      ReservedAt(place) ==
        IF place.ok THEN [place EXCEPT !.m = Reserve(@, place.start, size, Anon)] ELSE place
  IN IF fixed THEN At(hint, ReplaceFixed(m, hint, size, x))
     ELSE ReservedAt(FreePlace(m, hint, size))

\* AllocateGuestRuntimeMemory; code, stacks and runtime memory differ in the
\* type alone.
AllocateGuestRuntime(m, hint, size, prot, name, fixed, x) ==
  LET RuntimeAt(place) ==
        IF place.ok THEN Enter(place, size, Commit(place.m, place.start, size, x),
                               "Runtime", prot, name, 0)
        ELSE Refused(m)
  IN IF fixed /\ Overlaps(m.table, hint, size) THEN Refused(m)
     ELSE RuntimeAt(IF fixed THEN [Nowhere(UnmapGpu(m, hint, size)) EXCEPT !.ok = TRUE, !.start = hint]
                    ELSE FreePlace(m, hint, size))

\* KernelMprotect, of committed memory.
Mprotect(m, start, size, prot) ==
  LET ProtectPart(k, c) ==
        CASE m.table[c[1]].type = "Direct" -> ProtectMapping(k, c[1], c[2], prot)
          [] m.table[c[1]].type = "Flexible" ->
               [k EXCEPT !.flexible = [a \in PageNo |->
                  IF a \in Span(c[1], c[2]) THEN [@[a] EXCEPT !.prot = prot] ELSE @[a]]]
          [] OTHER -> k
      all == FoldLeft(ProtectPart, m, PartsInOrder(m, start, size))
      New(r) == [r EXCEPT !.prot = prot]
  IN Did([all EXCEPT !.table = Edited(@, start, size, New)])

\* KernelSetVirtualRangeName; the names that the blocks keep are left out.
SetVirtualRangeName(m, start, size, name) ==
  LET New(r) == [r EXCEPT !.name = name]
  IN Did([m EXCEPT !.table = Edited(@, start, size, New)])

\* UnmapMemoryRange, of a part of one range: what owns it gives it up, then the
\* table.
UnmapPart(m, c, x) ==
  LET start == c[1]  size == c[2]
      type == m.table[start].type
      Unpool(k) == OrDies(PoolRelease(k, start, size))
      ViewAgain(k) == OrDies(MapBacking(k, start, size, m.table[start].offset, 0))
      UnmapDirect(k) == OrElse(PhysicalUnmap(k, start, size), ViewAgain)
      Unlist(k) == Did(RemoveRange(k, start, size))
      Subtract(k) == Did(SubtractCommitted(k, size))
  IN CASE type \in ReservedTypes -> Then([ok |-> HostFree(m, start, size), m |-> m], Unlist)
       [] type \in PrivateTypes -> Then(ReleaseCommitted(m, start, size), Unlist)
       [] type = "Pooled" ->
            Then(Then(Then(UnmapPooled(m, InOrder(start, size), x), Unpool), Unlist), Subtract)
       [] type = "Direct" -> Then(Then(UnmapBacking(m, start, size, x), UnmapDirect), Unlist)
       [] type = "Flexible" -> Then(FlexibleUnmap(m, start, size, x), Unlist)

\* KernelMunmap: part after part; those before a refused one stay unmapped.
Munmap(m, start, size, x) ==
  LET UnmapOne(k, c) == UnmapPart(k, c, x)
      Leave(k) == Did(LeftMapped(k, start, size))
  IN IF ~Covered(m.table, start, size) THEN Refused(m)
     ELSE OrElse(Until(UnmapOne, UnmapGpu(m, start, size), PartsInOrder(m, start, size)), Leave)

\* FreeGuestMemory, of memory that AllocateGuestRuntimeMemory has given out.
FreeGuestMemory(m, start, size) ==
  LET released == ReleaseCommitted(UnmapGpu(m, start, size), start, size)
  IN IF released.ok THEN Did(RemoveRange(released.m, start, size))
                    ELSE Refused(LeftMapped(released.m, start, size))

\* KernelAllocateDirectMemory, KernelMemoryPoolExpand
AllocateDirect(m, from, size) ==
  LET found == Alloc(m, from, size)
  IN IF found = {} THEN Refused(m)
     ELSE Did([m EXCEPT !.direct = @ \cup UNION {Span(p, size) : p \in found}])

PoolExpand(m, from, size) ==
  LET found == Alloc(m, from, size)
  IN IF found = {} THEN Refused(m)
     ELSE Did([m EXCEPT !.expansions = @ \cup (found \X {size}),
                        !.poolFree = @ \cup UNION {Span(p, size) : p \in found}])

\* A mapping of the pages is not within one range of the table: a part of it
\* has been renamed, or its replacement has been undone.
AliasEscapes(m, at, size) ==
  \E i \in DOMAIN FindMappings(m, at, size) :
    LET c == FindMappings(m, at, size)[i]
    IN \/ ~Backed(m, c[1], c[2]) \/ m.table[c[1]].type # "Direct"
       \/ ~(Span(c[1], c[2]) \subseteq RangeOf(m.table, c[1]))

\* ReleaseDirectMemoryInternal: all mappings of the pages go, or none does.
ReleaseDirect(m, at, size, x) ==
  LET aliases == FindMappings(m, at, size)
      UnmapGpuOf(k, c) == UnmapGpu(k, c[1], c[2])
      MapGpuOf(k, c) == MapGpu(k, c[1], c[2])
      UnviewOne(k, c) == UnmapBacking(k, c[1], c[2], x)
      UnmapOne(k, c) == PhysicalUnmap(k, c[1], c[2])
      ViewAgain(c, k) == MapBacking(k, c[1], c[2], m.maps[c[1]].at, 0).m
      MapAgain(k, c) == PhysicalMap(k, c[1], c[2], m.maps[c[1]].at, m.maps[c[1]].prot)
      RemoveOne(k, c) == RemoveRange(k, c[1], c[2])
      unviewed == Until(UnviewOne, FoldLeft(UnmapGpuOf, m, aliases), aliases)
      unmapped == Until(UnmapOne, unviewed.m, aliases)
      viewed == IF unviewed.ok THEN FoldLeft(MapAgain, unmapped.m, unmapped.done) ELSE unviewed.m
  IN IF <<at, size>> \in m.expansions /\ Span(at, size) \subseteq m.poolFree
       THEN Did([m EXCEPT !.expansions = @ \ {<<at, size>>}, !.poolFree = @ \ Span(at, size)])
     ELSE IF ~(Span(at, size) \subseteq m.direct) THEN Refused(m)
     ELSE IF AliasEscapes(m, at, size) THEN Died(m)
     ELSE IF unviewed.ok /\ unmapped.ok
       THEN Did([FoldLeft(RemoveOne, unmapped.m, aliases) EXCEPT !.direct = @ \ Span(at, size)])
     ELSE Refused(FoldLeft(MapGpuOf, FoldRight(ViewAgain, unviewed.done, viewed), aliases))

\* KernelMemoryPoolReserve: the reservation becomes the pool's if it is a range
\* of its own.
PoolReserve(m, hint, size, fixed, x) ==
  LET Alone(k, start) == /\ k.table[start].type \in ReservedTypes /\ k.table[start].first
                         /\ RangeOf(k.table, start) = Span(start, size)
      PoolsAt(o) ==
        IF o.ok /\ Alone(o.m, o.start)
          THEN Did(AddRange(RemoveRange(o.m, o.start, size), o.start, size,
                            "PoolReserved", 0, o.m.table[o.start].name, 0, FALSE))
          ELSE Refused(o.m)
  IN PoolsAt(ReserveVirtualRange(m, hint, size, fixed, x))

\* KernelMemoryPoolCommit; pages of the backing are mapped one after the other.
PoolCommit(m, start, size, prot, x) ==
  LET name == m.table[start].name
      Reserved(k) == AddRange(k, start, size, "PoolReserved", 0, name, 0, FALSE)
      allocated == PoolAllocate(RemoveRange(m, start, size), start, size)
      MapOne(k, a) == MapBacking(k, a, 1, k.pool[a], x)
      mapped == Until(MapOne, allocated.m, InOrder(start, size))
      unmapped == UnmapPooled(mapped.m, mapped.done, 0)
      released == PoolRelease(unmapped.m, start, size)
      added == AddRange(mapped.m, start, size, "Pooled", prot, name, 0, FALSE)
  IN IF \/ m.table[start].type # "PoolReserved"
        \/ ~(Span(start, size) \subseteq RangeOf(m.table, start)) THEN Refused(m)
     ELSE IF ~allocated.ok THEN Refused(Reserved(allocated.m))
     ELSE IF mapped.ok THEN Did([MapGpu(added, start, size) EXCEPT !.committed = @ + size])
     ELSE IF unmapped.ok /\ released.ok THEN Refused(Reserved(released.m))
     ELSE Died(mapped.m)

\* KernelMemoryPoolDecommit; the program ends itself if the host refuses it.
PoolDecommit(m, start, size) ==
  LET DecommitPart(k, c) ==
        LET r == k.table[c[1]]
            unmapped == UnmapPooled(k, InOrder(c[1], c[2]), 0)
            released == PoolRelease(unmapped.m, c[1], c[2])
            again == AddRange(RemoveRange(released.m, c[1], c[2]), c[1], c[2],
                              "PoolReserved", 0, r.name, 0, FALSE)
        IN IF r.type = "PoolReserved" THEN Did(k)
           ELSE IF unmapped.ok /\ released.ok THEN Did(SubtractCommitted(again, c[2]))
           ELSE Died(k)
      all == Until(DecommitPart, UnmapGpu(m, start, size), PartsInOrder(m, start, size))
  IN IF ~AllOf(m.table, start, size, PooledTypes) THEN Refused(m)
     ELSE [ok |-> all.ok, m |-> all.m]

--------------------------------------------------------------------------------
\* One call of a guest thread.  Calls that end the program for what the guest
\* asked of it are not made: to replace pooled memory, to protect memory that is
\* not committed, to free memory that is not the runtime's.

Call(o) == mem' = o.m
Refusals(start, size) == {0} \cup IF HostRefuses THEN PageNo \cap Span(start, size) ELSE {}
Replaceable(s) == \A a \in Span(s[1], s[2]) : mem.table[a].type # "Pooled"

Maps ==
  \E s \in Spans, prot \in Prot, name \in Name, fixed \in BOOLEAN :
    /\ fixed => Replaceable(s)
    /\ \E x \in Refusals(s[1], IF fixed THEN s[2] ELSE LastPage) :
         \/ \E at \in DirectPage : Call(MapDirect(mem, s[1], s[2], at, prot, name, fixed, x))
         \/ Call(MapFlexible(mem, s[1], s[2], prot, name, fixed, x))
         \/ Call(AllocateGuestRuntime(mem, s[1], s[2], prot, name, fixed, x))

Reserves ==
  \E s \in Spans, fixed \in BOOLEAN :
    /\ fixed => Replaceable(s)
    /\ \E x \in Refusals(s[1], IF fixed THEN s[2] ELSE 0) :
       \/ Call(ReserveVirtualRange(mem, s[1], s[2], fixed, x))
       \/ Call(PoolReserve(mem, s[1], s[2], fixed, x))

Changes ==
  \E s \in Spans :
    \/ /\ \A a \in Span(s[1], s[2]) : Committed(mem.table, a)
       /\ \E prot \in {0} \cup Prot : Call(Mprotect(mem, s[1], s[2], prot))
    \/ \E name \in Name : Call(SetVirtualRangeName(mem, s[1], s[2], name))

Unmaps ==
  \E s \in Spans :
    \/ \E x \in Refusals(s[1], s[2]) : Call(Munmap(mem, s[1], s[2], x))
    \/ /\ AllOf(mem.table, s[1], s[2], RuntimeTypes)
       /\ Call(FreeGuestMemory(mem, s[1], s[2]))

DirectCalls ==
  \E at \in DirectPage : \E size \in 1 .. DirectPages :
    \/ Call(AllocateDirect(mem, at, size)) \/ Call(PoolExpand(mem, at, size))
    \/ /\ ReleasesSplit \/ ~AliasEscapes(mem, at, size)
       /\ \E x \in Refusals(1, LastPage) : Call(ReleaseDirect(mem, at, size, x))

PoolCalls ==
  \E s \in Spans :
    \/ \E prot \in Prot, x \in Refusals(s[1], s[2]) : Call(PoolCommit(mem, s[1], s[2], prot, x))
    \/ Call(PoolDecommit(mem, s[1], s[2]))

Next == ~mem.dead /\ (Maps \/ Reserves \/ Changes \/ Unmaps \/ DirectCalls \/ PoolCalls)

Spec == Init /\ [][Next]_vars

--------------------------------------------------------------------------------
\* Each page of the table has what its type says, in the other ledgers, and no
\* other page has: views, blocks and protections; each range of direct memory is
\* within one mapping.
PagesInStep(m) ==
  \A a \in PageNo :
    LET r == m.table[a]
        is(type) == r.type = type
    IN /\ m.host[a] = CASE is("Direct") -> r.offset
                        [] is("Flexible") -> m.flexible[a].at
                        [] is("Pooled") -> m.pool[a]
                        [] r.type \in PrivateTypes -> PrivateView
                        [] OTHER -> NoView
       /\ is("Direct") => m.maps[a].at = r.offset /\ m.maps[a].prot = r.prot
       /\ is("Direct") <=> m.maps[a] # NoMap
       /\ m.maps[a].first => r.first
       /\ m.flexible[a].prot = IF is("Flexible") THEN r.prot ELSE 0
       /\ is("Flexible") <=> m.flexible[a] # NoMap
       /\ is("Pooled") <=> m.pool[a] # 0

\* Every page of the backing has one owner, the pool counts what it has
\* committed, and the renderer's ranges are those of committed memory.
BackingInStep(m) ==
  LET pooled == {a \in PageNo : m.table[a].type = "Pooled"}
      flexed == {a \in PageNo : m.table[a].type = "Flexible"}
      expanded == UNION {Span(e[1], e[2]) : e \in m.expansions}
      committed == {a \in PageNo : Committed(m.table, a)}
      Pages(S, f) == {f[a] : a \in S}
      At == [a \in PageNo |-> m.flexible[a].at]
  IN /\ Pages(flexed, At) \cup m.flexFree = FlexiblePage
     /\ Cardinality(flexed) + Cardinality(m.flexFree) = FlexiblePages
     /\ Pages(pooled, m.pool) \cup m.poolFree = expanded
     /\ Cardinality(pooled) + Cardinality(m.poolFree) = Cardinality(expanded)
     /\ expanded \cap m.direct = {}
     /\ {m.maps[a].at : a \in PageNo} \subseteq m.direct \cup {0}
     /\ m.committed = Cardinality(pooled)
     /\ m.gpu \subseteq committed /\ committed \subseteq m.gpu \cup m.left

\* "Keep host mappings, physical blocks, placeholders, and virtual ranges in
\* step" (memory.cpp:967): whatever calls were made, and whatever the host has
\* refused in them.
MemoryInStep == ~mem.dead /\ PagesInStep(mem) /\ BackingInStep(mem)

\* What a refused call may not change: everything but where ranges begin, and
\* the renderer keeps what it had.
Kept(k, m) ==
  LET Unbounded(f) == [a \in PageNo |-> [f[a] EXCEPT !.first = FALSE]]
  IN /\ ~k.dead
     /\ Unbounded(k.table) = Unbounded(m.table) /\ Unbounded(k.maps) = Unbounded(m.maps)
     /\ \A f \in {"host", "direct", "expansions", "flexible", "flexFree", "pool",
                  "poolFree", "committed"} : k[f] = m[f]
     /\ m.gpu \subseteq k.gpu

\* A fixed replacement, a commitment of the pool and a release of direct memory
\* that the host refuses half way change nothing: "a successful replacement (or
\* its rollback)" keeps the pages' owners (memory.cpp:3606).
RollbackIsTotal ==
  /\ \A s \in Spans : \A x \in Refusals(s[1], s[2]) :
       /\ Replaceable(s) =>
            LET o == ReplaceFixed(mem, s[1], s[2], x) IN o.ok \/ Kept(o.m, mem)
       /\ \A prot \in Prot :
            LET o == PoolCommit(mem, s[1], s[2], prot, x) IN o.ok \/ Kept(o.m, mem)
  /\ \A at \in DirectPage, size \in 1 .. DirectPages, x \in Refusals(1, LastPage) :
       LET o == ReleaseDirect(mem, at, size, x)
       IN o.ok \/ AliasEscapes(mem, at, size) \/ Kept(o.m, mem)

\* What the code takes as given where it ends the program ("direct-memory alias
\* escaped guest address-space ownership", memory.cpp:3177): each mapping of
\* pages that are released is within one range of the table.
AliasesAreOwned == ~mem.dead
================================================================================
