------------------------------ MODULE BackingFence ------------------------------
(***************************************************************************)
(* The guest's direct memory has a second view, the backing, through which *)
(* the emulator reads and writes it without the guest's page protection:   *)
(* GuestBackingStore (kernel/memoryAddressSpace.inc).  m_mutex keeps the   *)
(* mappings stable (shared) or changes them (exclusive) and m_data_mutex   *)
(* orders the copies, but the render thread's small reads take neither:    *)
(* a reader claims the one reader slot (m_host_read_pages) and looks at    *)
(* the writers' announcements, a writer announces itself                   *)
(* (m_host_write_pending, or m_data_write_pages for the bytes of one       *)
(* mapping) and looks at the slot.  Both words are sequentially            *)
(* consistent, so each access to one of them is one step here.             *)
(*                                                                         *)
(* An address stands for a guest range that one mapping covers; a request  *)
(* of two addresses spans mappings.  Page ranges are sets of pages: {} is  *)
(* the word 0 and the set of all pages is AllPages.                        *)
(***************************************************************************)
EXTENDS Integers, FiniteSets

CONSTANTS Thread,   \* threads of the emulator that use the backing
          Addr,     \* guest ranges
          Page,     \* pages of the backing
          NoOne,    \* no thread, no page
          LastEpoch \* the largest value of the mapping epoch's word

ASSUME FenceAssumption ==
  /\ Page # {}
  /\ Addr # {}
  /\ NoOne \notin Thread
  /\ NoOne \notin Page
  /\ LastEpoch \in Nat \ {0}

VARIABLES
  maps,         \* m_maps: the page each guest range is a view of
  epoch,        \* m_mapping_epoch
  cached,       \* one slot of m_host_read_translations
  owner,        \* the thread that holds m_mutex exclusively
  sharers,      \* the threads that hold m_mutex shared
  copier,       \* the holder of m_data_mutex
  writePending, \* m_host_write_pending
  writePages,   \* m_data_write_pages
  readPages,    \* m_host_read_pages
  pc,           \* where each thread is
  job,          \* what it was asked for
  pages         \* the backing pages it found for it

words == <<writePending, writePages, readPages>>
locks == <<owner, sharers, copier>>
maptable == <<maps, epoch, cached>>
vars == <<maptable, locks, words, pc, job, pages>>

\* The jobs: a read or write of one range or of a range over several mappings,
\* a pointer to the backing bytes, and what changes the mappings or zeroes.
Ranges == {A \in SUBSET Addr : Cardinality(A) \in {1, 2}}
Single == {A \in SUBSET Addr : Cardinality(A) = 1}
NoJob == [kind |-> "none"]
Job == [kind : {"read", "write"}, at : Ranges]
       \cup [kind : {"pointer"}, at : Single]
       \cup [kind : {"unmap"}, at : Single]
       \cup [kind : {"map"}, at : Single, page : Page]
       \cup [kind : {"zero"}, page : Page]

Init ==
  /\ maps \in [Addr -> Page \cup {NoOne}]
  /\ epoch = 1
  /\ cached = [addr |-> NoOne, page |-> NoOne, epoch |-> 0]
  /\ owner = NoOne
  /\ sharers = {}
  /\ copier = NoOne
  /\ writePending = FALSE
  /\ writePages = {}
  /\ readPages = {}
  /\ pc = [t \in Thread |-> "idle"]
  /\ job = [t \in Thread |-> NoJob]
  /\ pages = [t \in Thread |-> {}]

Goto(t, place) == pc' = [pc EXCEPT ![t] = place]
\* The call returns, and what it knew is gone with it.
Return(t) ==
  /\ Goto(t, "idle")
  /\ job' = [job EXCEPT ![t] = NoJob]
  /\ pages' = [pages EXCEPT ![t] = {}]
Images(A) == {maps[a] : a \in A}

--------------------------------------------------------------------------------
\* The reader's transaction (BackingReadTransaction)

\* A small read or a request for a pointer tries the slot; a large read, or
\* any read when the mode is off, goes straight to the locks.
StartRead(t) ==
  /\ pc[t] = "idle"
  /\ \E j \in Job :
       /\ j.kind \in {"read", "pointer"}
       /\ job' = [job EXCEPT ![t] = j]
       /\ \/ Goto(t, "check")
          \/ j.kind = "read" /\ Goto(t, "lock")
  /\ UNCHANGED <<maptable, locks, words, pages>>

Check(t) ==
  /\ pc[t] = "check"
  /\ IF writePending THEN Goto(t, "lock") ELSE Goto(t, "claim")
  /\ UNCHANGED <<maptable, locks, words, job, pages>>

\* The compare-and-swap: one reader holds every page until it knows its own.
Claim(t) ==
  /\ pc[t] = "claim"
  /\ IF readPages = {}
       THEN readPages' = Page /\ Goto(t, "again")
       ELSE UNCHANGED readPages /\ Goto(t, "lock")
  /\ UNCHANGED <<maptable, locks, writePending, writePages, job, pages>>

\* Mutant: the announcement is read only before the slot is claimed.
RecheckNothing(t) ==
  /\ pc[t] = "again"
  /\ Goto(t, "lookup")
  /\ UNCHANGED <<maptable, locks, words, job, pages>>

\* The announcement is read again once the slot is held.
Recheck(t) ==
  /\ pc[t] = "again"
  /\ IF writePending
       THEN readPages' = {} /\ Goto(t, "lock")
       ELSE UNCHANGED readPages /\ Goto(t, "lookup")
  /\ UNCHANGED <<maptable, locks, writePending, writePages, job, pages>>

\* Mutant: a cached translation is used whatever the epoch.
AnyCached(A) == A = {cached.addr}

\* The cached translation answers for A.
Cached(A) == cached.epoch = epoch /\ A = {cached.addr}

\* The mapping is found in the cache or in m_maps (which fills the cache).  A
\* pointer is complete then; a read goes on with its pages; what no single
\* mapping covers takes the locks.
Lookup(t) ==
  /\ pc[t] = "lookup"
  /\ LET A == job[t].at
         Found(page) == IF job[t].kind = "read"
                          THEN /\ pages' = [pages EXCEPT ![t] = {page}]
                               /\ Goto(t, "narrow")
                               /\ UNCHANGED <<readPages, job>>
                          ELSE /\ readPages' = {}
                               /\ Return(t)
     IN \/ Cached(A) /\ Found(cached.page) /\ UNCHANGED cached
        \/ \E a \in Addr :
             /\ A = {a} /\ ~Cached(A) /\ maps[a] # NoOne
             /\ cached' = [addr |-> a, page |-> maps[a], epoch |-> epoch]
             /\ Found(maps[a])
        \/ /\ ~Cached(A)
           /\ \A a \in Addr : A = {a} => maps[a] = NoOne
           /\ readPages' = {}
           /\ Goto(t, "lock")
           /\ UNCHANGED <<cached, job, pages>>
  /\ UNCHANGED <<maps, epoch, locks, writePending, writePages>>

\* The slot now names the pages of this copy, ...
Narrow(t) ==
  /\ pc[t] = "narrow"
  /\ readPages' = pages[t]
  /\ Goto(t, "inspect")
  /\ UNCHANGED <<maptable, locks, writePending, writePages, job, pages>>

\* Mutant: the pages are published but the data write is not looked at.
InspectNothing(t) ==
  /\ pc[t] = "inspect"
  /\ Goto(t, "copy")
  /\ UNCHANGED <<maptable, locks, words, job, pages>>

\* ... and the copy is given up for a data write into any of them.
Inspect(t) ==
  /\ pc[t] = "inspect"
  /\ IF writePages \cap pages[t] # {}
       THEN /\ readPages' = {}
            /\ pages' = [pages EXCEPT ![t] = {}]
            /\ Goto(t, "lock")
       ELSE UNCHANGED <<readPages, pages>> /\ Goto(t, "copy")
  /\ UNCHANGED <<maptable, locks, writePending, writePages, job>>

EndCopy(t) ==
  /\ pc[t] = "copy"
  /\ readPages' = {}
  /\ Return(t)
  /\ UNCHANGED <<maptable, locks, writePending, writePages>>

--------------------------------------------------------------------------------
\* Copies under the locks (TryTransferBacking, MapReadLock, DataLock)

StartWrite(t) ==
  /\ pc[t] = "idle"
  /\ \E j \in Job : j.kind = "write" /\ job' = [job EXCEPT ![t] = j]
  /\ Goto(t, "lock")
  /\ UNCHANGED <<maptable, locks, words, pages>>

\* The shared lock; a pointer is looked up under it and complete.
LockMaps(t) ==
  /\ pc[t] = "lock"
  /\ owner = NoOne
  /\ IF job[t].kind = "pointer"
       THEN Return(t) /\ UNCHANGED sharers
       ELSE /\ sharers' = sharers \cup {t}
            /\ Goto(t, "data")
            /\ UNCHANGED <<job, pages>>
  /\ UNCHANGED <<maptable, owner, copier, words>>

\* The data lock, then the way the range allows: a read copies, a write into
\* one mapping announces its pages, one over several announces itself to all.
LockData(t) ==
  /\ pc[t] = "data"
  /\ copier = NoOne
  /\ LET A == job[t].at
         Mapped == NoOne \notin Images(A)
     IN IF job[t].kind = "read" \/ Cardinality(A) = 1
          THEN IF Mapped
                 THEN /\ copier' = t
                      /\ pages' = [pages EXCEPT ![t] = Images(A)]
                      /\ UNCHANGED <<sharers, job>>
                      /\ IF job[t].kind = "read"
                           THEN Goto(t, "copyLocked")
                           ELSE Goto(t, "publish")
                 ELSE /\ sharers' = sharers \ {t}
                      /\ Return(t)
                      /\ UNCHANGED copier
          ELSE /\ copier' = t
               /\ pages' = [pages EXCEPT ![t] = Images(A) \ {NoOne}]
               /\ Goto(t, "announceSpan")
               /\ UNCHANGED <<sharers, job>>
  /\ UNCHANGED <<maptable, owner, words>>

EndCopyLocked(t) ==
  /\ pc[t] = "copyLocked"
  /\ copier' = NoOne
  /\ sharers' = sharers \ {t}
  /\ Return(t)
  /\ UNCHANGED <<maptable, owner, words>>

\* DataWriteFence: the pages of this write, then the readers of any of them.
Publish(t) ==
  /\ pc[t] = "publish"
  /\ writePages' = pages[t]
  /\ Goto(t, "drain")
  /\ UNCHANGED <<maptable, locks, writePending, readPages, job, pages>>

Drain(t) ==
  /\ pc[t] = "drain"
  /\ readPages \cap pages[t] = {}
  /\ Goto(t, "write")
  /\ UNCHANGED <<maptable, locks, words, job, pages>>

EndWrite(t) ==
  /\ pc[t] = "write"
  /\ writePages' = {}
  /\ copier' = NoOne
  /\ sharers' = sharers \ {t}
  /\ Return(t)
  /\ UNCHANGED <<maptable, owner, writePending, readPages>>

--------------------------------------------------------------------------------
\* The fence against every reader (BackingWriteFence)

\* A change of the mappings or a zeroing holds m_mutex exclusively.
LockForChange(t) ==
  /\ pc[t] = "idle"
  /\ owner = NoOne
  /\ sharers = {}
  /\ \E j \in Job :
       /\ \/ j.kind = "zero"
          \/ j.kind = "map" /\ \A a \in j.at : maps[a] = NoOne
          \/ j.kind = "unmap" /\ \A a \in j.at : maps[a] # NoOne
       /\ job' = [job EXCEPT ![t] = j]
  /\ owner' = t
  /\ Goto(t, "announce")
  /\ UNCHANGED <<maptable, sharers, copier, words, pages>>

Announce(t) ==
  /\ \/ pc[t] = "announce" /\ Goto(t, "await")
     \/ pc[t] = "announceSpan" /\ Goto(t, "awaitSpan")
  /\ writePending' = TRUE
  /\ UNCHANGED <<maptable, locks, writePages, readPages, job, pages>>

Await(t) ==
  /\ readPages = {}
  /\ \/ pc[t] = "await" /\ Goto(t, "change")
     \/ pc[t] = "awaitSpan" /\ Goto(t, "writeSpan")
  /\ UNCHANGED <<maptable, locks, words, job, pages>>

EndWriteSpan(t) ==
  /\ pc[t] = "writeSpan"
  /\ writePending' = FALSE
  /\ copier' = NoOne
  /\ sharers' = sharers \ {t}
  /\ Return(t)
  /\ UNCHANGED <<maptable, owner, writePages, readPages>>

\* Mutant: the epoch's word wraps and the cached translations stay.
BumpAndKeep ==
  /\ epoch' = IF epoch = LastEpoch THEN 1 ELSE epoch + 1
  /\ UNCHANGED cached

\* InvalidateMappingLookup: the epoch skips 0, and the cache is emptied when
\* its word wraps.
InvalidateMappingLookup ==
  IF epoch = LastEpoch
    THEN /\ epoch' = 1
         /\ cached' = [addr |-> NoOne, page |-> NoOne, epoch |-> 0]
    ELSE epoch' = epoch + 1 /\ UNCHANGED cached

\* The change itself, and the fence and the lock given up.  (Nobody but a
\* reader of the slot, who does not look at the lock, could tell the order.)
\* UnmapOne changes nothing when the host refuses to replace the view.
EndChange(t) ==
  /\ pc[t] = "change"
  /\ LET Views(value) == /\ maps' = [a \in Addr |-> IF a \in job[t].at THEN value ELSE maps[a]]
                         /\ InvalidateMappingLookup
     IN CASE job[t].kind = "map" -> Views(job[t].page)
          [] job[t].kind = "unmap" -> Views(NoOne) \/ UNCHANGED maptable
          [] OTHER -> UNCHANGED maptable
  /\ writePending' = FALSE
  /\ owner' = NoOne
  /\ Return(t)
  /\ UNCHANGED <<sharers, copier, writePages, readPages>>

--------------------------------------------------------------------------------
Begin(t) == StartRead(t) \/ StartWrite(t) \/ LockForChange(t)
Goes(t) ==
  \/ Check(t) \/ Claim(t) \/ Recheck(t) \/ Lookup(t) \/ Narrow(t) \/ Inspect(t)
  \/ EndCopy(t) \/ LockMaps(t) \/ LockData(t) \/ EndCopyLocked(t)
  \/ Publish(t) \/ Drain(t) \/ EndWrite(t)
  \/ Announce(t) \/ Await(t) \/ EndWriteSpan(t) \/ EndChange(t)

Next == \E t \in Thread : Begin(t) \/ Goes(t)

\* Every thread that is in a call keeps running: nothing in it waits for the
\* guest.  Nobody has to make a call.
Fairness == \A t \in Thread : WF_vars(Goes(t))

Spec == Init /\ [][Next]_vars /\ Fairness

--------------------------------------------------------------------------------
Places == {"idle", "check", "claim", "again", "lookup", "narrow", "inspect", "copy",
           "lock", "data", "copyLocked", "publish", "drain", "write", "announce",
           "announceSpan", "await", "awaitSpan", "writeSpan", "change"}

TypeOK ==
  /\ maps \in [Addr -> Page \cup {NoOne}]
  /\ epoch \in 1 .. LastEpoch
  /\ cached \in [addr : Addr \cup {NoOne}, page : Page \cup {NoOne}, epoch : 0 .. LastEpoch]
  /\ owner \in Thread \cup {NoOne}
  /\ sharers \subseteq Thread
  /\ copier \in Thread \cup {NoOne}
  /\ writePending \in BOOLEAN
  /\ writePages \subseteq Page
  /\ readPages \subseteq Page
  /\ pc \in [Thread -> Places]
  /\ job \in [Thread -> Job \cup {NoJob}]
  /\ pages \in [Thread -> SUBSET Page]

\* The places of a thread that holds the slot, that holds it and looks at the
\* mappings or copies, that holds each lock, and that has announced itself.
InSlot == {"again", "lookup", "narrow", "inspect", "copy"}
Looking == InSlot \ {"again"}
Spanning == {"announceSpan", "awaitSpan", "writeSpan"}
Copying == {"copyLocked", "publish", "drain", "write"} \cup Spanning
Sharing == Copying \cup {"data"}
Changing == {"announce", "await", "change"}
Fencing == {"await", "change", "awaitSpan", "writeSpan"}
Publishing == {"drain", "write"}
Excluding == {"change", "writeSpan"}

\* Each lock is held by the threads whose place says so, and the shared and
\* the exclusive holders exclude each other.
LocksHeld ==
  /\ \A t \in Thread : pc[t] \in Changing <=> owner = t
  /\ \A t \in Thread : pc[t] \in Sharing <=> t \in sharers
  /\ \A t \in Thread : pc[t] \in Copying <=> copier = t
  /\ owner # NoOne => sharers = {}

\* Each word says what the threads' places say.
WordsTold ==
  /\ writePending <=> \E t \in Thread : pc[t] \in Fencing
  /\ \A t \in Thread : pc[t] \in Publishing => writePages = pages[t]
  /\ writePages # {} => \E t \in Thread : pc[t] \in Publishing
  /\ readPages # {} => \E t \in Thread : pc[t] \in InSlot
  /\ \A t \in Thread : pc[t] \in InSlot =>
       /\ readPages = IF pc[t] \in {"inspect", "copy"} THEN pages[t] ELSE Page
       /\ \A u \in Thread : pc[u] \in InSlot => u = t

\* The jobs and pages that go with the places.
JobsFit ==
  \A t \in Thread :
    /\ pc[t] \in InSlot \cup {"check", "claim"} => job[t].kind \in {"read", "pointer"}
    /\ pc[t] \in {"narrow", "inspect", "copy"} =>
         job[t].kind = "read" /\ pages[t] = Images(job[t].at) /\ pages[t] # {}
    /\ pc[t] = "lock" => job[t].kind \in {"read", "write", "pointer"}
    /\ pc[t] \in Sharing => job[t].kind \in {"read", "write"}
    /\ pc[t] \in Changing => job[t].kind \in {"map", "unmap", "zero"}

\* Whoever holds off all the readers has none looking, and a write that holds
\* off the readers of its pages has none copying them.
ReadersHeldOff ==
  /\ \A t, u \in Thread : pc[t] \in Excluding => pc[u] \notin Looking
  /\ \A t, u \in Thread : pc[t] = "write" /\ pc[u] = "copy" => pages[t] \cap pages[u] = {}

CacheFresh ==
  /\ cached.epoch <= epoch
  /\ cached.epoch = epoch => /\ cached.addr \in Addr
                             /\ cached.page \in Page
                             /\ maps[cached.addr] = cached.page

\* The whole of it is inductive: the exclusion of copies rests on the words
\* that rest on the locks, and a lookup's answer on the exclusion of changes.
FenceInv == TypeOK /\ LocksHeld /\ WordsTold /\ JobsFit /\ ReadersHeldOff /\ CacheFresh

\* A copy is never torn: the bytes that one thread reads, with or without the
\* locks, no other thread writes or zeroes meanwhile (memoryAddressSpace.inc:
\* 734 "one writer at a time" and 763 "overlapping bytes are never read and
\* written at once").
Reads(t) == IF pc[t] \in {"copy", "copyLocked"} THEN pages[t] ELSE {}
Writes(t) == IF pc[t] \in {"write", "writeSpan"} THEN pages[t]
             ELSE IF pc[t] = "change" /\ job[t].kind = "zero" THEN {job[t].page} ELSE {}
CopiesAreWhole ==
  \A t, u \in Thread : t # u => Writes(t) \cap (Reads(u) \cup Writes(u)) = {}

\* A translation that a reader may use without a lock is the mapping of now:
\* what the cache holds under the current epoch, and the pages a reader in
\* its transaction found, until it leaves the transaction (276-293).
TranslationsAreCurrent ==
  /\ cached.epoch = epoch => maps[cached.addr] = cached.page
  /\ \A t \in Thread : pc[t] \in {"narrow", "inspect", "copy"} => pages[t] = Images(job[t].at)

\* Whoever announced itself to all the readers gets in: a reader that comes
\* later gives way, and the ones inside leave (736-739).
Awaiting(t) == pc[t] \in {"await", "awaitSpan"}
FenceOpens == \A t \in Thread : []<>~Awaiting(t)
================================================================================
