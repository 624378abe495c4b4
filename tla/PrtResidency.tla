----------------------------- MODULE PrtResidency -----------------------------
(***************************************************************************)
(* Partially resident memory while it is read (kernel/memory.cpp).  The    *)
(* renderer reads an aperture page by page: what is reserved reads as      *)
(* zero, what is committed is read through its view of the backing.  A     *)
(* page's range and its view are two ledgers, changed one after the other; *)
(* g_prt_residency_mutex is held while they disagree, by the guest's call  *)
(* and by the reader (memory.cpp:1266).                                    *)
(*                                                                         *)
(* A guest's call also has the thread that renders unmap or map the range  *)
(* (SendCommandSync) and waits for it, and that thread is the reader: a    *)
(* call that waited while it holds the mutex would wait for ever.          *)
(*                                                                         *)
(* A call is the order of its steps (Script), on one page.                 *)
(***************************************************************************)
EXTENDS Sequences

CONSTANTS Guests, Pages, NoOne

\* What the constants have to be; the instances assume it.
PrtAssumption == NoOne \notin Guests \cup Pages \cup {"reader"} /\ "reader" \notin Guests

VARIABLES
  range,     \* of each page: "none", "reserved" or "committed" (VirtualRanges)
  view,      \* the pages with a view of the backing (GuestAddressSpace)
  memory,    \* who holds g_memory_operation_mutex
  residency, \* who holds g_prt_residency_mutex: a guest, "reader" or NoOne
  call,      \* of each guest: the steps that its call has left, and its page
  sync,      \* the guests that wait for the renderer (SendCommandSync)
  render,    \* the reader: "idle", "locks", "ranges", "views" or "unlocks"
  failed,    \* its read has failed
  owned,     \* the pages that are the guest's between its calls
  vacant     \* a page of the read was not owned at some time in it

vars == <<range, view, memory, residency, call, sync, render, failed, owned, vacant>>

NoCall == [steps |-> <<>>, page |-> NoOne]

TypeOK ==
  /\ range \in [Pages -> {"none", "reserved", "committed"}]
  /\ view \subseteq Pages /\ owned \subseteq Pages /\ sync \subseteq Guests
  /\ memory \in Guests \cup {NoOne} /\ residency \in Guests \cup {NoOne, "reader"}
  /\ render \in {"idle", "locks", "ranges", "views", "unlocks"}
  /\ failed \in BOOLEAN /\ vacant \in BOOLEAN
  /\ \A g \in Guests : call[g].page \in Pages \cup {NoOne}

Init ==
  /\ range = [p \in Pages |-> "reserved"] /\ owned = Pages
  /\ view = {} /\ memory = NoOne /\ residency = NoOne
  /\ call = [g \in Guests |-> NoCall] /\ sync = {}
  /\ render = "idle" /\ failed = FALSE /\ vacant = FALSE

--------------------------------------------------------------------------------
\* Mutant: the renderer maps the range while the call still holds the mutex.
MapHolding == <<"lock", "consume", "mapView", "addCommitted", "sync", "unlock">>

\* Mutant: the reservation is consumed before the mutex is taken.
MapLate == <<"consume", "lock", "mapView", "addCommitted", "unlock", "sync">>

\* A reserved page becomes committed (`consume' removes it from the table); or
\* the host refuses its view and it is reserved as before; or it is tagged anew.
MapReserved == <<"lock", "consume", "mapView", "addCommitted", "unlock", "sync">>
ReserveAgain == <<"lock", "consume", "addReserved", "unlock">>

\* A page in no range is mapped.
MapVacant == <<"sync", "lock", "mapView", "addCommitted", "unlock", "sync">>

\* ReplaceFixedRangeWithReserved, and as the host refuses it.
Replace == <<"sync", "lock", "consume", "unmapView", "addReserved", "unlock">>
ReplaceRefused == <<"sync", "lock", "consume", "addCommitted", "unlock", "sync">>

\* DecommitMemoryPoolRange
Decommit == <<"sync", "lock", "unmapView", "consume", "addReserved", "unlock">>

\* The calls for a page of each kind: KernelMemoryPoolCommit, the fixed mappings
\* and KernelMemoryPoolReserve of what is reserved; KernelMemoryPoolDecommit,
\* KernelReserveVirtualRange and the fixed mappings of what is committed;
\* KernelMunmap and the release of direct memory; a new reservation and a new
\* mapping of what is in no range.
Calls(r) ==
  CASE r = "reserved" -> {MapReserved, <<"sync">> \o MapReserved, ReserveAgain,
                          <<"sync">> \o ReserveAgain, <<"sync", "consume">>}
    [] r = "committed" -> {Decommit, Replace, Replace \o MapReserved, ReplaceRefused,
                           <<"sync", "unmapView", "consume">>}
    [] r = "none" -> {<<"sync", "addReserved">>, MapVacant}

\* A call that ends with the page in no range gives it up.
GivesUp(script) == script[Len(script)] = "consume"

BeginCall(g) ==
  /\ memory = NoOne /\ call[g] = NoCall
  /\ \E p \in Pages : \E script \in Calls(range[p]) :
       /\ call' = [call EXCEPT ![g] = [steps |-> script, page |-> p]]
       /\ owned' = IF GivesUp(script) THEN owned \ {p} ELSE owned
       /\ vacant' = (vacant \/ GivesUp(script))
  /\ memory' = g
  /\ UNCHANGED <<range, view, residency, sync, render, failed>>

Does(g, step) == call[g].steps # <<>> /\ Head(call[g].steps) = step
StepDone(g) == call' = [call EXCEPT ![g].steps = Tail(@)]

TakeResidency(g) ==
  /\ Does(g, "lock") /\ residency = NoOne
  /\ residency' = g /\ StepDone(g)
  /\ UNCHANGED <<range, view, memory, sync, render, failed, owned, vacant>>

DropResidency(g) ==
  /\ Does(g, "unlock")
  /\ residency' = NoOne /\ StepDone(g)
  /\ UNCHANGED <<range, view, memory, sync, render, failed, owned, vacant>>

\* One ledger changes.
ChangeLedger(g) ==
  LET p == call[g].page
      To(r) == range' = [range EXCEPT ![p] = r]
  IN /\ \/ Does(g, "consume") /\ To("none") /\ UNCHANGED view
        \/ Does(g, "addReserved") /\ To("reserved") /\ UNCHANGED view
        \/ Does(g, "addCommitted") /\ To("committed") /\ UNCHANGED view
        \/ Does(g, "mapView") /\ view' = view \cup {p} /\ UNCHANGED range
        \/ Does(g, "unmapView") /\ view' = view \ {p} /\ UNCHANGED range
     /\ StepDone(g)
     /\ UNCHANGED <<memory, residency, sync, render, failed, owned, vacant>>

\* MapGpuRange, UnmapGpuRange: SendCommandSync queues a command and waits.
SendSync(g) ==
  /\ Does(g, "sync") /\ g \notin sync
  /\ sync' = sync \cup {g}
  /\ UNCHANGED <<range, view, memory, residency, call, render, failed, owned, vacant>>

EndCall(g) ==
  /\ memory = g /\ call[g].steps = <<>>
  /\ call' = [call EXCEPT ![g] = NoCall]
  /\ owned' = IF range[call[g].page] = "none" THEN owned ELSE owned \cup {call[g].page}
  /\ memory' = NoOne
  /\ UNCHANGED <<range, view, residency, sync, render, failed, vacant>>

--------------------------------------------------------------------------------
\* The thread that renders serves commands between its own.
ServeSync ==
  /\ render = "idle"
  /\ \E g \in sync : sync' = sync \ {g} /\ StepDone(g)
  /\ UNCHANGED <<range, view, memory, residency, render, failed, owned, vacant>>

\* TryReadPrtBacking of the aperture: the ranges, then the views of what is
\* committed in them.
BeginRead ==
  /\ render = "idle"
  /\ render' = "locks" /\ failed' = FALSE /\ vacant' = (owned # Pages)
  /\ UNCHANGED <<range, view, memory, residency, call, sync, owned>>

ReadLocks ==
  /\ render = "locks" /\ residency = NoOne
  /\ residency' = "reader" /\ render' = "ranges"
  /\ UNCHANGED <<range, view, memory, call, sync, failed, owned, vacant>>

ReadRanges ==
  /\ render = "ranges"
  /\ failed' = \E p \in Pages : range[p] = "none"
  /\ render' = IF failed' THEN "unlocks" ELSE "views"
  /\ UNCHANGED <<range, view, memory, residency, call, sync, owned, vacant>>

ReadViews ==
  /\ render = "views"
  /\ failed' = \E p \in Pages : range[p] = "committed" /\ p \notin view
  /\ render' = "unlocks"
  /\ UNCHANGED <<range, view, memory, residency, call, sync, owned, vacant>>

ReadEnds ==
  /\ render = "unlocks"
  /\ residency' = NoOne /\ render' = "idle"
  /\ UNCHANGED <<range, view, memory, call, sync, failed, owned, vacant>>

GuestRuns(g) == DropResidency(g) \/ ChangeLedger(g) \/ SendSync(g) \/ EndCall(g)
ReaderRuns == ServeSync \/ ReadRanges \/ ReadViews \/ ReadEnds

Next == \/ \E g \in Guests : BeginCall(g) \/ TakeResidency(g) \/ GuestRuns(g)
        \/ ReaderRuns \/ BeginRead \/ ReadLocks

\* Threads go on, a command that waits is served between two reads, and a mutex
\* that is free again and again is taken.
Fairness ==
  /\ \A g \in Guests : WF_vars(GuestRuns(g)) /\ SF_vars(TakeResidency(g))
  /\ WF_vars(ReaderRuns) /\ SF_vars(ServeSync) /\ SF_vars(ReadLocks)

Spec == Init /\ [][Next]_vars /\ Fairness

--------------------------------------------------------------------------------
\* "Before and after both operations the complete span is owned": a read of
\* pages that all stay the guest's never fails, whatever calls run meanwhile
\* (tests/VirtualMemoryAllocationTests.cpp:456).
ReadsSucceed == failed => vacant

\* "Publish their transitions together" (memory.cpp:1267): whoever gets the mutex
\* finds a view exactly where the table has committed memory.
ResidencyPublished ==
  residency = NoOne => \A p \in Pages : p \in view <=> range[p] = "committed"

\* A call that has taken its mutexes and a read that has begun come to an end:
\* no call waits for the renderer while the renderer waits for it
\* (memory.cpp:1267).
Called(g) == memory = g
PrtCallsReturn ==
  /\ \A g \in Guests : []<>~Called(g)
  /\ []<>(render = "idle")
================================================================================
