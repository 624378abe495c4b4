---------------------------- MODULE GuestReadback ---------------------------
(***************************************************************************)
(* Guest reads of memory the GPU wrote, bufferCache.cpp.  A fault has the  *)
(* render thread begin a request (BeginGuestReadback) that copies pages    *)
(* into the download buffer of a slot, on the graphics queue or on the     *)
(* copy engine (readback-queue.h); the guest thread waits for that copy    *)
(* and writes it to guest memory (CopyGuestReadback), and then the render  *)
(* thread gives the pages up (FinishGuestReadback).  A GPU write to pages  *)
(* of a request finishes it first, or detaches it.                         *)
(*                                                                         *)
(* A page has a version, the number of GPU writes recorded to it; newest,  *)
(* device, memory and held say which version the recorded commands, the    *)
(* GPU's buffer, guest memory and a download buffer have.  The searches    *)
(* for buffers, windows and writers (InflightWriteTick) are reduced to     *)
(* what they answer, and writes by the guest are in PageTracking.  Two     *)
(* short ways that answer a read from the feedback of an image copy and    *)
(* leave the requests alone (TryGuestReadFromFeedback and                  *)
(* TryReadCopyFeedback) are left out.                                      *)
(***************************************************************************)
EXTENDS Naturals, Sequences, FiniteSets

CONSTANTS Guests, Pages, Slots, None,
          Requests,  \* bound: requests that are referred to at a time
          Modes,     \* values of KYTY_READBACK_QUEUE > 0 and KYTY_READBACK_DETACH,
                     \* and the last slot that KYTY_READBACK_SLOTS allows
          MaxWrites  \* bound: GPU writes

\* What the constants have to be; the instances assume it.
GuestReadbackAssumption ==
  /\ Slots = 1..Cardinality(Slots) /\ Requests = 1..Cardinality(Requests)
  /\ None \notin Slots \cup Requests
  /\ Modes \subseteq [engine : BOOLEAN, detach : BOOLEAN, slots : Slots]

VARIABLES
  mode,
  newest, device, memory,  \* versions of each page
  gpuDirty,   \* pages the GPU owns: m_gpu_modified_ranges and the tracker's bits
  slotOf,     \* m_guest_readbacks
  held,       \* what each slot's download buffer holds
  request,    \* the requests
  queue,      \* work of the graphics queue
  engine,     \* copies of the copy engine
  guest,      \* where each guest thread is in ReadMemory
  render      \* what the render thread does

versions == <<newest, device, memory>>
copies == <<held, queue, engine>>
vars == <<mode, versions, gpuDirty, slotOf, copies, request, guest, render>>

Zero == [p \in Pages |-> 0]
NoRequest == [slot |-> None, pages |-> {}, versions |-> Zero, state |-> "Pending",
              copying |-> FALSE, copied |-> FALSE]
Idle == [at |-> "idle", page |-> None, request |-> None, writes |-> FALSE]
Free == [at |-> "free", page |-> None, guest |-> None, slot |-> None]

Init ==
  /\ mode \in Modes
  /\ newest = Zero /\ device = Zero /\ memory = Zero /\ gpuDirty = {}
  /\ slotOf = [s \in Slots |-> None] /\ held = [s \in Slots |-> Zero]
  /\ request = [r \in Requests |-> NoRequest]
  /\ queue = <<>> /\ engine = <<>>
  /\ guest = [g \in Guests |-> Idle] /\ render = Free

Range(s) == {s[i] : i \in DOMAIN s}
Allowed == {s \in Slots : s <= mode.slots}
Active == {s \in Slots : slotOf[s] # None}
On(s) == request[slotOf[s]]
Over(p) == {s \in Active : p \in On(s).pages}

\* Copies into a slot that were handed over and have not been made.
Outstanding == {job \in Range(queue) \cup Range(engine) : job.kind = "copy"}
Made(r) == \A job \in Outstanding : job.request # r

\* A request nobody refers to.
Unused == {r \in Requests :
  /\ \A s \in Slots : slotOf[s] # r
  /\ \A g \in Guests : guest[g].request # r
  /\ Made(r)}

(***************************************************************************)
(* The GPU.                                                                *)
(***************************************************************************)

\* The download buffer gets what the GPU's buffer has; the pieces are packed,
\* so that nothing of an earlier copy is left.
Copied(job) == held' = [held EXCEPT ![job.slot] =
  [p \in Pages |-> IF p \in job.pages THEN device[p] ELSE 0]]

GpuWrites ==
  /\ queue # <<>> /\ Head(queue).kind = "write"
  /\ device' = [device EXCEPT ![Head(queue).page] = Head(queue).version]
  /\ queue' = Tail(queue)
  /\ UNCHANGED <<mode, newest, memory, gpuDirty, slotOf, held, engine, request, guest, render>>

GpuCopies ==
  /\ queue # <<>> /\ Head(queue).kind = "copy"
  /\ Copied(Head(queue)) /\ queue' = Tail(queue)
  /\ UNCHANGED <<mode, versions, gpuDirty, slotOf, engine, request, guest, render>>

\* The copy engine waits for the last writer of the pages, and for an earlier
\* copy of the graphics queue into the slot (m_download_ticks).
EngineCopies ==
  LET job == Head(engine)
  IN /\ engine # <<>>
     /\ \A p \in job.pages : device[p] >= request[job.request].versions[p]
     /\ \A other \in Range(queue) : other.kind = "copy" => other.slot # job.slot
     /\ Copied(job) /\ engine' = Tail(engine)
     /\ UNCHANGED <<mode, versions, gpuDirty, slotOf, queue, request, guest, render>>

(***************************************************************************)
(* FinishGuestReadback, by the render thread.                              *)
(***************************************************************************)

\* Mutant: the copy is not waited for.
MayFinishNow(s) == s \in Active

\* Without a detach: `copied' is waited for.
MayFinish(s) == s \in Active /\ On(s).copied

\* The pages of finished requests are the guest's again.
Finish(slots) ==
  /\ gpuDirty' = gpuDirty \ UNION {On(s).pages : s \in slots}
  /\ slotOf' = [s \in Slots |-> IF s \in slots THEN None ELSE slotOf[s]]

(***************************************************************************)
(* Commands of guest threads, executed by the render thread between its    *)
(* own.                                                                    *)
(***************************************************************************)

Moves(g, where) == guest' = [guest EXCEPT ![g].at = where]

\* The slot of the request with the oldest tick, when all slots have requests; ticks
\* are not modelled, so any.
Oldest(active) == IF Allowed \subseteq active THEN Allowed ELSE {None}

\* A fault; SendCommandSync.
Ask(g, p, writes) ==
  /\ guest[g].at = "idle" /\ p \in gpuDirty
  /\ guest' = [guest EXCEPT ![g] = [at |-> "asked", page |-> p, request |-> None,
                                    writes |-> writes]]
  /\ UNCHANGED <<mode, versions, gpuDirty, slotOf, copies, request, render>>

\* BeginGuestReadback: requests that were copied are finished, in the order
\* of the slots, until one covers the page.
Begin(g) ==
  LET p == guest[g].page
      sharing == {s \in Over(p) : ~On(s).copied}
      finished == {s \in Active : On(s).copied /\ \A t \in sharing : s < t}
  IN /\ render = Free /\ guest[g].at = "asked"
     /\ Finish(finished)
     /\ \/ \E s \in sharing :
             /\ guest' = [guest EXCEPT ![g].at = "has", ![g].request = slotOf[s]]
             /\ UNCHANGED render
        \/ sharing = {} /\ p \notin gpuDirty' /\ ~guest[g].writes
           /\ guest' = [guest EXCEPT ![g] = Idle] /\ UNCHANGED render
        \/ sharing = {} /\ p \in gpuDirty'
           /\ Moves(g, "served")
           /\ \E s \in Oldest(Active \ finished) :
                render' = [Free EXCEPT !.at = "begins", !.guest = g, !.slot = s]
        \* Rejected (an image of the GPU over the window, too many pieces), or
        \* a write to a page that another request has given up.
        \/ sharing = {}
           /\ Moves(g, "served")
           /\ render' = [Free EXCEPT !.at = "reads", !.guest = g]
     /\ UNCHANGED <<mode, versions, copies, request>>

\* A free slot, or that of the oldest request once it is finished.
TakeSlot ==
  /\ render.at = "begins"
  /\ \E s \in Allowed :
       /\ IF Allowed \subseteq Active
            THEN s = render.slot /\ MayFinish(s) /\ Finish({s})
            ELSE s \notin Active /\ (\A t \in Allowed : t < s => t \in Active)
                 /\ UNCHANGED <<gpuDirty, slotOf>>
       /\ render' = [render EXCEPT !.at = "places", !.slot = s]
  /\ UNCHANGED <<mode, versions, copies, request, guest>>

\* Mutant: a detached request's copy may still come.
SlotIsFreeAlways(s) == TRUE

\* m_download_queue_values.
SlotIsFree(s) == \A job \in Range(engine) : job.slot # s

\* The rest of BeginGuestReadback: the pages nobody else copies, in a window
\* around the page or the page alone.
Place ==
  LET g == render.guest
      s == render.slot
      r == CHOOSE q \in Unused : TRUE
      available == gpuDirty \ UNION {On(t).pages : t \in Active}
  IN /\ render.at = "places" /\ SlotIsFree(s) /\ Unused # {}
     /\ \E pages \in {available, {guest[g].page}} :
          LET job == [kind |-> "copy", request |-> r, slot |-> s, pages |-> pages]
          IN /\ request' = [request EXCEPT ![r] =
                  [NoRequest EXCEPT !.slot = s, !.pages = pages,
                     !.versions = [p \in Pages |-> IF p \in pages THEN newest[p] ELSE 0]]]
             /\ \/ mode.engine /\ engine' = Append(engine, job) /\ UNCHANGED queue
                \/ queue' = Append(queue, job) /\ UNCHANGED engine
     /\ slotOf' = [slotOf EXCEPT ![s] = r]
     /\ guest' = [guest EXCEPT ![g].at = "has", ![g].request = r]
     /\ render' = Free
     /\ UNCHANGED <<mode, versions, gpuDirty, held>>

\* The command after CopyGuestReadback.
End(g) ==
  LET s == request[guest[g].request].slot
      mine == {t \in {s} : slotOf[t] = guest[g].request}
  IN /\ render = Free /\ guest[g].at = "done"
     /\ \A t \in mine : MayFinish(t)
     /\ Finish(mine)
     /\ IF guest[g].writes /\ guest[g].page \in gpuDirty'
          THEN /\ Moves(g, "served")
               /\ render' = [Free EXCEPT !.at = "reads", !.guest = g]
          ELSE guest' = [guest EXCEPT ![g] = Idle] /\ UNCHANGED render
     /\ UNCHANGED <<mode, versions, copies, request>>

\* ReadMemoryOnGpu: every request is finished, then the GPU, and all pages of
\* the window are copied.
ReadDrains ==
  /\ render.at = "reads"
  /\ \E s \in Active : MayFinish(s) /\ Finish({s})
  /\ UNCHANGED <<mode, versions, copies, request, guest, render>>

ReadMemoryOnGpu ==
  /\ render.at = "reads" /\ Active = {} /\ queue = <<>>
  /\ memory' = [p \in Pages |-> IF p \in gpuDirty THEN device[p] ELSE memory[p]]
  /\ gpuDirty' = {}
  /\ guest' = [guest EXCEPT ![render.guest] = Idle] /\ render' = Free
  /\ UNCHANGED <<mode, newest, device, slotOf, copies, request>>

(***************************************************************************)
(* CopyGuestReadback, by the guest thread.                                 *)
(***************************************************************************)

Mine(g) == request[guest[g].request]

Claim(g) ==
  /\ guest[g].at = "has"
  /\ IF Mine(g).copying THEN Moves(g, "waits") /\ UNCHANGED request
       ELSE /\ Moves(g, "claims")
            /\ request' = [request EXCEPT ![guest[g].request].copying = TRUE]
  /\ UNCHANGED <<mode, versions, gpuDirty, slotOf, copies, render>>

WaitsForCopy(g) ==
  /\ guest[g].at = "waits" /\ Mine(g).copied /\ Moves(g, "done")
  /\ UNCHANGED <<mode, versions, gpuDirty, slotOf, copies, request, render>>

\* The GPU has made the copy; Pending becomes Copying, or nothing is copied.
StartsCopying(g) ==
  /\ guest[g].at = "claims" /\ Made(guest[g].request)
  /\ IF Mine(g).state = "Pending"
       THEN /\ Moves(g, "writes")
            /\ request' = [request EXCEPT ![guest[g].request].state = "Copying"]
       ELSE /\ Moves(g, "publishes") /\ UNCHANGED request
  /\ UNCHANGED <<mode, versions, gpuDirty, slotOf, copies, render>>

WriteBack(g) ==
  /\ guest[g].at = "writes" /\ Moves(g, "publishes")
  /\ memory' = [p \in Pages |-> IF p \in Mine(g).pages THEN held[Mine(g).slot][p] ELSE memory[p]]
  /\ UNCHANGED <<mode, newest, device, gpuDirty, slotOf, copies, request, render>>

\* Mutant: a detached request never becomes `copied'.
PublishesCopied(g) ==
  /\ guest[g].at = "publishes" /\ Moves(g, "done")
  /\ request' = [request EXCEPT ![guest[g].request].copied = (@ \/ Mine(g).state = "Copying")]
  /\ UNCHANGED <<mode, versions, gpuDirty, slotOf, copies, render>>

Publishes(g) ==
  /\ guest[g].at = "publishes" /\ Moves(g, "done")
  /\ request' = [request EXCEPT ![guest[g].request].copied = TRUE]
  /\ UNCHANGED <<mode, versions, gpuDirty, slotOf, copies, render>>

(***************************************************************************)
(* The render thread uses a buffer: ObtainBuffer, DrainGuestReadback.      *)
(***************************************************************************)

\* "writes" for a binding the GPU writes, "drains" for any other use that
\* needs the bytes in guest memory.
Use(p, how) ==
  /\ render = Free
  /\ render' = [Free EXCEPT !.at = how, !.page = p]
  /\ UNCHANGED <<mode, versions, gpuDirty, slotOf, copies, request, guest>>

Detach ==
  /\ render.at = "writes" /\ mode.detach
  /\ \E s \in Over(render.page) :
       /\ ~On(s).copied /\ On(s).state = "Pending"
       /\ request' = [request EXCEPT ![slotOf[s]].state = "Detached"]
       /\ slotOf' = [slotOf EXCEPT ![s] = None]
  /\ UNCHANGED <<mode, versions, gpuDirty, copies, guest, render>>

UseFinishes ==
  /\ render.at \in {"writes", "drains"}
  /\ \E s \in Over(render.page) : MayFinish(s) /\ Finish({s})
  /\ UNCHANGED <<mode, versions, copies, request, guest, render>>

Used ==
  /\ render.at = "drains" /\ Over(render.page) = {} /\ render' = Free
  /\ UNCHANGED <<mode, versions, gpuDirty, slotOf, copies, request, guest>>

\* The write is recorded and the pages are marked.
RecordWrite ==
  LET p == render.page
  IN /\ render.at = "writes" /\ Over(p) = {} /\ render' = Free
     /\ newest' = [newest EXCEPT ![p] = @ + 1]
     /\ gpuDirty' = gpuDirty \cup {p}
     /\ queue' = Append(queue, [kind |-> "write", page |-> p, version |-> newest[p] + 1])
     /\ UNCHANGED <<mode, device, memory, slotOf, held, engine, request, guest>>

-----------------------------------------------------------------------------

Recorded == {w \in Pages \X (1..MaxWrites) : w[2] <= newest[w[1]]}

GpuRuns == GpuWrites \/ GpuCopies \/ EngineCopies

GuestRuns(g) == Claim(g) \/ WaitsForCopy(g) \/ StartsCopying(g) \/ WriteBack(g) \/ Publishes(g)

Command(g) == Begin(g) \/ End(g)

RenderRuns == TakeSlot \/ Place \/ ReadDrains \/ ReadMemoryOnGpu \/ Detach
              \/ UseFinishes \/ Used \/ RecordWrite

Next ==
  \/ GpuRuns \/ RenderRuns
  \/ \E g \in Guests :
       \/ GuestRuns(g) \/ Command(g)
       \/ \E p \in Pages, writes \in BOOLEAN : Ask(g, p, writes)
  \/ \E p \in Pages :
       \/ Use(p, "drains")
       \/ Cardinality(Recorded) < MaxWrites /\ Use(p, "writes")

Spec == Init /\ [][Next]_vars

\* Every thread and both queues run; commands are served before anything else
\* (GuestGpu), so a waiting one is served in spite of the render thread's own.
FairSpec ==
  /\ Spec /\ WF_vars(GpuRuns) /\ WF_vars(RenderRuns)
  /\ \A g \in Guests : WF_vars(GuestRuns(g)) /\ SF_vars(Command(g))

-----------------------------------------------------------------------------

\* What a guest thread is about to write to guest memory, and what a finished
\* request has written, is what its request is for: no other request has used
\* the slot, and no write of the GPU has come before the copy.
CopiesAreTheirs ==
  \A g \in Guests : guest[g].at = "writes" =>
    \A p \in Mine(g).pages : held[Mine(g).slot][p] = Mine(g).versions[p]

\* The guest gets a page back only with what the GPU wrote to it last.
OwnershipIsEarned == \A p \in Pages : p \notin gpuDirty => memory[p] = newest[p]

\* Both: no guest thread sees bytes of another request or older ones.
ReadsAreSound == CopiesAreTheirs /\ OwnershipIsEarned

\* Every guest read that faulted goes on.
Faulted(g) == guest[g].at # "idle"
ReadsReturn == \A g \in Guests : []<>~Faulted(g)
=============================================================================
