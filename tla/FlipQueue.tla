----------------------------- MODULE FlipQueue -----------------------------
(***************************************************************************)
(* The flips of the video-out ports: class FlipQueue and the opening and   *)
(* closing of a port in src/graphics/presentation/videoOut.cpp, with the   *)
(* prepared frames they hold, class FramePool of window/swapchain.cpp.     *)
(*                                                                         *)
(* A flip is reserved by a guest thread or by the GPU thread, prepared     *)
(* (copied to a frame) on the GPU thread, completed when its submission is *)
(* done and presented by the present thread; Close cancels those of its    *)
(* port wherever they are.  A section under the queue's m_mutex or under a *)
(* port's mutex and m_mutex is one step: neither mutex is held while a     *)
(* thread sleeps or presents.  The driver's m_mutex is: Close keeps it     *)
(* until the flips are cancelled, so its holder is the variable `driver'.  *)
(*                                                                         *)
(* Two EXITs end the emulator on purpose, and are the action GpuExits: the *)
(* queue is full of CPU flips behind a command buffer's, or a port was     *)
(* closed under a command buffer that flips it.  The others say that the   *)
(* lists are wrong; they set `fatal'.  What is shown, the rate of the      *)
(* flips, the registered buffers and the events of a port are left out.    *)
(***************************************************************************)
EXTENDS Integers, Sequences, FiniteSets, Functions

CONSTANTS Ports, Guests,  \* video-out ports and guest threads
          Frames,         \* the pool's frames, one per swapchain image
          Indices,        \* display buffers
          Capacity,       \* VIDEO_OUT_FLIP_QUEUE_CAPACITY
          None,
          Limits          \* bounds: pairs of flips and openings of ports

\* What the constants have to be; the instances assume it.
FlipAssumption ==
  /\ IsFiniteSet(Frames) /\ Frames # {} /\ None \notin Frames \cup Guests
  /\ Capacity \in Nat \ {0} /\ Limits \subseteq Nat \X Nat

VARIABLES
  opened, closing, generation,  \* of each port
  gcQueueNum, flipPendingNum,   \* of each port's flip_status
  driver,       \* the guest thread that holds the driver's m_mutex, or None
  request,      \* every flip reserved so far
  requests,     \* m_requests, indices into request
  cpuRequests,  \* m_cpu_requests; the code only looks for a flip in this list
  cancelled,    \* m_cancelled_requests, and in this one
  processing,   \* m_processing
  free, last,   \* m_free and m_last_frame of the pool
  submissions,  \* flip preparations on their way to the GPU thread
  deferred,     \* flips whose completion waits for their submission
  gpu, guest, present,  \* where each thread is: [at |-> ..., ...]
  fatal         \* an EXIT that the queue or the pool is inconsistent was reached

port == <<opened, closing, generation>>
status == <<gcQueueNum, flipPendingNum>>
queue == <<request, requests, cpuRequests, cancelled, processing>>
pool == <<free, last>>
work == <<submissions, deferred>>
vars == <<port, status, driver, queue, pool, work, gpu, guest, present, fatal>>

Idle == [at |-> "idle"]

\* The emulator has not ended itself.
Running == gpu.at # "exits"

\* A flip that has left the queues.
Gone == [port |-> None, generation |-> 0, index |-> None, source |-> None,
         state |-> "Gone", frame |-> None]

Queued == Range(requests) \cup cpuRequests

Full == Len(requests) + Cardinality(cpuRequests) >= Capacity

\* How often ports were opened: their generations change twice each time.
Openings ==
  Cardinality(UNION {{p} \X (1 .. (generation[p] + 1) \div 2) : p \in Ports})

\* The bounds let another flip be reserved, another port be opened.
MoreFlips == \E l \in Limits : Len(request) < l[1] /\ Openings <= l[2]
MoreOpens == \E l \in Limits : Len(request) <= l[1] /\ Openings < l[2]

\* What is left of list q when only its elements in S stay.
Kept(q, S) ==
  LET places == {k \in DOMAIN q : q[k] \in S}
      n == Cardinality(places)
  IN {[i \in 1 .. n |-> q[at[i]]] :
        at \in {a \in [1 .. n -> places] : \A i, j \in 1 .. n : i < j => a[i] < a[j]}}

\* The flip's port is open as it was when the flip was reserved.
Current(r) == /\ opened[request[r].port] /\ ~closing[request[r].port]
              /\ generation[request[r].port] = request[r].generation

\* The pool's frames in some order.
FrameOrders == {s \in [1 .. Cardinality(Frames) -> Frames] : IsInjective(s) /\ Range(s) = Frames}

Init ==
  /\ opened = [p \in Ports |-> FALSE] /\ closing = [p \in Ports |-> FALSE]
  /\ generation = [p \in Ports |-> 0]
  /\ gcQueueNum = [p \in Ports |-> 0] /\ flipPendingNum = [p \in Ports |-> 0]
  /\ driver = None
  /\ request = <<>> /\ requests = <<>> /\ cpuRequests = {} /\ cancelled = {}
  /\ processing = FALSE
  /\ free \in FrameOrders
  /\ last = None
  /\ submissions = <<>> /\ deferred = <<>>
  /\ gpu = Idle /\ guest = [t \in Guests |-> Idle] /\ present = Idle
  /\ fatal = FALSE

(***************************************************************************)
(* The frames.                                                             *)
(***************************************************************************)

\* Acquire: the frame that was free longest, even if it is the last shown.
Acquire == /\ free # <<>>
           /\ free' = Tail(free)
           /\ last' = IF last = Head(free) THEN None ELSE last

\* Release of frame f, if there is one; it may become the last shown.
Release(f, makeLast) ==
  /\ free' = IF f = None THEN free ELSE Append(free, f)
  /\ last' = IF makeLast /\ f # None THEN f ELSE last

(***************************************************************************)
(* Open and Close.                                                         *)
(***************************************************************************)

Open(t, p) ==
  /\ guest[t] = Idle /\ driver = None /\ ~opened[p] /\ MoreOpens
  /\ opened' = [opened EXCEPT ![p] = TRUE]
  /\ closing' = [closing EXCEPT ![p] = FALSE]
  /\ generation' = [generation EXCEPT ![p] = @ + 1]
  /\ gcQueueNum' = [gcQueueNum EXCEPT ![p] = 0]
  /\ flipPendingNum' = [flipPendingNum EXCEPT ![p] = 0]
  /\ UNCHANGED <<driver, queue, pool, work, gpu, guest, present, fatal>>

CloseBegins(t, p) ==
  /\ guest[t] = Idle /\ driver = None /\ opened[p] /\ ~closing[p]
  /\ driver' = t
  /\ opened' = [opened EXCEPT ![p] = FALSE]
  /\ closing' = [closing EXCEPT ![p] = TRUE]
  /\ generation' = [generation EXCEPT ![p] = @ + 1]
  /\ guest' = [guest EXCEPT ![t] = [at |-> "cancels", port |-> p]]
  /\ UNCHANGED <<status, queue, pool, work, gpu, present, fatal>>

\* Cancel does not run while the front is a flip of p that is processed.
MayCancel(p) == ~(processing /\ requests # <<>> /\ request[Head(requests)].port = p)

\* Cancel: flips that are still being worked on are set aside, finished ones
\* dropped.
CancelMoves(t) ==
  LET p == guest[t].port
      all == {r \in Queued : request[r].port = p}
      unfinished == {r \in all : request[r].state \in {"Reserved", "Recording"}}
      dropped == all \ unfinished
  IN /\ guest[t].at = "cancels" /\ MayCancel(p)
     /\ requests' \in Kept(requests, Queued \ all)
     /\ cpuRequests' = cpuRequests \ all
     /\ cancelled' = cancelled \cup unfinished
     /\ request' = [r \in DOMAIN request |-> IF r \in dropped THEN Gone ELSE request[r]]
     /\ fatal' = (fatal \/ \E r \in all : request[r].state = "Presenting")
     /\ \E d \in Kept(requests, {r \in dropped : request[r].frame # None}) :
          free' = free \o [k \in DOMAIN d |-> request[d[k]].frame]
     /\ guest' = [guest EXCEPT ![t] = [at |-> "resets", port |-> p]]
     /\ UNCHANGED <<port, status, driver, processing, last, work, gpu, present>>

CancelResets(t) ==
  /\ guest[t].at = "resets"
  /\ gcQueueNum' = [gcQueueNum EXCEPT ![guest[t].port] = 0]
  /\ flipPendingNum' = [flipPendingNum EXCEPT ![guest[t].port] = 0]
  /\ driver' = None
  /\ guest' = [guest EXCEPT ![t] = Idle]
  /\ UNCHANGED <<port, queue, pool, work, gpu, present, fatal>>

(***************************************************************************)
(* Reserving a flip.                                                       *)
(***************************************************************************)

\* Mutant: the flips of the GPU thread are queued with the others.
ReserveInOne(p, i, from) ==
  /\ request' = Append(request, [port |-> p, generation |-> generation[p], index |-> i,
                                 source |-> from, state |-> "Reserved", frame |-> None])
  /\ requests' = Append(requests, Len(request) + 1)
  /\ UNCHANGED cpuRequests
  /\ gcQueueNum' = IF from = "GpuEop" THEN [gcQueueNum EXCEPT ![p] = @ + 1] ELSE gcQueueNum
  /\ flipPendingNum' = [flipPendingNum EXCEPT ![p] = Cardinality(Queued) + 1]

\* Reserve; the pending number of a port counts the flips of all ports.
Reserve(p, i, from) ==
  /\ request' = Append(request, [port |-> p, generation |-> generation[p], index |-> i,
                                 source |-> from, state |-> "Reserved", frame |-> None])
  /\ IF from = "GpuEop"
     THEN requests' = Append(requests, Len(request) + 1) /\ UNCHANGED cpuRequests
     ELSE cpuRequests' = cpuRequests \cup {Len(request) + 1} /\ UNCHANGED requests
  /\ gcQueueNum' = IF from = "GpuEop" THEN [gcQueueNum EXCEPT ![p] = @ + 1] ELSE gcQueueNum
  /\ flipPendingNum' = [flipPendingNum EXCEPT ![p] = Cardinality(Queued) + 1]

\* VideoOutSubmitFlip: the port is looked up under the driver's mutex only.
SubmitFlip(t, p, i) ==
  /\ guest[t] = Idle /\ driver = None /\ opened[p] /\ MoreFlips
  /\ guest' = [guest EXCEPT ![t] = [at |-> "reserves", port |-> p, index |-> i]]
  /\ UNCHANGED <<port, status, driver, queue, pool, work, gpu, present, fatal>>

\* Mutant: what the lookup found is not looked at again.
AcceptsLookedUp(p) == TRUE

\* Whether ReserveFlipRequest finds the port, looked up before, still open.
Accepts(p) == ~closing[p]

GuestIsRefused(t) ==
  /\ guest[t].at = "reserves"
  /\ ~Accepts(guest[t].port) \/ Full
  /\ guest' = [guest EXCEPT ![t] = Idle]
  /\ UNCHANGED <<port, status, driver, queue, pool, work, gpu, present, fatal>>

GuestReserves(t) ==
  /\ guest[t].at = "reserves"
  /\ Accepts(guest[t].port) /\ ~Full /\ MoreFlips
  /\ Reserve(guest[t].port, guest[t].index, "Cpu")
  /\ guest' = [guest EXCEPT ![t] = [at |-> "submits", flip |-> Len(request) + 1]]
  /\ UNCHANGED <<port, driver, cancelled, processing, pool, work, gpu, present, fatal>>

\* SubmitFlipPreparation.
GuestSubmits(t) ==
  /\ guest[t].at = "submits"
  /\ submissions' = Append(submissions, guest[t].flip)
  /\ guest' = [guest EXCEPT ![t] = Idle]
  /\ UNCHANGED <<port, status, driver, queue, pool, deferred, gpu, present, fatal>>

(***************************************************************************)
(* The GPU thread.                                                         *)
(***************************************************************************)

\* A command buffer flips an open port.
GpuFlips(p, i) ==
  /\ gpu = Idle /\ driver = None /\ opened[p] /\ MoreFlips
  /\ gpu' = [at |-> "reserves", port |-> p, index |-> i]
  /\ UNCHANGED <<port, status, driver, queue, pool, work, guest, present, fatal>>

GpuReserves ==
  /\ gpu.at = "reserves" /\ Accepts(gpu.port)
  /\ IF Full
     THEN gpu' = [at |-> "full", port |-> gpu.port, index |-> gpu.index] /\ UNCHANGED <<status, queue>>
     ELSE /\ MoreFlips
          /\ Reserve(gpu.port, gpu.index, "GpuEop")
          /\ gpu' = [at |-> "prepares", flip |-> Len(request) + 1]
          /\ UNCHANGED <<cancelled, processing>>
  /\ UNCHANGED <<port, driver, pool, work, guest, present, fatal>>

\* WaitForSubmitSlot, and the port is looked up again.
GpuRetries ==
  /\ gpu.at = "full" /\ ~Full
  /\ driver = None /\ opened[gpu.port]
  /\ gpu' = [at |-> "reserves", port |-> gpu.port, index |-> gpu.index]
  /\ UNCHANGED <<port, status, driver, queue, pool, work, guest, present, fatal>>

\* The queue is saturated: its flips are of the CPU, and would be prepared by
\* the thread that waits.
Saturated == Full /\ requests = <<>>

\* The emulator ends: the wait for a slot finds the queue saturated, or the
\* port of the flip was closed since it was looked up.
GpuExits ==
  /\ \/ gpu.at = "full" /\ Saturated
     \/ gpu.at = "full" /\ ~Full /\ driver = None /\ ~opened[gpu.port]
     \/ gpu.at = "reserves" /\ ~Accepts(gpu.port)
  /\ gpu' = [at |-> "exits"]
  /\ UNCHANGED <<port, status, driver, queue, pool, work, guest, present, fatal>>

\* The preparation of a CPU flip is taken from the submissions.
GpuTakesPreparation ==
  /\ gpu = Idle /\ submissions # <<>>
  /\ gpu' = [at |-> "prepares", flip |-> Head(submissions)]
  /\ submissions' = Tail(submissions)
  /\ UNCHANGED <<port, status, driver, queue, pool, deferred, guest, present, fatal>>

\* Prepare, first section: the flip is recorded now; a CPU flip takes its
\* place among those the present thread shows.
PrepareMarks ==
  LET r == gpu.flip
  IN /\ gpu.at = "prepares"
     /\ IF r \in Queued
        THEN /\ requests' = IF r \in Range(requests) THEN requests ELSE Append(requests, r)
             /\ cpuRequests' = cpuRequests \ {r}
             /\ gpu' = [at |-> "looks", flip |-> r]
        ELSE /\ gpu' = [at |-> "prepared", flip |-> r]
             /\ UNCHANGED <<requests, cpuRequests>>
     /\ request' = [request EXCEPT ![r].state = "Recording"]
     /\ fatal' = (fatal \/ r \notin Queued \cup cancelled
                        \/ request[r].state # "Reserved")
     /\ UNCHANGED <<port, status, driver, cancelled, processing, pool, work, guest, present>>

\* Mutant: a flip whose port was closed stays where it is.
PrepareLooksOnly ==
  /\ gpu.at = "looks"
  /\ gpu' = [at |-> IF Current(gpu.flip) THEN "acquires" ELSE "prepared", flip |-> gpu.flip]
  /\ UNCHANGED <<port, status, driver, queue, pool, work, guest, present, fatal>>

\* A flip whose port was closed meanwhile is set aside and gets no frame.
PrepareLooks ==
  LET r == gpu.flip
  IN /\ gpu.at = "looks"
     /\ IF Current(r)
        THEN /\ gpu' = [at |-> "acquires", flip |-> r]
             /\ UNCHANGED <<requests, cancelled>>
        ELSE /\ gpu' = [at |-> "prepared", flip |-> r]
             /\ requests' \in Kept(requests, Range(requests) \ {r})
             /\ cancelled' = cancelled \cup (Range(requests) \cap {r})
     /\ UNCHANGED <<port, status, driver, request, cpuRequests, processing, pool, work, guest,
                    present, fatal>>

PrepareAcquires ==
  /\ gpu.at = "acquires"
  /\ Acquire
  /\ gpu' = [at |-> "assigns", flip |-> gpu.flip, frame |-> Head(free)]
  /\ UNCHANGED <<port, status, driver, queue, work, guest, present, fatal>>

\* Prepare, last section: the frame goes to the flip, cancelled or not.
PrepareAssigns ==
  LET r == gpu.flip
  IN /\ gpu.at = "assigns"
     /\ request' = [request EXCEPT ![r].frame = gpu.frame]
     /\ fatal' = (fatal \/ r \notin Range(requests) \cup cancelled
                        \/ request[r].state # "Recording" \/ request[r].frame # None)
     /\ gpu' = [at |-> "prepared", flip |-> r]
     /\ UNCHANGED <<port, status, driver, requests, cpuRequests, cancelled, processing, pool,
                    work, guest, present>>

\* Mutant: the frame of a cancelled flip is not given back.
CompleteDropping(r) ==
  IF r \in Range(requests)
  THEN /\ request' = [request EXCEPT ![r].state = "Ready"]
       /\ fatal' = (fatal \/ request[r].state # "Recording" \/ request[r].frame = None)
       /\ UNCHANGED <<cancelled, pool>>
  ELSE /\ request' = [request EXCEPT ![r] = Gone]
       /\ cancelled' = cancelled \ {r}
       /\ fatal' = (fatal \/ r \notin cancelled \/ request[r].state # "Recording")
       /\ UNCHANGED pool

\* Complete: the flip may be shown; a cancelled one gives its frame back.
Complete(r) ==
  IF r \in Range(requests)
  THEN /\ request' = [request EXCEPT ![r].state = "Ready"]
       /\ fatal' = (fatal \/ request[r].state # "Recording" \/ request[r].frame = None)
       /\ UNCHANGED <<cancelled, pool>>
  ELSE /\ request' = [request EXCEPT ![r] = Gone]
       /\ cancelled' = cancelled \ {r}
       /\ fatal' = (fatal \/ r \notin cancelled \/ request[r].state # "Recording")
       /\ Release(request[r].frame, FALSE)

\* A CPU flip is completed at once, one of a command buffer when its
\* submission is done: its completion is deferred.
GpuCompletes ==
  /\ gpu.at = "prepared" /\ request[gpu.flip].source = "Cpu"
  /\ Complete(gpu.flip)
  /\ gpu' = Idle
  /\ UNCHANGED <<port, status, driver, requests, cpuRequests, processing, work, guest, present>>

GpuDefers ==
  /\ gpu.at = "prepared" /\ request[gpu.flip].source = "GpuEop"
  /\ deferred' = Append(deferred, gpu.flip)
  /\ gpu' = Idle
  /\ UNCHANGED <<port, status, driver, queue, pool, submissions, guest, present, fatal>>

\* The priority thread completes the flips of finished submissions.
CompleteFlip ==
  /\ deferred # <<>>
  /\ Complete(Head(deferred))
  /\ deferred' = Tail(deferred)
  /\ UNCHANGED <<port, status, driver, requests, cpuRequests, processing, submissions, gpu,
                 guest, present>>

\* WaitFlipDone: the GPU thread waits for the flips of a display buffer.
Flips(p, i, S) == \E r \in S : request[r].port = p /\ request[r].index = i

WaitFlipDone(p, i) ==
  /\ gpu = Idle /\ driver = None /\ opened[p]
  /\ gpu' = [at |-> "waits", port |-> p, index |-> i]
  /\ UNCHANGED <<port, status, driver, queue, pool, work, guest, present, fatal>>

WaitFlipDoneReturns ==
  /\ gpu.at = "waits" /\ ~Flips(gpu.port, gpu.index, Queued)
  /\ gpu' = Idle
  /\ UNCHANGED <<port, status, driver, queue, pool, work, guest, present, fatal>>

(***************************************************************************)
(* The present thread.                                                     *)
(***************************************************************************)

FrontIsReady == requests # <<>> /\ request[Head(requests)].state = "Ready"

Vblank ==
  /\ present = Idle /\ driver = None
  /\ present' = [at |-> "flips"]
  /\ UNCHANGED <<port, status, driver, queue, pool, work, gpu, guest, fatal>>

\* Without a flip to show, the overlay may want the last frame shown again, or
\* the thread may be late.
NotPresented == present' \in {Idle, [at |-> "refreshes"], [at |-> "late"]}

FlipNothing ==
  /\ present.at = "flips"
  /\ ~FrontIsReady
  /\ NotPresented
  /\ UNCHANGED <<port, status, driver, queue, pool, work, gpu, guest, fatal>>

FlipChooses ==
  /\ present.at = "flips"
  /\ FrontIsReady
  /\ processing' = TRUE
  /\ fatal' = (fatal \/ processing)
  /\ present' = [at |-> "due", flip |-> Head(requests)]
  /\ UNCHANGED <<port, status, driver, request, requests, cpuRequests, cancelled, pool, work,
                 gpu, guest>>

\* The port was closed, or its flip rate wants a later vblank.
FlipNotDue ==
  /\ present.at = "due"
  /\ processing' = FALSE
  /\ NotPresented
  /\ UNCHANGED <<port, status, driver, request, requests, cpuRequests, cancelled, pool, work,
                 gpu, guest, fatal>>

FlipDue ==
  LET r == present.flip
  IN /\ present.at = "due" /\ Current(r)
     /\ request' = [request EXCEPT ![r].state = "Presenting"]
     /\ fatal' = (fatal \/ requests = <<>> \/ Head(requests) # r
                        \/ request[r].state # "Ready" \/ ~processing)
     /\ present' = [at |-> "presents", flip |-> r]
     /\ UNCHANGED <<port, status, driver, requests, cpuRequests, cancelled, processing, pool,
                    work, gpu, guest>>

\* Present; a frame that could not be shown does not become the last one.
FlipPresents ==
  /\ present.at = "presents"
  /\ \E shown \in BOOLEAN : Release(request[present.flip].frame, shown)
  /\ request' = [request EXCEPT ![present.flip].frame = None]
  /\ present' = [at |-> "ends", flip |-> present.flip]
  /\ UNCHANGED <<port, status, driver, requests, cpuRequests, cancelled, processing, work, gpu,
                 guest, fatal>>

\* A presented flip of a command buffer is no longer in the GPU's queue.
LeavesGpu(r) == request[r].source = "GpuEop" /\ gcQueueNum[request[r].port] > 0

FlipEnds ==
  LET r == present.flip
      p == request[r].port
  IN /\ present.at = "ends"
     /\ requests' = Tail(requests)
     /\ fatal' = (fatal \/ requests = <<>> \/ Head(requests) # r
                        \/ request[r].state # "Presenting")
     /\ request' = [request EXCEPT ![r] = Gone]
     /\ IF Current(r)
        THEN /\ flipPendingNum' = [flipPendingNum EXCEPT ![p] = Cardinality(Queued) - 1]
             /\ gcQueueNum' = IF LeavesGpu(r) THEN [gcQueueNum EXCEPT ![p] = @ - 1]
                              ELSE gcQueueNum
        ELSE UNCHANGED status
     /\ processing' = FALSE
     /\ present' = Idle
     /\ UNCHANGED <<port, driver, cpuRequests, cancelled, pool, work, gpu, guest>>

\* While the guest is paused, nothing is flipped.
PausedIdle == present = Idle /\ last = None /\ UNCHANGED vars

\* The last frame is shown again, for a refresh or while the guest is paused.
RefreshLast ==
  /\ present.at \in {"idle", "refreshes"} /\ last # None
  /\ free' \in Kept(free, Range(free) \ {last})
  /\ last' = None
  /\ fatal' = (fatal \/ last \notin Range(free))
  /\ present' = [at |-> "shows", frame |-> last, reuse |-> TRUE]
  /\ UNCHANGED <<port, status, driver, queue, work, gpu, guest>>

\* A refresh without a last frame shows a blank one.
RefreshBlank ==
  /\ present.at = "refreshes" /\ last = None
  /\ present' = [at |-> "acquires"]
  /\ UNCHANGED <<port, status, driver, queue, pool, work, gpu, guest, fatal>>

\* Late and without a port, a blank frame is shown; a port may be opened once
\* the thread has looked.
LateLooks ==
  /\ present.at = "late" /\ driver = None
  /\ present' = IF \E p \in Ports : opened[p] THEN Idle ELSE [at |-> "acquires"]
  /\ UNCHANGED <<port, status, driver, queue, pool, work, gpu, guest, fatal>>

BlankAcquires ==
  /\ present.at = "acquires"
  /\ Acquire
  /\ present' = [at |-> "shows", frame |-> Head(free), reuse |-> FALSE]
  /\ UNCHANGED <<port, status, driver, queue, work, gpu, guest, fatal>>

\* A blank frame that could not be shown does not become the last one.
RefreshShows ==
  /\ present.at = "shows"
  /\ \E shown \in BOOLEAN : (present.reuse => shown) /\ Release(present.frame, shown)
  /\ present' = Idle
  /\ UNCHANGED <<port, status, driver, queue, work, gpu, guest, fatal>>

(***************************************************************************)
(* The specification.                                                      *)
(***************************************************************************)

GpuThread == GpuReserves \/ GpuRetries \/ GpuExits \/ GpuTakesPreparation \/ PrepareMarks
             \/ PrepareLooks \/ PrepareAcquires \/ PrepareAssigns \/ GpuCompletes \/ GpuDefers
             \/ WaitFlipDoneReturns

PresentThread == Vblank \/ FlipNothing \/ FlipChooses \/ FlipNotDue \/ FlipDue \/ FlipPresents
                 \/ FlipEnds \/ PausedIdle \/ RefreshLast \/ RefreshBlank \/ LateLooks
                 \/ BlankAcquires \/ RefreshShows

\* What a call of a guest thread does once it has begun.
GuestCall(t) == CancelMoves(t) \/ CancelResets(t) \/ GuestIsRefused(t) \/ GuestReserves(t)
                \/ GuestSubmits(t)

\* A guest thread begins a call.
GuestBegins(t) ==
  \/ \E p \in Ports : Open(t, p) \/ CloseBegins(t, p)
  \/ \E p \in Ports, i \in Indices : SubmitFlip(t, p, i)

Step == \/ \E t \in Guests : GuestBegins(t) \/ GuestCall(t)
        \/ \E p \in Ports, i \in Indices : GpuFlips(p, i) \/ WaitFlipDone(p, i)
        \/ GpuThread \/ CompleteFlip \/ PresentThread

\* The bounds or the emulator end it.
Stopped == (~MoreFlips \/ ~Running) /\ UNCHANGED vars

Next == (Running /\ Step) \/ Stopped

Spec == Init /\ [][Next]_vars

\* The driver's mutex and the queue's are had in the end by a thread that
\* asks again and again; a flip is due and a paused guest goes on in the end.
Fairness ==
  /\ \A t \in Guests : WF_vars(Running /\ GuestCall(t))
  /\ WF_vars(GpuThread) /\ SF_vars(GpuRetries) /\ WF_vars(Running /\ CompleteFlip)
  /\ WF_vars(Running /\ PresentThread) /\ SF_vars(Running /\ (Vblank \/ LateLooks))
  /\ SF_vars(Running /\ FlipDue)

FairSpec == Spec /\ Fairness

(***************************************************************************)
(* Properties.                                                             *)
(***************************************************************************)

\* Who holds frame f: flips and threads.
Holders(f) ==
  {r \in DOMAIN request : request[r].frame = f}
  \cup (IF gpu.at = "assigns" /\ gpu.frame = f THEN {-1} ELSE {})
  \cup (IF present.at = "shows" /\ present.frame = f THEN {-2} ELSE {})

\* The lists hold each flip once and each frame has one holder or is free
\* once: whatever cancels or completes a flip, no frame is lost or shared.
TypeOK ==
  /\ IsInjective(requests)
  /\ Queued \cup cancelled = {r \in DOMAIN request : request[r].state # "Gone"}
  /\ Range(requests) \cap cpuRequests = {} /\ Queued \cap cancelled = {}
  /\ IsInjective(free) /\ Range(free) \subseteq Frames
  /\ last \in Range(free) \cup {None}
  /\ \A f \in Frames : IF f \in Range(free) THEN Holders(f) = {}
                       ELSE \E h \in Holders(f) : Holders(f) = {h}

\* No interleaving of reserving, preparing, completing, presenting and
\* closing reaches an EXIT that says a flip or a frame is not where it should
\* be: all the EXITs of the queue and the pool but the one for saturation.
NeverFatal == ~fatal

\* An open port's gcQueueNum, which the guest polls, counts its flips that
\* command buffers have queued.
GcQueueNumCounts ==
  \A p \in Ports : opened[p] /\ ~closing[p] =>
    gcQueueNum[p] = Cardinality({r \in Range(requests) :
                                   request[r].port = p /\ request[r].source = "GpuEop"})

\* Unless its port is being closed, a queued flip belongs to the port as it
\* is open now: Close leaves none, and none is reserved after it.
QueuedAreCurrent ==
  \A r \in Queued : Current(r)
                    \/ \E t \in Guests : guest[t].at = "cancels" /\ guest[t].port = request[r].port

\* All of it: every flip and every frame is where it belongs, the count the
\* guest polls is right, and no EXIT finds them elsewhere.
FlipsAreSound == TypeOK /\ NeverFatal /\ GcQueueNumCounts /\ QueuedAreCurrent

\* Close waits only for the flip that is being shown, and returns.
CloseReturns == \A t \in Guests : []<>(guest[t].at # "cancels" \/ ~Running)

\* The present thread gets a frame for an idle refresh or a late vblank.
RefreshReturns == []<>(present.at # "acquires" \/ ~Running)

\* While the present thread is not stuck waiting for a frame itself,
\* WaitFlipDone returns, or a flip submitted by the CPU has to be prepared by
\* the very thread that waits for it.
FlipWaitReturns ==
  RefreshReturns => []<>(gpu.at # "waits" \/ Flips(gpu.port, gpu.index, cpuRequests))

\* Both: neither a close nor a wait for a flip blocks for ever.
FlipCallsReturn == CloseReturns /\ FlipWaitReturns

=============================================================================
