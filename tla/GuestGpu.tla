------------------------------ MODULE GuestGpu ------------------------------
(***************************************************************************)
(* The GPU thread's work: class GuestGpu and GuestGpu::ThreadRun in        *)
(* src/graphics/guest_gpu/graphicsRun.cpp.                                 *)
(*                                                                         *)
(* Guest threads submit command buffers to the graphics queue (0) and the  *)
(* compute queues, end a frame with Done, and have the GPU thread run      *)
(* commands for them (SendCommandSync).  The GPU thread runs commands      *)
(* first, then the queues in turn; a command buffer that meets a wait for  *)
(* memory is put back and tried again later.                               *)
(*                                                                         *)
(* A section under m_queue_mutex is one step.  m_submission_mutex is held  *)
(* across Done's waits: its holder is `owner'.  Both condition variables   *)
(* have one waiter that tests a predicate, so a sleep is a step that is    *)
(* not enabled.  A command buffer is a sequence of packets that have a     *)
(* label written when the host's GPU gets to them, or wait for one; what   *)
(* is drawn, the state of the command processors, the second stream of a   *)
(* graphics submission and speculation are left out.                       *)
(***************************************************************************)
EXTENDS Integers, FiniteSets, Sequences

CONSTANTS Submitters, Callers,  \* guest threads that submit and end frames, and that send commands
          ComputeQueues, \* the number of compute queues
          Labels,
          Programs,     \* command buffers
          None,
          MaxSerial, MaxFrames, MaxCommands  \* bounds: per queue, boundaries, commands

Guests == Submitters \cup Callers
Queues == 0 .. ComputeQueues

ASSUME GpuAssumption ==
  /\ IsFiniteSet(Guests) /\ None \notin Guests
  /\ ComputeQueues \in Nat /\ MaxSerial \in Nat /\ MaxFrames \in Nat /\ MaxCommands \in Nat
  /\ Programs \subseteq Seq([op : {"write", "wait"}, label : Labels])

VARIABLES
  queues,     \* m_queues
  count,      \* m_submission_count
  commands,   \* m_commands, the guest threads that sent them
  next,       \* m_next_queue
  serials,    \* m_serials
  submitted, consumed,  \* m_submitted_frame, m_consumed_frame
  processing, \* m_processing
  stopping,   \* m_stopping, and m_accepting is its opposite
  owner,      \* the guest thread that holds m_submission_mutex, or None
  guest,      \* where each guest thread is
  handoff,    \* `state' of each thread's SendCommandSync
  sent,       \* commands sent so far
  gpu,        \* where the GPU thread is, with the submission or command it has
  recorded, flushed, written  \* labels whose writing is recorded, with the host's GPU, done

frames == <<submitted, consumed>>
host == <<recorded, flushed, written>>
vars == <<queues, count, commands, next, serials, frames, processing, stopping, owner, guest,
          handoff, sent, gpu, host>>

Init == /\ queues = [q \in Queues |-> <<>>] /\ count = 0 /\ commands = <<>>
        /\ next = 0 /\ serials = [q \in Queues |-> 0]
        /\ submitted = 0 /\ consumed = 0
        /\ processing = FALSE /\ stopping = FALSE
        /\ owner = None /\ guest = [t \in Guests |-> "idle"]
        /\ handoff = [t \in Guests |-> "waiting"] /\ sent = 0
        /\ gpu = [at |-> "loop"]
        /\ recorded = {} /\ flushed = {} /\ written = {}

(***************************************************************************)
(* Submission by the guest threads.                                        *)
(***************************************************************************)

Enqueue(q, type, program) ==
  /\ ~stopping
  /\ serials' = [serials EXCEPT ![q] = @ + 1]
  /\ queues' = [queues EXCEPT ![q] = Append(@,
                  [type |-> type, queue |-> q, rest |-> program, blocked |-> FALSE,
                   epoch |-> submitted, serial |-> serials[q] + 1])]
  /\ count' = count + 1

Writes(program) == {program[i].label : i \in {j \in DOMAIN program : program[j].op = "write"}}

\* Labels that are written, or will be by what was submitted.
Promised == written \cup flushed \cup recorded
            \cup UNION {UNION {Writes(queues[q][i].rest) : i \in DOMAIN queues[q]} : q \in Queues}
            \cup (IF gpu.at \in {"runs", "blocked"} THEN Writes(gpu.sub.rest) ELSE {})

\* The guest waits for no label that is not on its way.
Sensible(program) ==
  \A i \in DOMAIN program : program[i].op = "wait" =>
    program[i].label \in Promised \cup Writes(SubSeq(program, 1, i - 1))

\* Submit, SubmitCompute.
Submit(t, q, program) ==
  /\ guest[t] = "idle" /\ owner = None /\ serials[q] < MaxSerial
  /\ Sensible(program)
  /\ Enqueue(q, IF q = 0 THEN "graphics" ELSE "compute", program)
  /\ UNCHANGED <<commands, next, frames, processing, stopping, owner, guest, handoff, sent, gpu, host>>

SubmitFlipPreparation(t) ==
  /\ guest[t] = "idle" /\ owner = None /\ serials[0] < MaxSerial
  /\ Enqueue(0, "flip", <<>>)
  /\ UNCHANGED <<commands, next, frames, processing, stopping, owner, guest, handoff, sent, gpu, host>>

(***************************************************************************)
(* Done: with the frame pipeline it queues a boundary once the one before  *)
(* was passed; without, it waits for an idle GPU thread.                   *)
(***************************************************************************)

DoneBegins(t, pipelined) ==
  /\ guest[t] = "idle" /\ owner = None /\ ~stopping
  /\ pipelined => submitted < MaxFrames /\ serials[0] < MaxSerial
  /\ owner' = t
  /\ guest' = [guest EXCEPT ![t] = IF pipelined THEN "waits" ELSE "drains"]
  /\ UNCHANGED <<queues, count, commands, next, serials, frames, processing, stopping, handoff, sent, gpu, host>>

\* Mutant: a boundary is queued without waiting for the one before.
PublishBoundaryAtOnce(t) ==
  /\ guest[t] = "waits"
  /\ Enqueue(0, "boundary", <<>>)
  /\ guest' = [guest EXCEPT ![t] = "published"]
  /\ UNCHANGED <<commands, next, frames, processing, stopping, owner, handoff, sent, gpu, host>>

PublishBoundary(t) ==
  /\ guest[t] = "waits" /\ submitted = consumed
  /\ Enqueue(0, "boundary", <<>>)
  /\ guest' = [guest EXCEPT ![t] = "published"]
  /\ UNCHANGED <<commands, next, frames, processing, stopping, owner, handoff, sent, gpu, host>>

\* The frame number goes up without m_queue_mutex, after the boundary is queued.
DonePublished(t) ==
  /\ guest[t] = "published"
  /\ submitted' = submitted + 1
  /\ guest' = [guest EXCEPT ![t] = "idle"] /\ owner' = None
  /\ UNCHANGED <<queues, count, commands, next, serials, consumed, processing, stopping, handoff, sent, gpu, host>>

\* Mutant: what the GPU thread has taken from a queue is forgotten.
IdleQueues == commands = <<>> /\ count = 0

\* The condition of WaitForIdle.
IdleNow == ~processing /\ commands = <<>> /\ count = 0

DoneDrained(t) ==
  /\ guest[t] = "drains" /\ IdleNow
  /\ guest' = [guest EXCEPT ![t] = "idle"] /\ owner' = None
  /\ UNCHANGED <<queues, count, commands, next, serials, frames, processing, stopping, handoff, sent, gpu, host>>

(***************************************************************************)
(* SendCommandSync: the caller spins for a while, then sleeps on `state'.  *)
(* "tests" is the loop around state.wait(2), "sleeps" inside of it.        *)
(***************************************************************************)

SendCommandSync(t) ==
  /\ guest[t] = "idle" /\ ~stopping /\ sent < MaxCommands
  /\ sent' = sent + 1
  /\ commands' = Append(commands, t)
  /\ handoff' = [handoff EXCEPT ![t] = "waiting"]
  /\ guest' = [guest EXCEPT ![t] = "spins"]
  /\ UNCHANGED <<queues, count, next, serials, frames, processing, stopping, owner, gpu, host>>

SpinSees(t) ==
  /\ guest[t] = "spins" /\ handoff[t] = "done"
  /\ guest' = [guest EXCEPT ![t] = "idle"]
  /\ UNCHANGED <<queues, count, commands, next, serials, frames, processing, stopping, owner, handoff, sent, gpu, host>>

\* The compare-exchange that says the caller sleeps.
SpinGivesUp(t) ==
  /\ guest[t] = "spins" /\ handoff[t] = "waiting"
  /\ guest' = [guest EXCEPT ![t] = "tests"] /\ handoff' = [handoff EXCEPT ![t] = "sleeping"]
  /\ UNCHANGED <<queues, count, commands, next, serials, frames, processing, stopping, owner, sent, gpu, host>>

CallerTests(t) ==
  /\ guest[t] = "tests"
  /\ guest' = [guest EXCEPT ![t] = IF handoff[t] = "done" THEN "idle" ELSE "sleeps"]
  /\ UNCHANGED <<queues, count, commands, next, serials, frames, processing, stopping, owner, handoff, sent, gpu, host>>

\* The command of thread t is run; its caller is told.
RunCommand(t) ==
  /\ handoff' = [handoff EXCEPT ![t] = "done"]
  /\ guest' = IF handoff[t] = "sleeping" /\ guest[t] = "sleeps"
              THEN [guest EXCEPT ![t] = "tests"] ELSE guest

(***************************************************************************)
(* The GPU thread.                                                         *)
(***************************************************************************)

\* Mutant: a boundary does not wait for the compute queues.
CanProcessAnyBoundary(s) == s.epoch = consumed

CanProcessSubmission(s) ==
  /\ s.epoch = consumed
  /\ s.type = "boundary" =>
       \A q \in Queues \ {0} : queues[q] # <<>> => Head(queues[q]).epoch # s.epoch

Selectable(q) == /\ queues[q] # <<>> /\ ~Head(queues[q]).blocked
                 /\ CanProcessSubmission(Head(queues[q]))

\* The first queue from m_next_queue on.
Selected(q) == /\ Selectable(q)
               /\ \A p \in Queues : Selectable(p) =>
                    (q - next) % (ComputeQueues + 1) <= (p - next) % (ComputeQueues + 1)

GpuStops ==
  /\ gpu.at = "loop" /\ commands = <<>> /\ count = 0 /\ stopping
  /\ processing' = FALSE /\ gpu' = [at |-> "stopped"]
  /\ UNCHANGED <<queues, count, commands, next, serials, frames, stopping, owner, guest, handoff, sent, host>>

GpuTakesCommand ==
  /\ gpu.at = "loop" /\ commands # <<>>
  /\ gpu' = [at |-> "command", of |-> Head(commands)]
  /\ commands' = Tail(commands) /\ processing' = TRUE
  /\ UNCHANGED <<queues, count, next, serials, frames, stopping, owner, guest, handoff, sent, host>>

GpuRunsCommand ==
  /\ gpu.at = "command" /\ RunCommand(gpu.of)
  /\ gpu' = [at |-> "after command"]
  /\ UNCHANGED <<queues, count, commands, next, serials, frames, processing, stopping, owner, sent, host>>

GpuEndsCommand ==
  /\ gpu.at = "after command"
  /\ gpu' = [at |-> "loop"] /\ processing' = FALSE
  /\ UNCHANGED <<queues, count, commands, next, serials, frames, stopping, owner, guest, handoff, sent, host>>

GpuTakes(q) ==
  /\ gpu.at = "loop" /\ commands = <<>> /\ Selected(q)
  /\ gpu' = [at |-> "runs", sub |-> Head(queues[q]), progressed |-> FALSE]
  /\ queues' = [queues EXCEPT ![q] = Tail(@)] /\ count' = count - 1
  /\ next' = (q + 1) % (ComputeQueues + 1) /\ processing' = TRUE
  /\ UNCHANGED <<commands, serials, frames, stopping, owner, guest, handoff, sent, host>>

Unblocked == [q \in Queues |-> IF queues[q] = <<>> THEN <<>>
                               ELSE <<[Head(queues[q]) EXCEPT !.blocked = FALSE]>> \o Tail(queues[q])]

\* All that is queued has to wait: for new work, or 100 us.
GpuBacksOff ==
  /\ gpu.at = "loop" /\ commands = <<>> /\ count # 0
  /\ \A q \in Queues : ~Selectable(q)
  /\ gpu' = [at |-> "backs off"] /\ processing' = FALSE
  /\ UNCHANGED <<queues, count, commands, next, serials, frames, stopping, owner, guest, handoff, sent, host>>

GpuRetries ==
  /\ gpu.at = "backs off"
  /\ gpu' = [at |-> "loop"] /\ queues' = Unblocked
  /\ UNCHANGED <<count, commands, next, serials, frames, processing, stopping, owner, guest, handoff, sent, host>>

\* Process for a boundary.
PassBoundary ==
  /\ gpu.at = "runs" /\ gpu.sub.type = "boundary"
  /\ consumed' = consumed + 1
  /\ gpu' = [at |-> "complete"]
  /\ UNCHANGED <<queues, count, commands, next, serials, submitted, processing, stopping, owner, guest, handoff, sent, host>>

\* ProcessCommands, before every packet.
ProcessCommands ==
  /\ gpu.at = "runs" /\ gpu.sub.type \in {"graphics", "compute"} /\ commands # <<>>
  /\ RunCommand(Head(commands)) /\ commands' = Tail(commands)
  /\ UNCHANGED <<queues, count, next, serials, frames, processing, stopping, owner, sent, gpu, host>>

\* The next packet: a write is recorded, a wait goes on if the label is there.
ProcessPacket ==
  /\ gpu.at = "runs" /\ commands = <<>> /\ gpu.sub.rest # <<>>
  /\ LET packet == Head(gpu.sub.rest)
     IN /\ packet.op = "wait" => packet.label \in written
        /\ recorded' = IF packet.op = "write" THEN recorded \cup {packet.label} ELSE recorded
  /\ gpu' = [gpu EXCEPT !.sub.rest = Tail(@), !.progressed = TRUE]
  /\ UNCHANGED <<queues, count, commands, next, serials, frames, processing, stopping, owner, guest, handoff, sent, flushed, written>>

\* Mutant: only a complete submission is flushed.
FlushComplete(complete) ==
  IF complete THEN /\ flushed' = flushed \cup recorded /\ recorded' = {}
                                ELSE UNCHANGED <<flushed, recorded>>

\* What was recorded goes to the host's GPU if the slice made progress, and
\* with the preparation of a flip.
Flush(complete) ==
  IF gpu.progressed \/ gpu.sub.type = "flip"
                    THEN /\ flushed' = flushed \cup recorded /\ recorded' = {}
                    ELSE UNCHANGED <<flushed, recorded>>

ProcessBlocks ==
  /\ gpu.at = "runs" /\ commands = <<>> /\ gpu.sub.rest # <<>>
  /\ Head(gpu.sub.rest).op = "wait" /\ Head(gpu.sub.rest).label \notin written
  /\ Flush(FALSE)
  /\ gpu' = [at |-> "blocked", sub |-> gpu.sub]
  /\ UNCHANGED <<queues, count, commands, next, serials, frames, processing, stopping, owner, guest, handoff, sent, written>>

ProcessCompletes ==
  /\ gpu.at = "runs" /\ gpu.sub.type # "boundary" /\ gpu.sub.rest = <<>>
  /\ Flush(TRUE)
  /\ gpu' = [at |-> "complete"]
  /\ UNCHANGED <<queues, count, commands, next, serials, frames, processing, stopping, owner, guest, handoff, sent, written>>

GpuPutsBack ==
  /\ gpu.at = "blocked"
  /\ queues' = [queues EXCEPT ![gpu.sub.queue] = <<[gpu.sub EXCEPT !.blocked = TRUE]>> \o @]
  /\ count' = count + 1
  /\ gpu' = [at |-> "loop"] /\ processing' = FALSE
  /\ UNCHANGED <<commands, next, serials, frames, stopping, owner, guest, handoff, sent, host>>

GpuCompletes ==
  /\ gpu.at = "complete"
  /\ queues' = Unblocked
  /\ gpu' = [at |-> "loop"] /\ processing' = FALSE
  /\ UNCHANGED <<count, commands, next, serials, frames, stopping, owner, guest, handoff, sent, host>>

\* The host's GPU gets to a label.
LabelWritten(l) ==
  /\ l \in flushed
  /\ flushed' = flushed \ {l} /\ written' = written \cup {l}
  /\ UNCHANGED <<queues, count, commands, next, serials, frames, processing, stopping, owner, guest, handoff, sent, gpu, recorded>>

\* Shutdown, up to where it joins the GPU thread.
Shutdown ==
  /\ ~stopping /\ stopping' = TRUE
  /\ UNCHANGED <<queues, count, commands, next, serials, frames, processing, owner, guest, handoff, sent, gpu, host>>

GpuThread == \/ GpuStops \/ GpuTakesCommand \/ GpuRunsCommand \/ GpuEndsCommand
             \/ \E q \in Queues : GpuTakes(q)
             \/ GpuBacksOff \/ GpuRetries \/ PassBoundary \/ ProcessCommands \/ ProcessPacket
             \/ ProcessBlocks \/ ProcessCompletes \/ GpuPutsBack \/ GpuCompletes

\* What a guest thread does inside a call.
Continues(t) == \/ PublishBoundary(t) \/ DonePublished(t)
                \/ SpinSees(t) \/ SpinGivesUp(t) \/ CallerTests(t)

Next == \/ \E t \in Submitters : \/ \E q \in Queues, program \in Programs : Submit(t, q, program)
                                 \/ SubmitFlipPreparation(t)
                                 \/ \E pipelined \in BOOLEAN : DoneBegins(t, pipelined)
                                 \/ DoneDrained(t)
        \/ \E t \in Callers : SendCommandSync(t)
        \/ \E t \in Guests : Continues(t)
        \/ GpuThread
        \/ \E l \in Labels : LabelWritten(l)
        \/ Shutdown

Spec == Init /\ [][Next]_vars

(***************************************************************************)
(* Fairness.  Threads go on; the host's GPU gets to what it was given; and *)
(* a thread in WaitForIdle, which looks again whenever it is signalled and *)
(* every 10 ms, gets m_queue_mutex in some of the moments it is idle.      *)
(***************************************************************************)
Fairness == /\ WF_vars(GpuThread)
            /\ \A l \in Labels : WF_vars(LabelWritten(l))
            /\ \A t \in Guests : WF_vars(Continues(t))
            /\ \A t \in Submitters : SF_vars(DoneDrained(t))

FairSpec == Spec /\ Fairness

(***************************************************************************)
(* Properties.                                                             *)
(***************************************************************************)

\* The guest is one frame ahead at most: "Permit CPU preparation of one
\* following frame."  It is one behind when a boundary is passed before Done
\* has counted it, and then nothing is queued.
OneFrameAhead ==
  /\ submitted - consumed \in {-1, 0, 1}
  /\ \A q \in Queues : \A i \in DOMAIN queues[q] :
       queues[q][i].epoch \in consumed .. submitted

\* The places of what is queued.
Queued == UNION {{q} \X DOMAIN queues[q] : q \in Queues}

\* The count is that of what is queued, m_submission_mutex is held by who is in
\* Done, and m_processing is set while the GPU thread has something.
TypeOK ==
  /\ count = Cardinality(Queued)
  /\ OneFrameAhead
  /\ (owner # None) = (\E t \in Guests : guest[t] \in {"waits", "drains", "published"})
  /\ gpu.at \in {"runs", "blocked", "command"} => processing

\* Each queue is processed in order, although submissions are put back, and
\* frames are kept apart: "Later-frame compute work must not overtake the
\* graphics boundary, nor may that boundary pass earlier compute work."
NothingOvertakes ==
  gpu.at = "runs" =>
    \A q \in Queues : \A i \in DOMAIN queues[q] :
      LET waiting == queues[q][i]
      IN /\ waiting.epoch >= gpu.sub.epoch
         /\ q = gpu.sub.queue => waiting.serial > gpu.sub.serial
         /\ gpu.sub.type = "boundary" => waiting.epoch > gpu.sub.epoch

\* When Done returns from WaitForIdle, all that was submitted is processed:
\* none is queued, being processed, or about to be put back.
DoneMeansIdle ==
  [][\A t \in Guests : guest[t] = "drains" /\ guest'[t] # "drains" =>
       /\ gpu.at \in {"loop", "stopped"}
       /\ \A q \in Queues : queues[q] = <<>>]_vars

\* Done returns: a submission that was put back is tried again, and what it
\* waits for was flushed.  (At shutdown the program may end instead.)
DoneReturns ==
  \A t \in Submitters : (guest[t] \in {"waits", "drains"}) ~> (guest[t] = "idle" \/ stopping)

\* Whoever sends a command hears of its end, spinning or asleep.
CommandReturns ==
  \A t \in Callers : (guest[t] \in {"spins", "tests", "sleeps"}) ~> (guest[t] = "idle")

\* Both: no guest thread waits for the GPU thread for ever.
GuestCallsReturn == DoneReturns /\ CommandReturns

=============================================================================
