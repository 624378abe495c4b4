------------------------------ MODULE SubmitPath ----------------------------
(***************************************************************************)
(* The way of a submission to the graphics queue: the render thread pushes *)
(* copies to the upload worker (bufferCache.cpp), records packets and      *)
(* submissions (commandScheduler.cpp), and unmaps memory on behalf of the  *)
(* guest (gpuResourceManager.cpp); the recording worker replays, and waits *)
(* for the copies a submission reads.  With KYTY_DEFERRED_SUBMIT the       *)
(* worker submits, without it the render thread does.                      *)
(***************************************************************************)
EXTENDS AsyncUpload, RecordingStream

CONSTANTS Render, Recorder,
          Modes,       \* values of DeferredSubmitEnabled
          MaxPackets   \* bound: packets and submissions recorded

ASSUME SubmitPathAssumption ==
  /\ Waiters = {Render, Recorder} /\ Render # Recorder
  /\ Modes \subseteq BOOLEAN /\ MaxPackets \in Nat
  /\ Areas \cap {"nothing", "inline", "submit"} = {}  \* todo tells them apart

VARIABLES
  deferred,  \* DeferredSubmitEnabled
  todo,      \* what the render thread does when it has drained or waited
  recorded,  \* packets the render thread made
  replayed,  \* the number of the packet that was executed last
  promised,  \* of each submission, what was pushed and recorded before it
  handed     \* submissions the driver has

work == <<deferred, recorded, replayed, promised, handed>>
vars == <<uploadVars, streamVars, todo, work>>

Init ==
  /\ UploadInit /\ StreamInit
  /\ deferred \in Modes /\ todo = "nothing"
  /\ recorded = 0 /\ replayed = 0 /\ promised = <<>> /\ handed = 0

(***************************************************************************)
(* Copies: a batch of pushes and a kick.                                   *)
(***************************************************************************)

Push(area) ==
  /\ producer \in {"idle", "pushed"} /\ area \in mapped
  /\ Add(area) /\ producer' = "pushed"
  /\ UNCHANGED <<chunks, published, completed, dozing, recorder, todo, work>>

PushWaits ==
  /\ producer \in {"idle", "pushed"} /\ Full /\ head < MaxJobs
  /\ Kick
  /\ UNCHANGED <<streamVars, todo, work>>

Pushed ==
  /\ producer = "pushed" /\ Kick /\ producer' = "idle"
  /\ UNCHANGED <<chunks, published, completed, dozing, recorder, todo, work>>

(***************************************************************************)
(* Packets.                                                                *)
(***************************************************************************)

Number == recorded + 1

Record ==
  /\ producer = "idle" /\ recorded < MaxPackets
  /\ Enqueue([number |-> Number, copies |-> 0, submits |-> FALSE], FALSE, "idle")
  /\ recorded' = Number
  /\ UNCHANGED <<uploadVars, todo, deferred, replayed, promised, handed>>

\* Mutant: what is done so far.
DoneSequence == done

\* SubmitSequence: everything pushed so far.
SubmitSequence == head

\* What the submission made now relies on.
Promise == Append(promised, [copies |-> head, packets |-> recorded])

\* CommandScheduler::SubmitAll with deferred submits.
SubmitDeferred ==
  /\ producer = "idle" /\ deferred /\ recorded < MaxPackets
  /\ Enqueue([number |-> Number, copies |-> SubmitSequence, submits |-> TRUE], TRUE, "idle")
  /\ recorded' = Number /\ promised' = Promise
  /\ UNCHANGED <<uploadVars, todo, deferred, replayed, handed>>

\* Drain: publish what there is, and wait for the worker.
Drains(purpose) ==
  /\ Publish("draining") /\ todo' = purpose
  /\ UNCHANGED <<uploadVars, work>>

\* A packet larger than a chunk (ReplayInline), or a call that is not
\* recorded (BeforeDirect).
RecordInline == producer = "idle" /\ recorded < MaxPackets /\ Drains("inline")

\* Without deferred submits, from the end of the last command buffer on.
SubmitDirect == producer = "idle" /\ ~deferred /\ recorded < MaxPackets /\ Drains("submit")

\* The end of Publish.
Published ==
  /\ producer = "ringing"
  /\ RingsAndGoes(IF todo = "nothing" THEN "idle" ELSE "draining")
  /\ UNCHANGED <<uploadVars, todo, work>>

\* Mutant: the call does not wait for the packets before it.
ExecutesEarly ==
  /\ producer = "draining" /\ todo = "inline"
  /\ replayed' = Number /\ recorded' = Number
  /\ producer' = "idle" /\ todo' = "nothing"
  /\ UNCHANGED <<uploadVars, chunks, published, completed, dozing, recorder,
                 deferred, promised, handed>>

ExecutesInline ==
  /\ producer = "draining" /\ todo = "inline" /\ Drained
  /\ replayed' = Number /\ recorded' = Number
  /\ producer' = "idle" /\ todo' = "nothing"
  /\ UNCHANGED <<uploadVars, chunks, published, completed, dozing, recorder,
                 deferred, promised, handed>>

\* AsyncUpload::Drain, then vkQueueSubmit under the queue's lock.
DrainsUploads ==
  /\ producer = "draining" /\ todo = "submit" /\ Drained
  /\ WaitBegins(Render, SubmitSequence) /\ producer' = "uploading"
  /\ UNCHANGED <<ring, run, done, sleeping, worker, mapped, chunks, published, completed,
                 dozing, recorder, todo, work>>

SubmitsDirect ==
  /\ producer = "uploading" /\ todo = "submit" /\ wait[Render].at = "no"
  /\ recorded' = Number /\ replayed' = Number
  /\ promised' = Promise /\ handed' = handed + 1
  /\ producer' = "idle" /\ todo' = "nothing"
  /\ UNCHANGED <<uploadVars, chunks, published, completed, dozing, recorder, deferred>>

(***************************************************************************)
(* Memory the guest unmaps, and maps again.                                *)
(***************************************************************************)

\* DrainRange.
UnmapBegins(area) ==
  /\ producer = "idle" /\ area \in mapped
  /\ WaitBegins(Render, PendingOn(area)) /\ producer' = "uploading" /\ todo' = area
  /\ UNCHANGED <<ring, run, done, sleeping, worker, mapped, chunks, published, completed,
                 dozing, recorder, work>>

Unmap(area) ==
  /\ producer = "uploading" /\ todo = area /\ wait[Render].at = "no"
  /\ mapped' = mapped \ {area}
  /\ producer' = "idle" /\ todo' = "nothing"
  /\ UNCHANGED <<ring, run, done, sleeping, worker, wait, chunks, published, completed,
                 dozing, recorder, work>>

Map(area) ==
  /\ producer = "idle" /\ area \notin mapped /\ mapped' = mapped \cup {area}
  /\ UNCHANGED <<ring, run, done, sleeping, worker, wait, streamVars, todo, work>>

(***************************************************************************)
(* The recording worker.                                                   *)
(***************************************************************************)

Replays ==
  /\ recorder = "running" /\ chunks[Replayed] # <<>> /\ ~Packet.submits
  /\ Replay /\ replayed' = Packet.number
  /\ UNCHANGED <<uploadVars, todo, deferred, recorded, promised, handed>>

\* ReplaySubmit: AsyncUpload::Wait.
ReplaySubmit ==
  /\ recorder = "running" /\ chunks[Replayed] # <<>> /\ Packet.submits
  /\ WaitBegins(Recorder, Packet.copies) /\ recorder' = "submitting"
  /\ UNCHANGED <<ring, run, done, sleeping, worker, mapped, chunks, published, completed,
                 dozing, producer, todo, work>>

Submits ==
  /\ recorder = "submitting" /\ wait[Recorder].at = "no"
  /\ Replay /\ replayed' = Packet.number /\ handed' = handed + 1
  /\ UNCHANGED <<uploadVars, todo, deferred, recorded, promised>>

RecorderRuns ==
  \/ (RecorderRests \/ RecorderStarts \/ Completes) /\ UNCHANGED <<uploadVars, todo, work>>
  \/ Replays \/ ReplaySubmit \/ Submits
  \/ Waits(Recorder) /\ UNCHANGED <<streamVars, todo, work>>

-----------------------------------------------------------------------------

UploadRuns == Worker /\ UNCHANGED <<streamVars, todo, work>>

\* The render thread inside a call.
RenderGoesOn ==
  \/ PushWaits \/ Pushed \/ Published \/ ExecutesInline \/ DrainsUploads \/ SubmitsDirect
  \/ \E area \in Areas : Unmap(area)
  \/ Waits(Render) /\ UNCHANGED <<streamVars, todo, work>>

RenderCalls ==
  \/ Record \/ SubmitDeferred \/ RecordInline \/ SubmitDirect
  \/ \E area \in Areas : Push(area) \/ UnmapBegins(area) \/ Map(area)

Next == UploadRuns \/ RecorderRuns \/ RenderGoesOn \/ RenderCalls

Spec == Init /\ [][Next]_vars

\* The two workers run, and so does the render thread inside a call.
FairSpec == Spec /\ WF_vars(UploadRuns) /\ WF_vars(RecorderRuns) /\ WF_vars(RenderGoesOn)

-----------------------------------------------------------------------------

\* Types, the rings' contents, and nobody sleeps who should not: a parked
\* worker has nothing to do or will be rung, a parked waiter will be told.
TypeOK ==
  /\ head \in 0..MaxJobs /\ done \in 0..current /\ current \in 0..head
  /\ limit \in current..head \/ worker # "running"
  /\ published - completed \in 0..ChunkCount
  /\ JobsAreKept
  /\ Bell!Attends \/ producer = "pushed"
  /\ Ring!Attends \/ producer = "ringing"
  /\ WaitersAreTold

\* An area is unmapped when no copy of it is pending.
CopiesAreMapped == JobsAreMapped

\* Both.
SubmitInv == TypeOK /\ CopiesAreMapped

HandsOver ==
  LET promise == promised'[handed']
  IN handed' # handed => current >= promise.copies /\ replayed >= promise.packets

\* Every packet is executed once and in the order of the calls, by whichever
\* thread; a submission reaches the driver after all packets recorded before
\* it and after all copies pushed before it.
InOrder == [][HandsOver /\ (replayed' = replayed \/ replayed' = replayed + 1)]_vars

\* Every submission reaches the driver: their number is bounded, none is taken
\* back, and so the driver catches up.
SubmissionsArrive == []<>(handed >= Len(promised))
=============================================================================
