--------------------------- MODULE CommandBuffers ---------------------------
(***************************************************************************)
(* The command buffers of CommandScheduler and the timeline that says when *)
(* they may be used again: src/graphics/host_gpu/renderer/ commandScheduler *)
(* .cpp (CommandPool, Submit, the recorder of a speculative translation)   *)
(* and masterSemaphore.cpp.                                                *)
(*                                                                         *)
(* The GPU thread records into an open buffer and submits it; every        *)
(* submission signals the next tick.  A pool buffer is fenced, when it is  *)
(* taken, with the tick its submission is expected to signal; a recorder's *)
(* buffer with the tick its submission has signalled.  What is known of    *)
(* the GPU's progress is a cached value that several threads refresh.      *)
(*                                                                         *)
(* Whether a submission reaches the queue on this thread or through the    *)
(* recording stream, the GPU finishes submissions in order.  The open      *)
(* buffer exists whenever SubmitRecorded is called; what is recorded,      *)
(* barriers and statistics are left out.                                   *)
(***************************************************************************)
EXTENDS Integers, Sequences, FiniteSets

CONSTANTS Gpu, Worker,   \* the GPU thread and the thread that translates ahead
          Others,        \* other threads that wait for ticks
          None,
          GrowStep,      \* CommandPool::GrowStep
          MaxEntries,    \* MaxSubmitEntries
          MaxTick, MaxRecorded  \* bounds on submissions and recorded buffers

ASSUME BuffersAssumption ==
  /\ GrowStep \in Nat \ {0} /\ MaxEntries \in Nat /\ MaxEntries >= 3
  /\ MaxTick \in Nat /\ MaxRecorded \in Nat
  /\ None \notin Int /\ Gpu # Worker /\ Gpu \notin Others /\ Worker \notin Others

VARIABLES
  tick,      \* m_current_tick
  done,      \* the value of the timeline semaphore
  known,     \* m_gpu_tick
  read,      \* the counter each thread has read in Refresh
  size,      \* the number of buffers of the pool
  ticks,     \* m_ticks of the pool
  hint,      \* m_hint
  command,   \* m_command's buffer
  prologue,  \* m_prologue's buffer
  batch,     \* buffers of the submission that is being put together
  pc, arg, target, \* where the GPU thread is, the tick it waits for, what it begins
  fence,     \* of each buffer of the recorder: its tick, or Recording
  recorded,  \* those recorded and not submitted, in order
  opened,    \* the recorder's open buffer
  holder,    \* the thread that has the recorder
  wpc,       \* where the worker is
  left,      \* how many recorded buffers SubmitRecorded still has to submit
  last, rlast  \* the tick of the last submission of each buffer

timeline == <<tick, done, known, read>>
pool == <<size, ticks, hint, last>>
open == <<command, prologue, batch>>
control == <<pc, arg, target>>
recorder == <<fence, recorded, opened, holder, wpc, left, rlast>>
vars == <<timeline, pool, open, control, recorder>>

Threads == {Gpu, Worker} \cup Others
Recording == -1   \* UINT64_MAX in the code
Slots == 0 .. size - 1

Init ==
  /\ tick = 1 /\ done = 0 /\ known = 0 /\ read = [t \in Threads |-> 0]
  /\ size = 0 /\ ticks = <<>> /\ hint = 0 /\ last = <<>>
  /\ command = None /\ prologue = None /\ batch = {}
  /\ pc = "begin" /\ arg = 0 /\ target = "command"
  /\ fence = <<>> /\ recorded = <<>> /\ opened = None /\ holder = Worker
  /\ wpc = "idle" /\ left = 0 /\ rlast = <<>>

(***************************************************************************)
(* MasterSemaphore.                                                        *)
(***************************************************************************)

GpuFinishes == /\ done < tick - 1
               /\ done' = done + 1
               /\ UNCHANGED <<tick, known, read, pool, open, control, recorder>>

IsFree(k) == known >= k

\* Mutant: the tick being recorded is read for the counter.
ReadAhead(t) == read' = [read EXCEPT ![t] = tick]

\* Refresh reads the counter and then raises m_gpu_tick to it.
ReadCounter(t) == read' = [read EXCEPT ![t] = done]

\* Mutant: the counter read is stored without a comparison.
PublishesPlainly(t) == known' = read[t]

Publishes(t) == known' = IF known < read[t] THEN read[t] ELSE known

OtherReads(t) == /\ t \in Others
                 /\ ReadCounter(t)
                 /\ UNCHANGED <<tick, done, known, pool, open, control, recorder>>

OtherPublishes(t) == /\ t \in Others
                     /\ Publishes(t)
                     /\ UNCHANGED <<tick, done, read, pool, open, control, recorder>>

(***************************************************************************)
(* CommandPool::Commit: the first buffer from m_hint on that is known to   *)
(* be free; then, refreshed, from m_hint on and before m_hint; else a new  *)
(* one.                                                                    *)
(***************************************************************************)

FirstFree(i, from, to) ==
  /\ i \in Slots /\ from <= i /\ i < to
  /\ IsFree(ticks[i])
  /\ \A j \in Slots : from <= j /\ j < i => ~IsFree(ticks[j])

NoneFree(from, to) == \A j \in Slots : from <= j /\ j < to => ~IsFree(ticks[j])

\* The buffer is m_command's or m_prologue's.
Opens(i) == /\ IF target = "command" THEN command' = i /\ UNCHANGED prologue
                                     ELSE prologue' = i /\ UNCHANGED command
            /\ pc' = "open"
            /\ UNCHANGED <<batch, arg, target>>

\* Mutant: the buffer is fenced with the last submission's tick.
TakeBehind(i) == /\ ticks' = [ticks EXCEPT ![i] = tick - 1]
                 /\ hint' = (i + 1) % size
                 /\ UNCHANGED <<size, last>>
                 /\ Opens(i)

Take(i) == /\ ticks' = [ticks EXCEPT ![i] = tick]
           /\ hint' = (i + 1) % size
           /\ UNCHANGED <<size, last>>
           /\ Opens(i)

CommitKnown == /\ pc = "begin"
               /\ \E i \in Slots : FirstFree(i, hint, size) /\ Take(i)
               /\ UNCHANGED <<timeline, recorder>>

CommitReads == /\ pc = "begin" /\ NoneFree(hint, size)
               /\ ReadCounter(Gpu)
               /\ pc' = "refresh"
               /\ UNCHANGED <<tick, done, known, pool, open, arg, target, recorder>>

CommitPublishes == /\ pc = "refresh"
                   /\ Publishes(Gpu)
                   /\ pc' = "search"
                   /\ UNCHANGED <<tick, done, read, pool, open, arg, target, recorder>>

Search(i) == \/ FirstFree(i, hint, size)
             \/ NoneFree(hint, size) /\ FirstFree(i, 0, hint)

CommitSearches == /\ pc = "search"
                  /\ \E i \in Slots : Search(i) /\ Take(i)
                  /\ UNCHANGED <<timeline, recorder>>

Grow == /\ pc = "search" /\ ~ \E i \in Slots : Search(i)
        /\ size' = size + GrowStep
        /\ ticks' = [i \in 0 .. size' - 1 |->
                       IF i = size THEN tick ELSE IF i < size THEN ticks[i] ELSE 0]
        /\ last' = [i \in 0 .. size' - 1 |-> IF i < size THEN last[i] ELSE 0]
        /\ hint' = (size + 1) % size'
        /\ Opens(size)
        /\ UNCHANGED <<timeline, recorder>>

(***************************************************************************)
(* Submission.  The open buffer goes after its upload prologue.            *)
(***************************************************************************)

Open == {command, prologue} \ {None}

\* Mutant: the tick that is signalled is the one after NextTick.
SubmitsNext(buffers) ==
  /\ tick < MaxTick
  /\ last' = [i \in Slots |-> IF i \in buffers THEN tick + 1 ELSE last[i]]
  /\ tick' = tick + 1
  /\ UNCHANGED <<done, known, read, size, ticks, hint>>

\* SubmitBuffers with these buffers of the pool: the tick they signal is the next.
Submits(buffers) ==
  /\ tick < MaxTick
  /\ last' = [i \in Slots |-> IF i \in buffers THEN tick ELSE last[i]]
  /\ tick' = tick + 1
  /\ UNCHANGED <<done, known, read, size, ticks, hint>>

SubmitOpen == /\ Submits(Open)
              /\ command' = None /\ prologue' = None /\ UNCHANGED batch

Flush == /\ pc = "open"
         /\ SubmitOpen
         /\ pc' = "begin" /\ target' = "command" /\ UNCHANGED arg
         /\ UNCHANGED recorder

\* FlushAndWait, Finish, and Wait for the tick that is being recorded.
FlushAndWait == /\ pc = "open"
                /\ SubmitOpen
                /\ pc' = "waits" /\ arg' = tick /\ target' = "command"
                /\ UNCHANGED recorder

Wait(k) == /\ pc = "open" /\ k \in 1 .. tick - 1 /\ ~IsFree(k)
           /\ pc' = "waits" /\ arg' = k
           /\ UNCHANGED <<timeline, pool, open, target, recorder>>

WaitEnds == /\ pc = "waits" /\ done >= arg
            /\ ReadCounter(Gpu)
            /\ pc' = "waited"
            /\ UNCHANGED <<tick, done, known, pool, open, arg, target, recorder>>

WaitReturns == /\ pc = "waited"
               /\ Publishes(Gpu)
               /\ pc' = IF command = None THEN "begin" ELSE "open"
               /\ arg' = 0
               /\ UNCHANGED <<tick, done, read, pool, open, target, recorder>>

UploadPrologue == /\ pc = "open" /\ prologue = None
                  /\ pc' = "begin" /\ target' = "prologue"
                  /\ UNCHANGED <<timeline, pool, open, arg, recorder>>

(***************************************************************************)
(* The recorder.  The worker takes a buffer of its whose last submission is *)
(* done, or a new one, and ends it; the GPU thread submits those recorded, *)
(* in order and in parts, and drops the rest.                              *)
(***************************************************************************)

Reusable(i) == fence[i] # Recording /\ IsFree(fence[i])

FirstReusable(i) == /\ i \in DOMAIN fence /\ Reusable(i)
                    /\ \A j \in DOMAIN fence : j < i => ~Reusable(j)

Records(i) == /\ fence' = [fence EXCEPT ![i] = Recording]
              /\ opened' = i /\ wpc' = "idle"
              /\ UNCHANGED <<recorded, holder, left, rlast>>

MayRecord == holder = Worker /\ opened = None /\ Len(recorded) < MaxRecorded

BeginRecording == /\ wpc = "idle" /\ MayRecord
                  /\ \E i \in DOMAIN fence : FirstReusable(i) /\ Records(i)
                  /\ UNCHANGED <<timeline, pool, open, control>>

BeginReads == /\ wpc = "idle" /\ MayRecord
              /\ \A i \in DOMAIN fence : ~Reusable(i)
              /\ ReadCounter(Worker)
              /\ wpc' = "refresh"
              /\ UNCHANGED <<tick, done, known, pool, open, control, fence,
                             recorded, opened, holder, left, rlast>>

BeginPublishes == /\ wpc = "refresh"
                  /\ Publishes(Worker)
                  /\ wpc' = "search"
                  /\ UNCHANGED <<tick, done, read, pool, open, control, fence,
                                 recorded, opened, holder, left, rlast>>

BeginSearches == /\ wpc = "search"
                 /\ \E i \in DOMAIN fence : FirstReusable(i) /\ Records(i)
                 /\ UNCHANGED <<timeline, pool, open, control>>

BeginAllocates == /\ wpc = "search"
                  /\ \A i \in DOMAIN fence : ~Reusable(i)
                  /\ fence' = Append(fence, Recording) /\ rlast' = Append(rlast, 0)
                  /\ opened' = Len(fence) + 1 /\ wpc' = "idle"
                  /\ UNCHANGED <<timeline, pool, open, control, recorded, holder, left>>

EndRecording == /\ wpc = "idle" /\ opened # None
                /\ recorded' = Append(recorded, opened) /\ opened' = None
                /\ UNCHANGED <<timeline, pool, open, control, fence, holder, wpc,
                               left, rlast>>

\* The translation is over: its result goes to the GPU thread.
HandOver == /\ wpc = "idle" /\ holder = Worker
            /\ holder' = Gpu
            /\ UNCHANGED <<timeline, pool, open, control, fence, recorded, opened,
                           wpc, left, rlast>>

\* SubmitRecorded(count), until its first submission.
SubmitRecorded(count) ==
  /\ pc = "open" /\ holder = Gpu /\ opened = None /\ count <= Len(recorded)
  /\ batch' = Open /\ command' = None /\ prologue' = None
  /\ pc' = "submits" /\ left' = count
  /\ UNCHANGED <<timeline, pool, arg, target, fence, recorded, opened, holder,
                 wpc, rlast>>

\* One submission: the batch and as many recorded buffers as fit.
Fitting == IF MaxEntries - Cardinality(batch) < left
           THEN MaxEntries - Cardinality(batch) ELSE left

\* Mutant: those submitted keep the mark of a buffer being recorded.
SubmitPartUnfenced ==
  /\ pc = "submits"
  /\ Submits(batch)
  /\ \E m \in 0 .. left :
       /\ m = Fitting
       /\ LET now == {recorded[j] : j \in 1 .. m}
          IN  rlast' = [i \in DOMAIN rlast |-> IF i \in now THEN tick ELSE rlast[i]]
       /\ recorded' = SubSeq(recorded, m + 1, Len(recorded))
       /\ left' = left - m
       /\ pc' = IF left = m THEN "begin" ELSE "submits"
  /\ batch' = {} /\ target' = "command"
  /\ UNCHANGED <<command, prologue, arg, fence, opened, holder, wpc>>

SubmitPart ==
  /\ pc = "submits"
  /\ Submits(batch)
  /\ \E m \in 0 .. left :
       /\ m = Fitting
       /\ LET now == {recorded[j] : j \in 1 .. m}
          IN  /\ fence' = [i \in DOMAIN fence |-> IF i \in now THEN tick ELSE fence[i]]
              /\ rlast' = [i \in DOMAIN rlast |-> IF i \in now THEN tick ELSE rlast[i]]
       /\ recorded' = SubSeq(recorded, m + 1, Len(recorded))
       /\ left' = left - m
       /\ pc' = IF left = m THEN "begin" ELSE "submits"
  /\ batch' = {} /\ target' = "command"
  /\ UNCHANGED <<command, prologue, arg, opened, holder, wpc>>

\* The GPU thread is done with the result; what was not submitted is dropped.
DiscardRecorded ==
  /\ pc = "open" /\ holder = Gpu
  /\ fence' = [i \in DOMAIN fence |-> IF fence[i] = Recording THEN 0 ELSE fence[i]]
  /\ recorded' = <<>> /\ opened' = None /\ holder' = Worker
  /\ UNCHANGED <<timeline, pool, open, control, wpc, left, rlast>>

(***************************************************************************)
(* Specification.                                                          *)
(***************************************************************************)

GpuThread ==
  \/ CommitKnown \/ CommitReads \/ CommitPublishes \/ CommitSearches \/ Grow
  \/ Flush \/ FlushAndWait \/ (\E k \in 1 .. MaxTick : Wait(k)) \/ WaitEnds
  \/ WaitReturns \/ UploadPrologue
  \/ (\E count \in 0 .. MaxRecorded : SubmitRecorded(count)) \/ SubmitPart
  \/ DiscardRecorded

WorkerThread ==
  \/ BeginRecording \/ BeginReads \/ BeginPublishes \/ BeginSearches
  \/ BeginAllocates \/ EndRecording \/ HandOver

Next == \/ GpuFinishes \/ GpuThread \/ WorkerThread
        \/ \E t \in Others : OtherReads(t) \/ OtherPublishes(t)

Spec == Init /\ [][Next]_vars

(***************************************************************************)
(* Properties.                                                             *)
(***************************************************************************)

TimelineOK ==
  /\ tick \in Nat /\ done \in Nat /\ known \in Nat
  /\ read \in [Threads -> Nat]
  /\ done < tick /\ known <= done /\ \A t \in Threads : read[t] <= done

PoolOK ==
  /\ size \in Nat /\ ticks \in [Slots -> Nat] /\ last \in [Slots -> Nat]
  /\ hint \in 0 .. size

OpenOK ==
  /\ command \in Slots \cup {None} /\ prologue \in Slots \cup {None}
  /\ batch \subseteq Slots
  /\ pc \in {"begin", "refresh", "search", "open", "waits", "waited", "submits"}
  /\ arg \in Nat /\ target \in {"command", "prologue"}

RecorderOK ==
  /\ fence \in Seq(Nat \cup {Recording}) /\ rlast \in Seq(Nat)
  /\ Len(rlast) = Len(fence)
  /\ recorded \in Seq(DOMAIN fence) /\ opened \in DOMAIN fence \cup {None}
  /\ holder \in {Worker, Gpu} /\ wpc \in {"idle", "refresh", "search"}
  /\ left \in 0 .. Len(recorded)

\* Every variable keeps its type, and no thread takes the GPU to be further
\* than it is.
TypeOK == TimelineOK /\ PoolOK /\ OpenOK /\ RecorderOK

\* A buffer that is open, or about to be submitted, is not one the GPU still has.
OpenIsFree == \A i \in Open \cup batch : last[i] <= done

\* A pool buffer is fenced with the very tick its submission signals, although
\* it gets the tick when it is opened.
FenceIsSubmission == \A i \in Slots :
  ticks[i] = IF i \in Open \cup batch THEN tick ELSE last[i]

\* The recorder's buffers that are recorded into or wait to be submitted are
\* not with the GPU, and the fence of the others covers their last submission.
RecorderIsFree == \A i \in DOMAIN fence :
  IF fence[i] = Recording THEN rlast[i] <= done
                          ELSE rlast[i] <= done \/ rlast[i] = fence[i]

\* A recorded buffer is recorded once, and stays marked until it is submitted
\* or dropped.
RecordedOnce ==
  /\ \A i, j \in DOMAIN recorded : recorded[i] = recorded[j] => i = j
  /\ \A j \in DOMAIN recorded : recorded[j] # opened
  /\ \A i \in DOMAIN fence :
       fence[i] = Recording <=> (i = opened \/ \E j \in DOMAIN recorded : recorded[j] = i)

\* What is known of the GPU's progress never goes back, whoever refreshes it.
KnownNeverFalls == [][known <= known']_vars

=============================================================================
