--------------------------- MODULE Renderer_proofs ---------------------------
(***************************************************************************)
(* Proofs about the renderer, for any number of threads, submissions,      *)
(* queues and pages: the GPU's progress is never overestimated and no      *)
(* buffer is opened that the GPU still has (CommandBuffers); who added an  *)
(* event hears of each interrupt (Interrupts); no write to a tracked page  *)
(* is lost (PageTracking); and every flip and every frame is where it      *)
(* belongs (FlipQueue).                                                    *)
(***************************************************************************)
EXTENDS Renderer, FiniteSets, FiniteSetTheorems, TLAPS

USE DEF Threads, Slots

\* What a step can do to the timeline.
TimelineStep ==
  \/ UNCHANGED timeline
  \/ done < tick - 1 /\ done' = done + 1 /\ UNCHANGED <<tick, known, read>>
  \/ \E t \in Threads : ReadCounter(t) /\ UNCHANGED <<tick, done, known>>
  \/ \E t \in Threads : Publishes(t) /\ UNCHANGED <<tick, done, read>>
  \/ tick' = tick + 1 /\ UNCHANGED <<done, known, read>>

LEMMA NextIsTimelineStep == [Next]_vars => TimelineStep
  <1> SUFFICES ASSUME [Next]_vars PROVE TimelineStep
      OBVIOUS
  <1> USE DEF TimelineStep
  <1>1. CASE UNCHANGED vars
        BY <1>1 DEF vars
  <1>2. CASE GpuFinishes
        BY <1>2 DEF GpuFinishes
  <1>3. ASSUME NEW t \in Others, OtherReads(t) \/ OtherPublishes(t) PROVE TimelineStep
        BY <1>3 DEF OtherReads, OtherPublishes
  <1>4. CASE CommitKnown \/ CommitSearches \/ Grow \/ UploadPrologue \/ DiscardRecorded
        BY <1>4 DEF CommitKnown, CommitSearches, Grow, UploadPrologue, DiscardRecorded
  <1>5. CASE CommitReads \/ WaitEnds
        BY <1>5 DEF CommitReads, WaitEnds
  <1>6. CASE CommitPublishes \/ WaitReturns
        BY <1>6 DEF CommitPublishes, WaitReturns
  <1>7. CASE Flush \/ FlushAndWait \/ SubmitPart
        BY <1>7 DEF Flush, FlushAndWait, SubmitPart, SubmitOpen, Submits
  <1>8. CASE (\E k \in 1 .. MaxTick : Wait(k)) \/ \E c \in 0 .. MaxRecorded : SubmitRecorded(c)
        BY <1>8 DEF Wait, SubmitRecorded
  <1>9. CASE WorkerThread
        BY <1>9 DEF WorkerThread, BeginRecording, BeginReads, BeginPublishes, BeginSearches,
                    BeginAllocates, EndRecording, HandOver
  <1> QED BY <1>1, <1>2, <1>3, <1>4, <1>5, <1>6, <1>7, <1>8, <1>9 DEF Next, GpuThread

LEMMA TimelineKept == TimelineOK /\ TimelineStep => TimelineOK' /\ known <= known' /\ done <= done'
  <1> SUFFICES ASSUME TimelineOK, TimelineStep
               PROVE  TimelineOK' /\ known <= known' /\ done <= done'
      OBVIOUS
  <1> USE DEF TimelineOK
  <1>1. CASE UNCHANGED timeline
        BY <1>1 DEF timeline
  <1>2. CASE done < tick - 1 /\ done' = done + 1 /\ UNCHANGED <<tick, known, read>>
        BY <1>2
  <1>3. ASSUME NEW t \in Threads, ReadCounter(t), UNCHANGED <<tick, done, known>>
        PROVE  TimelineOK' /\ known <= known' /\ done <= done'
        BY <1>3 DEF ReadCounter
  <1>4. ASSUME NEW t \in Threads, Publishes(t), UNCHANGED <<tick, done, read>>
        PROVE  TimelineOK' /\ known <= known' /\ done <= done'
        BY <1>4 DEF Publishes
  <1>5. CASE tick' = tick + 1 /\ UNCHANGED <<done, known, read>>
        BY <1>5
  <1> QED BY <1>1, <1>2, <1>3, <1>4, <1>5 DEF TimelineStep

\* The cached tick is never ahead of the GPU, nor the GPU of the submissions.
THEOREM Timeline == Spec => []TimelineOK
  <1>1. Init => TimelineOK
        BY DEF Init, TimelineOK
  <1>2. TimelineOK /\ [Next]_vars => TimelineOK'
        BY NextIsTimelineStep, TimelineKept
  <1> QED BY <1>1, <1>2, PTL DEF Spec

\* What is known of the GPU's progress never goes back (MasterSemaphore::Refresh
\* by any number of threads).
THEOREM Monotone == Spec => KnownNeverFalls
  <1>1. TimelineOK /\ [Next]_vars => [known <= known']_vars
        BY NextIsTimelineStep, TimelineKept
  <1> QED BY <1>1, Timeline, PTL DEF Spec, KnownNeverFalls

(***************************************************************************)
(* The pool.  What is open depends on where the GPU thread is: nothing is  *)
(* when it begins a command buffer, only that when it begins the prologue, *)
(* and a batch exists only between the submissions of SubmitRecorded.      *)
(***************************************************************************)
SlotsOK == size \in Nat /\ ticks \in [Slots -> Nat] /\ last \in [Slots -> Nat]

Phases ==
  /\ command \in Slots \cup {None} /\ prologue \in Slots \cup {None}
  /\ batch \subseteq Slots /\ target \in {"command", "prologue"}
  /\ pc \in {"begin", "refresh", "search", "open", "waits", "waited", "submits"}
  /\ pc # "submits" => batch = {}
  /\ pc \in {"begin", "refresh", "search"} =>
       prologue = None /\ (target = "command" <=> command = None)
  /\ pc = "open" => command # None
  /\ pc \in {"waits", "waited"} /\ command = None => prologue = None /\ target = "command"
  /\ pc = "submits" => command = None /\ prologue = None

PoolInv == SlotsOK /\ Phases /\ OpenIsFree /\ FenceIsSubmission

\* A free buffer that is opened was not open and is not with the GPU.
LEMMA TakeKeeps ==
  ASSUME TimelineOK, PoolInv, pc \in {"begin", "search"}, NEW i \in Slots, IsFree(ticks[i]),
         Take(i), UNCHANGED timeline
  PROVE  PoolInv'
  <1> USE BuffersAssumption
  <1>1. batch = {} /\ batch' = {} /\ size' = size /\ last' = last /\ tick' = tick /\ done' = done
        BY DEF PoolInv, Phases, Take, Opens, timeline
  <1>2. i \notin Open /\ last[i] = ticks[i] /\ last[i] <= done /\ i # None
        BY <1>1 DEF PoolInv, FenceIsSubmission, SlotsOK, TimelineOK, IsFree, Open
  <1>3. Open' = Open \cup {i}
        BY <1>2 DEF PoolInv, Phases, Take, Opens, Open
  <1>4. SlotsOK'
        BY <1>1 DEF PoolInv, SlotsOK, Take, TimelineOK
  <1>5. Phases'
        BY <1>1, <1>2 DEF PoolInv, Phases, Take, Opens
  <1>6. OpenIsFree'
        BY <1>1, <1>2, <1>3 DEF PoolInv, OpenIsFree
  <1>7. FenceIsSubmission'
        BY <1>1, <1>2, <1>3 DEF PoolInv, SlotsOK, FenceIsSubmission, Take
  <1> QED BY <1>4, <1>5, <1>6, <1>7 DEF PoolInv

LEMMA SlotsGrow ==
  ASSUME NEW a \in Nat, NEW b \in Nat, a < b
  PROVE  \A j \in 0 .. a - 1 : j \in 0 .. b - 1 /\ j < a /\ j # a
  OBVIOUS

LEMMA GrowKeeps == TimelineOK /\ PoolInv /\ Grow => PoolInv'
  <1> SUFFICES ASSUME TimelineOK, PoolInv, Grow PROVE PoolInv'
      OBVIOUS
  <1> USE BuffersAssumption
  <1>1. batch = {} /\ batch' = {} /\ tick' = tick /\ done' = done /\ size' = size + GrowStep
        BY DEF PoolInv, Phases, Grow, Opens, timeline
  <1>2. /\ size \in Nat /\ size' \in Nat /\ size < size' /\ size \in Slots' /\ size \notin Slots
        /\ Slots \subseteq Slots' /\ size # None
        BY <1>1 DEF PoolInv, SlotsOK
  <1>3. size \notin Open /\ Open' = Open \cup {size}
        BY <1>2 DEF PoolInv, Phases, Grow, Opens, Open
  <1>3a. Open \subseteq Slots
        BY DEF PoolInv, Phases, Open
  <1>4. /\ ticks' = [j \in Slots' |-> IF j = size THEN tick ELSE IF j < size THEN ticks[j] ELSE 0]
        /\ last' = [j \in Slots' |-> IF j < size THEN last[j] ELSE 0]
        BY DEF Grow
  <1>4a. \A j \in Slots : j \in Slots' /\ ticks'[j] = ticks[j] /\ last'[j] = last[j]
        <2> TAKE j \in Slots
        <2>1. j \in Slots' /\ j < size /\ j # size
              BY <1>2, SlotsGrow
        <2> QED BY <2>1, <1>4
  <1>4b. last'[size] = 0
        BY <1>2, <1>4
  <1>5. SlotsOK'
        <2>1. \A j \in Slots' : j < size => ticks[j] \in Nat /\ last[j] \in Nat
              BY <1>2 DEF PoolInv, SlotsOK
        <2>2. \A j \in Slots' : (IF j = size THEN tick ELSE IF j < size THEN ticks[j] ELSE 0) \in Nat
              BY <2>1 DEF TimelineOK
        <2>3. \A j \in Slots' : (IF j < size THEN last[j] ELSE 0) \in Nat
              BY <2>1
        <2>4. ticks' \in [Slots' -> Nat] /\ last' \in [Slots' -> Nat]
              BY <1>4, <2>2, <2>3, Zenon
        <2> QED BY <1>2, <2>4 DEF SlotsOK
  <1>6. Phases'
        BY <1>1, <1>2 DEF PoolInv, Phases, Grow, Opens
  <1>7. OpenIsFree'
        BY <1>1, <1>3, <1>3a, <1>4a, <1>4b DEF PoolInv, OpenIsFree, TimelineOK
  <1>8. FenceIsSubmission'
        <2> SUFFICES ASSUME NEW j \in Slots'
                     PROVE  ticks'[j] = IF j \in Open' \cup batch' THEN tick' ELSE last'[j]
            BY DEF FenceIsSubmission
        <2>1. CASE j = size
              BY <2>1, <1>1, <1>2, <1>3, <1>4
        <2>2. CASE j < size
              <3>1. j \in Slots /\ j # size
                    BY <2>2, <1>2
              <3> QED BY <3>1, <1>1, <1>3, <1>4a DEF PoolInv, FenceIsSubmission
        <2>3. CASE j > size
              <3>1. j \notin Open' /\ ticks'[j] = 0 /\ last'[j] = 0
                    BY <2>3, <1>2, <1>3, <1>3a, <1>4
              <3> QED BY <3>1, <1>1
        <2> QED BY <2>1, <2>2, <2>3, <1>2
  <1> QED BY <1>5, <1>6, <1>7, <1>8 DEF PoolInv

\* Everything open is submitted at once, so its fence is the tick signalled.
LEMMA SubmitsKeeps ==
  ASSUME TimelineOK, PoolInv, NEW buffers, buffers = Open \cup batch, Submits(buffers),
         Open' = {}, batch' = {}
  PROVE  SlotsOK' /\ OpenIsFree' /\ FenceIsSubmission'
  <1>1. /\ size' = size /\ ticks' = ticks
        /\ last' = [i \in Slots |-> IF i \in buffers THEN tick ELSE last[i]]
        BY DEF Submits
  <1>2. SlotsOK'
        BY <1>1 DEF PoolInv, SlotsOK, TimelineOK
  <1>3. OpenIsFree'
        BY DEF OpenIsFree
  <1>4. FenceIsSubmission'
        BY <1>1 DEF PoolInv, SlotsOK, FenceIsSubmission
  <1> QED BY <1>2, <1>3, <1>4

LEMMA FlushKeeps == TimelineOK /\ PoolInv /\ (Flush \/ FlushAndWait) => PoolInv'
  <1> SUFFICES ASSUME TimelineOK, PoolInv, Flush \/ FlushAndWait PROVE PoolInv'
      OBVIOUS
  <1>1. /\ Submits(Open) /\ batch = {} /\ batch' = {} /\ Open' = {}
        /\ command' = None /\ prologue' = None /\ size' = size
        BY DEF PoolInv, Phases, Flush, FlushAndWait, SubmitOpen, Open, Submits
  <1>2. SlotsOK' /\ OpenIsFree' /\ FenceIsSubmission'
        BY <1>1, SubmitsKeeps
  <1>3. Phases'
        BY <1>1 DEF Phases, Flush, FlushAndWait
  <1> QED BY <1>2, <1>3 DEF PoolInv

LEMMA SubmitPartKeeps == TimelineOK /\ PoolInv /\ SubmitPart => PoolInv'
  <1> SUFFICES ASSUME TimelineOK, PoolInv, SubmitPart PROVE PoolInv'
      OBVIOUS
  <1>1. /\ Submits(batch) /\ batch' = {} /\ Open = {} /\ Open' = {} /\ size' = size
        /\ command' = None /\ prologue' = None
        /\ pc' \in {"begin", "submits"} /\ target' = "command"
        BY DEF PoolInv, Phases, SubmitPart, Open, Submits
  <1>2. SlotsOK' /\ OpenIsFree' /\ FenceIsSubmission'
        BY <1>1, SubmitsKeeps
  <1>3. Phases'
        BY <1>1 DEF Phases
  <1> QED BY <1>2, <1>3 DEF PoolInv

\* Steps that open, close and submit nothing.
LEMMA QuietKeeps ==
  ASSUME TimelineOK, PoolInv, UNCHANGED <<pool, command, prologue, batch, tick>>,
         done \in Nat, done' \in Nat, done <= done', Phases'
  PROVE  PoolInv'
  <1>1. Open' = Open /\ batch' = batch /\ Slots' = Slots
        BY DEF Open, pool
  <1>2. \A i \in Open \cup batch : last[i] \in Nat
        BY BuffersAssumption DEF PoolInv, Phases, SlotsOK, Open
  <1> QED BY <1>1, <1>2 DEF PoolInv, SlotsOK, OpenIsFree, FenceIsSubmission, pool

LEMMA PoolKept == TimelineOK /\ PoolInv /\ [Next]_vars => PoolInv'
  <1> SUFFICES ASSUME TimelineOK, PoolInv, [Next]_vars PROVE PoolInv'
      OBVIOUS
  <1>0. done \in Nat /\ done' \in Nat /\ done <= done'
        BY NextIsTimelineStep, TimelineKept DEF TimelineOK
  <1> DEFINE Quiet == UNCHANGED <<pool, command, prologue, batch, tick>> /\ Phases'
  <1>q. ASSUME Quiet PROVE PoolInv'
        BY <1>q, <1>0, QuietKeeps
  <1>1. CASE UNCHANGED vars
        <2>1. Quiet
              BY <1>1 DEF vars, timeline, pool, open, control, PoolInv, Phases
        <2> QED BY <2>1, <1>q
  <1>2. CASE GpuFinishes
        <2>1. Quiet
              BY <1>2 DEF GpuFinishes, pool, open, control, PoolInv, Phases
        <2> QED BY <2>1, <1>q
  <1>3. ASSUME NEW t \in Others, OtherReads(t) \/ OtherPublishes(t) PROVE PoolInv'
        <2>1. Quiet
              BY <1>3 DEF OtherReads, OtherPublishes, pool, open, control, PoolInv, Phases
        <2> QED BY <2>1, <1>q
  <1>4. CASE WorkerThread
        <2>1. Quiet
              BY <1>4 DEF WorkerThread, BeginRecording, BeginReads, BeginPublishes,
                 BeginSearches, BeginAllocates, EndRecording, HandOver, timeline, pool,
                 open, control, PoolInv, Phases
        <2> QED BY <2>1, <1>q
  <1>5. CASE CommitReads \/ CommitPublishes
        <2>1. Quiet
              BY <1>5 DEF CommitReads, CommitPublishes, pool, open, PoolInv, Phases
        <2> QED BY <2>1, <1>q
  <1>6. CASE (\E k \in 1 .. MaxTick : Wait(k)) \/ WaitEnds \/ WaitReturns
        <2>1. Quiet
              BY <1>6 DEF Wait, WaitEnds, WaitReturns, timeline, pool, open, PoolInv, Phases
        <2> QED BY <2>1, <1>q
  <1>7. CASE UploadPrologue \/ DiscardRecorded
        <2>1. Quiet
              BY <1>7 DEF UploadPrologue, DiscardRecorded, timeline, pool, open, control,
                 PoolInv, Phases
        <2> QED BY <2>1, <1>q
  <1>8. ASSUME NEW c \in 0 .. MaxRecorded, SubmitRecorded(c) PROVE PoolInv'
        <2>1. /\ batch = {} /\ batch' = Open /\ Open' = {} /\ UNCHANGED <<timeline, pool>>
              BY <1>8 DEF SubmitRecorded, Open, PoolInv, Phases
        <2>2. Phases'
              BY <1>8, <2>1 DEF SubmitRecorded, PoolInv, Phases, Open, pool
        <2> QED BY <2>1, <2>2 DEF PoolInv, SlotsOK, OpenIsFree, FenceIsSubmission, timeline, pool
  <1>9. CASE CommitKnown \/ CommitSearches
        <2>1. PICK i \in Slots : IsFree(ticks[i]) /\ Take(i)
              BY <1>9 DEF CommitKnown, CommitSearches, Search, FirstFree
        <2>2. pc \in {"begin", "search"} /\ UNCHANGED timeline
              BY <1>9 DEF CommitKnown, CommitSearches
        <2> QED BY <2>1, <2>2, TakeKeeps
  <1>10. CASE Grow
        BY <1>10, GrowKeeps
  <1>11. CASE Flush \/ FlushAndWait
        BY <1>11, FlushKeeps
  <1>12. CASE SubmitPart
        BY <1>12, SubmitPartKeeps
  <1> QED BY <1>1, <1>2, <1>3, <1>4, <1>5, <1>6, <1>7, <1>8, <1>9, <1>10, <1>11, <1>12
          DEF Next, GpuThread

LEMMA PoolStarts == Init => PoolInv
  <1> SUFFICES ASSUME Init PROVE PoolInv
      OBVIOUS
  <1>1. Slots = {} /\ Open = {} /\ batch = {}
        BY DEF Init, Open
  <1>2. SlotsOK
        BY <1>1 DEF Init, SlotsOK
  <1>3. Phases
        BY <1>1 DEF Init, Phases
  <1> QED BY <1>1, <1>2, <1>3 DEF PoolInv, OpenIsFree, FenceIsSubmission

LEMMA PoolAlways == Spec => []PoolInv
  <1>1. TimelineOK /\ PoolInv /\ [Next]_vars => PoolInv'
        BY PoolKept
  <1> QED BY <1>1, PoolStarts, Timeline, PTL DEF Spec

\* No buffer is opened, or put into a submission, that the GPU still has
\* (CommandPool::Commit).
THEOREM NoBufferInFlightIsOpened == Spec => []OpenIsFree
  <1>1. PoolInv => OpenIsFree
        BY DEF PoolInv
  <1> QED BY <1>1, PoolAlways, PTL

\* The tick a buffer is fenced with when it is opened is the one its
\* submission signals.
THEOREM FencesAreSubmissions == Spec => []FenceIsSubmission
  <1>1. PoolInv => FenceIsSubmission
        BY DEF PoolInv
  <1> QED BY <1>1, PoolAlways, PTL

(***************************************************************************)
(* The recorder.  Which buffers are recorded does not matter here: a       *)
(* buffer is marked only when its last submission is known to be done, and *)
(* loses the mark to the tick of a submission or when it is dropped.       *)
(***************************************************************************)
FencesOK == /\ fence \in Seq(Nat \cup {Recording}) /\ rlast \in Seq(Nat)
            /\ Len(rlast) = Len(fence)

RecorderInv == FencesOK /\ RecorderIsFree

LEMMA SameEverywhere ==
  ASSUME NEW S, NEW f, NEW n \in Nat, f = [i \in 1 .. n |-> f[i]],
         \A i \in 1 .. n : f[i] \in S
  PROVE  f \in Seq(S) /\ Len(f) = n /\ DOMAIN f = 1 .. n
  OBVIOUS

LEMMA RecordsKeeps ==
  ASSUME TimelineOK, RecorderInv, NEW i \in DOMAIN fence, Reusable(i), Records(i),
         UNCHANGED timeline
  PROVE  RecorderInv'
  <1>1. rlast[i] <= done
        BY DEF Reusable, IsFree, RecorderInv, FencesOK, RecorderIsFree, TimelineOK, Recording
  <1>2. fence' = [fence EXCEPT ![i] = Recording] /\ rlast' = rlast /\ done' = done
        BY DEF Records, timeline
  <1>3. FencesOK'
        BY <1>2 DEF RecorderInv, FencesOK, Recording
  <1>4. RecorderIsFree'
        BY <1>1, <1>2 DEF RecorderInv, FencesOK, RecorderIsFree
  <1> QED BY <1>3, <1>4 DEF RecorderInv

LEMMA AllocatesKeeps ==
  ASSUME TimelineOK, RecorderInv, BeginAllocates
  PROVE  RecorderInv'
  <1>1. fence' = Append(fence, Recording) /\ rlast' = Append(rlast, 0) /\ done' = done
        BY DEF BeginAllocates, timeline
  <1>2. FencesOK'
        BY <1>1 DEF RecorderInv, FencesOK, Recording
  <1>3. RecorderIsFree'
        <2> SUFFICES ASSUME NEW i \in DOMAIN fence'
                     PROVE  IF fence'[i] = Recording THEN rlast'[i] <= done'
                            ELSE rlast'[i] <= done' \/ rlast'[i] = fence'[i]
            BY DEF RecorderIsFree
        <2>1. i \in 1 .. Len(fence) + 1
              BY <1>1 DEF RecorderInv, FencesOK, Recording
        <2>2. CASE i = Len(fence) + 1
              BY <1>1, <2>2 DEF RecorderInv, FencesOK, Recording, TimelineOK
        <2>3. CASE i \in 1 .. Len(fence)
              BY <1>1, <2>3 DEF RecorderInv, FencesOK, RecorderIsFree, Recording
        <2> QED BY <2>1, <2>2, <2>3 DEF RecorderInv, FencesOK
  <1> QED BY <1>2, <1>3 DEF RecorderInv

LEMMA SubmitPartFences == TimelineOK /\ RecorderInv /\ SubmitPart => RecorderInv'
  <1> SUFFICES ASSUME TimelineOK, RecorderInv, SubmitPart PROVE RecorderInv'
      OBVIOUS
  <1>1. PICK now :
          /\ fence' = [i \in DOMAIN fence |-> IF i \in now THEN tick ELSE fence[i]]
          /\ rlast' = [i \in DOMAIN rlast |-> IF i \in now THEN tick ELSE rlast[i]]
        BY DEF SubmitPart
  <1>2. done' = done /\ tick \in Nat /\ tick # Recording
        BY DEF SubmitPart, Submits, TimelineOK, Recording
  <1>3. /\ DOMAIN fence = 1 .. Len(fence) /\ DOMAIN rlast = 1 .. Len(fence) /\ Len(fence) \in Nat
        /\ \A i \in 1 .. Len(fence) : fence[i] \in Nat \cup {Recording} /\ rlast[i] \in Nat
        BY DEF RecorderInv, FencesOK
  <1>4. fence' \in Seq(Nat \cup {Recording}) /\ Len(fence') = Len(fence) /\ DOMAIN fence' = DOMAIN fence
        BY <1>1, <1>2, <1>3, SameEverywhere
  <1>5. rlast' \in Seq(Nat) /\ Len(rlast') = Len(fence)
        BY <1>1, <1>2, <1>3, SameEverywhere
  <1>6. RecorderIsFree'
        BY <1>1, <1>2, <1>3, <1>4 DEF RecorderInv, RecorderIsFree
  <1> QED BY <1>4, <1>5, <1>6 DEF RecorderInv, FencesOK

LEMMA DiscardKeeps == TimelineOK /\ RecorderInv /\ DiscardRecorded => RecorderInv'
  <1> SUFFICES ASSUME TimelineOK, RecorderInv, DiscardRecorded PROVE RecorderInv'
      OBVIOUS
  <1>1. /\ fence' = [i \in DOMAIN fence |-> IF fence[i] = Recording THEN 0 ELSE fence[i]]
        /\ rlast' = rlast /\ done' = done
        BY DEF DiscardRecorded, timeline
  <1>2. /\ DOMAIN fence = 1 .. Len(fence) /\ Len(fence) \in Nat
        /\ \A i \in 1 .. Len(fence) : fence[i] \in Nat \cup {Recording}
        BY DEF RecorderInv, FencesOK
  <1>3. fence' \in Seq(Nat \cup {Recording}) /\ Len(fence') = Len(fence) /\ DOMAIN fence' = DOMAIN fence
        BY <1>1, <1>2, SameEverywhere
  <1>4. FencesOK'
        BY <1>1, <1>3 DEF RecorderInv, FencesOK
  <1>5. RecorderIsFree'
        BY <1>1, <1>3 DEF RecorderInv, RecorderIsFree, Recording
  <1> QED BY <1>4, <1>5 DEF RecorderInv

LEMMA RecorderQuiet ==
  ASSUME TimelineOK, RecorderInv, UNCHANGED <<fence, rlast>>, done' \in Nat, done <= done'
  PROVE  RecorderInv'
  BY DEF RecorderInv, FencesOK, RecorderIsFree, TimelineOK

LEMMA RecorderKept == TimelineOK /\ RecorderInv /\ [Next]_vars => RecorderInv'
  <1> SUFFICES ASSUME TimelineOK, RecorderInv, [Next]_vars PROVE RecorderInv'
      OBVIOUS
  <1>0. done' \in Nat /\ done <= done'
        BY NextIsTimelineStep, TimelineKept DEF TimelineOK
  <1>q. ASSUME UNCHANGED <<fence, rlast>> PROVE RecorderInv'
        BY <1>q, <1>0, RecorderQuiet
  <1>1. CASE UNCHANGED vars \/ GpuFinishes \/ \E t \in Others : OtherReads(t) \/ OtherPublishes(t)
        BY <1>1, <1>q DEF vars, recorder, GpuFinishes, OtherReads, OtherPublishes
  <1>2. CASE \/ CommitKnown \/ CommitReads \/ CommitPublishes \/ CommitSearches \/ Grow
             \/ Flush \/ FlushAndWait \/ (\E k \in 1 .. MaxTick : Wait(k)) \/ WaitEnds
             \/ WaitReturns \/ UploadPrologue \/ (\E c \in 0 .. MaxRecorded : SubmitRecorded(c))
        BY <1>2, <1>q DEF recorder, CommitKnown, CommitReads, CommitPublishes, CommitSearches,
           Grow, Flush, FlushAndWait, Wait, WaitEnds, WaitReturns, UploadPrologue, SubmitRecorded
  <1>3. CASE BeginReads \/ BeginPublishes \/ EndRecording \/ HandOver
        BY <1>3, <1>q DEF BeginReads, BeginPublishes, EndRecording, HandOver
  <1>4. CASE BeginRecording \/ BeginSearches
        <2>1. PICK i \in DOMAIN fence : Reusable(i) /\ Records(i)
              BY <1>4 DEF BeginRecording, BeginSearches, FirstReusable
        <2>2. UNCHANGED timeline
              BY <1>4 DEF BeginRecording, BeginSearches
        <2> QED BY <2>1, <2>2, RecordsKeeps
  <1>5. CASE BeginAllocates
        BY <1>5, AllocatesKeeps
  <1>6. CASE SubmitPart \/ DiscardRecorded
        BY <1>6, SubmitPartFences, DiscardKeeps
  <1> QED BY <1>1, <1>2, <1>3, <1>4, <1>5, <1>6 DEF Next, GpuThread, WorkerThread

\* A recorder's buffer that is recorded into is not with the GPU, and the fence
\* of any other covers its last submission (BeginRecording, SubmitRecorded).
THEOREM NoRecordedBufferIsInFlight == Spec => []RecorderIsFree
  <1>1. Init => RecorderInv
        BY DEF Init, RecorderInv, FencesOK, RecorderIsFree
  <1>2. TimelineOK /\ RecorderInv /\ [Next]_vars => RecorderInv'
        BY RecorderKept
  <1>3. RecorderInv => RecorderIsFree
        BY DEF RecorderInv
  <1> QED BY <1>1, <1>2, <1>3, Timeline, PTL DEF Spec
\* What is queued to be registered, triggered or erased is there, and an event that is
\* present while a thread is about to erase its registration counts as raced.
EventsWait == \A t \in Irqs!Threads : iThread[t].at # "idle" => iThread[t].events # <<>>
RacesAreKnown == \A e \in iPresent : Irqs!Erasing(e) # {} => e \in iRaced
Telling == Irqs!TypeOK /\ Irqs!RegisteredOnce /\ Irqs!EventsAreRegistered /\ EventsWait
           /\ RacesAreKnown

PlacesOfThreads == {"idle", "registers", "unregisters", "triggers", "erases"}

\* Erasing an event takes its only registration and keeps the others.
LEMMA EraseKeeps ==
  ASSUME Irqs!TypeOK, Irqs!RegisteredOnce, NEW e \in Irqs!Events, Irqs!Erase(e)
  PROVE  /\ iEqs' \in Seq(Irqs!Events) /\ Irqs!RegisteredOnce'
         /\ Irqs!Registered \ {e} \subseteq Irqs!Registered'
  <1> DEFINE I == {i \in DOMAIN iEqs : iEqs[i] = e}
             at == CHOOSE i \in I : \A j \in I : i <= j
  <1>0. /\ DOMAIN iEqs = 1 .. Len(iEqs) /\ Len(iEqs) \in Nat
        /\ \A i \in 1 .. Len(iEqs) : iEqs[i] \in Irqs!Events
        BY DEF Irqs!TypeOK
  <1>1. CASE I = {}
        <2>1. iEqs' = iEqs
              BY <1>1 DEF Irqs!Erase, Irqs!EraseFirst
        <2> QED BY <2>1 DEF Irqs!TypeOK, Irqs!RegisteredOnce, Irqs!Registered
  <1>2. CASE I # {}
        <2>1. PICK k \in 1 .. Len(iEqs) : iEqs[k] = e
              BY <1>2, <1>0
        <2>2. I = {k}
              BY <2>1, <1>0 DEF Irqs!RegisteredOnce
        <2>3. at = k
              BY <2>2, <1>0
        <2>4. iEqs' = [i \in 1 .. (Len(iEqs) - 1) |-> iEqs[IF i < k THEN i ELSE i + 1]]
              BY <1>2, <2>3 DEF Irqs!Erase, Irqs!EraseFirst
        <2> HIDE DEF I, at
        <2>5. /\ Len(iEqs) - 1 \in Nat
              /\ \A i \in 1 .. (Len(iEqs) - 1) : iEqs[IF i < k THEN i ELSE i + 1] \in Irqs!Events
              BY <1>0, <2>1
        <2>6. iEqs' \in Seq(Irqs!Events) /\ DOMAIN iEqs' = 1 .. (Len(iEqs) - 1)
              BY <2>4, <2>5
        <2>7. Irqs!RegisteredOnce'
              BY <2>4, <2>6, <1>0 DEF Irqs!RegisteredOnce
        <2>8. ASSUME NEW x \in Irqs!Registered \ {e} PROVE x \in Irqs!Registered'
              <3>1. PICK i \in 1 .. Len(iEqs) : iEqs[i] = x
                    BY <1>0 DEF Irqs!Registered
              <3>2. i # k
                    BY <3>1, <2>1
              <3>3. CASE i < k
                    <4>1. i \in 1 .. (Len(iEqs) - 1)
                          BY <3>3, <1>0
                    <4>2. iEqs'[i] = x
                          BY <4>1, <3>1, <3>3, <2>4
                    <4> QED BY <4>1, <4>2, <2>6 DEF Irqs!Registered
              <3>4. CASE i > k
                    <4>1. i - 1 \in 1 .. (Len(iEqs) - 1) /\ ~(i - 1 < k) /\ (i - 1) + 1 = i
                          BY <3>4, <1>0
                    <4>2. iEqs'[i - 1] = x
                          BY <4>1, <3>1, <2>4
                    <4> QED BY <4>1, <4>2, <2>6 DEF Irqs!Registered
              <3> QED BY <3>2, <3>3, <3>4, <1>0
        <2> QED BY <2>6, <2>7, <2>8
  <1> QED BY <1>1, <1>2

\* A step that leaves the registrations alone and puts one thread elsewhere.
LEMMA GoesKeepsTypes ==
  ASSUME NEW t \in Irqs!Threads, NEW where \in PlacesOfThreads, NEW s \in Seq(Irqs!Events),
         s # <<>> \/ where = "idle",
         Irqs!TypeOK, EventsWait, iThread' = [iThread EXCEPT ![t] = [at |-> where, events |-> s]]
  PROVE  /\ iThread' \in [Irqs!Threads -> [at : PlacesOfThreads, events : Seq(Irqs!Events)]]
         /\ EventsWait'
  BY DEF Irqs!TypeOK, EventsWait, PlacesOfThreads

LEMMA IdleIsPlace == Irqs!Idle = [at |-> "idle", events |-> <<>>] /\ <<>> \in Seq(Irqs!Events)
  BY DEF Irqs!Idle

\* A registration that only grows in these steps, and present that only shrinks.
LEMMA RegistrationsGrow ==
  ASSUME Telling, UNCHANGED iRaced, iPresent' \subseteq iPresent,
         Irqs!Registered \subseteq Irqs!Registered',
         \A g \in Guests : iThread[g].at = "registers" =>
            iThread'[g] = iThread[g] \/ iThread[g].events[1] \in Irqs!Registered',
         \A e \in iPresent' : Irqs!Erasing(e)' \subseteq Irqs!Erasing(e)
  PROVE  Irqs!EventsAreRegistered' /\ RacesAreKnown'
  <1>1. Irqs!EventsAreRegistered'
        BY DEF Telling, Irqs!EventsAreRegistered
  <1>2. RacesAreKnown'
        BY DEF Telling, RacesAreKnown
  <1> QED BY <1>1, <1>2

LEMMA ErasingKept ==
  ASSUME NEW t \in Irqs!Threads, iThread \in [Irqs!Threads -> [at : PlacesOfThreads,
         events : Seq(Irqs!Events)]],
         NEW where \in PlacesOfThreads, NEW s \in Seq(Irqs!Events),
         where \notin {"unregisters", "erases"},
         iThread' = [iThread EXCEPT ![t] = [at |-> where, events |-> s]]
  PROVE  \A e : Irqs!Erasing(e)' \subseteq Irqs!Erasing(e)
  BY DEF Irqs!Erasing

LEMMA AddKeeps == ASSUME Telling, NEW g \in Guests, NEW e \in Irqs!Events, Irqs!AddEvent(g,
                  e) PROVE Telling'
  <1> USE DEF Telling
  <1>1. g \in Irqs!Threads /\ <<e>> \in Seq(Irqs!Events) /\ <<e>> # <<>> /\ <<e>>[1] = e
        BY DEF Irqs!Threads
  <1>2. /\ UNCHANGED <<iOpen, iEqs>> /\ iPresent' = iPresent \cup {e} /\ iThread[g] = Irqs!Idle
        /\ iThread' = [iThread EXCEPT ![g] = [at |-> "registers", events |-> <<e>>]]
        /\ iRaced' = IF e \in iPresent THEN iRaced
                    ELSE IF Irqs!Erasing(e) = {} THEN iRaced \ {e} ELSE iRaced \cup {e}
        BY DEF Irqs!AddEvent, Irqs!Goes
  <1>3. iThread' \in [Irqs!Threads -> [at : PlacesOfThreads, events : Seq(Irqs!Events)]]
     /\ EventsWait'
        BY <1>1, <1>2, GoesKeepsTypes DEF PlacesOfThreads
  <1>4. Irqs!TypeOK'
        BY <1>2, <1>3 DEF Irqs!TypeOK, PlacesOfThreads
  <1>5. \A x : Irqs!Erasing(x)' \subseteq Irqs!Erasing(x)
        BY <1>1, <1>2, ErasingKept DEF Irqs!TypeOK, PlacesOfThreads
  <1>6. Irqs!RegisteredOnce' /\ Irqs!Registered' = Irqs!Registered
        BY <1>2 DEF Irqs!RegisteredOnce, Irqs!Registered
  <1>7. RacesAreKnown'
        BY <1>2, <1>5 DEF RacesAreKnown
  <1>8. iThread'[g].at = "registers" /\ iThread'[g].events[1] = e
        BY <1>1, <1>2 DEF Irqs!TypeOK
  <1>9. \A o \in Guests : iThread[o].at = "registers" => iThread'[o] = iThread[o]
        BY <1>1, <1>2 DEF Irqs!TypeOK, Irqs!Idle
  <1>10. Irqs!EventsAreRegistered'
        BY <1>2, <1>6, <1>8, <1>9 DEF Irqs!EventsAreRegistered
  <1> QED BY <1>3, <1>4, <1>6, <1>7, <1>10

LEMMA DeleteKeeps == ASSUME Telling, NEW g \in Guests, NEW e \in Irqs!Events, Irqs!DeleteEvent(g,
                     e) PROVE Telling'
  <1> USE DEF Telling
  <1>1. g \in Irqs!Threads /\ <<e>> \in Seq(Irqs!Events) /\ <<e>> # <<>> /\ Head(<<e>>) = e
        BY DEF Irqs!Threads
  <1>2. /\ UNCHANGED <<iOpen, iEqs, iRaced>> /\ iPresent' = iPresent \ {e} /\ iThread[g] = Irqs!Idle
        /\ iThread' = [iThread EXCEPT ![g] = [at |-> "unregisters", events |-> <<e>>]]
        BY DEF Irqs!DeleteEvent, Irqs!Goes
  <1>3. iThread' \in [Irqs!Threads -> [at : PlacesOfThreads, events : Seq(Irqs!Events)]]
     /\ EventsWait'
        BY <1>1, <1>2, GoesKeepsTypes DEF PlacesOfThreads
  <1>4. Irqs!TypeOK'
        BY <1>2, <1>3 DEF Irqs!TypeOK, PlacesOfThreads
  <1>5. Irqs!RegisteredOnce' /\ Irqs!Registered' = Irqs!Registered
        BY <1>2 DEF Irqs!RegisteredOnce, Irqs!Registered
  <1>6. \A x \in iPresent' : Irqs!Erasing(x)' \subseteq Irqs!Erasing(x)
        BY <1>1, <1>2 DEF Irqs!Erasing, Irqs!TypeOK
  <1>7. \A o \in Guests : iThread[o].at = "registers" => iThread'[o] = iThread[o]
        BY <1>1, <1>2 DEF Irqs!TypeOK, Irqs!Idle
  <1>8. Irqs!EventsAreRegistered' /\ RacesAreKnown'
        BY <1>2, <1>5, <1>6, <1>7, RegistrationsGrow
  <1> QED BY <1>3, <1>4, <1>5, <1>8

LEMMA DeleteQueueKeeps == ASSUME Telling, NEW g \in Guests, NEW q \in Queues,
                          Irqs!DeleteEqueue(g, q) PROVE Telling'
  <1> USE DEF Telling
  <1>1. /\ UNCHANGED <<iEqs, iThread, iRaced>> /\ iPresent' \subseteq iPresent
     /\ iOpen' \subseteq iOpen
        BY DEF Irqs!DeleteEqueue
  <1>2. Irqs!TypeOK' /\ EventsWait'
        BY <1>1 DEF Irqs!TypeOK, EventsWait
  <1>3. Irqs!RegisteredOnce' /\ Irqs!Registered' = Irqs!Registered
     /\ \A x : Irqs!Erasing(x)' = Irqs!Erasing(x)
        BY <1>1 DEF Irqs!RegisteredOnce, Irqs!Registered, Irqs!Erasing
  <1>4. Irqs!EventsAreRegistered' /\ RacesAreKnown'
        BY <1>1, <1>3, RegistrationsGrow
  <1> QED BY <1>2, <1>3, <1>4

LEMMA RegisterKeeps == ASSUME Telling, NEW g \in Guests, Irqs!AddInterruptEq(g) PROVE Telling'
  <1> USE DEF Telling
  <1> DEFINE e == iThread[g].events[1]
  <1>1. /\ g \in Irqs!Threads /\ iThread[g].at = "registers"
     /\ iThread[g].events \in Seq(Irqs!Events)
        /\ iThread[g].events # <<>>
        BY DEF Irqs!Threads, Irqs!TypeOK, EventsWait, Irqs!AddInterruptEq
  <1>2. e \in Irqs!Events
        BY <1>1
  <1>3. /\ UNCHANGED <<iOpen, iPresent, iRaced>>
        /\ iThread' = [iThread EXCEPT ![g] = [at |-> "idle", events |-> <<>>]]
        /\ iEqs' = IF e \in Irqs!Registered THEN iEqs ELSE Append(iEqs, e)
        BY DEF Irqs!AddInterruptEq, Irqs!Idle
  <1> HIDE DEF e
  <1>4. iThread' \in [Irqs!Threads -> [at : PlacesOfThreads, events : Seq(Irqs!Events)]]
     /\ EventsWait'
        BY <1>1, <1>3, GoesKeepsTypes, IdleIsPlace DEF PlacesOfThreads
  <1>5. \A x : Irqs!Erasing(x)' \subseteq Irqs!Erasing(x)
        BY <1>1, <1>3, ErasingKept, IdleIsPlace DEF Irqs!TypeOK, PlacesOfThreads
  <1>6. iEqs' \in Seq(Irqs!Events) /\ Irqs!RegisteredOnce'
     /\ Irqs!Registered' = Irqs!Registered \cup {e}
        <2>1. CASE e \in Irqs!Registered
              BY <2>1, <1>3 DEF Irqs!TypeOK, Irqs!RegisteredOnce, Irqs!Registered
        <2>2. CASE e \notin Irqs!Registered
              <3>1. iEqs' = Append(iEqs, e) /\ iEqs \in Seq(Irqs!Events)
                    BY <2>2, <1>3 DEF Irqs!TypeOK
              <3>2. /\ iEqs' \in Seq(Irqs!Events) /\ Len(iEqs') = Len(iEqs) + 1 /\ Len(iEqs) \in Nat
                    /\ DOMAIN iEqs = 1 .. Len(iEqs) /\ DOMAIN iEqs' = 1 .. (Len(iEqs) + 1)
                    /\ \A i \in 1 .. Len(iEqs) : iEqs'[i] = iEqs[i]
                    /\ iEqs'[Len(iEqs) + 1] = e
                    BY <3>1, <1>2
              <3>3. \A i \in 1 .. Len(iEqs) : iEqs[i] # e
                    BY <2>2, <3>2 DEF Irqs!Registered
              <3>4. Irqs!RegisteredOnce'
                    BY <3>2, <3>3 DEF Irqs!RegisteredOnce
              <3>5. Irqs!Registered' = Irqs!Registered \cup {e}
                    <4>1. Irqs!Registered' \subseteq Irqs!Registered \cup {e}
                          BY <3>2 DEF Irqs!Registered
                    <4>2. Irqs!Registered \cup {e} \subseteq Irqs!Registered'
                          <5>1. Len(iEqs) + 1 \in DOMAIN iEqs'
                                BY <3>2
                          <5>2. \A i \in DOMAIN iEqs : i \in DOMAIN iEqs' /\ iEqs'[i] = iEqs[i]
                                BY <3>2
                          <5> QED BY <5>1, <5>2, <3>2 DEF Irqs!Registered
                    <4> QED BY <4>1, <4>2
              <3> QED BY <3>2, <3>4, <3>5
        <2> QED BY <2>1, <2>2
  <1>7. Irqs!TypeOK'
        BY <1>3, <1>4, <1>6 DEF Irqs!TypeOK, PlacesOfThreads
  <1>8. \A o \in Guests : iThread[o].at = "registers" =>
          iThread'[o] = iThread[o] \/ iThread[o].events[1] \in Irqs!Registered'
        BY <1>1, <1>3, <1>6 DEF Irqs!TypeOK, e
  <1>9. Irqs!EventsAreRegistered' /\ RacesAreKnown'
        BY <1>3, <1>5, <1>6, <1>8, RegistrationsGrow
  <1> QED BY <1>4, <1>6, <1>7, <1>9

\* A thread erases the registration its first event has.
LEMMA EraseStepKeeps ==
  ASSUME Telling, NEW t \in Irqs!Threads, NEW where \in {"idle", "triggers"},
         NEW s \in Seq(Irqs!Events),
         s # <<>> \/ where = "idle",
         iThread[t].at \in {"unregisters", "erases"}, Irqs!Erase(Head(iThread[t].events)),
         iThread' = [iThread EXCEPT ![t] = [at |-> where, events |-> s]],
         UNCHANGED <<iOpen, iPresent, iRaced>>
  PROVE  Telling'
  <1> USE DEF Telling
  <1> DEFINE e == Head(iThread[t].events)
  <1>1. iThread[t].events \in Seq(Irqs!Events) /\ iThread[t].events # <<>>
        BY DEF Irqs!TypeOK, EventsWait
  <1>2. e \in Irqs!Events
        BY <1>1
  <1>3. t \in Irqs!Erasing(e)
        BY DEF Irqs!Erasing
  <1>e. Irqs!Erase(e)
        OBVIOUS
  <1> HIDE DEF e
  <1>4. /\ iEqs' \in Seq(Irqs!Events) /\ Irqs!RegisteredOnce'
        /\ Irqs!Registered \ {e} \subseteq Irqs!Registered'
        BY <1>2, <1>e, EraseKeeps
  <1>p. where \in PlacesOfThreads /\ where \notin {"unregisters", "erases"}
        BY DEF PlacesOfThreads
  <1>5. iThread' \in [Irqs!Threads -> [at : PlacesOfThreads, events : Seq(Irqs!Events)]]
     /\ EventsWait'
        BY <1>p, GoesKeepsTypes
  <1>6. \A x : Irqs!Erasing(x)' \subseteq Irqs!Erasing(x)
        BY <1>p, ErasingKept DEF Irqs!TypeOK, PlacesOfThreads
  <1>7. Irqs!TypeOK'
        BY <1>4, <1>5 DEF Irqs!TypeOK, PlacesOfThreads
  <1>8. RacesAreKnown'
        BY <1>6 DEF RacesAreKnown
  <1>9. e \in iPresent => e \in iRaced
        BY <1>3 DEF RacesAreKnown
  <1>10. \A o \in Guests : iThread[o].at = "registers" => iThread'[o] = iThread[o]
        BY DEF Irqs!TypeOK
  <1>11. Irqs!EventsAreRegistered'
        BY <1>4, <1>9, <1>10 DEF Irqs!EventsAreRegistered
  <1> QED BY <1>4, <1>5, <1>7, <1>8, <1>11

LEMMA HeadIsFirst == ASSUME NEW s \in Seq(Irqs!Events), s # <<>> PROVE s[1] = Head(s)
  OBVIOUS

LEMMA UnregisterKeeps == ASSUME Telling, NEW g \in Guests, Irqs!Unregister(g) PROVE Telling'
  <1>1. g \in Irqs!Threads /\ iThread[g].at = "unregisters"
        BY DEF Irqs!Threads, Irqs!Unregister
  <1>2. iThread[g].events[1] = Head(iThread[g].events)
        BY <1>1, HeadIsFirst DEF Telling, Irqs!TypeOK, EventsWait
  <1>3. Irqs!Erase(Head(iThread[g].events))
        BY <1>2 DEF Irqs!Unregister
  <1>4. iThread' = [iThread EXCEPT ![g] = [at |-> "idle", events |-> <<>>]] /\ UNCHANGED <<iOpen,
     iPresent, iRaced>>
        BY DEF Irqs!Unregister, Irqs!Idle
  <1> QED BY <1>1, <1>3, <1>4, IdleIsPlace, EraseStepKeeps

\* What GoesOn does.
LEMMA GoesOnGoes ==
  ASSUME Telling, NEW t \in Irqs!Threads, iThread[t].at # "idle", Irqs!GoesOn(t)
  PROVE  \E where \in {"idle", "triggers"}, s \in Seq(Irqs!Events) :
            /\ s # <<>> \/ where = "idle"
            /\ iThread' = [iThread EXCEPT ![t] = [at |-> where, events |-> s]]
  <1>1. iThread[t].events \in Seq(Irqs!Events) /\ iThread[t].events # <<>>
        BY DEF Telling, Irqs!TypeOK, EventsWait
  <1>2. Tail(iThread[t].events) \in Seq(Irqs!Events)
        BY <1>1
  <1>3. CASE Tail(iThread[t].events) = <<>>
        BY <1>3, IdleIsPlace DEF Irqs!GoesOn
  <1>4. CASE Tail(iThread[t].events) # <<>>
        BY <1>4, <1>2 DEF Irqs!GoesOn, Irqs!Goes
  <1> QED BY <1>3, <1>4

LEMMA EraseStaleKeeps == ASSUME Telling, NEW t \in Raisers, Irqs!EraseStale(t) PROVE Telling'
  <1>1. t \in Irqs!Threads /\ iThread[t].at = "erases"
        BY DEF Irqs!Threads, Irqs!EraseStale
  <1>2. PICK where \in {"idle", "triggers"}, s \in Seq(Irqs!Events) :
            /\ s # <<>> \/ where = "idle"
            /\ iThread' = [iThread EXCEPT ![t] = [at |-> where, events |-> s]]
        BY <1>1, GoesOnGoes DEF Irqs!EraseStale
  <1>3. Irqs!Erase(Head(iThread[t].events)) /\ UNCHANGED <<iOpen, iPresent, iRaced>>
        BY DEF Irqs!EraseStale
  <1> QED BY <1>1, <1>2, <1>3, EraseStepKeeps

\* A raiser that copies registrations or triggers changes nothing else.
LEMMA RaiserKeeps ==
  ASSUME Irqs!InterruptsAssumption, Telling, NEW t \in Raisers, NEW where \in PlacesOfThreads,
         NEW s \in Seq(Irqs!Events),
         s # <<>> \/ where = "idle", where = "erases" => Head(s) \notin iPresent,
         where # "unregisters",
         iThread' = [iThread EXCEPT ![t] = [at |-> where, events |-> s]],
         UNCHANGED <<iOpen, iPresent, iEqs, iRaced>>
  PROVE  Telling'
  <1> USE DEF Telling
  <1>1. t \in Irqs!Threads /\ t \notin Guests
        BY DEF Irqs!Threads, Irqs!InterruptsAssumption
  <1>2. iThread' \in [Irqs!Threads -> [at : PlacesOfThreads, events : Seq(Irqs!Events)]]
     /\ EventsWait'
        BY <1>1, GoesKeepsTypes
  <1>3. Irqs!TypeOK'
        BY <1>2 DEF Irqs!TypeOK, PlacesOfThreads
  <1>4. Irqs!RegisteredOnce' /\ Irqs!Registered' = Irqs!Registered
        BY DEF Irqs!RegisteredOnce, Irqs!Registered
  <1>5. \A x \in iPresent' : Irqs!Erasing(x)' \subseteq Irqs!Erasing(x)
        BY <1>1 DEF Irqs!Erasing, Irqs!TypeOK
  <1>6. \A o \in Guests : iThread[o].at = "registers" => iThread'[o] = iThread[o]
        BY <1>1 DEF Irqs!TypeOK, Irqs!Threads
  <1>7. Irqs!EventsAreRegistered' /\ RacesAreKnown'
        BY <1>4, <1>5, <1>6, RegistrationsGrow
  <1> QED BY <1>2, <1>3, <1>4, <1>7

LEMMA TriggerKeeps == ASSUME Irqs!InterruptsAssumption, Telling, NEW t \in Raisers,
                      Irqs!Trigger(t) PROVE Telling'
  <1>1. t \in Irqs!Threads /\ iThread[t].at = "triggers" /\ UNCHANGED <<iOpen, iPresent, iEqs,
     iRaced>>
        BY DEF Irqs!Threads, Irqs!Trigger
  <1>2. iThread[t].events \in Seq(Irqs!Events) /\ iThread[t].events # <<>>
        BY <1>1 DEF Telling, Irqs!TypeOK, EventsWait
  <1>3. CASE Head(iThread[t].events) \in iPresent
        <2>1. PICK where \in {"idle", "triggers"}, s \in Seq(Irqs!Events) :
                 /\ s # <<>> \/ where = "idle"
                 /\ iThread' = [iThread EXCEPT ![t] = [at |-> where, events |-> s]]
              BY <1>1, <1>3, GoesOnGoes DEF Irqs!Trigger
        <2> QED BY <1>1, <2>1, RaiserKeeps DEF PlacesOfThreads
  <1>4. CASE Head(iThread[t].events) \notin iPresent
        <2>1. iThread' = [iThread EXCEPT ![t] = [at |-> "erases", events |-> iThread[t].events]]
              BY <1>4 DEF Irqs!Trigger, Irqs!Goes
        <2> QED BY <1>1, <1>2, <1>4, <2>1, RaiserKeeps DEF PlacesOfThreads
  <1> QED BY <1>3, <1>4

LEMMA CopyKeeps ==
  ASSUME Irqs!InterruptsAssumption, Telling, NEW t \in Raisers, NEW id \in Ids,
         Irqs!CopyRegistrations(t, id) PROVE Telling'
  <1>1. PICK n \in DOMAIN iEqs : \E at \in [1 .. n -> DOMAIN iEqs] : Irqs!Goes(t, "triggers",
     [i \in 1 .. n |-> iEqs[at[i]]])
        BY DEF Irqs!CopyRegistrations
  <1>2. PICK at \in [1 .. n -> DOMAIN iEqs] : Irqs!Goes(t, "triggers",
     [i \in 1 .. n |-> iEqs[at[i]]])
        BY <1>1
  <1> DEFINE s == [i \in 1 .. n |-> iEqs[at[i]]]
  <1>3. /\ DOMAIN iEqs = 1 .. Len(iEqs) /\ Len(iEqs) \in Nat
        /\ \A i \in DOMAIN iEqs : iEqs[i] \in Irqs!Events
        BY DEF Telling, Irqs!TypeOK
  <1>4. s \in Seq(Irqs!Events) /\ Len(s) = n /\ n > 0
        BY <1>3
  <1>5. s # <<>>
        BY <1>4
  <1>6. iThread' = [iThread EXCEPT ![t] = [at |-> "triggers", events |-> s]]
        BY <1>2 DEF Irqs!Goes
  <1>7. UNCHANGED <<iOpen, iPresent, iEqs, iRaced>>
        BY DEF Irqs!CopyRegistrations
  <1> HIDE DEF s
  <1> QED BY <1>4, <1>5, <1>6, <1>7, RaiserKeeps DEF PlacesOfThreads

LEMMA TellingKept == ASSUME Irqs!InterruptsAssumption, Telling, [Irqs!Next]_interruptVars
    PROVE Telling'
  <1>1. ASSUME UNCHANGED interruptVars PROVE Telling'
        BY <1>1 DEF Telling, Irqs!TypeOK, Irqs!RegisteredOnce, Irqs!EventsAreRegistered,
           EventsWait, RacesAreKnown, Irqs!Registered,
                    Irqs!Erasing, interruptVars
  <1>2. ASSUME NEW g \in Guests, NEW e \in Irqs!Events,
               Irqs!AddEvent(g, e) \/ Irqs!DeleteEvent(g, e) \/ Irqs!IsRefused(g, e)
        PROVE  Telling'
        BY <1>1, <1>2, AddKeeps, DeleteKeeps DEF Irqs!IsRefused, Irqs!vars, interruptVars
  <1>3. ASSUME NEW g \in Guests, NEW q \in Queues, Irqs!DeleteEqueue(g, q) PROVE Telling'
        BY <1>3, DeleteQueueKeeps
  <1>4. ASSUME NEW g \in Guests, Irqs!AddInterruptEq(g) \/ Irqs!Unregister(g) PROVE Telling'
        BY <1>4, RegisterKeeps, UnregisterKeeps
  <1>5. ASSUME NEW t \in Raisers, NEW id \in Ids, Irqs!CopyRegistrations(t, id) PROVE Telling'
        BY <1>5, CopyKeeps
  <1>6. ASSUME NEW t \in Raisers, Irqs!Trigger(t) \/ Irqs!EraseStale(t) PROVE Telling'
        BY <1>6, TriggerKeeps, EraseStaleKeeps
  <1> QED BY <1>1, <1>2, <1>3, <1>4, <1>5, <1>6 DEF Irqs!Next, interruptVars

LEMMA TellingStarts == Irqs!Init => Telling
  <1> SUFFICES ASSUME Irqs!Init PROVE Telling
      OBVIOUS
  <1>1. iEqs = <<>> /\ iPresent = {} /\ iRaced = {} /\ iOpen = Queues
        BY DEF Irqs!Init
  <1>2. \A t \in Irqs!Threads : iThread[t] = Irqs!Idle
        BY DEF Irqs!Init
  <1>3. Irqs!TypeOK
        BY IdleIsPlace DEF Irqs!Init, Irqs!TypeOK, Irqs!Idle
  <1> QED BY <1>1, <1>2, <1>3 DEF Telling, Irqs!RegisteredOnce, Irqs!EventsAreRegistered,
             EventsWait, RacesAreKnown, Irqs!Idle

LEMMA InterruptStep ==
  ASSUME [RendererNext]_rendererVars PROVE [Irqs!Next]_interruptVars
  BY DEF RendererNext, rendererVars, OfBuffers, OfInterrupts, OfPages, OfFlips

\* An event that a queue has is registered for interrupts once, or is about to be, for
\* any number of threads and queues: only one that was added while an erasure was due
\* may lose its registration (AddEqEvent, TriggerInterrupt).
THEOREM EventsHearInterrupts == RendererSpec => []InterruptsInv
  <1>1. RendererInit => Telling
        BY TellingStarts DEF RendererInit
  <1>2. Telling /\ [RendererNext]_rendererVars => Telling'
        BY RendererAssumption, InterruptStep, TellingKept
  <1>3. Telling => InterruptsInv
        BY DEF Telling, InterruptsInv, Irqs!InterruptsInv
  <1> QED BY <1>1, <1>2, <1>3, PTL DEF RendererSpec

LEMMA PagesAssumption == Tracked!PageAssumption /\ \A m \in Modes : Precedes(m)
  BY RendererAssumption

(***************************************************************************)
(* Page protection and memory tracking.                                    *)
(***************************************************************************)
\* Each page that is not writable or that an image watches has a write watcher.
WatchersFollow ==
  /\ \A p \in Tracked!Page : pWatchers[p] = (IF p \in pWritable THEN 0 ELSE 1) + (IF p \in pImaged THEN 1 ELSE 0)
  /\ pWritable \subseteq pCpuDirty /\ pAccess = pGpuDirty

\* What the render thread is doing.
UploadOK ==
  /\ pGpu.protect # {} => pGpu.pc = "handover" /\ pMode.reprotect
  /\ pGpu.protect \subseteq UNION pGpu.copies /\ pGpu.protect \cap pImaged = {}
  /\ pGpu.copies # {} => pGpu.pc \in {"handover", "copies"}
  /\ ~Joined => \A c \in pGpu.copies : \E x \in Tracked!Page : c = {x}
  /\ pGpu.pc \in {"handover", "copies", "written"} /\ pGpu.use = "write" =>
       pLock = Gpu /\ pGpu.range \cap pCpuDirty = {}
  /\ pGpu.pc = "written" => pGpu.use = "write"
  /\ pGpu.use = "visit" => pGpu.pc \in {"handover", "copies", "prove"}
DownloadOK ==
  /\ pGpu.pc \in {"unmark", "mark", "untrack", "unprotect"} => pBehind = {}
  /\ pGpu.pc \in {"mark", "untrack", "unprotect"} => pGpuDirty = {}
  /\ pGpu.pc = "unprotect" => pGpu.range \subseteq pCpuDirty
  /\ pGpu.pc = "image" => pGpu.range \subseteq pMode.image
  /\ pGpu.who \in Guests => /\ pGpu.pc \in {"download", "unmark", "mark", "unprotect"}
                            /\ Tracked!At(pGpu.who, "sent")
  /\ pGpu.who \notin Guests => /\ pGpu.pc # "mark"
                               /\ pGpu.pc \in {"download", "unmark", "untrack",
                                    "unprotect"} => pGpu.range = Tracked!Page

Waiting == {i \in DOMAIN pQueue : pQueue[i].kind \in {"protect", "settle"}}
\* Every copy of p is queued.
Follows(p) == /\ pMode.reprotect /\ pMode.upload >= 1
              /\ \A c \in SUBSET Tracked!Page : p \in c /\ (Joined \/ c = {p}) => Tracked!Queued(c)
JobsOK ==
  /\ pDeferred = Cardinality(Waiting) + (IF pGpu.protect = {} THEN 0 ELSE 1)
  /\ \A i \in Waiting : \A p \in pQueue[i].pages : Follows(p)

CopyAfter(i, p) == \/ p \in UNION pGpu.copies
                   \/ \E j \in DOMAIN pQueue : j > i /\ pQueue[j].kind = "copy" /\ p \in pQueue[j].pages
ImageAfter(i, p) == \/ pGpu.pc = "image" /\ p \in pGpu.range
                    \/ \E j \in DOMAIN pQueue : j > i /\ pQueue[j].kind = "image" /\ p \in pQueue[j].pages
LateJob(i, p) == /\ i \in DOMAIN pQueue /\ pQueue[i].kind = "protect" /\ p \in pQueue[i].pages
                 /\ CopyAfter(i, p) /\ (p \in pImaged => ImageAfter(i, p))
Late(p) == p \in pGpu.protect \/ \E i \in DOMAIN pQueue : LateJob(i, p)

HostOK == \A p \in Tracked!Page :
  \/ p \in Tracked!Opened
  \/ /\ p \in pAccess => pHost[p] = "NA"
     /\ p \notin pAccess /\ pWatchers[p] > 0 /\ pHost[p] = "RW" => Late(p)

EpochsOK ==
  /\ pProven => pCpuDirty = {}
  /\ pSame /\ (pGpu.pc = "prove" \/ pGpu.use = "visit") => pCpuDirty = {}
  /\ pCpuDirty # {} => pBda # {} \/ pGpu.pc = "sync"

DataOK == pBehind \subseteq pGpuDirty /\ Tracked!WritesReachGpu

Tracking == Tracked!TypeOK /\ WatchersFollow /\ UploadOK /\ DownloadOK /\ JobsOK /\ HostOK /\ EpochsOK /\ DataOK

\* ---- frames
LEMMA NotEmpty == ASSUME NEW S, NEW x \in (SUBSET S) \ {{}} PROVE x # {}
  OBVIOUS

LEMMA ModeFacts ==
  ASSUME Tracked!TypeOK
  PROVE  /\ pMode \in Modes /\ pMode \in Tracked!Mode /\ Precedes(pMode)
         /\ Tracked!Page \in SUBSET Pages /\ Tracked!Page # {} /\ pMode.image \in SUBSET Tracked!Page
         /\ pMode.upload \in 0 .. 2
  <1>1. pMode \in Modes
        BY DEF Tracked!TypeOK
  <1>2. pMode \in Tracked!Mode /\ pMode.image \subseteq pMode.pages /\ Precedes(pMode)
        BY <1>1, PagesAssumption DEF Tracked!PageAssumption
  <1>3. pMode.pages \in SUBSET Pages /\ pMode.upload \in 0 .. 2
        BY <1>2 DEF Tracked!Mode
  <1>4. pMode.pages # {}
        <2>1. pMode.pages \in (SUBSET Pages) \ {{}}
              BY <1>2 DEF Tracked!Mode
        <2> QED BY <2>1, NotEmpty
  <1> QED BY <1>1, <1>2, <1>3, <1>4 DEF Tracked!Page

\* A step that leaves the render thread where it is.
LEMMA RenderFrame ==
  ASSUME UploadOK, DownloadOK, UNCHANGED <<pMode, pGpu, pGpuDirty, pBehind>>, pImaged' \subseteq pImaged,
         pCpuDirty \subseteq pCpuDirty', pLock = Gpu => pLock' = Gpu /\ pCpuDirty' = pCpuDirty,
         \A g \in Guests : Tracked!At(g, "sent") => Tracked!At(g, "sent")'
  PROVE  UploadOK' /\ DownloadOK'
  <1>1. UploadOK'
        BY DEF UploadOK, Tracked!Page
  <1>2. DownloadOK'
        BY DEF DownloadOK, Tracked!Page
  <1> QED BY <1>1, <1>2

LEMMA JobsFrame ==
  ASSUME JobsOK, UNCHANGED <<pMode, pQueue, pDeferred>>, pGpu'.protect = pGpu.protect
  PROVE  JobsOK'
  BY DEF JobsOK, Waiting, Follows, Tracked!Queued, Tracked!Page

LEMMA LateFrame ==
  ASSUME UNCHANGED pQueue, pGpu'.protect = pGpu.protect, pGpu'.copies = pGpu.copies, pImaged' \subseteq pImaged,
         pGpu.pc = "image" => pGpu'.pc = "image" /\ pGpu'.range = pGpu.range
  PROVE  \A p : Late(p) => Late(p)'
  BY DEF Late, LateJob, CopyAfter, ImageAfter

\* The pages a step may treat otherwise than before, and how.
LEMMA HostStep ==
  ASSUME HostOK, UNCHANGED pMode, Tracked!Opened \subseteq Tracked!Opened',
         \A p \in Tracked!Page : Late(p) => Late(p)',
         \A p \in Tracked!Page :
           \/ /\ pHost'[p] = pHost[p] /\ (p \in pAccess' => p \in pAccess)
              /\ pWatchers'[p] > 0 => pWatchers[p] > 0 \/ p \in pAccess
           \/ pHost'[p] = Tracked!Perms(pWatchers', pAccess', p)
           \/ p \in Tracked!Opened'
           \/ p \notin pAccess' /\ Late(p)'
  PROVE  HostOK'
  <1> SUFFICES ASSUME NEW p \in Tracked!Page
               PROVE  \/ p \in Tracked!Opened'
                      \/ /\ p \in pAccess' => pHost'[p] = "NA"
                         /\ p \notin pAccess' /\ pWatchers'[p] > 0 /\ pHost'[p] = "RW" => Late(p)'
      BY DEF HostOK, Tracked!Page
  <1>1. CASE /\ pHost'[p] = pHost[p] /\ (p \in pAccess' => p \in pAccess)
             /\ pWatchers'[p] > 0 => pWatchers[p] > 0 \/ p \in pAccess
        BY <1>1 DEF HostOK
  <1>2. CASE pHost'[p] = Tracked!Perms(pWatchers', pAccess', p)
        BY <1>2 DEF Tracked!Perms
  <1> QED BY <1>1, <1>2

\* ---- types of guests
GuestRecord == [pc : Tracked!GuestPc, page : Tracked!Page, marked : SUBSET Tracked!Page, then : {"run",
               "images"}]

LEMMA GuestTypes ==
  ASSUME Tracked!TypeOK, UNCHANGED pMode, NEW g \in Guests, NEW r \in GuestRecord,
         pGuest' = [pGuest EXCEPT ![g] = r]
  PROVE  /\ pGuest' \in [Guests -> [pc : Tracked!GuestPc, page : Tracked!Page, marked : SUBSET Tracked!Page, then : {"run", "images"}]]
         /\ pGuest'[g] = r /\ \A o \in Guests \ {g} : pGuest'[o] = pGuest[o]
  BY DEF Tracked!TypeOK, GuestRecord

LEMMA RunningIsRecord == ASSUME Tracked!TypeOK
    PROVE Tracked!Running \in GuestRecord /\ Tracked!Running.pc = "run"
  <1>1. (CHOOSE p \in Tracked!Page : TRUE) \in Tracked!Page
        BY ModeFacts
  <1> QED BY <1>1 DEF Tracked!Running, GuestRecord, Tracked!GuestPc

LEMMA GuestHas ==
  ASSUME Tracked!TypeOK, NEW g \in Guests
  PROVE  /\ pGuest[g] \in GuestRecord /\ pGuest[g].page \in Tracked!Page /\ pGuest[g].pc \in Tracked!GuestPc
         /\ pGuest[g].marked \in SUBSET Tracked!Page /\ pGuest[g].then \in {"run", "images"}
  BY DEF Tracked!TypeOK, GuestRecord

\* What an action does to the record of the guest that takes it.
LEMMA GuestGoes ==
  ASSUME Tracked!TypeOK, NEW g \in Guests, NEW where \in Tracked!GuestPc, Tracked!Go(g, where)
  PROVE  \E r \in GuestRecord : pGuest' = [pGuest EXCEPT ![g] = r] /\ r.pc = where /\ r.page = pGuest[g].page
                                /\ r.marked = pGuest[g].marked /\ r.then = pGuest[g].then
  <1>1. [pGuest[g] EXCEPT !.pc = where] \in GuestRecord
        BY GuestHas DEF GuestRecord
  <1>2. pGuest' = [pGuest EXCEPT ![g] = [pGuest[g] EXCEPT !.pc = where]]
        BY DEF Tracked!Go
  <1> QED BY <1>1, <1>2, GuestHas DEF GuestRecord

LEMMA OpenedKept ==
  ASSUME Tracked!TypeOK, NEW g \in Guests, NEW r \in GuestRecord, pGuest' = [pGuest EXCEPT ![g] = r],
         pGuest[g].pc # "reapply"
  PROVE  Tracked!Opened \subseteq Tracked!Opened'
  BY DEF Tracked!Opened, Tracked!At, Tracked!TypeOK

LEMMA SentKept ==
  ASSUME Tracked!TypeOK, NEW g \in Guests, NEW r \in GuestRecord, pGuest' = [pGuest EXCEPT ![g] = r],
         pGuest[g].pc # "sent"
  PROVE  \A o \in Guests : Tracked!At(o, "sent") => Tracked!At(o, "sent")'
  BY DEF Tracked!At, Tracked!TypeOK

LEMMA DataFrame ==
  ASSUME DataOK, UNCHANGED <<pMode, pGpuDirty, pQueue, pGpu, Tracked!data>>, pCpuDirty \subseteq pCpuDirty',
         pImaged' \subseteq pImaged
  PROVE  DataOK'
  BY DEF DataOK, Tracked!WritesReachGpu, Tracked!CopyAhead, Tracked!ImageAhead, Tracked!Gpc, Tracked!data

LEMMA EpochsFrame ==
  ASSUME EpochsOK, UNCHANGED <<pCpuDirty, pProven, pSame, pBda>>, pGpu'.pc = pGpu.pc, pGpu'.use = pGpu.use
  PROVE  EpochsOK'
  BY DEF EpochsOK

LEMMA WatchersFrame ==
  ASSUME WatchersFollow, UNCHANGED <<pMode, Tracked!tracker, pWatchers, pAccess, pImaged>>
  PROVE  WatchersFollow'
  BY DEF WatchersFollow, Tracked!Page, Tracked!tracker

\* A guest's step that leaves the trackers alone.
LEMMA OnlyGuest ==
  ASSUME Tracking, NEW g \in Guests, NEW r \in GuestRecord, pGuest' = [pGuest EXCEPT ![g] = r],
         pGuest[g].pc # "sent",
         UNCHANGED <<pMode, Tracked!tracker, pWatchers, pAccess, pImaged, Tracked!epochs, pQueue,
           Tracked!data, pGpu, pExited>>,
         pHost' \in [Tracked!Page -> {"RW", "RO", "NA"}], HostOK'
  PROVE  Tracking'
  <1> USE DEF Tracking
  <1>0. UNCHANGED <<pCpuDirty, pGpuDirty, pWritable, pLock, pDeferred, pProven, pSame, pBda, pStale,
          pImageStale,
                    pBehind, pSlipped>>
        BY DEF Tracked!tracker, Tracked!epochs, Tracked!data
  <1>1. Tracked!TypeOK'
        <2>1. pGuest' \in [Guests -> [pc : Tracked!GuestPc, page : Tracked!Page,
                marked : SUBSET Tracked!Page, then : {"run", "images"}]]
              BY GuestTypes
        <2>2. /\ Tracked!Page' = Tracked!Page /\ Tracked!Job' = Tracked!Job
              /\ Tracked!GuestPc' = Tracked!GuestPc /\ Tracked!GpuPc' = Tracked!GpuPc
              BY DEF Tracked!Page, Tracked!Job, Tracked!GuestPc, Tracked!GpuPc
        <2>3. /\ pMode' = pMode /\ pWatchers' = pWatchers /\ pAccess' = pAccess /\ pImaged' = pImaged
              /\ pQueue' = pQueue /\ pGpu' = pGpu /\ pExited' = pExited
              OBVIOUS
        <2> QED BY <1>0, <2>1, <2>2, <2>3 DEF Tracked!TypeOK
  <1>2. WatchersFollow'
        BY WatchersFrame
  <1>3. UploadOK' /\ DownloadOK'
        BY <1>0, SentKept, RenderFrame
  <1>4. JobsOK'
        BY <1>0, JobsFrame
  <1>5. EpochsOK'
        BY <1>0, EpochsFrame
  <1>6. DataOK'
        BY <1>0, DataFrame
  <1> QED BY <1>1, <1>2, <1>3, <1>4, <1>5, <1>6

LEMMA QuietLate ==
  ASSUME UNCHANGED <<pQueue, pGpu>>, pImaged' \subseteq pImaged
  PROVE  \A p : Late(p) => Late(p)'
  BY LateFrame

\* Only what the guest is doing changes.
LEMMA GuestMoves ==
  ASSUME Tracking, NEW g \in Guests, NEW r \in GuestRecord, pGuest' = [pGuest EXCEPT ![g] = r],
         pGuest[g].pc # "sent", pGuest[g].pc # "reapply",
         UNCHANGED <<pMode, Tracked!tracker, Tracked!pages, pImaged, Tracked!epochs, pQueue, Tracked!data,
           pGpu, pExited>>
  PROVE  Tracking'
  <1>1. UNCHANGED <<pWatchers, pAccess, pHost>> /\ Tracked!TypeOK /\ HostOK
        BY DEF Tracked!pages, Tracking
  <1>2. Tracked!Opened \subseteq Tracked!Opened'
        BY <1>1, OpenedKept
  <1>3. \A p \in Tracked!Page : Late(p) => Late(p)'
        BY QuietLate
  <1>4. HostOK'
        BY <1>1, <1>2, <1>3, HostStep
  <1>5. pHost' \in [Tracked!Page -> {"RW", "RO", "NA"}]
        BY <1>1 DEF Tracked!TypeOK
  <1> QED BY <1>1, <1>4, <1>5, OnlyGuest

LEMMA FaultKeeps ==
  ASSUME Tracking, NEW g \in Guests, NEW p \in Tracked!Page, Tracked!WriteFault(g, p) \/ Tracked!ReadFault(g, p)
  PROVE  Tracking'
  <1>1. Tracked!TypeOK /\ Tracked!Running \in GuestRecord
        BY RunningIsRecord DEF Tracking
  <1>2. pGuest[g].pc = "run" /\ UNCHANGED <<pMode, Tracked!tracker, Tracked!pages, pImaged, Tracked!epochs,
          pQueue, Tracked!data, pGpu, pExited>>
        BY DEF Tracked!WriteFault, Tracked!ReadFault, Tracked!At
  <1>3. ASSUME NEW where \in Tracked!GuestPc, Tracked!Become(g, [Tracked!Running EXCEPT !.pc = where,
                 !.page = p])
        PROVE  Tracking'
        <2>1. [Tracked!Running EXCEPT !.pc = where, !.page = p] \in GuestRecord
              BY <1>1 DEF GuestRecord
        <2> QED BY <1>2, <1>3, <2>1, GuestMoves DEF Tracked!Become
  <1> QED BY <1>3 DEF Tracked!WriteFault, Tracked!ReadFault, Tracked!GuestPc

LEMMA NoWindowKeeps ==
  ASSUME Tracking, NEW g \in Guests, Tracked!NoWindow(g)
  PROVE  Tracking'
  <1>1. Tracked!TypeOK /\ "restore" \in Tracked!GuestPc
        BY DEF Tracking, Tracked!GuestPc
  <1>2. /\ pGuest[g].pc = "window" /\ Tracked!Go(g, "restore")
        /\ UNCHANGED <<pMode, Tracked!tracker, Tracked!pages, pImaged, Tracked!epochs, pQueue, Tracked!data,
             pGpu, pExited>>
        BY DEF Tracked!NoWindow, Tracked!At
  <1>3. PICK r \in GuestRecord : pGuest' = [pGuest EXCEPT ![g] = r]
        BY <1>1, <1>2, GuestGoes
  <1> QED BY <1>2, <1>3, GuestMoves

LEMMA InvalidateFlushKeeps ==
  ASSUME Tracking, NEW g \in Guests, Tracked!InvalidateFlush(g)
  PROVE  Tracking'
  <1>1. /\ pGuest[g].pc = "invalidate"
        /\ pGuest' = [pGuest EXCEPT ![g].pc = "sent", ![g].then = "images"]
        /\ UNCHANGED <<pMode, Tracked!tracker, Tracked!pages, pImaged, Tracked!epochs, pQueue, Tracked!data,
             pGpu, pExited>>
        BY DEF Tracked!InvalidateFlush, Tracked!At
  <1> DEFINE r == [pGuest[g] EXCEPT !.pc = "sent", !.then = "images"]
  <1>2. r \in GuestRecord
        BY GuestHas DEF GuestRecord, Tracked!GuestPc, Tracking
  <1>3. pGuest' = [pGuest EXCEPT ![g] = r]
        BY <1>1 DEF Tracking, Tracked!TypeOK
  <1> HIDE DEF r
  <1> QED BY <1>1, <1>2, <1>3, GuestMoves

LEMMA RestoreKeeps ==
  ASSUME Tracking, NEW g \in Guests, Tracked!Restore(g)
  PROVE  Tracking'
  <1> DEFINE p == pGuest[g].page
             free == Tracked!Perms(pWatchers, pAccess, p) = "RW"
  <1>1. Tracked!TypeOK /\ p \in Tracked!Page /\ HostOK
        BY GuestHas DEF Tracking
  <1>2. /\ pGuest[g].pc = "restore"
        /\ pHost' = IF free THEN [pHost EXCEPT ![p] = "RW"] ELSE pHost
        /\ Tracked!Go(g, IF free THEN "run" ELSE "invalidate")
        /\ UNCHANGED <<pMode, Tracked!tracker, pWatchers, pAccess, pImaged, Tracked!epochs, pQueue,
             Tracked!data, pGpu, pExited>>
        BY DEF Tracked!Restore, Tracked!At
  <1>3. (IF free THEN "run" ELSE "invalidate") \in Tracked!GuestPc
        BY DEF Tracked!GuestPc
  <1>4. PICK r \in GuestRecord : pGuest' = [pGuest EXCEPT ![g] = r]
        BY <1>1, <1>2, <1>3, GuestGoes
  <1>5. pHost' \in [Tracked!Page -> {"RW", "RO", "NA"}]
        BY <1>1, <1>2 DEF Tracked!TypeOK
  <1>6. \A x \in Tracked!Page : pHost'[x] = pHost[x] \/ pHost'[x] = Tracked!Perms(pWatchers', pAccess', x)
        BY <1>1, <1>2 DEF Tracked!TypeOK
  <1>7. Tracked!Opened \subseteq Tracked!Opened' /\ \A x \in Tracked!Page : Late(x) => Late(x)'
        BY <1>1, <1>2, <1>4, OpenedKept, QuietLate
  <1>8. HostOK'
        BY <1>1, <1>2, <1>6, <1>7, HostStep
  <1> QED BY <1>2, <1>4, <1>5, <1>8, OnlyGuest

LEMMA MprotectKeeps ==
  ASSUME Tracking, NEW g \in Guests, NEW p \in Tracked!Page, Tracked!Mprotect(g, p)
  PROVE  Tracking'
  <1>1. Tracked!TypeOK /\ HostOK /\ Tracked!Running \in GuestRecord
        BY RunningIsRecord DEF Tracking
  <1>2. /\ pGuest[g].pc = "run" /\ pHost' = [pHost EXCEPT ![p] = "RW"]
        /\ pGuest' = [pGuest EXCEPT ![g] = [Tracked!Running EXCEPT !.pc = "reapply", !.page = p]]
        /\ UNCHANGED <<pMode, Tracked!tracker, pWatchers, pAccess, pImaged, Tracked!epochs, pQueue,
             Tracked!data, pGpu, pExited>>
        BY DEF Tracked!Mprotect, Tracked!At, Tracked!Become
  <1> DEFINE r == [Tracked!Running EXCEPT !.pc = "reapply", !.page = p]
  <1>3. r \in GuestRecord /\ r.pc = "reapply" /\ r.page = p
        BY <1>1 DEF GuestRecord, Tracked!GuestPc
  <1> HIDE DEF r
  <1>r. pGuest' = [pGuest EXCEPT ![g] = r]
        BY <1>2 DEF r
  <1>4. pHost' \in [Tracked!Page -> {"RW", "RO", "NA"}] /\ \A x \in Tracked!Page \ {p} : pHost'[x] = pHost[x]
        BY <1>1, <1>2 DEF Tracked!TypeOK
  <1>5. Tracked!Opened \subseteq Tracked!Opened' /\ \A x \in Tracked!Page : Late(x) => Late(x)'
        BY <1>1, <1>2, <1>3, <1>r, OpenedKept, QuietLate
  <1>6. p \in Tracked!Opened'
        BY <1>1, <1>3, <1>r DEF Tracked!Opened, Tracked!At, Tracked!TypeOK
  <1>7. HostOK'
        BY <1>1, <1>2, <1>4, <1>5, <1>6, HostStep
  <1> QED BY <1>2, <1>3, <1>r, <1>4, <1>7, OnlyGuest

\* What Reapply does to each page.
LEMMA Reapplies ==
  ASSUME Tracked!TypeOK, NEW P, Tracked!Reapply(P)
  PROVE  /\ pHost' \in [Tracked!Page -> {"RW", "RO", "NA"}]
         /\ \A x \in Tracked!Page : IF x \in P /\ Tracked!Perms(pWatchers, pAccess, x) # "RW"
                                    THEN pHost'[x] = Tracked!Perms(pWatchers, pAccess,
                                           x) ELSE pHost'[x] = pHost[x]
  BY DEF Tracked!Reapply, Tracked!TypeOK, Tracked!Perms

LEMMA ReapplyKeeps ==
  ASSUME Tracking, NEW g \in Guests, Tracked!MprotectReapply(g)
  PROVE  Tracking'
  <1> DEFINE p == pGuest[g].page
  <1>1. Tracked!TypeOK /\ HostOK /\ p \in Tracked!Page /\ Tracked!Running \in GuestRecord
          /\ Tracked!Running.pc = "run"
        BY GuestHas, RunningIsRecord DEF Tracking
  <1>2. /\ pGuest[g].pc = "reapply" /\ Tracked!Reapply({p}) /\ pGuest' = [pGuest EXCEPT ![g] = Tracked!Running]
        /\ UNCHANGED <<pMode, Tracked!tracker, pWatchers, pAccess, pImaged, Tracked!epochs, pQueue,
             Tracked!data, pGpu, pExited>>
        BY DEF Tracked!MprotectReapply, Tracked!At, Tracked!Become
  <1>3. /\ pHost' \in [Tracked!Page -> {"RW", "RO", "NA"}]
        /\ \A x \in Tracked!Page : IF x \in {p} /\ Tracked!Perms(pWatchers, pAccess, x) # "RW"
                                   THEN pHost'[x] = Tracked!Perms(pWatchers, pAccess,
                                          x) ELSE pHost'[x] = pHost[x]
        BY <1>1, <1>2, Reapplies
  <1>4. \A x \in Tracked!Page \ {p} : x \in Tracked!Opened => x \in Tracked!Opened'
        BY <1>1, <1>2 DEF Tracked!Opened, Tracked!At, Tracked!TypeOK
  <1>5. \A x \in Tracked!Page : Late(x) => Late(x)'
        BY <1>2, QuietLate
  <1> HIDE DEF p
  <1>6. HostOK'
        <2> SUFFICES ASSUME NEW x \in Tracked!Page
                     PROVE  \/ x \in Tracked!Opened'
                            \/ /\ x \in pAccess => pHost'[x] = "NA"
                               /\ x \notin pAccess /\ pWatchers[x] > 0 /\ pHost'[x] = "RW" => Late(x)'
            BY <1>2 DEF HostOK, Tracked!Page
        <2>1. CASE x = p
              BY <2>1, <1>3 DEF Tracked!Perms
        <2>2. CASE x # p
              BY <2>2, <1>1, <1>3, <1>4, <1>5 DEF HostOK
        <2> QED BY <2>1, <2>2
  <1> QED BY <1>1, <1>2, <1>3, <1>6, OnlyGuest

\* A page that may be written without a fault counts as dirty, or is still to be copied
\* to its buffer, and to an image that counts as current.
LEMMA WritesAreSeen ==
  ASSUME Tracking, NEW p \in Tracked!Page, pHost[p] = "RW", p \notin Tracked!Opened
  PROVE  p \in pCpuDirty \cup Tracked!CopyAhead /\ (p \in pImaged => p \in Tracked!ImageAhead)
  <1>1. pWatchers[p] > 0 => Late(p)
        BY DEF Tracking, HostOK
  <1>2. pWatchers[p] = (IF p \in pWritable THEN 0 ELSE 1) + (IF p \in pImaged THEN 1 ELSE 0)
        BY DEF Tracking, WatchersFollow
  <1>3. Late(p) => p \in Tracked!CopyAhead /\ (p \in pImaged => p \in Tracked!ImageAhead)
        BY DEF Tracking, UploadOK, Late, LateJob, CopyAfter, ImageAfter, Tracked!CopyAhead,
           Tracked!ImageAhead, Tracked!Gpc
  <1> QED BY <1>1, <1>2, <1>3 DEF Tracking, WatchersFollow

LEMMA GuestWriteKeeps ==
  ASSUME Tracking, NEW g \in Guests, NEW p \in Tracked!Page, Tracked!GuestWrite(g, p)
  PROVE  Tracking'
  <1> USE DEF Tracking
  <1>1. /\ pStale' = pStale \cup {p} /\ pImageStale' = pImageStale \cup ({p} \cap pMode.image)
        /\ pSlipped' = IF \E o \in Guests : Tracked!At(o, "reapply") /\ pGuest[o].page = p
                       THEN pSlipped \cup {p} ELSE pSlipped
        /\ pHost[p] = "RW"
        /\ UNCHANGED <<pMode, Tracked!tracker, Tracked!pages, pImaged, Tracked!epochs, pQueue, pBehind,
             pGuest, pGpu, pExited>>
        BY DEF Tracked!GuestWrite
  <1>2. UNCHANGED <<pCpuDirty, pGpuDirty, pWritable, pLock, pWatchers, pAccess, pHost, pDeferred, pProven,
          pSame, pBda>>
        BY <1>1 DEF Tracked!tracker, Tracked!pages, Tracked!epochs
  <1>3. Tracked!TypeOK'
        BY <1>1, <1>2 DEF Tracked!TypeOK, Tracked!Page, Tracked!Job
  <1>4. WatchersFollow' /\ JobsOK' /\ EpochsOK' /\ UploadOK' /\ DownloadOK'
        BY <1>1, <1>2, WatchersFrame, JobsFrame, EpochsFrame, RenderFrame DEF Tracked!At
  <1>5. Tracked!Opened' = Tracked!Opened /\ \A x \in Tracked!Page : Late(x) => Late(x)'
        BY <1>1, QuietLate DEF Tracked!Opened, Tracked!At
  <1>6. HostOK'
        BY <1>1, <1>2, <1>5, HostStep
  <1>7. p \in pCpuDirty \cup Tracked!CopyAhead \cup pSlipped'
          /\ (p \in pImaged => p \in Tracked!ImageAhead \cup pSlipped')
        <2>1. CASE p \in Tracked!Opened
              BY <2>1, <1>1 DEF Tracked!Opened
        <2>2. CASE p \notin Tracked!Opened
              BY <2>2, <1>1, WritesAreSeen
        <2> QED BY <2>1, <2>2
  <1>8. Tracked!CopyAhead' = Tracked!CopyAhead /\ Tracked!ImageAhead' = Tracked!ImageAhead
          /\ pSlipped \subseteq pSlipped'
        BY <1>1 DEF Tracked!CopyAhead, Tracked!ImageAhead, Tracked!Gpc
  <1>9. DataOK'
        BY <1>1, <1>2, <1>7, <1>8 DEF DataOK, Tracked!WritesReachGpu
  <1> QED BY <1>3, <1>4, <1>6, <1>9

\* What MarkDirty does where the GPU owns nothing.
LEMMA Marks ==
  ASSUME Tracked!TypeOK, NEW t \in Guests \cup {Gpu}, NEW P \in SUBSET Tracked!Page, P \cap pGpuDirty = {},
         Tracked!MarkDirty(t, P)
  PROVE  /\ pLock = None /\ pLock' = t /\ pExited' = FALSE /\ pCpuDirty' = pCpuDirty \cup P
         /\ pProven' = FALSE /\ pSame' = FALSE /\ pBda' \subseteq {"set", "pending"} /\ pBda' # {}
         /\ UNCHANGED <<pGpuDirty, pWritable, pDeferred>>
  BY DEF Tracked!MarkDirty, Tracked!TypeOK

LEMMA MarkedEpochs ==
  ASSUME pProven' = FALSE, pSame' = FALSE, pBda' # {}
  PROVE  EpochsOK'
  BY DEF EpochsOK

LEMMA GuestMarks ==
  ASSUME Tracking, NEW g \in Guests, NEW r \in GuestRecord, pGuest' = [pGuest EXCEPT ![g] = r],
         pGuest[g].pc # "sent", pGuest[g].pc # "reapply",
         NEW P \in SUBSET Tracked!Page, P \cap pGpuDirty = {}, Tracked!MarkDirty(g, P),
         UNCHANGED <<pMode, Tracked!pages, pImaged, pQueue, Tracked!data, pGpu>>
  PROVE  Tracking'
  <1> USE DEF Tracking
  <1>1. /\ pLock = None /\ pLock' = g /\ pExited' = FALSE /\ pCpuDirty' = pCpuDirty \cup P
        /\ pProven' = FALSE /\ pSame' = FALSE /\ pBda' \subseteq {"set", "pending"} /\ pBda' # {}
        /\ UNCHANGED <<pGpuDirty, pWritable, pDeferred>>
        BY Marks
  <1>2. UNCHANGED <<pWatchers, pAccess, pHost, pStale, pImageStale, pBehind, pSlipped>>
        BY DEF Tracked!pages, Tracked!data
  <1>3. Tracked!TypeOK'
        <2>1. pGuest' \in [Guests -> [pc : Tracked!GuestPc, page : Tracked!Page,
                marked : SUBSET Tracked!Page, then : {"run", "images"}]]
              BY GuestTypes
        <2> QED BY <1>1, <1>2, <2>1 DEF Tracked!TypeOK, Tracked!Page, Tracked!Job
  <1>4. WatchersFollow'
        BY <1>1, <1>2 DEF WatchersFollow, Tracked!Page
  <1>5. pLock # Gpu
        BY <1>1, PagesAssumption DEF Tracked!PageAssumption
  <1>6. UploadOK' /\ DownloadOK'
        BY <1>1, <1>2, <1>5, SentKept, RenderFrame
  <1>7. JobsOK' /\ EpochsOK'
        BY <1>1, <1>2, JobsFrame, MarkedEpochs
  <1>8. DataOK'
        BY <1>1, <1>2, DataFrame
  <1>9. Tracked!Opened \subseteq Tracked!Opened' /\ \A x \in Tracked!Page : Late(x) => Late(x)'
        BY OpenedKept, QuietLate
  <1>10. HostOK'
        BY <1>2, <1>9, HostStep
  <1> QED BY <1>3, <1>4, <1>6, <1>7, <1>8, <1>10

LEMMA WindowKeeps ==
  ASSUME Tracking, NEW g \in Guests, Tracked!WriteWindow(g)
  PROVE  Tracking'
  <1>1. /\ pGuest[g].pc = "window" /\ pGpuDirty = {} /\ Tracked!MarkDirty(g, Tracked!Page)
        /\ pGuest' = [pGuest EXCEPT ![g].pc = "unprotect", ![g].marked = Tracked!Page]
        /\ UNCHANGED <<pMode, Tracked!pages, pImaged, pQueue, Tracked!data, pGpu>>
        BY DEF Tracked!WriteWindow, Tracked!At
  <1> DEFINE r == [pGuest[g] EXCEPT !.pc = "unprotect", !.marked = Tracked!Page]
  <1>2. r \in GuestRecord
        BY GuestHas DEF GuestRecord, Tracked!GuestPc, Tracking
  <1>3. pGuest' = [pGuest EXCEPT ![g] = r]
        BY <1>1 DEF Tracking, Tracked!TypeOK
  <1> HIDE DEF r
  <1>4. Tracked!Page \in SUBSET Tracked!Page /\ Tracked!Page \cap pGpuDirty = {}
        BY <1>1
  <1> QED BY <1>1, <1>2, <1>3, <1>4, GuestMarks

LEMMA InvalidateKeeps ==
  ASSUME Tracking, NEW g \in Guests, Tracked!Invalidate(g)
  PROVE  Tracking'
  <1> DEFINE p == pGuest[g].page
             r == [pGuest[g] EXCEPT !.pc = "unprotect", !.marked = {p}, !.then = "images"]
  <1>1. /\ pGuest[g].pc = "invalidate" /\ p \notin pGpuDirty /\ Tracked!MarkDirty(g, {p})
        /\ pGuest' = [pGuest EXCEPT ![g].pc = "unprotect", ![g].marked = {p}, ![g].then = "images"]
        /\ UNCHANGED <<pMode, Tracked!pages, pImaged, pQueue, Tracked!data, pGpu>>
        BY DEF Tracked!Invalidate, Tracked!At
  <1>2. p \in Tracked!Page /\ r \in GuestRecord
        BY GuestHas DEF GuestRecord, Tracked!GuestPc, Tracking
  <1>3. pGuest' = [pGuest EXCEPT ![g] = r]
        BY <1>1 DEF Tracking, Tracked!TypeOK
  <1> HIDE DEF r, p
  <1>4. {p} \in SUBSET Tracked!Page /\ {p} \cap pGpuDirty = {}
        BY <1>1, <1>2
  <1> QED BY <1>1, <1>2, <1>3, <1>4, GuestMarks

\* Watchers of U go away; a page's protection is dropped with its last one.
LEMMA Unwatches ==
  ASSUME Tracked!TypeOK, NEW U \in SUBSET Tracked!Page, \A p \in U : pWatchers[p] >= 1,
         pWatchers' = Tracked!Unwatch(U), pHost' = Tracked!Released(U), UNCHANGED <<pMode, pAccess>>
  PROVE  /\ pWatchers' \in [Tracked!Page -> 0 .. 127] /\ pHost' \in [Tracked!Page -> {"RW", "RO", "NA"}]
         /\ \A p \in Tracked!Page : pWatchers'[p] = IF p \in U THEN pWatchers[p] - 1 ELSE pWatchers[p]
         /\ \A p \in Tracked!Page : \/ pHost'[p] = pHost[p] /\ (pWatchers'[p] > 0 => pWatchers[p] > 0)
                                    \/ pHost'[p] = Tracked!Perms(pWatchers', pAccess', p)
  <1>1. \A p \in Tracked!Page : pWatchers[p] \in 0 .. 127 /\ pHost[p] \in {"RW", "RO", "NA"}
        BY DEF Tracked!TypeOK
  <1>2. /\ pWatchers' \in [Tracked!Page -> 0 .. 127]
        /\ \A p \in Tracked!Page : pWatchers'[p] = IF p \in U THEN pWatchers[p] - 1 ELSE pWatchers[p]
        BY <1>1 DEF Tracked!Unwatch
  <1>3. /\ pHost' \in [Tracked!Page -> {"RW", "RO", "NA"}]
        /\ \A p \in Tracked!Page : pHost'[p] = IF p \in U /\ pWatchers[p] = 1 /\ p \notin pAccess
                                               THEN "RW" ELSE pHost[p]
        BY <1>1 DEF Tracked!Released
  <1>4. ASSUME NEW p \in Tracked!Page
        PROVE  \/ pHost'[p] = pHost[p] /\ (pWatchers'[p] > 0 => pWatchers[p] > 0)
               \/ pHost'[p] = Tracked!Perms(pWatchers', pAccess', p)
        BY <1>1, <1>2, <1>3 DEF Tracked!Perms
  <1> QED BY <1>2, <1>3, <1>4

LEMMA Unprotects ==
  ASSUME Tracking, NEW P \in SUBSET Tracked!Page, Tracked!Unprotect(P), UNCHANGED <<pMode, pImaged>>
  PROVE  /\ pWritable' \subseteq Tracked!Page /\ pLock' = None /\ pExited' = FALSE
         /\ pWatchers' \in [Tracked!Page -> 0 .. 127] /\ pHost' \in [Tracked!Page -> {"RW", "RO", "NA"}]
         /\ UNCHANGED <<pCpuDirty, pGpuDirty, pAccess>> /\ WatchersFollow'
         /\ \A p \in Tracked!Page : \/ pHost'[p] = pHost[p] /\ (pWatchers'[p] > 0 => pWatchers[p] > 0)
                                    \/ pHost'[p] = Tracked!Perms(pWatchers', pAccess', p)
  <1> DEFINE U == (P \cap pCpuDirty) \ pWritable
  <1>1. /\ pWritable' = pWritable \cup U /\ pWatchers' = Tracked!Unwatch(U) /\ pHost' = Tracked!Released(U)
        /\ pExited' = (pExited \/ \E p \in U : pWatchers[p] = 0) /\ pLock' = None
        /\ UNCHANGED <<pCpuDirty, pGpuDirty, pAccess>>
        BY DEF Tracked!Unprotect
  <1>2. Tracked!TypeOK /\ WatchersFollow /\ U \in SUBSET Tracked!Page
        BY DEF Tracking
  <1>3. \A p \in U : p \notin pWritable /\ p \in pCpuDirty
        OBVIOUS
  <1> HIDE DEF U
  <1>4. \A p \in U : pWatchers[p] >= 1
        BY <1>2, <1>3 DEF WatchersFollow
  <1>5. pExited' = FALSE
        <2>1. ~ \E p \in U : pWatchers[p] = 0
              BY <1>4
        <2>2. pExited = FALSE
              BY <1>2 DEF Tracked!TypeOK
        <2> QED BY <1>1, <2>1, <2>2
  <1>6. /\ pWatchers' \in [Tracked!Page -> 0 .. 127] /\ pHost' \in [Tracked!Page -> {"RW", "RO", "NA"}]
        /\ \A p \in Tracked!Page : pWatchers'[p] = IF p \in U THEN pWatchers[p] - 1 ELSE pWatchers[p]
        /\ \A p \in Tracked!Page : \/ pHost'[p] = pHost[p] /\ (pWatchers'[p] > 0 => pWatchers[p] > 0)
                                   \/ pHost'[p] = Tracked!Perms(pWatchers', pAccess', p)
        BY <1>1, <1>2, <1>4, Unwatches
  <1>7. WatchersFollow'
        BY <1>1, <1>2, <1>3, <1>6 DEF WatchersFollow, Tracked!Page
  <1>8. pWritable' \subseteq Tracked!Page
        BY <1>1, <1>2 DEF Tracked!TypeOK
  <1> QED BY <1>1, <1>5, <1>6, <1>7, <1>8

LEMMA GuestUnprotectKeeps ==
  ASSUME Tracking, NEW g \in Guests, Tracked!GuestUnprotect(g)
  PROVE  Tracking'
  <1> USE DEF Tracking
  <1>1. /\ pGuest[g].pc = "unprotect" /\ pLock = g /\ Tracked!Unprotect(pGuest[g].marked)
        /\ pGuest' = [pGuest EXCEPT ![g].pc = pGuest[g].then, ![g].marked = {}]
        /\ UNCHANGED <<pMode, pImaged, Tracked!epochs, pQueue, Tracked!data, pGpu>>
        BY DEF Tracked!GuestUnprotect, Tracked!At
  <1> DEFINE r == [pGuest[g] EXCEPT !.pc = pGuest[g].then, !.marked = {}]
  <1>2. r \in GuestRecord
        BY GuestHas DEF GuestRecord, Tracked!GuestPc
  <1>3. pGuest' = [pGuest EXCEPT ![g] = r]
        BY <1>1 DEF Tracked!TypeOK
  <1> HIDE DEF r
  <1>4. UNCHANGED <<pDeferred, pProven, pSame, pBda, pStale, pImageStale, pBehind, pSlipped>>
        BY <1>1 DEF Tracked!epochs, Tracked!data
  <1>5. /\ pWritable' \subseteq Tracked!Page /\ pLock' = None /\ pExited' = FALSE
        /\ pWatchers' \in [Tracked!Page -> 0 .. 127] /\ pHost' \in [Tracked!Page -> {"RW", "RO", "NA"}]
        /\ UNCHANGED <<pCpuDirty, pGpuDirty, pAccess>> /\ WatchersFollow'
        /\ \A p \in Tracked!Page : \/ pHost'[p] = pHost[p] /\ (pWatchers'[p] > 0 => pWatchers[p] > 0)
                                   \/ pHost'[p] = Tracked!Perms(pWatchers', pAccess', p)
        BY <1>1, GuestHas, Unprotects
  <1>6. Tracked!TypeOK'
        <2>1. pGuest' \in [Guests -> [pc : Tracked!GuestPc, page : Tracked!Page,
                marked : SUBSET Tracked!Page, then : {"run", "images"}]]
              BY <1>1, <1>2, <1>3, GuestTypes
        <2> QED BY <1>1, <1>4, <1>5, <2>1 DEF Tracked!TypeOK, Tracked!Page, Tracked!Job
  <1>7. pLock # Gpu
        BY <1>1, PagesAssumption DEF Tracked!PageAssumption
  <1>8. UploadOK' /\ DownloadOK'
        BY <1>1, <1>2, <1>3, <1>4, <1>5, <1>7, SentKept, RenderFrame
  <1>9. JobsOK' /\ EpochsOK' /\ DataOK'
        BY <1>1, <1>4, <1>5, JobsFrame, EpochsFrame, DataFrame
  <1>10. Tracked!Opened \subseteq Tracked!Opened' /\ \A x \in Tracked!Page : Late(x) => Late(x)'
        BY <1>1, <1>2, <1>3, OpenedKept, QuietLate
  <1>11. HostOK'
        BY <1>1, <1>5, <1>10, HostStep
  <1> QED BY <1>5, <1>6, <1>8, <1>9, <1>11

LEMMA ImagesKeep ==
  ASSUME Tracking, NEW g \in Guests, Tracked!InvalidateImages(g)
  PROVE  Tracking'
  <1> USE DEF Tracking
  <1> DEFINE U == {pGuest[g].page} \cap pImaged
  <1>1. /\ pGuest[g].pc = "images" /\ pGuest' = [pGuest EXCEPT ![g] = Tracked!Running]
        /\ pWatchers' = Tracked!Unwatch(U) /\ pHost' = Tracked!Released(U) /\ pImaged' = pImaged \ U
        /\ pExited' = (pExited \/ \E p \in U : pWatchers[p] = 0)
        /\ UNCHANGED <<pMode, Tracked!tracker, pAccess, Tracked!epochs, pQueue, Tracked!data, pGpu>>
        BY DEF Tracked!InvalidateImages, Tracked!At, Tracked!Become
  <1>2. UNCHANGED <<pCpuDirty, pGpuDirty, pWritable, pLock, pDeferred, pProven, pSame, pBda, pStale,
          pImageStale,
                    pBehind, pSlipped>>
        BY <1>1 DEF Tracked!tracker, Tracked!epochs, Tracked!data
  <1>3. U \in SUBSET Tracked!Page /\ U \subseteq pImaged /\ Tracked!Running \in GuestRecord
        BY GuestHas, RunningIsRecord
  <1> HIDE DEF U
  <1>4. \A p \in U : pWatchers[p] >= 1
        BY <1>3 DEF WatchersFollow
  <1>5. /\ pWatchers' \in [Tracked!Page -> 0 .. 127] /\ pHost' \in [Tracked!Page -> {"RW", "RO", "NA"}]
        /\ \A p \in Tracked!Page : pWatchers'[p] = IF p \in U THEN pWatchers[p] - 1 ELSE pWatchers[p]
        /\ \A p \in Tracked!Page : \/ pHost'[p] = pHost[p] /\ (pWatchers'[p] > 0 => pWatchers[p] > 0)
                                   \/ pHost'[p] = Tracked!Perms(pWatchers', pAccess', p)
        BY <1>1, <1>3, <1>4, Unwatches
  <1>6. pExited' = FALSE
        <2>1. ~ \E p \in U : pWatchers[p] = 0
              BY <1>4
        <2>2. pExited = FALSE
              BY DEF Tracked!TypeOK
        <2> QED BY <1>1, <2>1, <2>2
  <1>7. Tracked!TypeOK'
        <2>1. pGuest' \in [Guests -> [pc : Tracked!GuestPc, page : Tracked!Page,
                marked : SUBSET Tracked!Page, then : {"run", "images"}]]
              BY <1>1, <1>3, GuestTypes
        <2> QED BY <1>1, <1>2, <1>5, <1>6, <2>1 DEF Tracked!TypeOK, Tracked!Page, Tracked!Job
  <1>8. WatchersFollow'
        BY <1>1, <1>2, <1>3, <1>5 DEF WatchersFollow, Tracked!Page
  <1>9. UploadOK' /\ DownloadOK'
        BY <1>1, <1>2, <1>3, SentKept, RenderFrame
  <1>10. JobsOK' /\ EpochsOK' /\ DataOK'
        BY <1>1, <1>2, JobsFrame, EpochsFrame, DataFrame
  <1>11. Tracked!Opened \subseteq Tracked!Opened' /\ \A x \in Tracked!Page : Late(x) => Late(x)'
        BY <1>1, <1>3, OpenedKept, QuietLate
  <1>12. HostOK'
        BY <1>1, <1>5, <1>11, HostStep
  <1> QED BY <1>7, <1>8, <1>9, <1>10, <1>12

LEMMA GuestKeeps == ASSUME Tracking, NEW g \in Guests, Tracked!GuestNext(g) PROVE Tracking'
  BY GuestWriteKeeps, FaultKeeps, MprotectKeeps, WindowKeeps, NoWindowKeeps, RestoreKeeps, InvalidateKeeps,
     InvalidateFlushKeeps, GuestUnprotectKeeps, ImagesKeep, ReapplyKeeps DEF Tracked!GuestNext

\* ---- the render thread
GpuRecord == [pc : Tracked!GpuPc, range : SUBSET Tracked!Page, use : {"read", "write", "visit"},
              protect : SUBSET Tracked!Page, copies : SUBSET SUBSET Tracked!Page, who : Guests \cup {None}]

LEMMA IdleIsRecord ==
  /\ Tracked!Idle \in GpuRecord /\ Tracked!Idle.pc = "idle" /\ Tracked!Idle.copies = {}
       /\ Tracked!Idle.protect = {} /\ Tracked!Idle.use = "read"
  /\ Tracked!Idle.who = None /\ Tracked!Idle.range = {}
  BY DEF Tracked!Idle, GpuRecord, Tracked!GpuPc

LEMMA GpuHas ==
  ASSUME Tracked!TypeOK
  PROVE  /\ pGpu \in GpuRecord /\ pGpu.pc \in Tracked!GpuPc /\ pGpu.range \in SUBSET Tracked!Page
         /\ pGpu.use \in {"read", "write", "visit"} /\ pGpu.protect \in SUBSET Tracked!Page
         /\ pGpu.copies \in SUBSET SUBSET Tracked!Page /\ pGpu.who \in Guests \cup {None}
  BY DEF Tracked!TypeOK, GpuRecord

LEMMA GpuDoes ==
  ASSUME Tracked!TypeOK, NEW where \in Tracked!GpuPc, Tracked!Do(where)
  PROVE  /\ pGpu' \in GpuRecord /\ pGpu'.pc = where /\ pGpu'.range = pGpu.range /\ pGpu'.use = pGpu.use
         /\ pGpu'.protect = pGpu.protect /\ pGpu'.copies = pGpu.copies /\ pGpu'.who = pGpu.who
  BY DEF Tracked!Do, Tracked!TypeOK, GpuRecord

\* Where no upload is on its way there is nothing to protect or copy.
LEMMA NoUpload ==
  ASSUME UploadOK, pGpu.pc \notin {"handover", "copies"}
  PROVE  pGpu.copies = {} /\ pGpu.protect = {} /\ (pGpu.pc # "prove" => pGpu.use # "visit")
  BY DEF UploadOK

LEMMA UploadEnded ==
  ASSUME pGpu'.copies = {}, pGpu'.protect = {}, pGpu'.pc \notin {"handover", "copies", "written"},
         pGpu'.use = "visit" => pGpu'.pc = "prove"
  PROVE  UploadOK'
  BY DEF UploadOK

\* The render thread goes on without touching the trackers.
LEMMA GpuMoves ==
  ASSUME Tracking, UNCHANGED <<pMode, Tracked!tracker, Tracked!pages, pImaged, pDeferred, pQueue, pStale,
         pImageStale, pSlipped,
                               pGuest, pExited>>,
         pGpu' \in GpuRecord, pGpu.copies = {}, pGpu'.copies = {}, pGpu'.protect = {}, pGpu.pc # "image",
         pBehind' \subseteq pBehind, pProven' \in BOOLEAN, pSame' \in BOOLEAN, pBda' \subseteq {"set",
           "pending"},
         UploadOK', DownloadOK', EpochsOK'
  PROVE  Tracking'
  <1> USE DEF Tracking
  <1>1. UNCHANGED <<pCpuDirty, pGpuDirty, pWritable, pLock, pWatchers, pAccess, pHost>>
        BY DEF Tracked!tracker, Tracked!pages
  <1>2. pGpu.protect = {}
        BY DEF UploadOK
  <1>3. Tracked!TypeOK'
        BY <1>1 DEF Tracked!TypeOK, Tracked!Page, Tracked!Job, GpuRecord
  <1>4. WatchersFollow' /\ JobsOK'
        BY <1>1, <1>2, WatchersFrame, JobsFrame
  <1>5. Tracked!Opened' = Tracked!Opened /\ \A x \in Tracked!Page : Late(x) => Late(x)'
        BY <1>2, LateFrame DEF Tracked!Opened, Tracked!At
  <1>6. HostOK'
        BY <1>1, <1>5, HostStep
  <1>7. Tracked!CopyAhead' = Tracked!CopyAhead /\ Tracked!ImageAhead \subseteq Tracked!ImageAhead'
        BY DEF Tracked!CopyAhead, Tracked!ImageAhead, Tracked!Gpc
  <1>8. DataOK'
        BY <1>1, <1>7 DEF DataOK, Tracked!WritesReachGpu
  <1> QED BY <1>3, <1>4, <1>6, <1>8

LEMMA CopiesDoneKeeps == ASSUME Tracking, Tracked!CopiesDone PROVE Tracking'
  <1> USE DEF Tracking
  <1>1. /\ pGpu.pc = "copies" /\ pGpu.copies = {}
        /\ IF pGpu.use = "read" THEN pGpu' = Tracked!Idle
           ELSE Tracked!Do(IF pGpu.use = "write" THEN "written" ELSE "prove")
        /\ UNCHANGED <<pMode, Tracked!tracker, Tracked!pages, pImaged, Tracked!epochs, pQueue, Tracked!data,
             pGuest, pExited>>
        BY DEF Tracked!CopiesDone, Tracked!Gpc
  <1>2. UNCHANGED <<pDeferred, pProven, pSame, pBda, pStale, pImageStale, pSlipped, pBehind, pCpuDirty,
          pGpuDirty, pLock>>
        BY <1>1 DEF Tracked!epochs, Tracked!data, Tracked!tracker
  <1>p. pGpu.protect = {} /\ pGpu.who \notin Guests
        BY <1>1 DEF UploadOK, DownloadOK
  <1>3. CASE pGpu.use = "read"
        <2>1. pGpu' = Tracked!Idle
              BY <1>1, <1>3
        <2>2. UploadOK' /\ DownloadOK'
              BY <2>1, IdleIsRecord, UploadEnded, PagesAssumption DEF DownloadOK, Tracked!PageAssumption
        <2>3. EpochsOK'
              BY <2>1, <1>1, <1>2, IdleIsRecord DEF EpochsOK
        <2> QED BY <1>1, <1>2, <2>1, <2>2, <2>3, IdleIsRecord, GpuMoves DEF Tracked!TypeOK
  <1>4. CASE pGpu.use = "write"
        <2>1. Tracked!Do("written") /\ "written" \in Tracked!GpuPc
              BY <1>1, <1>4 DEF Tracked!GpuPc
        <2>2. /\ pGpu' \in GpuRecord /\ pGpu'.pc = "written" /\ pGpu'.range = pGpu.range /\ pGpu'.use = pGpu.use
              /\ pGpu'.protect = pGpu.protect /\ pGpu'.copies = pGpu.copies /\ pGpu'.who = pGpu.who
              BY <2>1, GpuDoes
        <2>3. UploadOK' /\ DownloadOK'
              BY <1>1, <1>2, <1>4, <1>p, <2>2 DEF UploadOK, DownloadOK
        <2>4. EpochsOK'
              BY <1>1, <1>2, <1>4, <2>2 DEF EpochsOK
        <2> QED BY <1>1, <1>2, <1>p, <2>2, <2>3, <2>4, GpuMoves DEF Tracked!TypeOK
  <1>5. CASE pGpu.use = "visit"
        <2>1. Tracked!Do("prove") /\ "prove" \in Tracked!GpuPc
              BY <1>1, <1>5 DEF Tracked!GpuPc
        <2>2. /\ pGpu' \in GpuRecord /\ pGpu'.pc = "prove" /\ pGpu'.range = pGpu.range /\ pGpu'.use = pGpu.use
              /\ pGpu'.protect = pGpu.protect /\ pGpu'.copies = pGpu.copies /\ pGpu'.who = pGpu.who
              BY <2>1, GpuDoes
        <2>3. UploadOK' /\ DownloadOK'
              BY <1>1, <1>2, <1>5, <1>p, <2>2, UploadEnded DEF DownloadOK
        <2>4. EpochsOK'
              BY <1>1, <1>2, <1>5, <2>2 DEF EpochsOK
        <2> QED BY <1>1, <1>2, <1>p, <2>2, <2>3, <2>4, GpuMoves DEF Tracked!TypeOK
  <1> QED BY <1>3, <1>4, <1>5, GpuHas

LEMMA VisitKeeps == ASSUME Tracking, Tracked!VisitBda PROVE Tracking'
  <1> USE DEF Tracking
  <1>1. /\ pGpu.pc = "idle" /\ pBda' = pBda \ {"set"} /\ pSame' = (pDeferred = 0)
        /\ IF pDeferred = 0 /\ pProven THEN pGpu' = pGpu ELSE Tracked!Do("sync")
        /\ UNCHANGED <<pMode, Tracked!tracker, Tracked!pages, pImaged, pDeferred, pProven, pQueue,
             Tracked!data, pGuest, pExited>>
        BY DEF Tracked!VisitBda, Tracked!Gpc
  <1>2. UNCHANGED <<pStale, pImageStale, pSlipped, pBehind, pCpuDirty, pGpuDirty, pLock>>
        BY <1>1 DEF Tracked!data, Tracked!tracker
  <1>3. pGpu.copies = {} /\ pGpu.protect = {} /\ pGpu.use # "visit" /\ pGpu.who \notin Guests
        BY <1>1, NoUpload DEF DownloadOK
  <1>4. /\ pGpu' \in GpuRecord /\ pGpu'.copies = {} /\ pGpu'.protect = {} /\ pGpu'.use # "visit"
        /\ pGpu'.pc \in {"idle", "sync"} /\ pGpu'.who = pGpu.who
        /\ (pDeferred = 0 /\ pProven) \/ pGpu'.pc = "sync"
        <2>1. CASE pDeferred = 0 /\ pProven
              BY <2>1, <1>1, <1>3, GpuHas
        <2>2. CASE ~(pDeferred = 0 /\ pProven)
              <3>1. Tracked!Do("sync") /\ "sync" \in Tracked!GpuPc
                    BY <2>2, <1>1 DEF Tracked!GpuPc
              <3> QED BY <3>1, <1>3, GpuDoes
        <2> QED BY <2>1, <2>2
  <1>5. UploadOK' /\ DownloadOK'
        BY <1>3, <1>4, UploadEnded DEF DownloadOK
  <1>6. EpochsOK'
        BY <1>1, <1>2, <1>4 DEF EpochsOK
  <1>7. pProven' \in BOOLEAN /\ pBda' \subseteq {"set", "pending"}
        BY <1>1 DEF Tracked!TypeOK
  <1>8. pSame' \in BOOLEAN
        BY <1>1
  <1> QED BY <1>1, <1>2, <1>3, <1>4, <1>5, <1>6, <1>7, <1>8, GpuMoves

LEMMA ProveKeeps == ASSUME Tracking, Tracked!Prove PROVE Tracking'
  <1> USE DEF Tracking
  <1>1. /\ pGpu.pc = "prove" /\ pProven' = (pSame /\ pDeferred = 0)
        /\ pBda' = IF ~(pSame /\ pDeferred = 0) /\ pDeferred = 0 THEN pBda \cup {"set"} ELSE pBda
        /\ pGpu' = Tracked!Idle
        /\ UNCHANGED <<pMode, Tracked!tracker, Tracked!pages, pImaged, pDeferred, pSame, pQueue,
             Tracked!data, pGuest, pExited>>
        BY DEF Tracked!Prove, Tracked!Gpc
  <1>2. UNCHANGED <<pStale, pImageStale, pSlipped, pBehind, pCpuDirty, pGpuDirty, pLock>>
        BY <1>1 DEF Tracked!data, Tracked!tracker
  <1>3. pGpu.copies = {}
        BY <1>1, NoUpload
  <1>4. UploadOK' /\ DownloadOK'
        BY <1>1, IdleIsRecord, UploadEnded, PagesAssumption DEF DownloadOK, Tracked!PageAssumption
  <1>5. EpochsOK'
        BY <1>1, <1>2, IdleIsRecord DEF EpochsOK
  <1>6. pSame' \in BOOLEAN /\ pBda' \subseteq {"set", "pending"}
        BY <1>1 DEF Tracked!TypeOK
  <1>7. pProven' \in BOOLEAN
        BY <1>1
  <1> QED BY <1>1, <1>2, <1>3, <1>4, <1>5, <1>6, <1>7, IdleIsRecord, GpuMoves

LEMMA PublishKeeps == ASSUME Tracking, Tracked!Publish PROVE Tracking'
  <1> USE DEF Tracking
  <1>1. /\ pGpu.pc = "idle" /\ pBda' = {"set"}
        /\ UNCHANGED <<pMode, Tracked!tracker, Tracked!pages, pImaged, pDeferred, pProven, pSame, pQueue,
             Tracked!data, pGuest, pGpu, pExited>>
        BY DEF Tracked!Publish, Tracked!Gpc
  <1>2. UNCHANGED <<pStale, pImageStale, pSlipped, pBehind, pCpuDirty, pGpuDirty, pLock>>
        BY <1>1 DEF Tracked!data, Tracked!tracker
  <1>3. pGpu.copies = {} /\ pGpu.protect = {}
        BY <1>1, NoUpload
  <1>4. UploadOK' /\ DownloadOK'
        BY <1>1, <1>2, RenderFrame DEF Tracked!At
  <1>5. EpochsOK'
        BY <1>1, <1>2 DEF EpochsOK
  <1>6. pSame' \in BOOLEAN /\ pProven' \in BOOLEAN /\ pBda' \subseteq {"set", "pending"}
        BY <1>1 DEF Tracked!TypeOK
  <1> QED BY <1>1, <1>2, <1>3, <1>4, <1>5, <1>6, GpuHas, GpuMoves

\* The render thread begins something that does not upload.
LEMMA Begins ==
  ASSUME Tracking, pGpu.pc = "idle", NEW where \in {"download", "mark", "unmark", "untrack"},
         pGpu' \in GpuRecord, pGpu'.pc = where, pGpu'.copies = {}, pGpu'.protect = {}, pGpu'.use = "read",
         UNCHANGED <<pMode, Tracked!tracker, Tracked!pages, pImaged, Tracked!epochs, pQueue, Tracked!data,
           pGuest, pExited>>,
         DownloadOK'
  PROVE  Tracking'
  <1> USE DEF Tracking
  <1>1. UNCHANGED <<pStale, pImageStale, pSlipped, pBehind, pCpuDirty, pGpuDirty, pLock, pDeferred, pProven,
          pSame, pBda>>
        BY DEF Tracked!data, Tracked!tracker, Tracked!epochs
  <1>2. pGpu.copies = {} /\ pGpu.protect = {}
        BY NoUpload
  <1>3. UploadOK'
        BY UploadEnded
  <1>4. EpochsOK'
        BY <1>1 DEF EpochsOK
  <1>5. pSame' \in BOOLEAN /\ pProven' \in BOOLEAN /\ pBda' \subseteq {"set", "pending"}
        BY <1>1 DEF Tracked!TypeOK
  <1> QED BY <1>1, <1>2, <1>3, <1>4, <1>5, GpuMoves

LEMMA ServeKeeps == ASSUME Tracking, NEW g \in Guests, Tracked!Serve(g) PROVE Tracking'
  <1> USE DEF Tracking
  <1> DEFINE where == IF pGpuDirty # {} THEN "download" ELSE IF Tracked!IsWrite(g) THEN "mark" ELSE "unmark"
  <1>1. /\ pGpu.pc = "idle" /\ Tracked!At(g, "sent")
        /\ pGpu' = [Tracked!Idle EXCEPT !.pc = where, !.range = {pGuest[g].page}, !.who = g]
        /\ UNCHANGED <<pMode, Tracked!tracker, Tracked!pages, pImaged, Tracked!epochs, pQueue, Tracked!data,
             pGuest, pExited>>
        BY DEF Tracked!Serve, Tracked!Gpc
  <1>2. where \in {"download", "mark", "unmark"} /\ (where # "download" => pGpuDirty = {})
        OBVIOUS
  <1> HIDE DEF where
  <1>3. UNCHANGED <<pBehind, pGpuDirty, pCpuDirty>>
        BY <1>1 DEF Tracked!data, Tracked!tracker
  <1>4. {pGuest[g].page} \in SUBSET Tracked!Page /\ g \in Guests \cup {None}
        BY GuestHas
  <1>6. /\ pGpu' \in GpuRecord /\ pGpu'.pc = where /\ pGpu'.copies = {} /\ pGpu'.protect = {}
        /\ pGpu'.use = "read" /\ pGpu'.who = g
        BY <1>1, <1>2, <1>4 DEF Tracked!Idle, GpuRecord, Tracked!GpuPc
  <1>5. DownloadOK'
        BY <1>1, <1>2, <1>3, <1>6 DEF DownloadOK, Tracked!At, DataOK
  <1> QED BY <1>1, <1>2, <1>5, <1>6, Begins

LEMMA RetireKeeps == ASSUME Tracking, Tracked!Retire PROVE Tracking'
  <1> USE DEF Tracking
  <1> DEFINE where == IF pGpuDirty # {} THEN "download" ELSE "untrack"
  <1>1. /\ pGpu.pc = "idle" /\ pGpu' = [Tracked!Idle EXCEPT !.pc = where, !.range = Tracked!Page]
        /\ UNCHANGED <<pMode, Tracked!tracker, Tracked!pages, pImaged, Tracked!epochs, pQueue, Tracked!data,
             pGuest, pExited>>
        BY DEF Tracked!Retire, Tracked!Gpc
  <1>2. where \in {"download", "untrack"} /\ (where # "download" => pGpuDirty = {})
        OBVIOUS
  <1> HIDE DEF where
  <1>3. UNCHANGED <<pBehind, pGpuDirty, pCpuDirty, pMode>>
        BY <1>1 DEF Tracked!data, Tracked!tracker
  <1>5. /\ pGpu' \in GpuRecord /\ pGpu'.pc = where /\ pGpu'.copies = {} /\ pGpu'.protect = {}
        /\ pGpu'.use = "read" /\ pGpu'.who = None /\ pGpu'.range = Tracked!Page
        BY <1>1, <1>2 DEF Tracked!Idle, GpuRecord, Tracked!GpuPc
  <1>6. DownloadOK'
        BY <1>1, <1>2, <1>3, <1>5, PagesAssumption DEF DownloadOK, DataOK, Tracked!PageAssumption, Tracked!Page
  <1> QED BY <1>1, <1>2, <1>5, <1>6, Begins

LEMMA DownloadKeeps == ASSUME Tracking, Tracked!Download PROVE Tracking'
  <1> USE DEF Tracking
  <1>1. /\ pGpu.pc = "download" /\ pBehind' = pBehind \ pGpuDirty /\ Tracked!Do("unmark")
        /\ UNCHANGED <<pMode, Tracked!tracker, Tracked!pages, pImaged, Tracked!epochs, pQueue, pStale,
             pImageStale, pSlipped, pGuest, pExited>>
        BY DEF Tracked!Download, Tracked!Gpc
  <1>2. UNCHANGED <<pCpuDirty, pGpuDirty, pLock, pDeferred, pProven, pSame, pBda>>
        BY <1>1 DEF Tracked!tracker, Tracked!epochs
  <1>3. pBehind' = {}
        BY <1>1 DEF DataOK
  <1>4. pGpu.copies = {} /\ pGpu.protect = {} /\ pGpu.use # "visit"
        BY <1>1, NoUpload
  <1>5. "unmark" \in Tracked!GpuPc
        BY DEF Tracked!GpuPc
  <1>6. /\ pGpu' \in GpuRecord /\ pGpu'.pc = "unmark" /\ pGpu'.range = pGpu.range /\ pGpu'.use = pGpu.use
        /\ pGpu'.protect = pGpu.protect /\ pGpu'.copies = pGpu.copies /\ pGpu'.who = pGpu.who
        BY <1>1, <1>5, GpuDoes
  <1>7. UploadOK' /\ DownloadOK'
        BY <1>1, <1>2, <1>3, <1>4, <1>6, UploadEnded DEF DownloadOK, Tracked!At, Tracked!Page
  <1>8. EpochsOK'
        BY <1>1, <1>2, <1>4, <1>6 DEF EpochsOK
  <1>9. pSame' \in BOOLEAN /\ pProven' \in BOOLEAN /\ pBda' \subseteq {"set", "pending"}
        BY <1>2 DEF Tracked!TypeOK
  <1> QED BY <1>1, <1>2, <1>3, <1>4, <1>6, <1>7, <1>8, <1>9, GpuMoves

\* SyncBuffers where no page is dirty.
LEMMA NothingToSync ==
  ASSUME Tracking, pGpu.pc = "sync", pCpuDirty = {}, Tracked!Do("prove"),
         UNCHANGED <<pMode, Tracked!tracker, Tracked!pages, pImaged, Tracked!epochs, pQueue, Tracked!data,
           pGuest, pExited>>
  PROVE  Tracking'
  <1> USE DEF Tracking
  <1>1. UNCHANGED <<pCpuDirty, pGpuDirty, pLock, pDeferred, pProven, pSame, pBda, pBehind, pStale,
          pImageStale, pSlipped>>
        BY DEF Tracked!tracker, Tracked!epochs, Tracked!data
  <1>2. pGpu.copies = {} /\ pGpu.protect = {} /\ pGpu.who \notin Guests
        BY NoUpload DEF DownloadOK
  <1>3. "prove" \in Tracked!GpuPc
        BY DEF Tracked!GpuPc
  <1>4. /\ pGpu' \in GpuRecord /\ pGpu'.pc = "prove" /\ pGpu'.range = pGpu.range /\ pGpu'.use = pGpu.use
        /\ pGpu'.protect = pGpu.protect /\ pGpu'.copies = pGpu.copies /\ pGpu'.who = pGpu.who
        BY <1>3, GpuDoes
  <1>5. UploadOK' /\ DownloadOK'
        BY <1>2, <1>4, UploadEnded DEF DownloadOK
  <1>6. EpochsOK'
        BY <1>1 DEF EpochsOK
  <1>7. pSame' \in BOOLEAN /\ pProven' \in BOOLEAN /\ pBda' \subseteq {"set", "pending"}
        BY <1>1 DEF Tracked!TypeOK
  <1> QED BY <1>1, <1>2, <1>4, <1>5, <1>6, <1>7, GpuMoves

LEMMA SetsGpuDirty ==
  ASSUME Tracking, NEW D \in SUBSET Tracked!Page, Tracked!SetGpuDirty(D), UNCHANGED <<pMode, pWatchers>>
  PROVE  /\ pGpuDirty' = D /\ pAccess' = D /\ pHost' \in [Tracked!Page -> {"RW", "RO", "NA"}]
         /\ \A p \in Tracked!Page : \/ pHost'[p] = pHost[p] /\ (p \in pAccess' => p \in pAccess)
                                    \/ pHost'[p] = Tracked!Perms(pWatchers', pAccess', p)
  <1>1. /\ pGpuDirty' = D /\ pAccess' = D /\ pAccess = pGpuDirty
        /\ pHost' = [p \in Tracked!Page |-> IF p \in pGpuDirty /\ p \in D THEN pHost[p]
                                            ELSE IF p \in pGpuDirty \cup D THEN Tracked!Perms(pWatchers, D, p)
                                            ELSE pHost[p]]
        BY DEF Tracked!SetGpuDirty, Tracking, WatchersFollow
  <1>2. \A p \in Tracked!Page : pHost[p] \in {"RW", "RO", "NA"} /\ Tracked!Perms(pWatchers, D, p) \in {"RW",
          "RO", "NA"}
        BY DEF Tracking, Tracked!TypeOK, Tracked!Perms
  <1>3. pHost' \in [Tracked!Page -> {"RW", "RO", "NA"}]
        BY <1>1, <1>2
  <1>4. ASSUME NEW p \in Tracked!Page
        PROVE  \/ pHost'[p] = pHost[p] /\ (p \in pAccess' => p \in pAccess)
               \/ pHost'[p] = Tracked!Perms(pWatchers', pAccess', p)
        <2>1. Tracked!Perms(pWatchers', pAccess', p) = Tracked!Perms(pWatchers, D, p)
              BY <1>1 DEF Tracked!Perms
        <2> QED BY <1>1, <2>1
  <1> QED BY <1>1, <1>3, <1>4

LEMMA WrittenKeeps == ASSUME Tracking, Tracked!Written PROVE Tracking'
  <1> USE DEF Tracking
  <1>1. /\ pGpu.pc = "written" /\ pLock = Gpu
        /\ pExited' = (pExited \/ pGpu.range \cap pCpuDirty # {})
        /\ Tracked!SetGpuDirty(pGpuDirty \cup pGpu.range) /\ pBehind' = pBehind \cup pGpu.range
        /\ pLock' = None /\ pGpu' = Tracked!Idle
        /\ UNCHANGED <<pMode, pCpuDirty, pWritable, pWatchers, pImaged, Tracked!epochs, pQueue, pStale,
                       pImageStale, pSlipped, pGuest>>
        BY DEF Tracked!Written, Tracked!Gpc
  <1> DEFINE D == pGpuDirty \cup pGpu.range
  <1>2. D \in SUBSET Tracked!Page
        BY GpuHas DEF Tracked!TypeOK
  <1>3. /\ pGpuDirty' = D /\ pAccess' = D /\ pHost' \in [Tracked!Page -> {"RW", "RO", "NA"}]
        /\ \A p \in Tracked!Page : \/ pHost'[p] = pHost[p] /\ (p \in pAccess' => p \in pAccess)
                                   \/ pHost'[p] = Tracked!Perms(pWatchers', pAccess', p)
        BY <1>1, <1>2, SetsGpuDirty
  <1>4. UNCHANGED <<pDeferred, pProven, pSame, pBda>>
        BY <1>1 DEF Tracked!epochs
  <1>5. pExited' = FALSE
        <2>1. pGpu.range \cap pCpuDirty = {} /\ pExited = FALSE
              BY <1>1 DEF UploadOK, Tracked!TypeOK
        <2> QED BY <1>1, <2>1
  <1>6. Tracked!TypeOK'
        <2>1. pBehind' \subseteq Tracked!Page
              BY <1>1, GpuHas DEF Tracked!TypeOK
        <2>2. pGpuDirty' \subseteq Tracked!Page /\ pAccess' \subseteq Tracked!Page
              BY <1>2, <1>3
        <2> HIDE DEF D
        <2> QED BY <1>1, <1>3, <1>4, <1>5, <2>1, <2>2, IdleIsRecord DEF Tracked!TypeOK, Tracked!Page,
                   Tracked!Job, GpuRecord
  <1>7. WatchersFollow'
        BY <1>1, <1>3 DEF WatchersFollow, Tracked!Page
  <1>8. pGpu.protect = {} /\ pGpu.copies = {}
        BY <1>1, NoUpload
  <1>9. UploadOK' /\ DownloadOK'
        BY <1>1, IdleIsRecord, UploadEnded, PagesAssumption DEF DownloadOK, Tracked!PageAssumption
  <1>10. JobsOK'
        BY <1>1, <1>4, <1>8, IdleIsRecord, JobsFrame
  <1>11. EpochsOK'
        BY <1>1, <1>4, IdleIsRecord DEF EpochsOK
  <1>12. Tracked!Opened' = Tracked!Opened /\ \A x \in Tracked!Page : Late(x) => Late(x)'
        BY <1>1, <1>8, IdleIsRecord, LateFrame DEF Tracked!Opened, Tracked!At
  <1>13. HostOK'
        BY <1>1, <1>3, <1>12, HostStep
  <1>14. Tracked!CopyAhead' = Tracked!CopyAhead /\ Tracked!ImageAhead \subseteq Tracked!ImageAhead'
        BY <1>1, <1>8, IdleIsRecord DEF Tracked!CopyAhead, Tracked!ImageAhead, Tracked!Gpc
  <1>15. DataOK'
        BY <1>1, <1>3, <1>14 DEF DataOK, Tracked!WritesReachGpu
  <1> QED BY <1>6, <1>7, <1>9, <1>10, <1>11, <1>13, <1>15

LEMMA UnmarkKeeps == ASSUME Tracking, Tracked!Unmark PROVE Tracking'
  <1> USE DEF Tracking
  <1> DEFINE g == pGpu.who
  <1>1. /\ pGpu.pc = "unmark" /\ Tracked!SetGpuDirty({})
        /\ IF g \in Guests /\ ~Tracked!IsWrite(g)
           THEN pGpu' = Tracked!Idle /\ pGuest' = [pGuest EXCEPT ![g] = Tracked!Running]
           ELSE Tracked!Do(IF g = None THEN "untrack" ELSE "mark") /\ pGuest' = pGuest
        /\ UNCHANGED <<pMode, pCpuDirty, pWritable, pLock, pWatchers, pImaged, Tracked!epochs, pQueue,
             Tracked!data, pExited>>
        BY DEF Tracked!Unmark, Tracked!Gpc, Tracked!Become
  <1>2. UNCHANGED <<pDeferred, pProven, pSame, pBda, pStale, pImageStale, pSlipped, pBehind>>
        BY <1>1 DEF Tracked!epochs, Tracked!data
  <1>3. /\ pGpuDirty' = {} /\ pAccess' = {} /\ pHost' \in [Tracked!Page -> {"RW", "RO", "NA"}]
        /\ \A p \in Tracked!Page : \/ pHost'[p] = pHost[p] /\ (p \in pAccess' => p \in pAccess)
                                   \/ pHost'[p] = Tracked!Perms(pWatchers', pAccess', p)
        BY <1>1, SetsGpuDirty
  <1>4. pBehind = {} /\ pGpu.copies = {} /\ pGpu.protect = {} /\ pGpu.use # "visit"
        BY <1>1, NoUpload DEF DownloadOK
  <1>g. pGpu.who \in Guests \cup {None}
        BY GpuHas
  <1>5. /\ pGpu' \in GpuRecord /\ pGpu'.copies = {} /\ pGpu'.protect = {} /\ pGpu'.use # "visit"
        /\ pGpu'.pc \in {"idle", "untrack", "mark"}
        /\ pGuest' \in [Guests -> [pc : Tracked!GuestPc, page : Tracked!Page, marked : SUBSET Tracked!Page,
             then : {"run", "images"}]]
        /\ Tracked!Opened \subseteq Tracked!Opened' /\ DownloadOK'
        <2>1. CASE g \in Guests /\ ~Tracked!IsWrite(g)
              <3>1. pGpu' = Tracked!Idle /\ pGuest' = [pGuest EXCEPT ![g] = Tracked!Running] /\ Tracked!At(g,
                      "sent")
                    BY <2>1, <1>1 DEF DownloadOK
              <3>2. Tracked!Running \in GuestRecord
                    BY RunningIsRecord
              <3>3. Tracked!Opened \subseteq Tracked!Opened'
                    BY <2>1, <3>1, <3>2, OpenedKept DEF Tracked!At
              <3>4. pGuest' \in [Guests -> [pc : Tracked!GuestPc, page : Tracked!Page,
                      marked : SUBSET Tracked!Page, then : {"run", "images"}]]
                    BY <2>1, <1>1, <3>1, <3>2, GuestTypes
              <3>5. DownloadOK'
                    BY <3>1, IdleIsRecord, PagesAssumption DEF DownloadOK, Tracked!PageAssumption
              <3> QED BY <3>1, <3>3, <3>4, <3>5, IdleIsRecord
        <2>2. CASE ~(g \in Guests /\ ~Tracked!IsWrite(g))
              <3> DEFINE where == IF g = None THEN "untrack" ELSE "mark"
              <3>1. Tracked!Do(where) /\ where \in Tracked!GpuPc /\ pGuest' = pGuest
                    BY <2>2, <1>1 DEF Tracked!GpuPc
              <3>2. where \in {"untrack", "mark"} /\ (where = "mark" => g \in Guests)
                      /\ (where = "untrack" => g \notin Guests)
                    BY <1>g, PagesAssumption DEF Tracked!PageAssumption
              <3> HIDE DEF where
              <3>3. /\ pGpu' \in GpuRecord /\ pGpu'.pc = where /\ pGpu'.range = pGpu.range
                         /\ pGpu'.use = pGpu.use
                    /\ pGpu'.protect = pGpu.protect /\ pGpu'.copies = pGpu.copies /\ pGpu'.who = pGpu.who
                    BY <3>1, GpuDoes
              <3>4. Tracked!Opened' = Tracked!Opened
                    BY <3>1 DEF Tracked!Opened, Tracked!At
              <3>5. DownloadOK'
                    BY <1>1, <1>2, <1>3, <1>4, <3>1, <3>2, <3>3 DEF DownloadOK, Tracked!At, Tracked!Page
              <3> QED BY <1>4, <3>1, <3>2, <3>3, <3>4, <3>5 DEF Tracked!TypeOK
        <2> QED BY <2>1, <2>2
  <1>6. Tracked!TypeOK'
        BY <1>1, <1>2, <1>3, <1>5 DEF Tracked!TypeOK, Tracked!Page, Tracked!Job, GpuRecord
  <1>7. WatchersFollow'
        BY <1>1, <1>3 DEF WatchersFollow, Tracked!Page
  <1>8. UploadOK'
        BY <1>5, UploadEnded
  <1>9. JobsOK'
        BY <1>1, <1>2, <1>4, <1>5, JobsFrame
  <1>10. EpochsOK'
        BY <1>1, <1>2, <1>5 DEF EpochsOK
  <1>11. \A x \in Tracked!Page : Late(x) => Late(x)'
        BY <1>1, <1>4, <1>5, LateFrame
  <1>12. HostOK'
        BY <1>1, <1>3, <1>5, <1>11, HostStep
  <1>13. Tracked!CopyAhead' = Tracked!CopyAhead /\ Tracked!ImageAhead \subseteq Tracked!ImageAhead'
        BY <1>1, <1>4, <1>5 DEF Tracked!CopyAhead, Tracked!ImageAhead, Tracked!Gpc
  <1>14. DataOK'
        BY <1>1, <1>2, <1>3, <1>4, <1>13 DEF DataOK, Tracked!WritesReachGpu
  <1> QED BY <1>5, <1>6, <1>7, <1>8, <1>9, <1>10, <1>12, <1>14

\* The pages a fault's download or a collection is about become dirty again.
LEMMA GpuMarks ==
  ASSUME Tracking, pGpu.pc \in {"mark", "untrack"}, NEW P \in SUBSET Tracked!Page,
         pGpu.pc = "untrack" => P = Tracked!Page, P = pGpu.range,
         Tracked!MarkDirty(Gpu, P), Tracked!Do("unprotect"), UNCHANGED <<pMode, Tracked!pages, pImaged,
           pQueue, Tracked!data, pGuest>>
  PROVE  Tracking'
  <1> USE DEF Tracking
  <1>1. pBehind = {} /\ pGpuDirty = {} /\ pGpu.copies = {} /\ pGpu.protect = {} /\ pGpu.use # "visit"
        BY NoUpload DEF DownloadOK
  <1>2. /\ pLock = None /\ pLock' = Gpu /\ pExited' = FALSE /\ pCpuDirty' = pCpuDirty \cup P
        /\ pProven' = FALSE /\ pSame' = FALSE /\ pBda' \subseteq {"set", "pending"} /\ pBda' # {}
        /\ UNCHANGED <<pGpuDirty, pWritable, pDeferred>>
        BY <1>1, Marks
  <1>3. UNCHANGED <<pWatchers, pAccess, pHost, pStale, pImageStale, pBehind, pSlipped>>
        BY DEF Tracked!pages, Tracked!data
  <1>4. "unprotect" \in Tracked!GpuPc
        BY DEF Tracked!GpuPc
  <1>5. /\ pGpu' \in GpuRecord /\ pGpu'.pc = "unprotect" /\ pGpu'.range = pGpu.range /\ pGpu'.use = pGpu.use
        /\ pGpu'.protect = pGpu.protect /\ pGpu'.copies = pGpu.copies /\ pGpu'.who = pGpu.who
        BY <1>4, GpuDoes
  <1>6. Tracked!TypeOK'
        BY <1>2, <1>3, <1>5 DEF Tracked!TypeOK, Tracked!Page, Tracked!Job, GpuRecord
  <1>7. WatchersFollow'
        BY <1>2, <1>3 DEF WatchersFollow, Tracked!Page
  <1>8. UploadOK'
        BY <1>1, <1>5, UploadEnded
  <1>9. DownloadOK'
        BY <1>1, <1>2, <1>3, <1>5 DEF DownloadOK, Tracked!At, Tracked!Page
  <1>10. JobsOK' /\ EpochsOK'
        BY <1>2, <1>5, JobsFrame, MarkedEpochs
  <1>11. Tracked!Opened' = Tracked!Opened /\ \A x \in Tracked!Page : Late(x) => Late(x)'
        BY <1>5, LateFrame DEF Tracked!Opened, Tracked!At
  <1>12. HostOK'
        BY <1>3, <1>11, HostStep
  <1>13. Tracked!CopyAhead' = Tracked!CopyAhead /\ Tracked!ImageAhead \subseteq Tracked!ImageAhead'
        BY <1>5 DEF Tracked!CopyAhead, Tracked!ImageAhead, Tracked!Gpc
  <1>14. DataOK'
        BY <1>2, <1>3, <1>13 DEF DataOK, Tracked!WritesReachGpu
  <1> QED BY <1>6, <1>7, <1>8, <1>9, <1>10, <1>12, <1>14

LEMMA MarkKeeps == ASSUME Tracking, Tracked!Mark PROVE Tracking'
  <1>1. pGpu.range \in SUBSET Tracked!Page
        BY GpuHas DEF Tracking
  <1> QED BY <1>1, GpuMarks DEF Tracked!Mark, Tracked!Gpc

LEMMA UntrackKeeps == ASSUME Tracking, Tracked!Untrack PROVE Tracking'
  <1>1. pGpu.pc = "untrack" /\ Tracked!MarkDirty(Gpu, Tracked!Page) /\ Tracked!Do("unprotect")
        /\ UNCHANGED <<pMode, Tracked!pages, pImaged, pQueue, Tracked!data, pGuest>>
        BY DEF Tracked!Untrack, Tracked!Gpc
  <1>2. pGpu.range = Tracked!Page
        BY <1>1 DEF Tracking, DownloadOK
  <1> QED BY <1>1, <1>2, GpuMarks

LEMMA GpuUnprotectKeeps == ASSUME Tracking, Tracked!GpuUnprotect PROVE Tracking'
  <1> USE DEF Tracking
  <1> DEFINE g == pGpu.who
  <1>1. /\ pGpu.pc = "unprotect" /\ pLock = Gpu /\ Tracked!Unprotect(pGpu.range) /\ pGpu' = Tracked!Idle
        /\ IF g \in Guests THEN Tracked!Go(g, pGuest[g].then)
                /\ UNCHANGED pStale ELSE pStale' = Tracked!Page /\ UNCHANGED pGuest
        /\ UNCHANGED <<pMode, pImaged, Tracked!epochs, pQueue, pImageStale, pBehind, pSlipped>>
        BY DEF Tracked!GpuUnprotect, Tracked!Gpc
  <1>2. UNCHANGED <<pDeferred, pProven, pSame, pBda>>
        BY <1>1 DEF Tracked!epochs
  <1>3. pGpu.range \in SUBSET Tracked!Page /\ pGpu.range \subseteq pCpuDirty /\ pGpu.copies = {}
          /\ pGpu.protect = {}
        BY <1>1, GpuHas, NoUpload DEF DownloadOK
  <1>4. /\ pWritable' \subseteq Tracked!Page /\ pLock' = None /\ pExited' = FALSE
        /\ pWatchers' \in [Tracked!Page -> 0 .. 127] /\ pHost' \in [Tracked!Page -> {"RW", "RO", "NA"}]
        /\ UNCHANGED <<pCpuDirty, pGpuDirty, pAccess>> /\ WatchersFollow'
        /\ \A p \in Tracked!Page : \/ pHost'[p] = pHost[p] /\ (pWatchers'[p] > 0 => pWatchers[p] > 0)
                                   \/ pHost'[p] = Tracked!Perms(pWatchers', pAccess', p)
        BY <1>1, <1>3, Unprotects
  <1>5. /\ pGuest' \in [Guests -> [pc : Tracked!GuestPc, page : Tracked!Page, marked : SUBSET Tracked!Page,
             then : {"run", "images"}]]
        /\ Tracked!Opened \subseteq Tracked!Opened' /\ pStale' \subseteq Tracked!Page
             /\ (pStale' \subseteq pStale \/ pStale' \subseteq pCpuDirty)
        <2>1. CASE g \in Guests
              <3>1. Tracked!Go(g, pGuest[g].then) /\ pStale' = pStale
                      /\ pGuest[g].then \in Tracked!GuestPc /\ Tracked!At(g, "sent")
                    BY <2>1, <1>1, GuestHas DEF DownloadOK, Tracked!GuestPc
              <3>2. PICK r \in GuestRecord : pGuest' = [pGuest EXCEPT ![g] = r]
                    BY <2>1, <3>1, GuestGoes
              <3>3. Tracked!Opened \subseteq Tracked!Opened'
                    BY <2>1, <3>1, <3>2, OpenedKept DEF Tracked!At
              <3>4. pGuest' \in [Guests -> [pc : Tracked!GuestPc, page : Tracked!Page,
                      marked : SUBSET Tracked!Page, then : {"run", "images"}]]
                    BY <2>1, <1>1, <3>2, GuestTypes
              <3> QED BY <3>1, <3>3, <3>4 DEF Tracked!TypeOK
        <2>2. CASE g \notin Guests
              <3>1. pStale' = Tracked!Page /\ pGuest' = pGuest /\ Tracked!Page \subseteq pCpuDirty
                    BY <2>2, <1>1, <1>3 DEF DownloadOK
              <3>2. Tracked!Opened' = Tracked!Opened
                    BY <3>1 DEF Tracked!Opened, Tracked!At
              <3> QED BY <3>1, <3>2 DEF Tracked!TypeOK
        <2> QED BY <2>1, <2>2
  <1>6. Tracked!TypeOK'
        BY <1>1, <1>2, <1>4, <1>5, IdleIsRecord DEF Tracked!TypeOK, Tracked!Page, Tracked!Job, GpuRecord
  <1>7. UploadOK' /\ DownloadOK'
        BY <1>1, IdleIsRecord, UploadEnded, PagesAssumption DEF DownloadOK, Tracked!PageAssumption
  <1>8. JobsOK' /\ EpochsOK'
        BY <1>1, <1>2, <1>3, <1>4, IdleIsRecord, JobsFrame DEF EpochsOK
  <1>9. \A x \in Tracked!Page : Late(x) => Late(x)'
        BY <1>1, <1>3, IdleIsRecord, LateFrame
  <1>10. HostOK'
        BY <1>1, <1>4, <1>5, <1>9, HostStep
  <1>11. Tracked!CopyAhead' = Tracked!CopyAhead /\ Tracked!ImageAhead \subseteq Tracked!ImageAhead'
        BY <1>1, <1>3, IdleIsRecord DEF Tracked!CopyAhead, Tracked!ImageAhead, Tracked!Gpc
  <1>12. DataOK'
        BY <1>1, <1>4, <1>5, <1>11 DEF DataOK, Tracked!WritesReachGpu
  <1> QED BY <1>4, <1>6, <1>7, <1>8, <1>10, <1>12

LEMMA CopyKeptKeeps == ASSUME Tracking, NEW p \in Tracked!Page, Tracked!CopyKept(p) PROVE Tracking'
  <1> USE DEF Tracking
  <1> DEFINE U == {p} \cap pImaged
  <1>1. /\ pGpu.pc = "idle" /\ p \notin pGpuDirty /\ pLock = None
        /\ pWatchers' = Tracked!Unwatch(U) /\ pHost' = Tracked!Released(U) /\ pImaged' = pImaged \ U
        /\ pCpuDirty' = pCpuDirty \cup {p}
        /\ pProven' = FALSE /\ pSame' = FALSE /\ pBda' = pBda \cup {"set"}
        /\ pStale' = pStale \cup {p} /\ pImageStale' = pImageStale \cup ({p} \cap pMode.image)
        /\ UNCHANGED <<pMode, pGpuDirty, pWritable, pLock, pAccess, pDeferred, pQueue, pBehind, pSlipped,
                       pGuest, pGpu, pExited>>
        BY DEF Tracked!CopyKept, Tracked!Gpc
  <1>2. U \in SUBSET Tracked!Page /\ U \subseteq pImaged /\ p \notin pImaged'
        BY <1>1
  <1>3. \A x \in U : pWatchers[x] >= 1
        BY <1>2 DEF WatchersFollow
  <1>4. pImaged' \subseteq pImaged /\ \A x \in Tracked!Page : x \in pImaged' <=> x \in pImaged /\ x \notin U
        BY <1>1
  <1> HIDE DEF U
  <1>5. /\ pWatchers' \in [Tracked!Page -> 0 .. 127] /\ pHost' \in [Tracked!Page -> {"RW", "RO", "NA"}]
        /\ \A x \in Tracked!Page : pWatchers'[x] = IF x \in U THEN pWatchers[x] - 1 ELSE pWatchers[x]
        /\ \A x \in Tracked!Page : \/ pHost'[x] = pHost[x] /\ (pWatchers'[x] > 0 => pWatchers[x] > 0)
                                   \/ pHost'[x] = Tracked!Perms(pWatchers', pAccess', x)
        BY <1>1, <1>2, <1>3, Unwatches
  <1>6. Tracked!TypeOK'
        BY <1>1, <1>4, <1>5 DEF Tracked!TypeOK, Tracked!Page, Tracked!Job
  <1>7. WatchersFollow'
        BY <1>1, <1>2, <1>4, <1>5 DEF WatchersFollow, Tracked!Page
  <1>8. pLock # Gpu
        BY <1>1, PagesAssumption DEF Tracked!PageAssumption
  <1>9. UploadOK' /\ DownloadOK'
        BY <1>1, <1>4, <1>8, RenderFrame DEF Tracked!At
  <1>10. JobsOK' /\ EpochsOK'
        BY <1>1, JobsFrame, MarkedEpochs
  <1>11. Tracked!Opened' = Tracked!Opened /\ \A x \in Tracked!Page : Late(x) => Late(x)'
        BY <1>1, <1>4, QuietLate DEF Tracked!Opened, Tracked!At
  <1>12. HostOK'
        BY <1>1, <1>5, <1>11, HostStep
  <1>13. Tracked!CopyAhead' = Tracked!CopyAhead /\ Tracked!ImageAhead' = Tracked!ImageAhead
        BY <1>1 DEF Tracked!CopyAhead, Tracked!ImageAhead, Tracked!Gpc
  <1>14. DataOK'
        BY <1>1, <1>2, <1>4, <1>13 DEF DataOK, Tracked!WritesReachGpu
  <1> QED BY <1>6, <1>7, <1>9, <1>10, <1>12, <1>14

\* Watchers of U come; a page is protected with its first one.
LEMMA Watches ==
  ASSUME Tracked!TypeOK, WatchersFollow, NEW U \in SUBSET Tracked!Page, pWatchers' = Tracked!Watch(U),
         UNCHANGED <<pMode, pAccess>>
  PROVE  /\ \A p \in Tracked!Page : pWatchers'[p] = IF p \in U THEN pWatchers[p] + 1 ELSE pWatchers[p]
         /\ pWatchers' \in [Tracked!Page -> 0 .. 127]
         /\ pHost' = Tracked!Protected(Tracked!FirstWatched(U)) =>
              /\ pHost' \in [Tracked!Page -> {"RW", "RO", "NA"}]
              /\ \A p \in Tracked!Page : \/ /\ pHost'[p] = pHost[p]
                                            /\ pWatchers'[p] > 0 => pWatchers[p] > 0 \/ p \in pAccess
                                         \/ pHost'[p] = Tracked!Perms(pWatchers', pAccess', p)
  <1>1. ASSUME NEW p \in Tracked!Page PROVE pWatchers[p] \in 0 .. 2 /\ pHost[p] \in {"RW", "RO", "NA"}
        <2>1. pWatchers[p] = (IF p \in pWritable THEN 0 ELSE 1) + (IF p \in pImaged THEN 1 ELSE 0)
              BY DEF WatchersFollow
        <2>2. pHost[p] \in {"RW", "RO", "NA"}
              BY DEF Tracked!TypeOK
        <2> QED BY <2>1, <2>2
  <1>2. /\ \A p \in Tracked!Page : pWatchers'[p] = IF p \in U THEN pWatchers[p] + 1 ELSE pWatchers[p]
        /\ pWatchers' \in [Tracked!Page -> 0 .. 127]
        BY <1>1 DEF Tracked!Watch
  <1>3. ASSUME pHost' = Tracked!Protected(Tracked!FirstWatched(U))
        PROVE  /\ pHost' \in [Tracked!Page -> {"RW", "RO", "NA"}]
               /\ \A p \in Tracked!Page : \/ /\ pHost'[p] = pHost[p]
                                             /\ pWatchers'[p] > 0 => pWatchers[p] > 0 \/ p \in pAccess
                                          \/ pHost'[p] = Tracked!Perms(pWatchers', pAccess', p)
        <2>1. /\ pHost' \in [Tracked!Page -> {"RW", "RO", "NA"}]
              /\ \A p \in Tracked!Page : pHost'[p] = IF p \in U /\ pWatchers[p] = 0 /\ p \notin pAccess
                                                     THEN "RO" ELSE pHost[p]
              BY <1>1, <1>3 DEF Tracked!Protected, Tracked!FirstWatched
        <2>2. ASSUME NEW p \in Tracked!Page
              PROVE  \/ /\ pHost'[p] = pHost[p]
                        /\ pWatchers'[p] > 0 => pWatchers[p] > 0 \/ p \in pAccess
                     \/ pHost'[p] = Tracked!Perms(pWatchers', pAccess', p)
              BY <1>1, <1>2, <2>1 DEF Tracked!Perms
        <2> QED BY <2>1, <2>2
  <1> QED BY <1>2, <1>3

LEMMA RefreshKeeps == ASSUME Tracking, NEW p \in Tracked!Page, Tracked!RefreshImage(p) PROVE Tracking'
  <1> USE DEF Tracking
  <1> DEFINE U == {p} \ pImaged
  <1>1. /\ pGpu.pc = "idle" /\ p \in pMode.image
        /\ pWatchers' = Tracked!Watch(U) /\ pHost' = Tracked!Protected(Tracked!FirstWatched(U))
             /\ pImaged' = pImaged \cup U
        /\ pGpu' = [Tracked!Idle EXCEPT !.pc = "image", !.range = {p}]
        /\ UNCHANGED <<pMode, Tracked!tracker, pAccess, Tracked!epochs, pQueue, Tracked!data, pGuest, pExited>>
        BY DEF Tracked!RefreshImage, Tracked!Gpc
  <1>2. UNCHANGED <<pCpuDirty, pGpuDirty, pWritable, pLock, pDeferred, pProven, pSame, pBda, pStale,
          pImageStale,
                    pBehind, pSlipped>>
        BY <1>1 DEF Tracked!tracker, Tracked!epochs, Tracked!data
  <1>3. /\ U \in SUBSET Tracked!Page /\ \A x \in U : x = p /\ x \notin pImaged
        /\ \A x : x \in pImaged' <=> x \in pImaged \/ x \in U
        BY <1>1
  <1> HIDE DEF U
  <1>4. /\ \A x \in Tracked!Page : pWatchers'[x] = IF x \in U THEN pWatchers[x] + 1 ELSE pWatchers[x]
        /\ pWatchers' \in [Tracked!Page -> 0 .. 127]
        /\ pHost' \in [Tracked!Page -> {"RW", "RO", "NA"}]
        /\ \A x \in Tracked!Page : \/ /\ pHost'[x] = pHost[x]
                                      /\ pWatchers'[x] > 0 => pWatchers[x] > 0 \/ x \in pAccess
                                   \/ pHost'[x] = Tracked!Perms(pWatchers', pAccess', x)
        BY <1>1, <1>3, Watches
  <1>5. /\ pGpu' \in GpuRecord /\ pGpu'.pc = "image" /\ pGpu'.copies = {} /\ pGpu'.protect = {}
        /\ pGpu'.use = "read" /\ pGpu'.who = None /\ pGpu'.range = {p}
        BY <1>1 DEF Tracked!Idle, GpuRecord, Tracked!GpuPc
  <1>6. pGpu.copies = {} /\ pGpu.protect = {}
        BY <1>1, NoUpload
  <1>7. Tracked!TypeOK'
        BY <1>1, <1>2, <1>3, <1>4, <1>5 DEF Tracked!TypeOK, Tracked!Page, Tracked!Job, GpuRecord
  <1>8. WatchersFollow'
        BY <1>1, <1>2, <1>3, <1>4 DEF WatchersFollow, Tracked!Page
  <1>9. UploadOK' /\ DownloadOK'
        BY <1>1, <1>5, UploadEnded, PagesAssumption DEF DownloadOK, Tracked!PageAssumption
  <1>10. JobsOK' /\ EpochsOK'
        BY <1>1, <1>2, <1>5, <1>6, JobsFrame DEF EpochsOK
  <1>11. \A x \in Tracked!Page : Late(x) => Late(x)'
        BY <1>1, <1>3, <1>5, <1>6 DEF Late, LateJob, CopyAfter, ImageAfter
  <1>12. Tracked!Opened' = Tracked!Opened
        BY <1>1 DEF Tracked!Opened, Tracked!At
  <1>13. HostOK'
        BY <1>1, <1>4, <1>11, <1>12, HostStep
  <1>14. Tracked!CopyAhead' = Tracked!CopyAhead /\ Tracked!ImageAhead \subseteq Tracked!ImageAhead'
           /\ p \in Tracked!ImageAhead'
        BY <1>1, <1>5, <1>6 DEF Tracked!CopyAhead, Tracked!ImageAhead, Tracked!Gpc
  <1>15. DataOK'
        BY <1>1, <1>2, <1>3, <1>14 DEF DataOK, Tracked!WritesReachGpu
  <1> QED BY <1>7, <1>8, <1>9, <1>10, <1>13, <1>15

\* ---- the queue
LEMMA QueueHas ==
  ASSUME Tracked!TypeOK
  PROVE  /\ pQueue \in Seq(Tracked!Job) /\ DOMAIN pQueue = 1 .. Len(pQueue) /\ Len(pQueue) \in Nat
         /\ \A i \in DOMAIN pQueue : /\ pQueue[i] \in Tracked!Job /\ pQueue[i].pages \in SUBSET Tracked!Page
                                     /\ pQueue[i].kind \in {"protect", "settle", "copy", "image"}
  <1>1. pQueue \in Seq(Tracked!Job)
        BY DEF Tracked!TypeOK
  <1>2. DOMAIN pQueue = 1 .. Len(pQueue) /\ Len(pQueue) \in Nat
          /\ \A i \in DOMAIN pQueue : pQueue[i] \in Tracked!Job
        BY <1>1
  <1> QED BY <1>1, <1>2 DEF Tracked!Job

LEMMA OvertakenJob ==
  ASSUME NEW j \in Tracked!Job, NEW P
  PROVE  LET r == [j EXCEPT !.pages = @ \ P]
         IN r \in Tracked!Job /\ r.kind = j.kind /\ r.pages = j.pages \ P
  BY DEF Tracked!Job

\* What a copy overtakes of the jobs of its kind.
LEMMA OvertakesEach ==
  ASSUME Tracked!TypeOK, NEW kind, NEW P, NEW q, q = Tracked!Overtaken(kind, P), NEW i \in DOMAIN pQueue
  PROVE  /\ q[i] \in Tracked!Job /\ q[i].kind = pQueue[i].kind
         /\ pQueue[i].kind = kind => q[i].pages = pQueue[i].pages \ P
         /\ pQueue[i].kind # kind => q[i].pages = pQueue[i].pages
  <1>1. q[i] = IF pQueue[i].kind = kind THEN [pQueue[i] EXCEPT !.pages = @ \ P] ELSE pQueue[i]
        BY DEF Tracked!Overtaken
  <1> DEFINE r == [pQueue[i] EXCEPT !.pages = @ \ P]
  <1>2. pQueue[i] \in Tracked!Job /\ r \in Tracked!Job /\ r.kind = pQueue[i].kind
          /\ r.pages = pQueue[i].pages \ P
        BY QueueHas, OvertakenJob
  <1>3. q[i] = IF pQueue[i].kind = kind THEN r ELSE pQueue[i]
        BY <1>1
  <1> HIDE DEF r
  <1> QED BY <1>2, <1>3

LEMMA Overtakes ==
  ASSUME Tracked!TypeOK, NEW kind, NEW P, NEW q, q = Tracked!Overtaken(kind, P)
  PROVE  q \in Seq(Tracked!Job) /\ Len(q) = Len(pQueue) /\ DOMAIN q = DOMAIN pQueue
  <1>1. q = [i \in DOMAIN pQueue |-> q[i]]
        BY DEF Tracked!Overtaken
  <1>2. DOMAIN q = DOMAIN pQueue /\ \A i \in DOMAIN pQueue : q[i] \in Tracked!Job
        BY <1>1, OvertakesEach
  <1>3. q \in [1 .. Len(pQueue) -> Tracked!Job]
        BY <1>1, <1>2, QueueHas
  <1> QED BY <1>2, <1>3, QueueHas

Taken(i, kind, P) == IF kind # "protect" /\ pQueue[i].kind = kind THEN pQueue[i].pages \ P ELSE pQueue[i].pages

LEMMA Appended ==
  ASSUME NEW s \in Seq(Tracked!Job), NEW x \in Tracked!Job
  PROVE  /\ Append(s, x) \in Seq(Tracked!Job) /\ Len(Append(s, x)) = Len(s) + 1
         /\ DOMAIN Append(s, x) = 1 .. (Len(s) + 1) /\ Append(s, x)[Len(s) + 1] = x
         /\ \A i \in 1 .. Len(s) : Append(s, x)[i] = s[i]
  OBVIOUS

LEMMA Pushes ==
  ASSUME Tracked!TypeOK, NEW kind \in {"protect", "copy", "image"}, NEW P \in SUBSET Tracked!Page,
         Tracked!Push(kind, P)
  PROVE  /\ pQueue' \in Seq(Tracked!Job) /\ Len(pQueue') = Len(pQueue) + 1 /\ DOMAIN pQueue' = 1 .. (Len(pQueue) + 1)
         /\ pQueue'[Len(pQueue) + 1].kind = kind /\ pQueue'[Len(pQueue) + 1].pages = P
         /\ \A i \in DOMAIN pQueue : /\ pQueue'[i].kind = pQueue[i].kind
                                     /\ pQueue'[i].pages = Taken(i, kind, P)
  <1> DEFINE s == IF kind = "protect" THEN pQueue ELSE Tracked!Overtaken(kind, P)
             x == [kind |-> kind, pages |-> P]
  <1>1. pQueue' = Append(s, x)
        BY DEF Tracked!Push
  <1>2. x \in Tracked!Job /\ x.kind = kind /\ x.pages = P
        BY DEF Tracked!Job
  <1>3. /\ s \in Seq(Tracked!Job) /\ Len(s) = Len(pQueue)
        /\ \A i \in DOMAIN pQueue : s[i].kind = pQueue[i].kind /\ s[i].pages = Taken(i, kind, P)
        <2>1. CASE kind = "protect"
              BY <2>1, QueueHas DEF Taken
        <2>2. CASE kind # "protect"
              <3>1. s = Tracked!Overtaken(kind, P)
                    BY <2>2
              <3> HIDE DEF s
              <3>2. ASSUME NEW i \in DOMAIN pQueue
                    PROVE  /\ s[i].kind = pQueue[i].kind
                           /\ pQueue[i].kind = kind => s[i].pages = pQueue[i].pages \ P
                           /\ pQueue[i].kind # kind => s[i].pages = pQueue[i].pages
                    BY <3>1, OvertakesEach
              <3>4. s \in Seq(Tracked!Job) /\ Len(s) = Len(pQueue)
                    BY <3>1, Overtakes
              <3>3. \A i \in DOMAIN pQueue : s[i].kind = pQueue[i].kind /\ s[i].pages = Taken(i, kind, P)
                    BY <2>2, <3>2 DEF Taken
              <3> QED BY <3>3, <3>4
        <2> QED BY <2>1, <2>2
  <1> HIDE DEF s, x
  <1>4. /\ pQueue' \in Seq(Tracked!Job) /\ Len(pQueue') = Len(pQueue) + 1
             /\ DOMAIN pQueue' = 1 .. (Len(pQueue) + 1)
        /\ pQueue'[Len(pQueue) + 1] = x /\ \A i \in 1 .. Len(pQueue) : pQueue'[i] = s[i]
        BY <1>1, <1>2, <1>3, Appended
  <1> QED BY <1>2, <1>3, <1>4, QueueHas

LEMMA WaitingIsFinite ==
  ASSUME Tracked!TypeOK
  PROVE  IsFiniteSet(Waiting) /\ Cardinality(Waiting) \in Nat
  <1>1. IsFiniteSet(1 .. Len(pQueue))
        BY QueueHas, FS_Interval
  <1>2. Waiting \subseteq 1 .. Len(pQueue)
        BY QueueHas DEF Waiting
  <1> QED BY <1>1, <1>2, FS_Subset, FS_CardinalityType

\* Pages whose copies may still be behind their protection keep them.
LEMMA PushKeepsLate ==
  ASSUME Tracked!TypeOK, NEW kind \in {"protect", "copy", "image"}, NEW P \in SUBSET Tracked!Page,
         Tracked!Push(kind, P),
         pGpu'.protect \subseteq pGpu.protect, pImaged' = pImaged,
         \A p : p \in UNION pGpu.copies => p \in UNION pGpu'.copies \/ (kind = "copy" /\ p \in P),
         pGpu.pc = "image" => kind = "image" /\ pGpu.range \subseteq P
  PROVE  \A p \in Tracked!Page : Late(p) => Late(p)' \/ p \in pGpu.protect
  <1> SUFFICES ASSUME NEW p \in Tracked!Page, NEW i \in DOMAIN pQueue, LateJob(i, p) PROVE LateJob(i, p)'
      BY QueueHas, Pushes DEF Late
  <1> DEFINE n == Len(pQueue) + 1
  <1>1. /\ DOMAIN pQueue' = 1 .. n /\ pQueue'[n].kind = kind /\ pQueue'[n].pages = P
        /\ \A j \in DOMAIN pQueue : /\ pQueue'[j].kind = pQueue[j].kind /\ pQueue'[j].pages = Taken(j, kind, P)
                                    /\ j \in 1 .. n /\ j < n
        /\ n \in 1 .. n
        BY Pushes, QueueHas
  <1> HIDE DEF n
  <1>2. /\ pQueue[i].kind = "protect" /\ p \in pQueue[i].pages
        /\ CopyAfter(i, p) /\ (p \in pImaged => ImageAfter(i, p))
        BY DEF LateJob
  <1>3. i \in DOMAIN pQueue' /\ pQueue'[i].kind = "protect" /\ p \in pQueue'[i].pages
        BY <1>1, <1>2 DEF Taken
  <1>4. CopyAfter(i, p)'
        <2>1. CASE p \in UNION pGpu.copies
              BY <2>1, <1>1 DEF CopyAfter
        <2>2. ASSUME NEW j \in DOMAIN pQueue, j > i, pQueue[j].kind = "copy", p \in pQueue[j].pages
              PROVE  CopyAfter(i, p)'
              <3>1. CASE kind = "copy" /\ p \in P
                    BY <3>1, <1>1 DEF CopyAfter
              <3>2. CASE ~(kind = "copy" /\ p \in P)
                    BY <3>2, <2>2, <1>1 DEF CopyAfter, Taken
              <3> QED BY <3>1, <3>2
        <2> QED BY <2>1, <2>2, <1>2 DEF CopyAfter
  <1>5. p \in pImaged => ImageAfter(i, p)'
        <2>1. CASE pGpu.pc = "image" /\ p \in pGpu.range
              BY <2>1, <1>1 DEF ImageAfter
        <2>2. ASSUME NEW j \in DOMAIN pQueue, j > i, pQueue[j].kind = "image", p \in pQueue[j].pages
              PROVE  ImageAfter(i, p)'
              <3>1. CASE kind = "image" /\ p \in P
                    BY <3>1, <1>1 DEF ImageAfter
              <3>2. CASE ~(kind = "image" /\ p \in P)
                    BY <3>2, <2>2, <1>1 DEF ImageAfter, Taken
              <3> QED BY <3>1, <3>2
        <2> QED BY <2>1, <2>2, <1>2 DEF ImageAfter
  <1> QED BY <1>3, <1>4, <1>5 DEF LateJob

\* ---- uploads
LEMMA TakeDirtyKeeps ==
  ASSUME Tracking, pGpu.pc \in {"idle", "sync"}, NEW S \in SUBSET Tracked!Page,
         NEW use \in {"read", "write", "visit"}, Tracked!TakeDirty(S, use), use = "visit" => S = Tracked!Page,
         pGpu.pc = "sync" => use = "visit"
  PROVE  Tracking'
  <1> USE DEF Tracking
  <1> DEFINE D == S \cap pCpuDirty
             T == IF D = {} THEN {} ELSE S \cap pWritable
             P == Tracked!FirstWatched(T)
             defer == pMode.reprotect /\ use # "write"
             C == IF D = {} THEN {} ELSE IF Joined THEN {D} ELSE {{p} : p \in D}
  <1>1. /\ pLock = None /\ pLock' = (IF use = "write" THEN Gpu ELSE None)
        /\ pCpuDirty' = pCpuDirty \ D /\ pWritable' = pWritable \ T /\ pWatchers' = Tracked!Watch(T)
        /\ pHost' = (IF defer THEN pHost ELSE Tracked!Protected(P))
        /\ pDeferred' = (IF defer /\ P # {} THEN pDeferred + 1 ELSE pDeferred)
        /\ pGpu' = [Tracked!Idle EXCEPT !.pc = "handover", !.range = S, !.use = use,
                                        !.protect = IF defer THEN P ELSE {}, !.copies = C]
        /\ UNCHANGED <<pMode, pGpuDirty, pAccess, pImaged, pProven, pSame, pBda, pQueue, Tracked!data,
             pGuest, pExited>>
        BY DEF Tracked!TakeDirty
  <1>2. UNCHANGED <<pStale, pImageStale, pBehind, pSlipped>>
        BY <1>1 DEF Tracked!data
  <1>3. /\ D \in SUBSET Tracked!Page /\ D \subseteq S /\ D \subseteq pCpuDirty
        /\ T \in SUBSET Tracked!Page /\ T \subseteq D /\ T \subseteq pWritable
        /\ pWritable \ T \subseteq pCpuDirty \ D
        /\ \A x \in S : x \notin pCpuDirty \ D
        BY DEF Tracked!TypeOK, WatchersFollow
  <1>4. /\ P \subseteq T /\ P \in SUBSET Tracked!Page
        /\ \A x \in Tracked!Page : x \in P <=> x \in T /\ pWatchers[x] = 0 /\ x \notin pAccess
        BY <1>3 DEF Tracked!FirstWatched
  <1>5. P \cap pImaged = {}
        <2>1. ASSUME NEW x \in P, x \in pImaged PROVE FALSE
              <3>1. pWatchers[x] = (IF x \in pWritable THEN 0 ELSE 1) + 1
                    BY <1>4, <2>1 DEF WatchersFollow
              <3>2. pWatchers[x] = 0
                    BY <1>4
              <3> QED BY <3>1, <3>2
        <2> QED BY <2>1
  <1>6. /\ C \in SUBSET SUBSET Tracked!Page /\ UNION C = D
        /\ ~Joined => \A c \in C : \E x \in Tracked!Page : c = {x}
        <2>1. CASE D = {}
              BY <2>1
        <2>2. CASE D # {} /\ Joined
              BY <2>2, <1>3
        <2>3. CASE D # {} /\ ~Joined
              <3>1. C = {{p} : p \in D}
                    BY <2>3
              <3> HIDE DEF C, D
              <3>2. \A c \in C : \E x \in D : c = {x}
                    BY <3>1
              <3>3. \A x \in D : {x} \in C
                    BY <3>1
              <3>4. \A x : x \in D => x \in Tracked!Page
                    BY <1>3
              <3>5. C \in SUBSET SUBSET Tracked!Page
                    BY <3>2, <3>4
              <3>6. UNION C = D
                    <4>1. UNION C \subseteq D
                          BY <3>2
                    <4>2. D \subseteq UNION C
                          BY <3>3
                    <4> QED BY <4>1, <4>2
              <3>7. \A c \in C : \E x \in Tracked!Page : c = {x}
                    BY <3>2, <3>4
              <3> QED BY <3>5, <3>6, <3>7 DEF C, D
        <2> QED BY <2>1, <2>2, <2>3
  <1>7. pWatchers' = Tracked!Watch(T)
          /\ pHost' = IF defer THEN pHost ELSE Tracked!Protected(Tracked!FirstWatched(T))
        BY <1>1
  <1> HIDE DEF C, P, T, D
  <1>8. /\ pGpu' \in GpuRecord /\ pGpu'.pc = "handover" /\ pGpu'.range = S /\ pGpu'.use = use
        /\ pGpu'.protect = (IF defer THEN P ELSE {}) /\ pGpu'.copies = C /\ pGpu'.who = None
        BY <1>1, <1>3, <1>4, <1>6 DEF Tracked!Idle, GpuRecord, Tracked!GpuPc
  <1>9. /\ \A x \in Tracked!Page : pWatchers'[x] = IF x \in T THEN pWatchers[x] + 1 ELSE pWatchers[x]
        /\ pWatchers' \in [Tracked!Page -> 0 .. 127]
        /\ pHost' = Tracked!Protected(Tracked!FirstWatched(T)) =>
              /\ pHost' \in [Tracked!Page -> {"RW", "RO", "NA"}]
              /\ \A p \in Tracked!Page : \/ /\ pHost'[p] = pHost[p]
                                            /\ pWatchers'[p] > 0 => pWatchers[p] > 0 \/ p \in pAccess
                                         \/ pHost'[p] = Tracked!Perms(pWatchers', pAccess', p)
        <2>1. T \in SUBSET Tracked!Page /\ UNCHANGED <<pMode, pAccess>>
              BY <1>1, <1>3
        <2> QED BY <2>1, <1>7, Watches
  <1>10. pGpu.copies = {} /\ pGpu.protect = {} /\ pGpu.pc # "image"
        BY NoUpload
  <1>11. Tracked!TypeOK'
        <2>1. pHost' \in [Tracked!Page -> {"RW", "RO", "NA"}]
              BY <1>7, <1>9 DEF Tracked!TypeOK
        <2>2. pDeferred' \in Nat /\ pLock' \in Guests \cup {Gpu, None}
              BY <1>1 DEF Tracked!TypeOK
        <2>3. pCpuDirty' \subseteq Tracked!Page /\ pWritable' \subseteq Tracked!Page
              BY <1>1 DEF Tracked!TypeOK
        <2> QED BY <1>1, <1>2, <1>8, <1>9, <2>1, <2>2, <2>3 DEF Tracked!TypeOK, Tracked!Page, Tracked!Job,
                   GpuRecord
  <1>12. WatchersFollow'
        BY <1>1, <1>3, <1>9 DEF WatchersFollow, Tracked!Page
  <1>13. UploadOK'
        <2>1. use = "write" => pLock' = Gpu /\ S \cap pCpuDirty' = {}
              BY <1>1, <1>3
        <2>2. pGpu'.protect \subseteq UNION pGpu'.copies /\ pGpu'.protect \cap pImaged' = {}
              BY <1>1, <1>3, <1>4, <1>5, <1>6, <1>8
        <2>3. pGpu'.protect # {} => pMode'.reprotect
              BY <1>1, <1>8
        <2>4. ~Joined => \A c \in pGpu'.copies : \E x \in Tracked!Page' : c = {x}
              BY <1>1, <1>6, <1>8 DEF Tracked!Page
        <2> QED BY <1>8, <2>1, <2>2, <2>3, <2>4 DEF UploadOK
  <1>14. DownloadOK'
        BY <1>8, PagesAssumption DEF DownloadOK, Tracked!PageAssumption
  <1>15. JobsOK'
        <2>1. Waiting' = Waiting /\ \A x : Follows(x)' <=> Follows(x)
              BY <1>1 DEF Waiting, Follows, Tracked!Queued, Tracked!Page
        <2>2. pDeferred = Cardinality(Waiting) /\ Cardinality(Waiting) \in Nat
              BY <1>10, WaitingIsFinite DEF JobsOK
        <2>3. pDeferred' = Cardinality(Waiting) + (IF pGpu'.protect = {} THEN 0 ELSE 1)
              BY <1>1, <1>8, <2>2
        <2> QED BY <1>1, <2>1, <2>3 DEF JobsOK
  <1>16. \A x \in Tracked!Page : Late(x) => Late(x)'
        BY <1>1, <1>10 DEF Late, LateJob, CopyAfter, ImageAfter
  <1>17. HostOK'
        <2>1. Tracked!Opened' = Tracked!Opened
              BY <1>1 DEF Tracked!Opened, Tracked!At
        <2>2. ASSUME NEW p \in Tracked!Page
              PROVE  \/ /\ pHost'[p] = pHost[p] /\ (p \in pAccess' => p \in pAccess)
                        /\ pWatchers'[p] > 0 => pWatchers[p] > 0 \/ p \in pAccess
                     \/ pHost'[p] = Tracked!Perms(pWatchers', pAccess', p)
                     \/ p \in Tracked!Opened'
                     \/ p \notin pAccess' /\ Late(p)'
              <3>1. CASE ~defer
                    BY <3>1, <1>1, <1>7, <1>9
              <3>2. CASE defer /\ p \in P
                    <4>1. p \in pGpu'.protect
                          BY <3>2, <1>8
                    <4> QED BY <3>2, <4>1, <1>1, <1>4 DEF Late
              <3>3. CASE defer /\ p \notin P
                    <4>1. pHost'[p] = pHost[p] /\ (pWatchers'[p] > 0 => pWatchers[p] > 0 \/ p \in pAccess)
                          <5>1. pWatchers[p] \in 0 .. 127
                                BY DEF Tracked!TypeOK
                          <5> QED BY <3>3, <5>1, <1>1, <1>4, <1>9
                    <4> QED BY <4>1, <1>1
              <3> QED BY <3>1, <3>2, <3>3
        <2> QED BY <2>1, <2>2, <1>1, <1>16, HostStep
  <1>18. EpochsOK'
        <2>1. use = "visit" => pCpuDirty' = {}
              BY <1>1, <1>3 DEF Tracked!TypeOK
        <2>2. pCpuDirty' \subseteq pCpuDirty
              BY <1>1
        <2> QED BY <1>1, <1>8, <2>1, <2>2 DEF EpochsOK
  <1>19. Tracked!CopyAhead \subseteq Tracked!CopyAhead' /\ D \subseteq Tracked!CopyAhead'
           /\ Tracked!ImageAhead' = Tracked!ImageAhead
        <2>1. Tracked!CopyAhead \subseteq Tracked!CopyAhead'
              BY <1>1, <1>10 DEF Tracked!CopyAhead
        <2>2. D \subseteq Tracked!CopyAhead'
              BY <1>6, <1>8 DEF Tracked!CopyAhead
        <2>3. Tracked!ImageAhead' = Tracked!ImageAhead
              BY <1>1, <1>8, <1>10 DEF Tracked!ImageAhead, Tracked!Gpc
        <2> QED BY <2>1, <2>2, <2>3
  <1>20. DataOK'
        BY <1>1, <1>2, <1>3, <1>19 DEF DataOK, Tracked!WritesReachGpu
  <1> QED BY <1>11, <1>12, <1>13, <1>14, <1>15, <1>17, <1>18, <1>20

\* Pages that are not late any more have the permission they ought to have.
LEMMA HostSettles ==
  ASSUME HostOK, UNCHANGED pMode, Tracked!Opened \subseteq Tracked!Opened',
         \A p \in Tracked!Page :
           \/ /\ pHost'[p] = pHost[p] /\ (p \in pAccess' => p \in pAccess)
              /\ pWatchers'[p] > 0 => pWatchers[p] > 0
              /\ Late(p) => Late(p)'
           \/ pHost'[p] = Tracked!Perms(pWatchers', pAccess', p)
           \/ Tracked!Perms(pWatchers', pAccess', p) = "RW"
  PROVE  HostOK'
  <1> SUFFICES ASSUME NEW p \in Tracked!Page
               PROVE  \/ p \in Tracked!Opened'
                      \/ /\ p \in pAccess' => pHost'[p] = "NA"
                         /\ p \notin pAccess' /\ pWatchers'[p] > 0 /\ pHost'[p] = "RW" => Late(p)'
      BY DEF HostOK, Tracked!Page
  <1>1. CASE /\ pHost'[p] = pHost[p] /\ (p \in pAccess' => p \in pAccess)
             /\ pWatchers'[p] > 0 => pWatchers[p] > 0
             /\ Late(p) => Late(p)'
        BY <1>1 DEF HostOK
  <1>2. CASE pHost'[p] = Tracked!Perms(pWatchers', pAccess', p)
        BY <1>2 DEF Tracked!Perms
  <1>3. CASE Tracked!Perms(pWatchers', pAccess', p) = "RW"
        BY <1>3 DEF Tracked!Perms
  <1> QED BY <1>1, <1>2, <1>3

LEMMA ProtectionReapplied ==
  ASSUME Tracked!TypeOK, NEW P \in SUBSET Tracked!Page, Tracked!Reapply(P), UNCHANGED <<pMode, pWatchers,
         pAccess>>
  PROVE  /\ pHost' \in [Tracked!Page -> {"RW", "RO", "NA"}]
         /\ \A p \in Tracked!Page : p \notin P => pHost'[p] = pHost[p]
         /\ \A p \in P : \/ pHost'[p] = Tracked!Perms(pWatchers', pAccess', p)
                         \/ Tracked!Perms(pWatchers', pAccess', p) = "RW"
  <1>1. /\ DOMAIN pHost' = Tracked!Page
        /\ \A p \in Tracked!Page : pHost'[p] = IF p \in P /\ Tracked!Perms(pWatchers, pAccess, p) # "RW"
                                               THEN Tracked!Perms(pWatchers, pAccess, p) ELSE pHost[p]
        BY DEF Tracked!Reapply
  <1>2. \A p \in Tracked!Page : Tracked!Perms(pWatchers, pAccess, p) \in {"RW", "RO", "NA"}
          /\ pHost[p] \in {"RW", "RO", "NA"}
        BY DEF Tracked!Perms, Tracked!TypeOK
  <1>3. pHost' \in [Tracked!Page -> {"RW", "RO", "NA"}]
        <2>1. pHost' = [p \in Tracked!Page |-> pHost'[p]]
              BY DEF Tracked!Reapply
        <2> QED BY <1>1, <1>2, <2>1
  <1>4. ASSUME NEW p \in P
        PROVE  \/ pHost'[p] = Tracked!Perms(pWatchers', pAccess', p)
               \/ Tracked!Perms(pWatchers', pAccess', p) = "RW"
        <2>1. Tracked!Perms(pWatchers', pAccess', p) = Tracked!Perms(pWatchers, pAccess, p)
              BY DEF Tracked!Perms
        <2> QED BY <1>1, <2>1
  <1>5. \A p \in Tracked!Page : p \notin P => pHost'[p] = pHost[p]
        BY <1>1
  <1> QED BY <1>3, <1>4, <1>5

\* The copies of an upload whose protection is handed to the worker are all queued.
LEMMA ProtectedFollow ==
  ASSUME Tracking, pGpu.protect # {}, \A c \in pGpu.copies : Tracked!Queued(c)
  PROVE  \A p \in pGpu.protect : Follows(p)
  <1> USE DEF Tracking
  <1> SUFFICES ASSUME NEW p \in pGpu.protect PROVE Follows(p)
      OBVIOUS
  <1>1. pMode.reprotect /\ pGpu.protect \subseteq UNION pGpu.copies
        BY DEF UploadOK
  <1>2. PICK d \in pGpu.copies : p \in d
        BY <1>1
  <1>3. Tracked!Queued(d) /\ pMode.upload >= 1
        BY <1>2 DEF Tracked!Queued
  <1>4. ASSUME NEW c \in SUBSET Tracked!Page, p \in c, Joined \/ c = {p} PROVE Tracked!Queued(c)
        <2>1. CASE Joined
              <3>1. SUBSET pMode.pages \subseteq Backed
                    BY <1>1, <1>3, <2>1, ModeFacts DEF Precedes
              <3> QED BY <1>3, <3>1 DEF Tracked!Queued, Tracked!Page
        <2>2. CASE ~Joined
              <3>1. \E x \in Tracked!Page : d = {x}
                    BY <2>2 DEF UploadOK
              <3>2. c = d
                    BY <1>2, <1>4, <2>2, <3>1
              <3> QED BY <1>3, <3>2
        <2> QED BY <2>1, <2>2
  <1> QED BY <1>1, <1>3, <1>4 DEF Follows

\* What the render thread keeps of an upload.
LEMMA HandsOver ==
  ASSUME Tracked!TypeOK, pGpu' = [pGpu EXCEPT !.pc = "copies", !.protect = {}]
  PROVE  /\ pGpu' \in GpuRecord /\ pGpu'.pc = "copies" /\ pGpu'.range = pGpu.range /\ pGpu'.use = pGpu.use
         /\ pGpu'.protect = {} /\ pGpu'.copies = pGpu.copies /\ pGpu'.who = pGpu.who
  BY DEF Tracked!TypeOK, GpuRecord, Tracked!GpuPc

LEMMA PushedJobs ==
  ASSUME Tracked!TypeOK, JobsOK, NEW P \in SUBSET Tracked!Page, Tracked!Push("protect", P),
         UNCHANGED <<pMode, pDeferred>>,
         pGpu.protect # {}, pGpu'.protect = {}, \A p \in P : Follows(p)
  PROVE  JobsOK'
  <1> DEFINE n == Len(pQueue) + 1
  <1>1. /\ DOMAIN pQueue = 1 .. Len(pQueue) /\ Len(pQueue) \in Nat
        /\ DOMAIN pQueue' = 1 .. n /\ pQueue'[n].kind = "protect" /\ pQueue'[n].pages = P
        /\ \A i \in DOMAIN pQueue : pQueue'[i].kind = pQueue[i].kind /\ pQueue'[i].pages = Taken(i,
             "protect", P)
        BY QueueHas, Pushes
  <1>2. /\ \A i \in DOMAIN pQueue : pQueue'[i].kind = pQueue[i].kind /\ pQueue'[i].pages = pQueue[i].pages
        /\ n \notin DOMAIN pQueue /\ n \in DOMAIN pQueue' /\ DOMAIN pQueue' = DOMAIN pQueue \cup {n}
        BY <1>1 DEF Taken
  <1> HIDE DEF n
  <1>3. Waiting' = Waiting \cup {n} /\ n \notin Waiting
        BY <1>1, <1>2 DEF Waiting
  <1>4. Cardinality(Waiting') = Cardinality(Waiting) + 1
        BY <1>3, WaitingIsFinite, FS_AddElement
  <1>5. pDeferred' = Cardinality(Waiting')
        BY <1>4, WaitingIsFinite DEF JobsOK
  <1>6. ASSUME NEW i \in Waiting', NEW p \in pQueue'[i].pages PROVE Follows(p)'
        <2>1. Follows(p)
              BY <1>1, <1>2, <1>3, <1>6 DEF JobsOK, Waiting
        <2> QED BY <2>1 DEF Follows, Tracked!Queued, Tracked!Page
  <1>7. Cardinality(Waiting') \in Nat
        BY <1>4, WaitingIsFinite
  <1> QED BY <1>5, <1>6, <1>7 DEF JobsOK

LEMMA HandOverKeeps == ASSUME Tracking, Tracked!HandOver PROVE Tracking'
  <1> USE DEF Tracking
  <1> DEFINE all == \A c \in pGpu.copies : Tracked!Queued(c)
  <1>1. /\ pGpu.pc = "handover"
        /\ IF pGpu.protect = {} THEN UNCHANGED <<pHost, pQueue, pDeferred, pProven, pSame>>
           ELSE IF all
           THEN Tracked!Push("protect", pGpu.protect) /\ UNCHANGED <<pHost, pDeferred, pProven, pSame>>
           ELSE /\ Tracked!Reapply(pGpu.protect) /\ pDeferred' = pDeferred - 1 /\ pProven' = FALSE
                     /\ pSame' = FALSE
                /\ pQueue' = pQueue
        /\ pGpu' = [pGpu EXCEPT !.pc = "copies", !.protect = {}]
        /\ UNCHANGED <<pMode, Tracked!tracker, pWatchers, pAccess, pImaged, pBda, Tracked!data, pGuest,
             pExited>>
        BY DEF Tracked!HandOver, Tracked!Gpc
  <1> HIDE DEF all
  <1>2. UNCHANGED <<pCpuDirty, pGpuDirty, pWritable, pLock, pStale, pImageStale, pBehind, pSlipped>>
        BY <1>1 DEF Tracked!tracker, Tracked!data
  <1>3. /\ pGpu' \in GpuRecord /\ pGpu'.pc = "copies" /\ pGpu'.range = pGpu.range /\ pGpu'.use = pGpu.use
        /\ pGpu'.protect = {} /\ pGpu'.copies = pGpu.copies /\ pGpu'.who = pGpu.who
        BY <1>1, HandsOver
  <1>4. UploadOK' /\ DownloadOK'
        <2>1. UploadOK'
              BY <1>1, <1>2, <1>3 DEF UploadOK, Tracked!Page
        <2>2. DownloadOK'
              BY <1>1, <1>3 DEF DownloadOK
        <2> QED BY <2>1, <2>2
  <1>5. WatchersFollow' /\ Tracked!Opened' = Tracked!Opened
        BY <1>1, <1>2 DEF WatchersFollow, Tracked!Page, Tracked!Opened, Tracked!At
  <1>6. ASSUME pHost' \in [Tracked!Page -> {"RW", "RO", "NA"}], pQueue' \in Seq(Tracked!Job),
                 pDeferred' \in Nat,
               pProven' \in BOOLEAN, pSame' \in BOOLEAN, pProven' => pProven, pSame' => pSame, JobsOK', HostOK',
               Tracked!CopyAhead \subseteq Tracked!CopyAhead', Tracked!ImageAhead \subseteq Tracked!ImageAhead'
        PROVE  Tracking'
        <2>1. Tracked!TypeOK'
              BY <1>1, <1>2, <1>3, <1>6 DEF Tracked!TypeOK, Tracked!Page, Tracked!Job, GpuRecord
        <2>2. EpochsOK'
              BY <1>1, <1>2, <1>3, <1>6 DEF EpochsOK
        <2>3. DataOK'
              BY <1>1, <1>2, <1>6 DEF DataOK, Tracked!WritesReachGpu
        <2> QED BY <1>4, <1>5, <1>6, <2>1, <2>2, <2>3
  <1>7. CASE pGpu.protect = {}
        <2>1. UNCHANGED <<pHost, pQueue, pDeferred, pProven, pSame>>
              BY <1>1, <1>7
        <2>2. JobsOK'
              BY <1>1, <1>3, <1>7, <2>1, JobsFrame
        <2>3. \A p \in Tracked!Page : Late(p) => Late(p)'
              BY <1>1, <1>3, <1>7, <2>1, LateFrame
        <2>4. HostOK'
              BY <1>1, <1>5, <2>1, <2>3, HostStep
        <2>5. Tracked!CopyAhead' = Tracked!CopyAhead /\ Tracked!ImageAhead' = Tracked!ImageAhead
              BY <1>1, <1>3, <2>1 DEF Tracked!CopyAhead, Tracked!ImageAhead, Tracked!Gpc
        <2>6. pHost \in [Tracked!Page -> {"RW", "RO", "NA"}] /\ pQueue \in Seq(Tracked!Job) /\ pDeferred \in Nat
              BY DEF Tracked!TypeOK
        <2>7. pProven \in BOOLEAN /\ pSame \in BOOLEAN
              BY DEF Tracked!TypeOK
        <2> QED BY <1>6, <2>1, <2>2, <2>4, <2>5, <2>6, <2>7
  <1>8. CASE pGpu.protect # {} /\ all
        <2>1. Tracked!Push("protect", pGpu.protect) /\ UNCHANGED <<pHost, pDeferred, pProven, pSame>>
              BY <1>1, <1>8
        <2>2. \A p \in pGpu.protect : Follows(p)
              BY <1>8, ProtectedFollow DEF all
        <2>3. pGpu.protect \in SUBSET Tracked!Page
              BY GpuHas
        <2>4. JobsOK'
              BY <1>1, <1>3, <1>8, <2>1, <2>2, <2>3, PushedJobs
        <2> DEFINE n == Len(pQueue) + 1
        <2>5. /\ pQueue' \in Seq(Tracked!Job) /\ n \in DOMAIN pQueue'
              /\ pQueue'[n].kind = "protect" /\ pQueue'[n].pages = pGpu.protect
              /\ \A i \in DOMAIN pQueue : /\ pQueue'[i].kind = pQueue[i].kind
                   /\ pQueue'[i].pages = pQueue[i].pages
                                          /\ i \in DOMAIN pQueue'
              BY <2>1, <2>3, QueueHas, Pushes DEF Taken
        <2> HIDE DEF n
        <2>6. ASSUME NEW p \in Tracked!Page, Late(p) PROVE Late(p)'
              <3>1. CASE p \in pGpu.protect
                    <4>1. p \in UNION pGpu'.copies /\ p \notin pImaged'
                          BY <1>1, <1>3, <3>1 DEF UploadOK
                    <4> QED BY <2>5, <3>1, <4>1 DEF Late, LateJob, CopyAfter
              <3>2. CASE p \notin pGpu.protect
                    <4>1. /\ pGpu'.protect \subseteq pGpu.protect /\ pImaged' = pImaged /\ pGpu.pc # "image"
                          /\ \A x : x \in UNION pGpu.copies => x \in UNION pGpu'.copies
                          BY <1>1, <1>3
                    <4> QED BY <2>1, <2>3, <2>6, <3>2, <4>1, PushKeepsLate
              <3> QED BY <3>1, <3>2
        <2>7. HostOK'
              BY <1>1, <1>5, <2>1, <2>6, HostStep
        <2>8. Tracked!CopyAhead \subseteq Tracked!CopyAhead'
              BY <1>3, <2>5 DEF Tracked!CopyAhead
        <2>9. Tracked!ImageAhead \subseteq Tracked!ImageAhead'
              BY <1>1, <2>5 DEF Tracked!ImageAhead, Tracked!Gpc
        <2>10. pHost \in [Tracked!Page -> {"RW", "RO", "NA"}] /\ pDeferred \in Nat
              BY DEF Tracked!TypeOK
        <2>11. pProven \in BOOLEAN /\ pSame \in BOOLEAN
              BY DEF Tracked!TypeOK
        <2> QED BY <1>6, <2>1, <2>4, <2>5, <2>7, <2>8, <2>9, <2>10, <2>11
  <1>9. CASE pGpu.protect # {} /\ ~all
        <2>1. Tracked!Reapply(pGpu.protect) /\ pDeferred' = pDeferred - 1 /\ pProven' = FALSE
                /\ pSame' = FALSE /\ pQueue' = pQueue
              BY <1>1, <1>9
        <2>2. pGpu.protect \in SUBSET Tracked!Page /\ UNCHANGED <<pMode, pWatchers, pAccess>>
              BY <1>1, GpuHas
        <2>3. /\ pHost' \in [Tracked!Page -> {"RW", "RO", "NA"}]
              /\ \A p \in Tracked!Page : p \notin pGpu.protect => pHost'[p] = pHost[p]
              /\ \A p \in pGpu.protect : \/ pHost'[p] = Tracked!Perms(pWatchers', pAccess', p)
                                         \/ Tracked!Perms(pWatchers', pAccess', p) = "RW"
              BY <2>1, <2>2, ProtectionReapplied
        <2>4. JobsOK' /\ pDeferred' \in Nat
              <3>1. pDeferred = Cardinality(Waiting) + 1 /\ Cardinality(Waiting) \in Nat
                    BY <1>9, WaitingIsFinite DEF JobsOK
              <3>2. Waiting' = Waiting /\ \A x : Follows(x)' <=> Follows(x)
                    BY <1>1, <2>1 DEF Waiting, Follows, Tracked!Queued, Tracked!Page
              <3>3. pDeferred' = Cardinality(Waiting) /\ pDeferred' \in Nat
                    BY <2>1, <3>1
              <3> QED BY <1>3, <2>1, <3>1, <3>2, <3>3 DEF JobsOK
        <2>5. ASSUME NEW p \in Tracked!Page, p \notin pGpu.protect, Late(p) PROVE Late(p)'
              BY <1>1, <1>3, <2>1, <2>5 DEF Late, LateJob, CopyAfter, ImageAfter
        <2>6. HostOK'
              BY <1>1, <1>5, <2>3, <2>5, HostSettles
        <2>7. Tracked!CopyAhead' = Tracked!CopyAhead /\ Tracked!ImageAhead' = Tracked!ImageAhead
              BY <1>1, <1>3, <2>1 DEF Tracked!CopyAhead, Tracked!ImageAhead, Tracked!Gpc
        <2>8. pQueue \in Seq(Tracked!Job)
              BY DEF Tracked!TypeOK
        <2> QED BY <1>6, <2>1, <2>3, <2>4, <2>6, <2>7, <2>8
  <1> QED BY <1>7, <1>8, <1>9

\* Jobs that wait for their protection are neither added nor taken by a copy.
LEMMA CopyKeepsJobs ==
  ASSUME Tracked!TypeOK, JobsOK, UNCHANGED <<pMode, pDeferred>>, pGpu.protect = {}, pGpu'.protect = {},
         NEW kind \in {"copy", "image"}, DOMAIN pQueue \subseteq DOMAIN pQueue',
         \A i \in DOMAIN pQueue' \ DOMAIN pQueue : pQueue'[i].kind = kind,
         \A i \in DOMAIN pQueue : /\ pQueue'[i].kind = pQueue[i].kind
                                  /\ pQueue[i].kind # kind => pQueue'[i].pages = pQueue[i].pages
  PROVE  JobsOK'
  <1>1. Waiting' = Waiting
        BY DEF Waiting
  <1>2. \A i \in Waiting : pQueue'[i].pages = pQueue[i].pages
        BY DEF Waiting
  <1>3. \A p : Follows(p) => Follows(p)'
        BY DEF Follows, Tracked!Queued, Tracked!Page
  <1> QED BY <1>1, <1>2, <1>3 DEF JobsOK

\* A page of a copy that is made at once has no protection on its way.
LEMMA DirectIsNotLate ==
  ASSUME Tracking, NEW c \in pGpu.copies, ~Tracked!Queued(c), pGpu.protect = {}, NEW p \in c
  PROVE  ~Late(p)
  <1> USE DEF Tracking
  <1> SUFFICES ASSUME NEW i \in DOMAIN pQueue, LateJob(i, p) PROVE FALSE
      BY DEF Late, LateJob
  <1>1. i \in Waiting /\ p \in pQueue[i].pages
        BY DEF LateJob, Waiting
  <1>2. Follows(p)
        BY <1>1 DEF JobsOK
  <1>3. c \in SUBSET Tracked!Page
        BY GpuHas
  <1>4. Joined \/ c = {p}
        BY DEF UploadOK
  <1> QED BY <1>2, <1>3, <1>4 DEF Follows

LEMMA CopyRangeKeeps == ASSUME Tracking, NEW c \in SUBSET Tracked!Page, Tracked!CopyRange(c) PROVE Tracking'
  <1> USE DEF Tracking
  <1>1. /\ pGpu.pc = "copies" /\ c \in pGpu.copies
        /\ IF Tracked!Queued(c) THEN Tracked!Push("copy", c) /\ pStale' = pStale
           ELSE pStale' = pStale \ c /\ pQueue' = Tracked!Overtaken("copy", c)
        /\ pGpu' = [pGpu EXCEPT !.copies = @ \ {c}]
        /\ UNCHANGED <<pMode, Tracked!tracker, Tracked!pages, pImaged, Tracked!epochs, pImageStale, pBehind,
             pSlipped, pGuest, pExited>>
        BY DEF Tracked!CopyRange, Tracked!Gpc
  <1>2. UNCHANGED <<pCpuDirty, pGpuDirty, pWritable, pLock, pWatchers, pAccess, pHost, pDeferred, pProven,
          pSame, pBda>>
        BY <1>1 DEF Tracked!tracker, Tracked!pages, Tracked!epochs
  <1>3. /\ pGpu' \in GpuRecord /\ pGpu'.pc = "copies" /\ pGpu'.range = pGpu.range /\ pGpu'.use = pGpu.use
        /\ pGpu'.protect = pGpu.protect /\ pGpu'.copies = pGpu.copies \ {c} /\ pGpu'.who = pGpu.who
        BY <1>1 DEF Tracked!TypeOK, GpuRecord
  <1>4. pGpu.protect = {}
        BY <1>1 DEF UploadOK
  <1>5. UploadOK' /\ DownloadOK'
        <2>1. UploadOK'
              BY <1>1, <1>2, <1>3, <1>4 DEF UploadOK, Tracked!Page
        <2>2. DownloadOK'
              BY <1>1, <1>3 DEF DownloadOK
        <2> QED BY <2>1, <2>2
  <1>6. WatchersFollow' /\ Tracked!Opened' = Tracked!Opened /\ EpochsOK'
        BY <1>1, <1>2, <1>3 DEF WatchersFollow, Tracked!Page, Tracked!Opened, Tracked!At, EpochsOK
  <1>7. pStale' \subseteq pStale
        BY <1>1
  <1>8. ASSUME pQueue' \in Seq(Tracked!Job), JobsOK', \A p \in Tracked!Page : Late(p) => Late(p)',
               pStale' \cap Tracked!CopyAhead \subseteq Tracked!CopyAhead',
                 Tracked!ImageAhead \subseteq Tracked!ImageAhead'
        PROVE  Tracking'
        <2>1. Tracked!TypeOK'
              BY <1>1, <1>2, <1>3, <1>7, <1>8 DEF Tracked!TypeOK, Tracked!Page, Tracked!Job, GpuRecord
        <2>2. HostOK'
              BY <1>1, <1>2, <1>6, <1>8, HostStep
        <2>3. DataOK'
              BY <1>1, <1>2, <1>7, <1>8 DEF DataOK, Tracked!WritesReachGpu
        <2> QED BY <1>5, <1>6, <1>8, <2>1, <2>2, <2>3
  <1>9. CASE Tracked!Queued(c)
        <2> DEFINE n == Len(pQueue) + 1
        <2>1. Tracked!Push("copy", c) /\ pStale' = pStale
              BY <1>1, <1>9
        <2>2. /\ pQueue' \in Seq(Tracked!Job) /\ n \in DOMAIN pQueue' /\ DOMAIN pQueue' = DOMAIN pQueue \cup {n}
              /\ pQueue'[n].kind = "copy" /\ pQueue'[n].pages = c
              /\ \A i \in DOMAIN pQueue : pQueue'[i].kind = pQueue[i].kind /\ pQueue'[i].pages = Taken(i,
                   "copy", c)
              <3>1. c \in SUBSET Tracked!Page
                    OBVIOUS
              <3>2. /\ pQueue' \in Seq(Tracked!Job) /\ DOMAIN pQueue' = 1 .. n
                    /\ pQueue'[n].kind = "copy" /\ pQueue'[n].pages = c
                    /\ \A i \in DOMAIN pQueue : pQueue'[i].kind = pQueue[i].kind
                         /\ pQueue'[i].pages = Taken(i, "copy", c)
                    BY <2>1, <3>1, Pushes
              <3>3. n \in 1 .. n /\ 1 .. n = DOMAIN pQueue \cup {n}
                    BY QueueHas
              <3> HIDE DEF n
              <3> QED BY <3>2, <3>3
        <2> HIDE DEF n
        <2>3. \A i \in DOMAIN pQueue : /\ pQueue[i].kind # "copy" => pQueue'[i].pages = pQueue[i].pages
                                       /\ pQueue[i].kind = "copy" => pQueue'[i].pages = pQueue[i].pages \ c
              BY <2>2 DEF Taken
        <2>4. JobsOK'
              <3>1. \A i \in DOMAIN pQueue' \ DOMAIN pQueue : pQueue'[i].kind = "copy"
                    BY <2>2
              <3> QED BY <1>1, <1>2, <1>3, <1>4, <2>2, <2>3, <3>1, CopyKeepsJobs
        <2>5. \A p : p \in UNION pGpu.copies => p \in UNION pGpu'.copies \/ p \in c
              BY <1>3
        <2>6. \A p \in Tracked!Page : Late(p) => Late(p)'
              BY <1>1, <1>3, <1>4, <2>1, <2>5, PushKeepsLate
        <2>7. Tracked!CopyAhead \subseteq Tracked!CopyAhead'
              <3>1. \A p : p \in c => p \in Tracked!CopyAhead'
                    BY <2>2 DEF Tracked!CopyAhead
              <3>2. \A p : p \in UNION pGpu.copies => p \in Tracked!CopyAhead'
                    BY <2>5, <3>1 DEF Tracked!CopyAhead
              <3>3. ASSUME NEW i \in DOMAIN pQueue, pQueue[i].kind = "copy", NEW p \in pQueue[i].pages
                    PROVE  p \in Tracked!CopyAhead'
                    BY <2>2, <2>3, <3>1, <3>3 DEF Tracked!CopyAhead
              <3> QED BY <3>2, <3>3 DEF Tracked!CopyAhead
        <2>8. Tracked!ImageAhead \subseteq Tracked!ImageAhead'
              BY <1>1, <2>2, <2>3 DEF Tracked!ImageAhead, Tracked!Gpc
        <2> QED BY <1>8, <2>2, <2>4, <2>6, <2>7, <2>8
  <1>10. CASE ~Tracked!Queued(c)
        <2>1. pStale' = pStale \ c /\ pQueue' = Tracked!Overtaken("copy", c)
              BY <1>1, <1>10
        <2>2. pQueue' \in Seq(Tracked!Job) /\ DOMAIN pQueue' = DOMAIN pQueue
              BY <2>1, Overtakes
        <2>3. \A i \in DOMAIN pQueue : /\ pQueue'[i].kind = pQueue[i].kind
                                       /\ pQueue[i].kind # "copy" => pQueue'[i].pages = pQueue[i].pages
                                       /\ pQueue[i].kind = "copy" => pQueue'[i].pages = pQueue[i].pages \ c
              BY <2>1, OvertakesEach
        <2>4. JobsOK'
              BY <1>1, <1>2, <1>3, <1>4, <2>2, <2>3, CopyKeepsJobs
        <2>5. ASSUME NEW p \in Tracked!Page, Late(p) PROVE Late(p)'
              <3>1. p \notin c
                    BY <1>1, <1>4, <1>10, <2>5, DirectIsNotLate
              <3>2. PICK i \in DOMAIN pQueue : LateJob(i, p)
                    BY <1>4, <2>5 DEF Late, LateJob
              <3>3. CopyAfter(i, p)'
                    <4>1. CASE p \in UNION pGpu.copies
                          BY <4>1, <3>1, <1>3 DEF CopyAfter
                    <4>2. CASE p \notin UNION pGpu.copies
                          BY <4>2, <3>1, <3>2, <2>2, <2>3 DEF CopyAfter, LateJob
                    <4> QED BY <4>1, <4>2
              <3>4. ImageAfter(i, p) => ImageAfter(i, p)'
                    BY <1>1, <2>2, <2>3 DEF ImageAfter
              <3> QED BY <1>1, <3>2, <3>3, <3>4, <2>2, <2>3 DEF LateJob, Late
        <2>6. ASSUME NEW p \in Tracked!CopyAhead, p \notin c PROVE p \in Tracked!CopyAhead'
              BY <1>3, <2>2, <2>3, <2>6 DEF Tracked!CopyAhead
        <2>7. Tracked!ImageAhead \subseteq Tracked!ImageAhead'
              BY <1>1, <2>2, <2>3 DEF Tracked!ImageAhead, Tracked!Gpc
        <2> QED BY <1>8, <2>1, <2>2, <2>4, <2>5, <2>6, <2>7
  <1> QED BY <1>9, <1>10

LEMMA StageKeeps == ASSUME Tracking, Tracked!StageImage PROVE Tracking'
  <1> USE DEF Tracking
  <1>1. /\ pGpu.pc = "image" /\ pGpu' = Tracked!Idle
        /\ IF pMode.upload = 2 THEN Tracked!Push("image", pGpu.range) /\ pImageStale' = pImageStale
           ELSE pImageStale' = pImageStale \ pGpu.range /\ pQueue' = Tracked!Overtaken("image", pGpu.range)
        /\ UNCHANGED <<pMode, Tracked!tracker, Tracked!pages, pImaged, Tracked!epochs, pStale, pBehind,
             pSlipped, pGuest, pExited>>
        BY DEF Tracked!StageImage, Tracked!Gpc
  <1>2. UNCHANGED <<pCpuDirty, pGpuDirty, pWritable, pLock, pWatchers, pAccess, pHost, pDeferred, pProven,
          pSame, pBda>>
        BY <1>1 DEF Tracked!tracker, Tracked!pages, Tracked!epochs
  <1>3. pGpu.protect = {} /\ pGpu.copies = {} /\ pGpu.range \in SUBSET Tracked!Page
        BY <1>1, NoUpload, GpuHas
  <1>4. UploadOK' /\ DownloadOK'
        BY <1>1, IdleIsRecord, UploadEnded, PagesAssumption DEF DownloadOK, Tracked!PageAssumption
  <1>5. WatchersFollow' /\ Tracked!Opened' = Tracked!Opened
        BY <1>1, <1>2 DEF WatchersFollow, Tracked!Page, Tracked!Opened, Tracked!At
  <1>6. EpochsOK'
        BY <1>1, <1>2, IdleIsRecord DEF EpochsOK
  <1>7. pImageStale' \subseteq pImageStale
        BY <1>1
  <1>8. ASSUME pQueue' \in Seq(Tracked!Job), JobsOK', \A p \in Tracked!Page : Late(p) => Late(p)',
               Tracked!CopyAhead \subseteq Tracked!CopyAhead',
                 pImageStale' \cap Tracked!ImageAhead \subseteq Tracked!ImageAhead'
        PROVE  Tracking'
        <2>1. Tracked!TypeOK'
              BY <1>1, <1>2, <1>7, <1>8, IdleIsRecord DEF Tracked!TypeOK, Tracked!Page, Tracked!Job, GpuRecord
        <2>2. HostOK'
              BY <1>1, <1>2, <1>5, <1>8, HostStep
        <2>3. DataOK'
              BY <1>1, <1>2, <1>7, <1>8 DEF DataOK, Tracked!WritesReachGpu
        <2> QED BY <1>4, <1>5, <1>6, <1>8, <2>1, <2>2, <2>3
  <1>9. CASE pMode.upload = 2
        <2> DEFINE n == Len(pQueue) + 1
        <2>1. Tracked!Push("image", pGpu.range)
              BY <1>1, <1>9
        <2>2. /\ pQueue' \in Seq(Tracked!Job) /\ n \in DOMAIN pQueue' /\ DOMAIN pQueue' = DOMAIN pQueue \cup {n}
              /\ pQueue'[n].kind = "image" /\ pQueue'[n].pages = pGpu.range
              /\ \A i \in DOMAIN pQueue : pQueue'[i].kind = pQueue[i].kind /\ pQueue'[i].pages = Taken(i,
                   "image", pGpu.range)
              <3>1. pGpu.range \in SUBSET Tracked!Page
                    BY <1>3
              <3>2. /\ pQueue' \in Seq(Tracked!Job) /\ DOMAIN pQueue' = 1 .. n
                    /\ pQueue'[n].kind = "image" /\ pQueue'[n].pages = pGpu.range
                    /\ \A i \in DOMAIN pQueue : pQueue'[i].kind = pQueue[i].kind
                         /\ pQueue'[i].pages = Taken(i, "image", pGpu.range)
                    BY <2>1, <3>1, Pushes
              <3>3. n \in 1 .. n /\ 1 .. n = DOMAIN pQueue \cup {n}
                    BY QueueHas
              <3> HIDE DEF n
              <3> QED BY <3>2, <3>3
        <2> HIDE DEF n
        <2>3. \A i \in DOMAIN pQueue : /\ pQueue[i].kind # "image" => pQueue'[i].pages = pQueue[i].pages
                                       /\ pQueue[i].kind = "image" => pQueue'[i].pages = pQueue[i].pages \ pGpu.range
              BY <2>2 DEF Taken
        <2>4. JobsOK'
              <3>1. \A i \in DOMAIN pQueue' \ DOMAIN pQueue : pQueue'[i].kind = "image"
                    BY <2>2
              <3> QED BY <1>1, <1>2, <1>3, <2>2, <2>3, <3>1, IdleIsRecord, CopyKeepsJobs
        <2>5. \A p \in Tracked!Page : Late(p) => Late(p)'
              <3>1. pGpu'.protect \subseteq pGpu.protect /\ \A p : p \notin UNION pGpu.copies
                    BY <1>1, <1>3, IdleIsRecord
              <3> QED BY <1>1, <1>3, <2>1, <3>1, PushKeepsLate
        <2>6. Tracked!CopyAhead \subseteq Tracked!CopyAhead'
              BY <1>3, <2>2, <2>3 DEF Tracked!CopyAhead
        <2>7. Tracked!ImageAhead \subseteq Tracked!ImageAhead'
              <3>1. \A p : p \in pGpu.range => p \in Tracked!ImageAhead'
                    BY <2>2 DEF Tracked!ImageAhead
              <3>2. ASSUME NEW i \in DOMAIN pQueue, pQueue[i].kind = "image", NEW p \in pQueue[i].pages
                    PROVE  p \in Tracked!ImageAhead'
                    BY <2>2, <2>3, <3>1, <3>2 DEF Tracked!ImageAhead
              <3> QED BY <3>1, <3>2 DEF Tracked!ImageAhead
        <2> QED BY <1>8, <2>2, <2>4, <2>5, <2>6, <2>7
  <1>10. CASE pMode.upload # 2
        <2>1. pImageStale' = pImageStale \ pGpu.range /\ pQueue' = Tracked!Overtaken("image", pGpu.range)
              BY <1>1, <1>10
        <2>2. pQueue' \in Seq(Tracked!Job) /\ DOMAIN pQueue' = DOMAIN pQueue
              BY <2>1, Overtakes
        <2>3. \A i \in DOMAIN pQueue : /\ pQueue'[i].kind = pQueue[i].kind
                                       /\ pQueue[i].kind # "image" => pQueue'[i].pages = pQueue[i].pages
                                       /\ pQueue[i].kind = "image" => pQueue'[i].pages = pQueue[i].pages \ pGpu.range
              BY <2>1, OvertakesEach
        <2>4. JobsOK'
              BY <1>1, <1>2, <1>3, <2>2, <2>3, IdleIsRecord, CopyKeepsJobs
        <2>5. ASSUME NEW p \in Tracked!Page, Late(p) PROVE Late(p)'
              <3>1. PICK i \in DOMAIN pQueue : LateJob(i, p)
                    BY <1>3, <2>5 DEF Late, LateJob
              <3>2. Follows(p)
                    BY <3>1 DEF JobsOK, LateJob, Waiting
              <3>3. pMode.reprotect /\ pMode.upload > 0
                    BY <3>2, ModeFacts DEF Follows
              <3>4. pMode.image = {}
                    BY <1>10, <3>3, ModeFacts DEF Precedes
              <3>5. p \notin pImaged'
                    BY <1>1, <3>4 DEF Tracked!TypeOK
              <3>6. CopyAfter(i, p)'
                    BY <1>3, <3>1, <2>2, <2>3 DEF CopyAfter, LateJob
              <3> QED BY <3>1, <3>5, <3>6, <2>2, <2>3 DEF LateJob, Late
        <2>6. Tracked!CopyAhead \subseteq Tracked!CopyAhead'
              BY <1>3, <2>2, <2>3 DEF Tracked!CopyAhead
        <2>7. ASSUME NEW p \in Tracked!ImageAhead, p \notin pGpu.range PROVE p \in Tracked!ImageAhead'
              BY <2>2, <2>3, <2>7 DEF Tracked!ImageAhead
        <2> QED BY <1>8, <2>1, <2>2, <2>4, <2>5, <2>6, <2>7
  <1> QED BY <1>9, <1>10

\* ---- the worker
LEMMA TailHas ==
  ASSUME Tracked!TypeOK, pQueue # <<>>
  PROVE  /\ Tail(pQueue) \in Seq(Tracked!Job) /\ Head(pQueue) = pQueue[1] /\ 1 \in DOMAIN pQueue
         /\ \A i \in DOMAIN Tail(pQueue) : /\ i + 1 \in DOMAIN pQueue /\ i + 1 # 1 /\ i \in Nat
                                           /\ Tail(pQueue)[i] = pQueue[i + 1]
         /\ \A i \in DOMAIN pQueue : i # 1 => i - 1 \in DOMAIN Tail(pQueue) /\ i \in Nat /\ (i - 1) + 1 = i
  <1>1. pQueue \in Seq(Tracked!Job) /\ DOMAIN pQueue = 1 .. Len(pQueue) /\ Len(pQueue) \in Nat
        BY QueueHas
  <1>2. Len(pQueue) >= 1 /\ Head(pQueue) = pQueue[1]
        BY <1>1
  <1>3. /\ Tail(pQueue) \in Seq(Tracked!Job) /\ Len(Tail(pQueue)) = Len(pQueue) - 1
        /\ DOMAIN Tail(pQueue) = 1 .. (Len(pQueue) - 1)
        /\ \A i \in 1 .. (Len(pQueue) - 1) : Tail(pQueue)[i] = pQueue[i + 1]
        BY <1>1, <1>2
  <1> QED BY <1>1, <1>2, <1>3

LEMMA ShiftIsBijective ==
  ASSUME NEW S \in SUBSET Nat, NEW T \in SUBSET Nat, IsFiniteSet(S),
         \A i \in S : i - 1 \in T, \A i \in T : i + 1 \in S
  PROVE  IsFiniteSet(T) /\ Cardinality(T) = Cardinality(S)
  <1> DEFINE f == [i \in S |-> i - 1]
  <1>1. f \in [S -> T] /\ \A i \in S : f[i] = i - 1
        OBVIOUS
  <1> HIDE DEF f
  <1>2. f \in Injection(S, T)
        BY <1>1 DEF Injection, IsInjective
  <1>3. \A i \in T : i + 1 \in S /\ f[i + 1] = i
        BY <1>1
  <1>4. f \in Surjection(S, T)
        BY <1>1, <1>3 DEF Surjection
  <1>5. ExistsBijection(S, T)
        BY <1>2, <1>4 DEF ExistsBijection, Bijection
  <1> QED BY <1>5, FS_Bijection

LEMMA TailKeepsJobs ==
  ASSUME Tracked!TypeOK, JobsOK, pQueue # <<>>, pQueue' = Tail(pQueue), UNCHANGED <<pMode, pGpu>>,
         pDeferred' = IF 1 \in Waiting THEN pDeferred - 1 ELSE pDeferred
  PROVE  JobsOK' /\ pDeferred' \in Nat
  <1> DEFINE S == Waiting \ {1}
  <1>1. IsFiniteSet(S)
          /\ Cardinality(S) = IF 1 \in Waiting THEN Cardinality(Waiting) - 1 ELSE Cardinality(Waiting)
        BY WaitingIsFinite, FS_RemoveElement
  <1>2. \A i \in Waiting' : i + 1 \in S /\ pQueue'[i] = pQueue[i + 1] /\ i \in Nat
        BY TailHas DEF Waiting
  <1>3. \A i \in S : i - 1 \in Waiting' /\ i \in Nat
        BY TailHas DEF Waiting
  <1>4. Cardinality(Waiting') = Cardinality(S)
        <2>1. S \in SUBSET Nat /\ Waiting' \in SUBSET Nat
              BY <1>2, <1>3
        <2> QED BY <1>1, <1>2, <1>3, <2>1, ShiftIsBijective
  <1>5. Cardinality(S) \in Nat
        BY <1>1, FS_CardinalityType
  <1> DEFINE more == IF pGpu.protect = {} THEN 0 ELSE 1
  <1>6. pDeferred = Cardinality(Waiting) + more /\ more \in Nat /\ Cardinality(Waiting) \in Nat
        BY WaitingIsFinite DEF JobsOK
  <1>7. more' = more
        OBVIOUS
  <1> HIDE DEF S, more
  <1>8. pDeferred' = Cardinality(Waiting') + more /\ pDeferred' \in Nat
        BY <1>1, <1>4, <1>5, <1>6
  <1>9. ASSUME NEW i \in Waiting', NEW p \in pQueue'[i].pages PROVE Follows(p)'
        <2>1. Follows(p)
              BY <1>2, <1>9 DEF JobsOK, S
        <2> QED BY <2>1 DEF Follows, Tracked!Queued, Tracked!Page
  <1> QED BY <1>7, <1>8, <1>9 DEF JobsOK, more

LEMMA TailKeepsLate ==
  ASSUME Tracked!TypeOK, pQueue # <<>>, pQueue' = Tail(pQueue), UNCHANGED <<pGpu, pImaged>>,
         pQueue[1].kind # "protect"
  PROVE  \A p : Late(p) => Late(p)'
  <1> SUFFICES ASSUME NEW p, NEW i \in DOMAIN pQueue, LateJob(i, p) PROVE LateJob(i - 1, p)'
      BY DEF Late, LateJob
  <1>1. i # 1
        BY DEF LateJob
  <1>2. i - 1 \in DOMAIN pQueue' /\ i \in Nat /\ pQueue'[i - 1] = pQueue[i]
        BY <1>1, TailHas
  <1>3. ASSUME NEW j \in DOMAIN pQueue, j > i
        PROVE  j - 1 \in DOMAIN pQueue' /\ pQueue'[j - 1] = pQueue[j] /\ j - 1 > i - 1
        <2>1. j # 1
              BY <1>1, <1>2, <1>3, QueueHas
        <2> QED BY <1>2, <1>3, <2>1, TailHas
  <1>4. CopyAfter(i, p) => CopyAfter(i - 1, p)'
        BY <1>3 DEF CopyAfter
  <1>5. ImageAfter(i, p) => ImageAfter(i - 1, p)'
        BY <1>3 DEF ImageAfter
  <1> QED BY <1>2, <1>4, <1>5 DEF LateJob

\* The jobs that are left bring what the first one does not.
LEMMA TailKeepsAhead ==
  ASSUME Tracked!TypeOK, pQueue # <<>>, pQueue' = Tail(pQueue), UNCHANGED pGpu
  PROVE  /\ \A p \in Tracked!CopyAhead : p \in Tracked!CopyAhead' \/ (pQueue[1].kind = "copy" /\ p \in pQueue[1].pages)
         /\ \A p \in Tracked!ImageAhead : p \in Tracked!ImageAhead' \/ (pQueue[1].kind = "image"
              /\ p \in pQueue[1].pages)
  <1>1. \A i \in DOMAIN pQueue : i # 1 => i - 1 \in DOMAIN pQueue' /\ pQueue'[i - 1] = pQueue[i]
        BY TailHas
  <1>2. ASSUME NEW p \in Tracked!CopyAhead
      PROVE p \in Tracked!CopyAhead' \/ (pQueue[1].kind = "copy" /\ p \in pQueue[1].pages)
        BY <1>1 DEF Tracked!CopyAhead
  <1>3. ASSUME NEW p \in Tracked!ImageAhead
      PROVE p \in Tracked!ImageAhead' \/ (pQueue[1].kind = "image" /\ p \in pQueue[1].pages)
        BY <1>1 DEF Tracked!ImageAhead, Tracked!Gpc
  <1> QED BY <1>2, <1>3

LEMMA WorkerTakesKeeps == ASSUME Tracking, Tracked!WorkerSettle \/ Tracked!WorkerCopy PROVE Tracking'
  <1> USE DEF Tracking
  <1>1. /\ pQueue # <<>> /\ pQueue' = Tail(pQueue) /\ pQueue[1].kind \in {"settle", "copy", "image"}
        /\ UNCHANGED <<pMode, Tracked!tracker, Tracked!pages, pImaged, pBda, pBehind, pSlipped, pGuest, pGpu,
             pExited>>
        /\ pStale' \subseteq pStale /\ pImageStale' \subseteq pImageStale
        /\ pQueue[1].kind = "copy" => pStale' = pStale \ pQueue[1].pages
        /\ pQueue[1].kind = "image" => pImageStale' = pImageStale \ pQueue[1].pages
        /\ IF pQueue[1].kind = "settle" THEN pDeferred' = pDeferred - 1 /\ pProven' = FALSE /\ pSame' = FALSE
           ELSE UNCHANGED <<pDeferred, pProven, pSame>>
        BY TailHas DEF Tracked!WorkerSettle, Tracked!WorkerCopy, Tracked!epochs, Tracked!data
  <1>2. UNCHANGED <<pCpuDirty, pGpuDirty, pWritable, pLock, pWatchers, pAccess, pHost>>
        BY <1>1 DEF Tracked!tracker, Tracked!pages
  <1>3. JobsOK' /\ pDeferred' \in Nat
        <2>1. 1 \in Waiting <=> pQueue[1].kind = "settle"
              BY <1>1, TailHas DEF Waiting
        <2> QED BY <1>1, <2>1, TailKeepsJobs
  <1>4. Tracked!Opened' = Tracked!Opened /\ \A p \in Tracked!Page : Late(p) => Late(p)'
        BY <1>1, TailKeepsLate DEF Tracked!Opened, Tracked!At
  <1>5. HostOK'
        BY <1>1, <1>2, <1>4, HostStep
  <1>6. pProven' \in BOOLEAN /\ pSame' \in BOOLEAN /\ (pProven' => pProven) /\ (pSame' => pSame)
        BY <1>1 DEF Tracked!TypeOK
  <1>7. pQueue' \in Seq(Tracked!Job)
        BY <1>1, TailHas
  <1>8. Tracked!TypeOK'
        BY <1>1, <1>2, <1>3, <1>6, <1>7 DEF Tracked!TypeOK, Tracked!Page, Tracked!Job, GpuRecord
  <1>9. WatchersFollow' /\ EpochsOK'
        BY <1>1, <1>2, <1>6 DEF WatchersFollow, Tracked!Page, EpochsOK
  <1>10. UploadOK' /\ DownloadOK'
        <2>1. \A g \in Guests : Tracked!At(g, "sent") => Tracked!At(g, "sent")'
              BY <1>1 DEF Tracked!At
        <2> QED BY <1>1, <1>2, <2>1, RenderFrame
  <1>11. DataOK'
        <2>1. /\ \A p \in Tracked!CopyAhead : p \in Tracked!CopyAhead' \/ (pQueue[1].kind = "copy"
                   /\ p \in pQueue[1].pages)
              /\ \A p \in Tracked!ImageAhead : p \in Tracked!ImageAhead' \/ (pQueue[1].kind = "image"
                   /\ p \in pQueue[1].pages)
              BY <1>1, TailKeepsAhead
        <2>2. ASSUME NEW p \in pStale' PROVE p \in pCpuDirty' \/ p \in Tracked!CopyAhead' \/ p \in pSlipped'
              BY <1>1, <1>2, <2>1, <2>2 DEF DataOK, Tracked!WritesReachGpu
        <2>3. ASSUME NEW p \in pImaged', p \in pImageStale' PROVE p \in Tracked!ImageAhead' \/ p \in pSlipped'
              BY <1>1, <1>2, <2>1, <2>3 DEF DataOK, Tracked!WritesReachGpu
        <2>4. pBehind' \subseteq pGpuDirty'
              BY <1>1, <1>2 DEF DataOK
        <2> QED BY <2>2, <2>3, <2>4 DEF DataOK, Tracked!WritesReachGpu
  <1> QED BY <1>3, <1>5, <1>8, <1>9, <1>10, <1>11

LEMMA WorkerProtectKeeps == ASSUME Tracking, Tracked!WorkerProtect PROVE Tracking'
  <1> USE DEF Tracking
  <1> DEFINE P == pQueue[1].pages
             x == [pQueue[1] EXCEPT !.kind = "settle"]
  <1>1. /\ pQueue # <<>> /\ pQueue[1].kind = "protect" /\ Tracked!Reapply(P)
        /\ pQueue' = [pQueue EXCEPT ![1].kind = "settle"]
        /\ UNCHANGED <<pMode, Tracked!tracker, pWatchers, pAccess, pImaged, Tracked!epochs, Tracked!data,
             pGuest, pGpu, pExited>>
        BY TailHas DEF Tracked!WorkerProtect
  <1>2. UNCHANGED <<pCpuDirty, pGpuDirty, pWritable, pLock, pDeferred, pProven, pSame, pBda, pStale,
          pImageStale,
                    pBehind, pSlipped>>
        BY <1>1 DEF Tracked!tracker, Tracked!epochs, Tracked!data
  <1>3. 1 \in DOMAIN pQueue /\ P \in SUBSET Tracked!Page
        BY <1>1, TailHas, QueueHas
  <1>4. x \in Tracked!Job /\ x.kind = "settle" /\ x.pages = P
        BY <1>3, QueueHas DEF Tracked!Job
  <1>5. pQueue' = [pQueue EXCEPT ![1] = x]
        BY <1>1
  <1> HIDE DEF P, x
  <1>6. pQueue' \in Seq(Tracked!Job)
        BY <1>3, <1>4, <1>5, QueueHas
  <1>7. /\ DOMAIN pQueue' = DOMAIN pQueue /\ pQueue'[1].kind = "settle"
        /\ \A i \in DOMAIN pQueue : /\ pQueue'[i].pages = pQueue[i].pages
                                    /\ i # 1 => pQueue'[i].kind = pQueue[i].kind
        BY <1>3, <1>4, <1>5 DEF P
  <1>8. /\ pHost' \in [Tracked!Page -> {"RW", "RO", "NA"}]
        /\ \A p \in Tracked!Page : p \notin P => pHost'[p] = pHost[p]
        /\ \A p \in P : \/ pHost'[p] = Tracked!Perms(pWatchers', pAccess', p)
                        \/ Tracked!Perms(pWatchers', pAccess', p) = "RW"
        BY <1>1, <1>3, ProtectionReapplied
  <1>9. Tracked!TypeOK'
        BY <1>1, <1>2, <1>6, <1>8 DEF Tracked!TypeOK, Tracked!Page, Tracked!Job, GpuRecord
  <1>10. WatchersFollow' /\ EpochsOK'
        BY <1>1, <1>2 DEF WatchersFollow, Tracked!Page, EpochsOK
  <1>11. UploadOK' /\ DownloadOK'
        <2>1. \A g \in Guests : Tracked!At(g, "sent") => Tracked!At(g, "sent")'
              BY <1>1 DEF Tracked!At
        <2> QED BY <1>1, <1>2, <2>1, RenderFrame
  <1>12. JobsOK'
        <2>1. Waiting' = Waiting
              BY <1>1, <1>7 DEF Waiting
        <2>2. \A p : Follows(p) => Follows(p)'
              BY <1>1 DEF Follows, Tracked!Queued, Tracked!Page
        <2>3. \A i \in Waiting : pQueue'[i].pages = pQueue[i].pages
              BY <1>7 DEF Waiting
        <2> QED BY <1>1, <1>2, <2>1, <2>2, <2>3 DEF JobsOK
  <1>13. ASSUME NEW p \in Tracked!Page, p \notin P, Late(p) PROVE Late(p)'
        <2>1. CASE p \in pGpu.protect
              BY <1>1, <2>1 DEF Late
        <2>2. ASSUME NEW i \in DOMAIN pQueue, LateJob(i, p) PROVE LateJob(i, p)'
              <3>1. i # 1
                    BY <1>13, <2>2 DEF LateJob, P
              <3>2. ASSUME NEW j \in DOMAIN pQueue, pQueue[j].kind \in {"copy", "image"}
                    PROVE  j \in DOMAIN pQueue' /\ pQueue'[j].kind = pQueue[j].kind /\ pQueue'[j].pages = pQueue[j].pages
                    BY <1>1, <1>7, <3>2
              <3>3. CopyAfter(i, p) => CopyAfter(i, p)'
                    BY <1>1, <3>2 DEF CopyAfter
              <3>4. ImageAfter(i, p) => ImageAfter(i, p)'
                    BY <1>1, <3>2 DEF ImageAfter
              <3> QED BY <1>1, <1>7, <2>2, <3>1, <3>3, <3>4 DEF LateJob
        <2>3. CASE p \notin pGpu.protect
              <3>1. PICK i \in DOMAIN pQueue : LateJob(i, p)
                    BY <1>13, <2>3 DEF Late
              <3>2. LateJob(i, p)' /\ i \in DOMAIN pQueue'
                    BY <1>7, <2>2, <3>1
              <3> QED BY <3>2 DEF Late
        <2> QED BY <2>1, <2>3
  <1>14. Tracked!Opened' = Tracked!Opened
        BY <1>1 DEF Tracked!Opened, Tracked!At
  <1>15. HostOK'
        BY <1>1, <1>8, <1>13, <1>14, HostSettles
  <1>16. Tracked!CopyAhead \subseteq Tracked!CopyAhead' /\ Tracked!ImageAhead \subseteq Tracked!ImageAhead'
        <2>1. ASSUME NEW j \in DOMAIN pQueue, pQueue[j].kind \in {"copy", "image"}
              PROVE  j \in DOMAIN pQueue' /\ pQueue'[j].kind = pQueue[j].kind /\ pQueue'[j].pages = pQueue[j].pages
              BY <1>1, <1>7, <2>1
        <2>2. Tracked!CopyAhead \subseteq Tracked!CopyAhead'
              BY <1>1, <2>1 DEF Tracked!CopyAhead
        <2>3. Tracked!ImageAhead \subseteq Tracked!ImageAhead'
              BY <1>1, <2>1 DEF Tracked!ImageAhead, Tracked!Gpc
        <2> QED BY <2>2, <2>3
  <1>17. DataOK'
        BY <1>1, <1>2, <1>16 DEF DataOK, Tracked!WritesReachGpu
  <1> QED BY <1>9, <1>10, <1>11, <1>12, <1>15, <1>17

\* ---- all of it
LEMMA UploadKeeps ==
  ASSUME Tracking
  PROVE  /\ \A S \in (SUBSET Tracked!Page) \ {{}}, use \in {"read", "write"} : Tracked!Upload(S, use) => Tracking'
         /\ Tracked!SyncBuffers => Tracking'
  <1>1. ASSUME NEW S \in (SUBSET Tracked!Page) \ {{}}, NEW use \in {"read", "write"}, Tracked!Upload(S,
                 use) PROVE Tracking'
        <2>1. pGpu.pc = "idle" /\ Tracked!TakeDirty(S, use)
              BY <1>1 DEF Tracked!Upload, Tracked!Gpc
        <2>2. S \in SUBSET Tracked!Page /\ use \in {"read", "write", "visit"} /\ use # "visit"
              OBVIOUS
        <2> QED BY <2>1, <2>2, TakeDirtyKeeps
  <1>2. ASSUME Tracked!SyncBuffers PROVE Tracking'
        <2>1. pGpu.pc = "sync"
              BY <1>2 DEF Tracked!SyncBuffers, Tracked!Gpc
        <2>2. CASE pCpuDirty # {}
              <3>1. Tracked!TakeDirty(Tracked!Page, "visit") /\ Tracked!Page \in SUBSET Tracked!Page
                    BY <1>2, <2>2 DEF Tracked!SyncBuffers
              <3> QED BY <2>1, <3>1, TakeDirtyKeeps
        <2>3. CASE pCpuDirty = {}
              <3>1. Tracked!Do("prove") /\ UNCHANGED <<pMode, Tracked!tracker, Tracked!pages, pImaged,
                      Tracked!epochs, pQueue, Tracked!data, pGuest, pExited>>
                    BY <1>2, <2>3 DEF Tracked!SyncBuffers
              <3> QED BY <2>1, <2>3, <3>1, NothingToSync
        <2> QED BY <2>2, <2>3
  <1> QED BY <1>1, <1>2

LEMMA GpuKeeps == ASSUME Tracking, Tracked!GpuNext PROVE Tracking'
  BY UploadKeeps, HandOverKeeps, CopiesDoneKeeps, WrittenKeeps, VisitKeeps, ProveKeeps, PublishKeeps,
     CopyRangeKeeps, ServeKeeps, DownloadKeeps, UnmarkKeeps, MarkKeeps, RetireKeeps, UntrackKeeps,
     GpuUnprotectKeeps, CopyKeptKeeps, RefreshKeeps, StageKeeps DEF Tracked!GpuNext

LEMMA WorkerKeeps == ASSUME Tracking, Tracked!WorkerNext PROVE Tracking'
  BY WorkerTakesKeeps, WorkerProtectKeeps DEF Tracked!WorkerNext

LEMMA StillKeeps == ASSUME Tracking, UNCHANGED pageVars PROVE Tracking'
  <1> USE DEF Tracking
  <1>1. UNCHANGED <<pMode, Tracked!tracker, pWatchers, pAccess, pHost, pImaged, Tracked!epochs, pQueue,
          Tracked!data, pGuest, pGpu, pExited>>
        BY DEF pageVars, Tracked!tracker, Tracked!pages, Tracked!epochs, Tracked!data
  <1>2. UNCHANGED <<pCpuDirty, pGpuDirty, pWritable, pLock, pDeferred, pProven, pSame, pBda, pStale,
          pImageStale,
                    pBehind, pSlipped>>
        BY <1>1 DEF Tracked!tracker, Tracked!epochs, Tracked!data
  <1>3. Tracked!TypeOK'
        BY <1>1, <1>2 DEF Tracked!TypeOK, Tracked!Page, Tracked!Job, Tracked!GuestPc, Tracked!GpuPc
  <1>4. UploadOK' /\ DownloadOK'
        <2>1. \A g \in Guests : Tracked!At(g, "sent") => Tracked!At(g, "sent")'
              BY <1>1 DEF Tracked!At
        <2> QED BY <1>1, <1>2, <2>1, RenderFrame
  <1>5. WatchersFollow' /\ JobsOK' /\ EpochsOK' /\ DataOK'
        BY <1>1, <1>2, WatchersFrame, JobsFrame, EpochsFrame, DataFrame
  <1>6. Tracked!Opened' = Tracked!Opened /\ \A p \in Tracked!Page : Late(p) => Late(p)'
        BY <1>1, QuietLate DEF Tracked!Opened, Tracked!At
  <1>7. HostOK'
        BY <1>1, <1>6, HostStep
  <1> QED BY <1>3, <1>4, <1>5, <1>7

LEMMA PageKeeps == Tracking /\ [Tracked!Next]_pageVars => Tracking'
  BY GuestKeeps, GpuKeeps, WorkerKeeps, StillKeeps DEF Tracked!Next

LEMMA PagesStart == Tracked!Init => Tracking
  <1> SUFFICES ASSUME Tracked!Init PROVE Tracking
      OBVIOUS
  <1>1. /\ pMode \in Modes /\ pCpuDirty = Tracked!Page /\ pGpuDirty = {} /\ pWritable = Tracked!Page
             /\ pLock = None
        /\ pWatchers = [p \in Tracked!Page |-> 0] /\ pAccess = {} /\ pHost = [p \in Tracked!Page |-> "RW"]
             /\ pImaged = {}
        /\ pDeferred = 0 /\ pProven = FALSE /\ pSame = FALSE /\ pBda = {"set"} /\ pQueue = <<>>
        /\ pStale = Tracked!Page /\ pImageStale = pMode.image /\ pBehind = {} /\ pSlipped = {}
        /\ pGpu = Tracked!Idle /\ pExited = FALSE
        BY DEF Tracked!Init
  <1>2. pMode \in Tracked!Mode /\ pMode.image \subseteq pMode.pages /\ pMode.pages # {}
        <2>1. pMode \in Tracked!Mode /\ pMode.image \subseteq pMode.pages
              BY <1>1, PagesAssumption DEF Tracked!PageAssumption
        <2>2. pMode.pages \in (SUBSET Pages) \ {{}}
              BY <2>1 DEF Tracked!Mode
        <2> QED BY <2>1, <2>2, NotEmpty
  <1>3. Tracked!Running \in GuestRecord
        <2>1. (CHOOSE p \in Tracked!Page : TRUE) \in Tracked!Page
              BY <1>2 DEF Tracked!Page
        <2> QED BY <2>1 DEF Tracked!Running, GuestRecord, Tracked!GuestPc
  <1>4. [Tracked!Running EXCEPT !.pc = "away"] \in GuestRecord
        BY <1>3 DEF GuestRecord, Tracked!GuestPc
  <1>5. /\ pGuest \in [Guests -> [pc : Tracked!GuestPc, page : Tracked!Page, marked : SUBSET Tracked!Page,
             then : {"run", "images"}]]
        <2>1. PICK users : pGuest = [g \in Guests |-> IF g \in users THEN Tracked!Running
                                                     ELSE [Tracked!Running EXCEPT !.pc = "away"]]
              BY DEF Tracked!Init
        <2> QED BY <1>3, <1>4, <2>1 DEF GuestRecord
  <1>6. pQueue \in Seq(Tracked!Job)
        BY <1>1
  <1>7. Tracked!TypeOK
        <2>1. pProven \in BOOLEAN /\ pSame \in BOOLEAN
              BY <1>1
        <2>2. pMode.image \subseteq Tracked!Page
              BY <1>2 DEF Tracked!Page
        <2> QED BY <1>1, <1>5, <1>6, <2>1, <2>2, IdleIsRecord DEF Tracked!TypeOK, GpuRecord
  <1>8. WatchersFollow
        BY <1>1 DEF WatchersFollow
  <1>9. UploadOK /\ DownloadOK
        BY <1>1, IdleIsRecord, PagesAssumption DEF UploadOK, DownloadOK, Tracked!PageAssumption
  <1>10. JobsOK
        <2>1. Waiting = {}
              BY <1>1 DEF Waiting
        <2> QED BY <1>1, <2>1, IdleIsRecord, FS_EmptySet DEF JobsOK
  <1>11. HostOK /\ EpochsOK
        BY <1>1, IdleIsRecord DEF HostOK, EpochsOK
  <1>12. DataOK
        BY <1>1 DEF DataOK, Tracked!WritesReachGpu
  <1> QED BY <1>7, <1>8, <1>9, <1>10, <1>11, <1>12 DEF Tracking

LEMMA TrackingIsSound == Tracking => Tracked!PagesAreSound
  <1> SUFFICES ASSUME Tracking PROVE Tracked!PagesAreSound
      OBVIOUS
  <1> USE DEF Tracking
  <1>1. Tracked!GpuSideInv
        <2>1. ASSUME NEW p \in pBehind PROVE pHost[p] = "NA" \/ p \in Tracked!Opened
              <3>1. p \in pGpuDirty /\ p \in pAccess /\ p \in Tracked!Page
                    BY DEF DataOK, WatchersFollow, Tracked!TypeOK
              <3> QED BY <3>1 DEF HostOK
        <2> QED BY <2>1 DEF Tracked!GpuSideInv, Tracked!GpuDataIsGuarded, DataOK
  <1>2. Tracked!ProofsHold
        <2>1. ASSUME pProven, pDeferred = 0, NEW p \in Tracked!Page
            PROVE pHost[p] # "RW" \/ p \in Tracked!Opened
              <3>1. pCpuDirty = {}
                    BY <2>1 DEF EpochsOK
              <3>2. p \notin pWritable
                    BY <3>1 DEF WatchersFollow
              <3>3. pWatchers[p] > 0
                    BY <3>2 DEF WatchersFollow
              <3>4. ~Late(p)
                    <4>1. pGpu.protect = {} /\ Cardinality(Waiting) = 0
                          BY <2>1, WaitingIsFinite DEF JobsOK
                    <4>2. Waiting = {}
                          BY <4>1, WaitingIsFinite, FS_EmptySet
                    <4> QED BY <4>1, <4>2 DEF Late, LateJob, Waiting
              <3>5. CASE p \in pAccess
                    BY <3>5 DEF HostOK
              <3>6. CASE p \notin pAccess
                    BY <3>3, <3>4, <3>6 DEF HostOK
              <3> QED BY <3>5, <3>6
        <2>2. pProven /\ pDeferred = 0 => pCpuDirty = {}
              BY DEF EpochsOK
        <2>3. pCpuDirty # {} => pBda # {} \/ Tracked!Gpc("sync")
              BY DEF EpochsOK, Tracked!Gpc
        <2> QED BY <2>1, <2>2, <2>3 DEF Tracked!ProofsHold
  <1>3. Tracked!WritesReachGpu
        BY DEF DataOK
  <1> QED BY <1>1, <1>2, <1>3 DEF Tracked!PagesAreSound

LEMMA PageStep ==
  ASSUME [RendererNext]_rendererVars PROVE [Tracked!Next]_pageVars
  BY DEF RendererNext, rendererVars, OfBuffers, OfInterrupts, OfPages, OfFlips

\* No write is lost, for any number of guest threads and pages and any setting that
\* queues protections with what they have to precede: no EXIT of the trackers is
\* reached, what the buffers lack of guest memory is dirty or still to be copied, what
\* guest memory lacks of the GPU's data no guest thread can touch, and a request proven
\* current covers no page a guest thread could write unseen.
THEOREM NoWriteIsLost == RendererSpec => []PagesAreSound
  <1>1. RendererInit => Tracking
        BY PagesStart DEF RendererInit
  <1>2. Tracking /\ [RendererNext]_rendererVars => Tracking'
        BY PageStep, PageKeeps
  <1>3. Tracking => PagesAreSound
        BY TrackingIsSound DEF PagesAreSound
  <1> QED BY <1>1, <1>2, <1>3, PTL DEF RendererSpec

(***************************************************************************)
(* The flips of the video-out ports.                                       *)
(***************************************************************************)
FlipStates == {"Reserved", "Recording", "Ready", "Presenting", "Gone"}

FlipRecords == [port : Ports \cup {None}, generation : Nat, index : Indices \cup {None},
                source : {"Cpu", "GpuEop", None}, state : FlipStates,
                frame : Frames \cup {None}]

\* A flip of an open port: what its lists and its state are.
FlipListsOK ==
  /\ fRequest \in Seq(FlipRecords) /\ fRequests \in Seq(DOMAIN fRequest)
  /\ fCpuRequests \subseteq DOMAIN fRequest /\ fCancelled \subseteq DOMAIN fRequest
  /\ Flips!IsInjective(fRequests)
  /\ Flips!Queued \cup fCancelled = {r \in DOMAIN fRequest : fRequest[r].state # "Gone"}
  /\ Flips!Range(fRequests) \cap fCpuRequests = {} /\ Flips!Queued \cap fCancelled = {}
  /\ \A r \in fCpuRequests : fRequest[r].state = "Reserved" /\ fRequest[r].source = "Cpu"
  /\ \A r \in fCancelled : fRequest[r].state \in {"Reserved", "Recording"}
  /\ \A r \in DOMAIN fRequest :
       /\ fRequest[r].state # "Gone" => /\ fRequest[r].port \in Ports
                                        /\ fRequest[r].source \in {"Cpu", "GpuEop"}
       /\ fRequest[r].state \in {"Reserved", "Gone"} => fRequest[r].frame = None
       /\ fRequest[r].state = "Ready" => fRequest[r].frame # None

\* The ports and the threads that use them.
FlipPortsOK ==
  /\ fOpened \in [Ports -> BOOLEAN] /\ fClosing \in [Ports -> BOOLEAN]
  /\ fGeneration \in [Ports -> Nat] /\ DOMAIN fGuest = Guests
  /\ \A p \in Ports : ~(fOpened[p] /\ fClosing[p])
  /\ \A t \in Guests :
       /\ fGuest[t].at \in {"cancels", "resets"} =>
            fDriver = t /\ fGuest[t].port \in Ports /\ fClosing[fGuest[t].port]
       /\ fGuest[t].at = "reserves" =>
            /\ fGuest[t].port \in Ports /\ fGuest[t].index \in Indices
            /\ fOpened[fGuest[t].port] \/ fClosing[fGuest[t].port]
  /\ fGpu.at \in {"reserves", "full"} =>
       /\ fGpu.port \in Ports /\ fGpu.index \in Indices
       /\ fOpened[fGpu.port] \/ fClosing[fGpu.port]

\* A flip of a guest thread that was not yet prepared.
FlipFresh(r) == /\ r \in fCpuRequests \cup fCancelled
                /\ fRequest[r].state = "Reserved" /\ fRequest[r].source = "Cpu"

\* A flip that was prepared: what is shown has a frame.
FlipPrepared(r) == /\ r \in Flips!Range(fRequests) \cup fCancelled /\ fRequest[r].state = "Recording"
                   /\ r \in Flips!Range(fRequests) => fRequest[r].frame # None

FlipRecorded == {"looks", "acquires", "assigns", "prepared"}

\* Each unfinished flip has one thread or one list that it is worked on in.
FlipWorkOK ==
  /\ fSubmissions \in Seq(DOMAIN fRequest) /\ fDeferred \in Seq(DOMAIN fRequest)
  /\ Flips!IsInjective(fSubmissions) /\ Flips!IsInjective(fDeferred)
  /\ \A r \in Flips!Range(fSubmissions) : FlipFresh(r)
  /\ \A r \in Flips!Range(fDeferred) : FlipPrepared(r) /\ fRequest[r].source = "GpuEop"
  /\ \A t \in Guests : fGuest[t].at = "submits" =>
       /\ FlipFresh(fGuest[t].flip) /\ fGuest[t].flip \notin Flips!Range(fSubmissions)
       /\ fGpu.at = "prepares" => fGuest[t].flip # fGpu.flip
       /\ \A u \in Guests : fGuest[u].at = "submits" /\ fGuest[u].flip = fGuest[t].flip => u = t
  /\ fGpu.at = "prepares" =>
       /\ fGpu.flip \in Flips!Queued \cup fCancelled /\ fGpu.flip \notin Flips!Range(fSubmissions)
       /\ fRequest[fGpu.flip].state = "Reserved"
  /\ fGpu.at \in FlipRecorded => fGpu.flip \notin Flips!Range(fDeferred)
  /\ fGpu.at \in {"looks", "acquires", "assigns"} =>
       /\ fGpu.flip \in Flips!Range(fRequests) \cup fCancelled
       /\ fRequest[fGpu.flip].state = "Recording" /\ fRequest[fGpu.flip].frame = None
  /\ fGpu.at = "prepared" => FlipPrepared(fGpu.flip)

\* The flip that the present thread shows is the first.
FlipShownOK ==
  /\ fProcessing \in BOOLEAN /\ (fProcessing <=> fPresent.at \in {"due", "presents", "ends"})
  /\ fProcessing => fRequests # <<>> /\ Head(fRequests) = fPresent.flip
  /\ fPresent.at = "due" => fRequest[fPresent.flip].state = "Ready"
  /\ fPresent.at \in {"presents", "ends"} => fRequest[fPresent.flip].state = "Presenting"
  /\ fPresent.at = "presents" => fRequest[fPresent.flip].frame # None
  /\ fPresent.at = "ends" => fRequest[fPresent.flip].frame = None
  /\ \A r \in DOMAIN fRequest : fRequest[r].state = "Presenting" =>
       fPresent.at \in {"presents", "ends"} /\ r = fPresent.flip

\* Each frame is free or has one holder: a flip, or a thread (a negative number).
FlipHeldBy(flips, g, p) ==
  [h \in Int |-> IF h \in DOMAIN flips THEN flips[h].frame
                 ELSE IF h = -1 /\ g.at = "assigns" THEN g.frame
                 ELSE IF h = -2 /\ p.at = "shows" THEN p.frame ELSE None]

FlipHeld == FlipHeldBy(fRequest, fGpu, fPresent)

FlipFramesAt(q, held) ==
  /\ q \in Seq(Frames) /\ Flips!IsInjective(q)
  /\ \A h \in Int : held[h] \in (Frames \ Flips!Range(q)) \cup {None}
  /\ \A h, k \in Int : held[h] = held[k] /\ held[h] # None => h = k
  /\ \A f \in Frames : f \in Flips!Range(q) \/ \E h \in Int : held[h] = f

FlipFramesOK ==
  /\ FlipFramesAt(fFree, FlipHeld) /\ fLast \in Flips!Range(fFree) \cup {None}
  /\ fGpu.at = "assigns" => fGpu.frame \in Frames
  /\ fPresent.at = "shows" => fPresent.frame \in Frames

FlipCountsOK == fGcQueueNum \in [Ports -> Nat] /\ Flips!GcQueueNumCounts /\ Flips!QueuedAreCurrent

FlipsOK == /\ FlipListsOK /\ FlipPortsOK /\ FlipWorkOK /\ FlipShownOK /\ FlipFramesOK
           /\ FlipCountsOK /\ ~fFatal

LEMMA FlipAssumes == Flips!FlipAssumption
  BY RendererAssumption

\* An instance has its own name for what it takes from FiniteSets.
LEMMA FlipSizes ==
  ASSUME NEW S
  PROVE  Flips!Cardinality(S) = Cardinality(S) /\ Flips!IsFiniteSet(S) = IsFiniteSet(S)
  BY DEF Flips!Cardinality, Cardinality, Flips!IsFiniteSet, IsFiniteSet

\* What stays of a list: its elements in S, in their order.
LEMMA FlipKept ==
  ASSUME NEW A, NEW q \in Seq(A), NEW S, NEW rest \in Flips!Kept(q, S)
  PROVE  /\ rest \in Seq(A)
         /\ Flips!Range(rest) = Flips!Range(q) \cap S
         /\ Flips!IsInjective(q) => Flips!IsInjective(rest)
         /\ q # <<>> /\ Head(q) \in S => rest # <<>> /\ Head(rest) = Head(q)
  <1> DEFINE places == {k \in DOMAIN q : q[k] \in S}
             n == Flips!Cardinality(places)
  <1>1. Flips!IsFiniteSet(places) /\ n \in Nat
    <2>1. Flips!IsFiniteSet(1 .. Len(q))
          BY FlipSizes, FS_Interval
    <2>2. places \in SUBSET (1 .. Len(q))
          OBVIOUS
    <2> HIDE DEF places
    <2>3. IsFiniteSet(places)
          BY <2>1, <2>2, FlipSizes, FS_Subset
    <2> QED BY <2>3, FlipSizes, FS_CardinalityType
  <1>2. PICK at \in [1 .. n -> places] : /\ \A i, j \in 1 .. n : i < j => at[i] < at[j]
                                         /\ rest = [i \in 1 .. n |-> q[at[i]]]
        BY DEF Flips!Kept
  <1>3. \A k \in places : k \in 1 .. Len(q) /\ q[k] \in S /\ q[k] \in A
        OBVIOUS
  <1>4. \A k \in 1 .. Len(q) : q[k] \in S => k \in places
        OBVIOUS
  <1>5. \A i, j \in 1 .. n : at[i] = at[j] => i = j
    <2> SUFFICES ASSUME NEW i \in 1 .. n, NEW j \in 1 .. n, at[i] = at[j] PROVE i = j
        OBVIOUS
    <2> HIDE DEF n, places
    <2>1. i \in Int /\ j \in Int /\ at[i] \in Int
          BY <1>1, <1>2, <1>3
    <2> QED BY <2>1, <1>2
  <1>6. \A k \in places : \E i \in 1 .. n : at[i] = k
    <2>1. at \in Injection(1 .. n, places)
      <3> HIDE DEF n, places
      <3> QED BY <1>2, <1>5 DEF Injection, IsInjective
    <2>2. Flips!IsFiniteSet(1 .. n) /\ Flips!Cardinality(1 .. n) = n
      <3> HIDE DEF n, places
      <3> QED BY <1>1, FlipSizes, FS_Interval
    <2>3. at \in Surjection(1 .. n, places)
      <3> HIDE DEF places
      <3> QED BY <1>1, <2>1, <2>2, FlipSizes, FS_Injection
    <2> HIDE DEF n, places
    <2> QED BY <2>3 DEF Surjection
  <1> HIDE DEF n, places
  <1>7. rest \in Seq(A) /\ DOMAIN rest = 1 .. n /\ Len(rest) = n
        BY <1>1, <1>2, <1>3
  <1>8. Flips!Range(rest) = Flips!Range(q) \cap S
    <2>1. ASSUME NEW x \in Flips!Range(rest) PROVE x \in Flips!Range(q) \cap S
          BY <2>1, <1>2, <1>3, <1>7 DEF Flips!Range
    <2>2. ASSUME NEW x \in Flips!Range(q), x \in S PROVE x \in Flips!Range(rest)
      <3>1. PICK k \in 1 .. Len(q) : q[k] = x
            BY <2>2 DEF Flips!Range
      <3>2. PICK i \in 1 .. n : at[i] = k
            BY <3>1, <2>2, <1>4, <1>6
      <3> QED BY <3>1, <3>2, <1>2, <1>7 DEF Flips!Range
    <2> QED BY <2>1, <2>2
  <1>9. Flips!IsInjective(q) => Flips!IsInjective(rest)
    <2> SUFFICES ASSUME Flips!IsInjective(q), NEW i \in 1 .. n, NEW j \in 1 .. n, rest[i] = rest[j]
                 PROVE  i = j
        BY <1>7 DEF Flips!IsInjective
    <2>1. q[at[i]] = q[at[j]] /\ at[i] \in DOMAIN q /\ at[j] \in DOMAIN q
          BY <1>2, <1>3
    <2>2. at[i] = at[j]
          BY <2>1 DEF Flips!IsInjective
    <2> QED BY <2>2, <1>5
  <1>10. ASSUME q # <<>>, Head(q) \in S PROVE rest # <<>> /\ Head(rest) = Head(q)
    <2>1. 1 \in places
          BY <1>4, <1>10
    <2>2. PICK i \in 1 .. n : at[i] = 1
          BY <2>1, <1>6
    <2>3. 1 \in 1 .. n /\ at[1] \in 1 .. Len(q)
          BY <1>1, <1>2, <1>3, <2>2
    <2>4. i = 1
          BY <1>1, <1>2, <2>2, <2>3
    <2>5. rest[1] = q[1]
          BY <1>2, <2>2, <2>3, <2>4
    <2> QED BY <2>3, <2>5, <1>7, <1>10
  <1> QED BY <1>7, <1>8, <1>9, <1>10

LEMMA FlipAppended ==
  ASSUME NEW A, NEW q \in Seq(A), NEW x \in A
  PROVE  /\ Append(q, x) \in Seq(A) /\ Flips!Range(Append(q, x)) = Flips!Range(q) \cup {x}
         /\ Flips!IsInjective(q) /\ x \notin Flips!Range(q) => Flips!IsInjective(Append(q, x))
         /\ Append(q, x) # <<>> /\ (q # <<>> => Head(Append(q, x)) = Head(q))
  <1> DEFINE w == Append(q, x)
  <1>1. /\ w \in Seq(A) /\ Len(w) = Len(q) + 1 /\ w[Len(q) + 1] = x /\ Len(q) \in Nat
        /\ DOMAIN w = 1 .. Len(q) + 1 /\ DOMAIN q = 1 .. Len(q)
        /\ \A k \in 1 .. Len(q) : w[k] = q[k]
        OBVIOUS
  <1> HIDE DEF w
  <1>2. Flips!Range(w) = Flips!Range(q) \cup {x}
    <2>1. \A k \in 1 .. Len(q) + 1 : k \in 1 .. Len(q) \/ k = Len(q) + 1
          BY <1>1
    <2>2. \A k \in 1 .. Len(q) : k \in 1 .. Len(q) + 1
          BY <1>1
    <2>3. Len(q) + 1 \in 1 .. Len(q) + 1
          BY <1>1
    <2> QED BY <1>1, <2>1, <2>2, <2>3 DEF Flips!Range
  <1>3. Flips!IsInjective(q) /\ x \notin Flips!Range(q) => Flips!IsInjective(w)
        BY <1>1 DEF Flips!IsInjective, Flips!Range
  <1>4. w # <<>> /\ (q # <<>> => Head(w) = Head(q))
        BY <1>1
  <1> QED BY <1>1, <1>2, <1>3, <1>4 DEF w

LEMMA FlipTail ==
  ASSUME NEW A, NEW q \in Seq(A), q # <<>>
  PROVE  /\ Tail(q) \in Seq(A) /\ Head(q) \in A /\ Head(q) \in Flips!Range(q)
         /\ Flips!Range(q) = Flips!Range(Tail(q)) \cup {Head(q)}
         /\ Flips!IsInjective(q) => Flips!IsInjective(Tail(q)) /\ Flips!Range(Tail(q)) = Flips!Range(q) \ {Head(q)}
  <1> DEFINE w == Tail(q)
  <1>1. /\ w \in Seq(A) /\ Len(q) \in Nat \ {0} /\ DOMAIN w = 1 .. Len(q) - 1
        /\ DOMAIN q = 1 .. Len(q) /\ Head(q) = q[1] /\ q[1] \in A
        /\ \A k \in 1 .. Len(q) - 1 : w[k] = q[k + 1]
        OBVIOUS
  <1> HIDE DEF w
  <1>2. Head(q) \in Flips!Range(q)
        BY <1>1 DEF Flips!Range
  <1>3. Flips!Range(q) = Flips!Range(w) \cup {Head(q)}
    <2>1. ASSUME NEW y \in Flips!Range(q), y # Head(q) PROVE y \in Flips!Range(w)
      <3>1. PICK k \in 1 .. Len(q) : q[k] = y
            BY <1>1 DEF Flips!Range
      <3>2. k - 1 \in 1 .. Len(q) - 1 /\ w[k - 1] = y
            BY <3>1, <2>1, <1>1
      <3> QED BY <3>2, <1>1 DEF Flips!Range
    <2>2. ASSUME NEW y \in Flips!Range(w) PROVE y \in Flips!Range(q)
      <3>1. PICK k \in 1 .. Len(q) - 1 : w[k] = y
            BY <1>1 DEF Flips!Range
      <3>2. k + 1 \in 1 .. Len(q) /\ q[k + 1] = y
            BY <3>1, <1>1
      <3> QED BY <3>2, <1>1 DEF Flips!Range
    <2> QED BY <2>1, <2>2, <1>2
  <1>4. ASSUME Flips!IsInjective(q) PROVE Flips!IsInjective(w) /\ Head(q) \notin Flips!Range(w)
    <2>1. \A i, j \in 1 .. Len(q) - 1 : w[i] = w[j] => i = j
      <3> SUFFICES ASSUME NEW i \in 1 .. Len(q) - 1, NEW j \in 1 .. Len(q) - 1, w[i] = w[j]
                   PROVE  i = j
          OBVIOUS
      <3>1. i + 1 \in DOMAIN q /\ j + 1 \in DOMAIN q /\ q[i + 1] = q[j + 1]
            BY <1>1
      <3>2. i + 1 = j + 1
            BY <3>1, <1>4 DEF Flips!IsInjective
      <3> QED BY <3>2, <1>1
    <2>2. ASSUME NEW i \in 1 .. Len(q) - 1, w[i] = Head(q) PROVE FALSE
      <3>1. i + 1 \in DOMAIN q /\ 1 \in DOMAIN q /\ q[i + 1] = q[1] /\ i + 1 # 1
            BY <1>1, <2>2
      <3> QED BY <3>1, <1>4 DEF Flips!IsInjective
    <2>3. Flips!IsInjective(w)
          BY <2>1, <1>1 DEF Flips!IsInjective
    <2> QED BY <2>2, <2>3, <1>1 DEF Flips!Range
  <1> QED BY <1>1, <1>2, <1>3, <1>4 DEF w

(***************************************************************************)
(* What a step does to the record of a flip.                               *)
(***************************************************************************)

\* Flip r comes to be in state s with frame f.
FlipBecomes(r, s, f) ==
  /\ fRequest' \in Seq(FlipRecords) /\ DOMAIN fRequest' = DOMAIN fRequest
  /\ Len(fRequest') = Len(fRequest)
  /\ \A q \in DOMAIN fRequest : q # r => fRequest'[q] = fRequest[q]
  /\ fRequest'[r].state = s /\ fRequest'[r].frame = f
  /\ fRequest'[r].port = fRequest[r].port /\ fRequest'[r].generation = fRequest[r].generation
  /\ fRequest'[r].index = fRequest[r].index /\ fRequest'[r].source = fRequest[r].source

LEMMA FlipBecomesState ==
  ASSUME fRequest \in Seq(FlipRecords), NEW r \in DOMAIN fRequest, NEW s \in FlipStates,
         fRequest' = [fRequest EXCEPT ![r].state = s]
  PROVE  FlipBecomes(r, s, fRequest[r].frame)
  <1> DEFINE x == [fRequest[r] EXCEPT !.state = s]
  <1>1. fRequest[r] \in FlipRecords
        OBVIOUS
  <1>2. /\ x \in FlipRecords /\ x.state = s /\ x.frame = fRequest[r].frame
        /\ x.port = fRequest[r].port /\ x.generation = fRequest[r].generation
        /\ x.index = fRequest[r].index /\ x.source = fRequest[r].source
        BY <1>1 DEF FlipRecords
  <1>3. fRequest' = [fRequest EXCEPT ![r] = x]
        OBVIOUS
  <1> HIDE DEF x
  <1>4. /\ fRequest' \in Seq(FlipRecords) /\ DOMAIN fRequest' = DOMAIN fRequest
        /\ Len(fRequest') = Len(fRequest) /\ fRequest'[r] = x
        /\ \A q \in DOMAIN fRequest : q # r => fRequest'[q] = fRequest[q]
        BY <1>2, <1>3
  <1> QED BY <1>2, <1>4 DEF FlipBecomes

LEMMA FlipBecomesFrame ==
  ASSUME fRequest \in Seq(FlipRecords), NEW r \in DOMAIN fRequest, NEW f \in Frames \cup {None},
         fRequest' = [fRequest EXCEPT ![r].frame = f]
  PROVE  FlipBecomes(r, fRequest[r].state, f)
  <1> DEFINE x == [fRequest[r] EXCEPT !.frame = f]
  <1>1. fRequest[r] \in FlipRecords
        OBVIOUS
  <1>2. /\ x \in FlipRecords /\ x.frame = f /\ x.state = fRequest[r].state
        /\ x.port = fRequest[r].port /\ x.generation = fRequest[r].generation
        /\ x.index = fRequest[r].index /\ x.source = fRequest[r].source
        BY <1>1 DEF FlipRecords
  <1>3. fRequest' = [fRequest EXCEPT ![r] = x]
        OBVIOUS
  <1> HIDE DEF x
  <1>4. /\ fRequest' \in Seq(FlipRecords) /\ DOMAIN fRequest' = DOMAIN fRequest
        /\ Len(fRequest') = Len(fRequest) /\ fRequest'[r] = x
        /\ \A q \in DOMAIN fRequest : q # r => fRequest'[q] = fRequest[q]
        BY <1>2, <1>3
  <1> QED BY <1>2, <1>4 DEF FlipBecomes

\* Flip r leaves the queues.
FlipLeavesAll(r) ==
  /\ fRequest' \in Seq(FlipRecords) /\ DOMAIN fRequest' = DOMAIN fRequest
  /\ Len(fRequest') = Len(fRequest)
  /\ \A q \in DOMAIN fRequest : q # r => fRequest'[q] = fRequest[q]
  /\ fRequest'[r].state = "Gone" /\ fRequest'[r].frame = None

LEMMA FlipGone == Flips!Gone \in FlipRecords /\ Flips!Gone.state = "Gone" /\ Flips!Gone.frame = None
  BY DEF Flips!Gone, FlipRecords, FlipStates

LEMMA FlipLeaves ==
  ASSUME fRequest \in Seq(FlipRecords), NEW r \in DOMAIN fRequest,
         fRequest' = [fRequest EXCEPT ![r] = Flips!Gone]
  PROVE  FlipLeavesAll(r)
  <1>1. /\ fRequest' \in Seq(FlipRecords) /\ DOMAIN fRequest' = DOMAIN fRequest
        /\ Len(fRequest') = Len(fRequest) /\ fRequest'[r] = Flips!Gone
        /\ \A q \in DOMAIN fRequest : q # r => fRequest'[q] = fRequest[q]
        BY FlipGone
  <1> QED BY <1>1, FlipGone DEF FlipLeavesAll

(***************************************************************************)
(* Moves of a frame.                                                       *)
(***************************************************************************)

LEMMA FrameTaken ==
  ASSUME NEW q, NEW held, FlipFramesAt(q, held), q # <<>>, NEW h \in Int, held[h] = None,
         NEW held2, \A k \in Int : held2[k] = IF k = h THEN Head(q) ELSE held[k]
  PROVE  FlipFramesAt(Tail(q), held2) /\ Head(q) \in Frames
  <1>1. /\ Tail(q) \in Seq(Frames) /\ Flips!IsInjective(Tail(q))
        /\ Flips!Range(Tail(q)) = Flips!Range(q) \ {Head(q)} /\ Head(q) \in Flips!Range(q) /\ Head(q) \in Frames
        BY FlipTail DEF FlipFramesAt
  <1>2. Head(q) # None
        BY <1>1, FlipAssumes DEF Flips!FlipAssumption
  <1>3. \A k \in Int : held2[k] \in (Frames \ Flips!Range(Tail(q))) \cup {None}
        BY <1>1 DEF FlipFramesAt
  <1>4. \A k \in Int : held[k] # Head(q)
        BY <1>1, <1>2 DEF FlipFramesAt
  <1>5. \A k, l \in Int : held2[k] = held2[l] /\ held2[k] # None => k = l
        BY <1>4 DEF FlipFramesAt
  <1>6. ASSUME NEW f \in Frames, f \notin Flips!Range(Tail(q)) PROVE \E k \in Int : held2[k] = f
    <2>1. CASE f = Head(q)
          BY <2>1
    <2>2. CASE f # Head(q)
      <3>1. PICK k \in Int : held[k] = f
            BY <2>2, <1>1, <1>6 DEF FlipFramesAt
      <3>2. k # h
            BY <3>1, <1>6, FlipAssumes DEF Flips!FlipAssumption
      <3> QED BY <3>1, <3>2
    <2> QED BY <2>1, <2>2
  <1> QED BY <1>1, <1>3, <1>5, <1>6 DEF FlipFramesAt

LEMMA FrameGiven ==
  ASSUME NEW q, NEW held, FlipFramesAt(q, held), NEW h \in Int, held[h] # None,
         NEW held2, \A k \in Int : held2[k] = IF k = h THEN None ELSE held[k]
  PROVE  FlipFramesAt(Append(q, held[h]), held2)
  <1>1. held[h] \in Frames /\ held[h] \notin Flips!Range(q) /\ q \in Seq(Frames) /\ Flips!IsInjective(q)
        BY DEF FlipFramesAt
  <1> DEFINE w == Append(q, held[h])
  <1>2. /\ w \in Seq(Frames) /\ Flips!IsInjective(w) /\ Flips!Range(w) = Flips!Range(q) \cup {held[h]}
        BY <1>1, FlipAppended
  <1> HIDE DEF w
  <1>3. \A k \in Int : k # h => held[k] # held[h]
        BY DEF FlipFramesAt
  <1>4. \A k \in Int : held2[k] \in (Frames \ Flips!Range(w)) \cup {None}
        BY <1>2, <1>3 DEF FlipFramesAt
  <1>5. \A k, l \in Int : held2[k] = held2[l] /\ held2[k] # None => k = l
        BY DEF FlipFramesAt
  <1>6. \A f \in Frames : f \in Flips!Range(w) \/ \E k \in Int : held2[k] = f
        BY <1>2 DEF FlipFramesAt
  <1> QED BY <1>2, <1>4, <1>5, <1>6 DEF FlipFramesAt, w

LEMMA FramePassed ==
  ASSUME NEW q, NEW held, FlipFramesAt(q, held), NEW h \in Int, NEW g \in Int, held[g] = None,
         NEW held2, \A k \in Int : held2[k] = IF k = h THEN None
                                              ELSE IF k = g THEN held[h] ELSE held[k]
  PROVE  FlipFramesAt(q, held2)
  <1>1. CASE h = g
    <2>1. \A k \in Int : held2[k] = held[k]
          BY <1>1
    <2> QED BY <2>1 DEF FlipFramesAt
  <1>2. CASE h # g
    <2>1. \A k \in Int : held2[k] \in (Frames \ Flips!Range(q)) \cup {None}
          BY DEF FlipFramesAt
    <2>2. \A k, l \in Int : held2[k] = held2[l] /\ held2[k] # None => k = l
          BY <1>2 DEF FlipFramesAt
    <2>3. ASSUME NEW f \in Frames, f \notin Flips!Range(q) PROVE \E k \in Int : held2[k] = f
      <3>1. PICK k \in Int : held[k] = f
            BY <2>3 DEF FlipFramesAt
      <3>2. k # g
            BY <3>1, FlipAssumes DEF Flips!FlipAssumption
      <3>3. CASE k = h
            BY <3>1, <3>3, <1>2
      <3>4. CASE k # h
            BY <3>1, <3>2, <3>4
      <3> QED BY <3>3, <3>4
    <2> QED BY <2>1, <2>2, <2>3 DEF FlipFramesAt
  <1> QED BY <1>1, <1>2

\* A frame is taken from the middle of the list.
LEMMA FramePicked ==
  ASSUME NEW q, NEW held, FlipFramesAt(q, held), NEW f \in Flips!Range(q), NEW h \in Int, held[h] = None,
         NEW rest \in Flips!Kept(q, Flips!Range(q) \ {f}),
         NEW held2, \A k \in Int : held2[k] = IF k = h THEN f ELSE held[k]
  PROVE  FlipFramesAt(rest, held2) /\ Flips!Range(rest) = Flips!Range(q) \ {f} /\ f \in Frames
  <1>1. q \in Seq(Frames) /\ Flips!IsInjective(q)
        BY DEF FlipFramesAt
  <1>2. rest \in Seq(Frames) /\ Flips!IsInjective(rest) /\ Flips!Range(rest) = Flips!Range(q) \ {f}
        BY <1>1, FlipKept
  <1>3. f \in Frames /\ f # None
        BY <1>1, FlipAssumes DEF Flips!FlipAssumption, Flips!Range
  <1>4. \A k \in Int : held2[k] \in (Frames \ Flips!Range(rest)) \cup {None}
        BY <1>2, <1>3 DEF FlipFramesAt
  <1>5. \A k \in Int : held[k] # f
        BY <1>3 DEF FlipFramesAt
  <1>6. \A k, l \in Int : held2[k] = held2[l] /\ held2[k] # None => k = l
        BY <1>5 DEF FlipFramesAt
  <1>7. ASSUME NEW g \in Frames, g \notin Flips!Range(rest) PROVE \E k \in Int : held2[k] = g
    <2>1. CASE g = f
          BY <2>1
    <2>2. CASE g # f
      <3>1. PICK k \in Int : held[k] = g
            BY <2>2, <1>2, <1>7 DEF FlipFramesAt
      <3>2. k # h
            BY <3>1, <1>7, FlipAssumes DEF Flips!FlipAssumption
      <3> QED BY <3>1, <3>2
    <2> QED BY <2>1, <2>2
  <1> QED BY <1>2, <1>3, <1>4, <1>6, <1>7 DEF FlipFramesAt

\* The frames of a list of holders are given back.
LEMMA FramesGiven ==
  ASSUME NEW q, NEW held, FlipFramesAt(q, held), NEW D \in SUBSET Int, NEW d \in Seq(D),
         Flips!IsInjective(d), Flips!Range(d) = {h \in D : held[h] # None},
         NEW g, g = [k \in DOMAIN d |-> held[d[k]]],
         NEW held2, \A k \in Int : held2[k] = IF k \in D THEN None ELSE held[k]
  PROVE  FlipFramesAt(q \o g, held2)
  <1> DEFINE w == q \o g
  <1>1. q \in Seq(Frames) /\ Flips!IsInjective(q)
        BY DEF FlipFramesAt
  <1>2. \A k \in 1 .. Len(d) : /\ d[k] \in D /\ d[k] \in Int /\ held[d[k]] # None
                               /\ held[d[k]] \in Frames /\ held[d[k]] \notin Flips!Range(q)
    <2>1. \A k \in 1 .. Len(d) : d[k] \in Flips!Range(d)
          BY DEF Flips!Range
    <2> QED BY <2>1 DEF FlipFramesAt
  <1>3. /\ g \in Seq(Frames) /\ Len(g) = Len(d) /\ DOMAIN g = 1 .. Len(d) /\ Len(d) \in Nat
        /\ \A k \in 1 .. Len(d) : g[k] = held[d[k]]
        BY <1>2
  <1>4. Flips!IsInjective(g)
    <2> SUFFICES ASSUME NEW i \in 1 .. Len(d), NEW j \in 1 .. Len(d), g[i] = g[j] PROVE i = j
        BY <1>3 DEF Flips!IsInjective
    <2>1. d[i] = d[j]
          BY <1>2, <1>3 DEF FlipFramesAt
    <2> QED BY <2>1 DEF Flips!IsInjective
  <1>5. /\ w \in Seq(Frames) /\ Len(w) = Len(q) + Len(d) /\ DOMAIN w = 1 .. Len(q) + Len(d)
        /\ Len(q) \in Nat /\ DOMAIN q = 1 .. Len(q)
        /\ \A k \in 1 .. Len(q) + Len(d) : w[k] = IF k <= Len(q) THEN q[k] ELSE g[k - Len(q)]
        BY <1>1, <1>3
  <1> HIDE DEF w
  <1>6. \A k \in 1 .. Len(q) + Len(d) : k <= Len(q) => k \in 1 .. Len(q)
        BY <1>3, <1>5
  <1>7. \A k \in 1 .. Len(q) + Len(d) : ~(k <= Len(q)) => k - Len(q) \in 1 .. Len(d)
        BY <1>3, <1>5
  <1>8. Flips!IsInjective(w)
    <2> SUFFICES ASSUME NEW i \in 1 .. Len(q) + Len(d), NEW j \in 1 .. Len(q) + Len(d),
                        w[i] = w[j]
                 PROVE  i = j
        BY <1>5 DEF Flips!IsInjective
    <2>1. CASE i <= Len(q) /\ j <= Len(q)
          BY <2>1, <1>1, <1>5, <1>6 DEF Flips!IsInjective
    <2>2. CASE ~(i <= Len(q)) /\ ~(j <= Len(q))
      <3>1. g[i - Len(q)] = g[j - Len(q)] /\ i - Len(q) \in DOMAIN g /\ j - Len(q) \in DOMAIN g
            BY <2>2, <1>3, <1>5, <1>7
      <3>2. i - Len(q) = j - Len(q)
            BY <3>1, <1>4 DEF Flips!IsInjective
      <3> QED BY <3>2, <1>3, <1>5
    <2>3. ASSUME NEW a \in 1 .. Len(q) + Len(d), NEW b \in 1 .. Len(q) + Len(d),
                 a <= Len(q), ~(b <= Len(q)), w[a] = w[b]
          PROVE  FALSE
      <3>1. w[a] \in Flips!Range(q)
            BY <2>3, <1>5, <1>6 DEF Flips!Range
      <3>2. b - Len(q) \in 1 .. Len(d) /\ w[b] = g[b - Len(q)]
            BY <2>3, <1>5, <1>7
      <3>3. w[b] \notin Flips!Range(q)
            BY <3>2, <1>2, <1>3
      <3> QED BY <3>1, <3>3, <2>3
    <2> QED BY <2>1, <2>2, <2>3
  <1>9. Flips!Range(w) = Flips!Range(q) \cup {held[h] : h \in {x \in D : held[x] # None}}
    <2>1. ASSUME NEW k \in 1 .. Len(q) + Len(d)
          PROVE  w[k] \in Flips!Range(q) \cup {held[h] : h \in {x \in D : held[x] # None}}
      <3>1. CASE k <= Len(q)
            BY <3>1, <1>5, <1>6 DEF Flips!Range
      <3>2. CASE ~(k <= Len(q))
        <4>1. k - Len(q) \in 1 .. Len(d) /\ w[k] = g[k - Len(q)]
              BY <3>2, <1>5, <1>7
        <4>2. w[k] = held[d[k - Len(q)]]
              BY <4>1, <1>3
        <4>3. d[k - Len(q)] \in {x \in D : held[x] # None}
              BY <4>1, <1>2
        <4> QED BY <4>2, <4>3
      <3> QED BY <3>1, <3>2
    <2>2. ASSUME NEW k \in 1 .. Len(q) PROVE q[k] \in Flips!Range(w)
      <3>1. k \in 1 .. Len(q) + Len(d) /\ k <= Len(q)
            BY <1>3, <1>5
      <3> QED BY <3>1, <1>5 DEF Flips!Range
    <2>3. ASSUME NEW h \in D, held[h] # None PROVE held[h] \in Flips!Range(w)
      <3>1. PICK k \in 1 .. Len(d) : d[k] = h
            BY <2>3 DEF Flips!Range
      <3>2. k + Len(q) \in 1 .. Len(q) + Len(d) /\ ~(k + Len(q) <= Len(q))
            /\ k + Len(q) - Len(q) = k
            BY <1>3, <1>5
      <3>3. w[k + Len(q)] = held[h]
            BY <3>1, <3>2, <1>3, <1>5
      <3> QED BY <3>2, <3>3, <1>5 DEF Flips!Range
    <2> QED BY <2>1, <2>2, <2>3, <1>5 DEF Flips!Range
  <1>10. \A k \in Int : held2[k] \in (Frames \ Flips!Range(w)) \cup {None}
    <2> SUFFICES ASSUME NEW k \in Int, k \notin D, held[k] # None PROVE held[k] \in Frames \ Flips!Range(w)
        OBVIOUS
    <2>1. held[k] \in Frames /\ held[k] \notin Flips!Range(q)
          BY DEF FlipFramesAt
    <2>2. \A h \in D : held[h] # held[k]
          BY DEF FlipFramesAt
    <2> QED BY <2>1, <2>2, <1>9
  <1>11. \A k, l \in Int : held2[k] = held2[l] /\ held2[k] # None => k = l
        BY DEF FlipFramesAt
  <1>12. ASSUME NEW f \in Frames, f \notin Flips!Range(w) PROVE \E k \in Int : held2[k] = f
    <2>1. f \notin Flips!Range(q) /\ f # None
          BY <1>9, <1>12, FlipAssumes DEF Flips!FlipAssumption
    <2>2. PICK k \in Int : held[k] = f
          BY <2>1 DEF FlipFramesAt
    <2>3. k \notin D
          BY <2>1, <2>2, <1>9, <1>12
    <2> QED BY <2>2, <2>3
  <1> QED BY <1>5, <1>8, <1>10, <1>11, <1>12 DEF FlipFramesAt, w

LEMMA FlipHolders ==
  ASSUME NEW flips \in Seq(FlipRecords), NEW g, NEW p
  PROVE  /\ DOMAIN flips = 1 .. Len(flips) /\ Len(flips) \in Nat
         /\ DOMAIN flips \subseteq Int /\ -1 \notin DOMAIN flips /\ -2 \notin DOMAIN flips
         /\ \A r \in DOMAIN flips : FlipHeldBy(flips, g, p)[r] = flips[r].frame
         /\ FlipHeldBy(flips, g, p)[-1] = IF g.at = "assigns" THEN g.frame ELSE None
         /\ FlipHeldBy(flips, g, p)[-2] = IF p.at = "shows" THEN p.frame ELSE None
         /\ \A h \in Int : h \notin DOMAIN flips /\ h # -1 /\ h # -2 =>
              FlipHeldBy(flips, g, p)[h] = None
  <1>1. DOMAIN flips = 1 .. Len(flips) /\ Len(flips) \in Nat
        OBVIOUS
  <1>2. DOMAIN flips \subseteq Int /\ -1 \notin DOMAIN flips /\ -2 \notin DOMAIN flips
        BY <1>1
  <1>3. /\ \A r \in DOMAIN flips : FlipHeldBy(flips, g, p)[r] = flips[r].frame
        /\ \A h \in Int : h \notin DOMAIN flips /\ h # -1 /\ h # -2 =>
              FlipHeldBy(flips, g, p)[h] = None
        BY <1>2 DEF FlipHeldBy
  <1>4. FlipHeldBy(flips, g, p)[-1] = IF g.at = "assigns" THEN g.frame ELSE None
        BY <1>2 DEF FlipHeldBy
  <1>5. FlipHeldBy(flips, g, p)[-2] = IF p.at = "shows" THEN p.frame ELSE None
        BY <1>2 DEF FlipHeldBy
  <1> QED BY <1>1, <1>2, <1>3, <1>4, <1>5

(***************************************************************************)
(* What a step leaves as it was.                                           *)
(***************************************************************************)

LEMMA FlipListsSame == FlipListsOK /\ UNCHANGED <<fRequest, fRequests, fCpuRequests, fCancelled>>
                         => FlipListsOK'
  BY DEF FlipListsOK, Flips!Queued

LEMMA FlipPortsSame == FlipPortsOK /\ UNCHANGED <<Flips!port, fDriver, fGuest, fGpu>> => FlipPortsOK'
  BY DEF FlipPortsOK, Flips!port

\* Nothing is worked on that was not, and its flip is as it was.
LEMMA FlipWorkSame ==
  ASSUME FlipWorkOK, UNCHANGED <<fRequest, fRequests, fCpuRequests, fCancelled, fSubmissions, fDeferred>>,
         fGuest' = fGuest \/ (\E t \in Guests : \A u \in Guests :
                                fGuest'[u] = fGuest[u] \/ (u = t /\ fGuest'[u].at # "submits")),
         fGpu' = fGpu \/ fGpu'.at \notin FlipRecorded \cup {"prepares"}
  PROVE  FlipWorkOK'
  <1>1. \A u \in Guests : fGuest'[u].at = "submits" => fGuest'[u] = fGuest[u]
        OBVIOUS
  <1>2. fGpu'.at \in FlipRecorded \cup {"prepares"} => fGpu' = fGpu
        OBVIOUS
  <1>3. \A r : /\ r \in Flips!Range(fSubmissions)' <=> r \in Flips!Range(fSubmissions)
               /\ r \in Flips!Range(fDeferred)' <=> r \in Flips!Range(fDeferred)
               /\ r \in Flips!Range(fRequests)' <=> r \in Flips!Range(fRequests)
               /\ FlipFresh(r)' <=> FlipFresh(r)
               /\ FlipPrepared(r)' <=> FlipPrepared(r)
        BY DEF FlipFresh, FlipPrepared
  <1>4. (Flips!Queued \cup fCancelled)' = Flips!Queued \cup fCancelled
        BY DEF Flips!Queued
  <1>5. /\ fSubmissions' \in Seq(DOMAIN fRequest') /\ fDeferred' \in Seq(DOMAIN fRequest')
        /\ Flips!IsInjective(fSubmissions') /\ Flips!IsInjective(fDeferred')
        BY DEF FlipWorkOK
  <1>6. ASSUME NEW t \in Guests, fGuest'[t].at = "submits"
        PROVE  /\ FlipFresh(fGuest[t].flip)' /\ fGuest'[t].flip \notin Flips!Range(fSubmissions)'
               /\ fGpu'.at = "prepares" => fGuest'[t].flip # fGpu'.flip
               /\ \A u \in Guests :
                    fGuest'[u].at = "submits" /\ fGuest'[u].flip = fGuest'[t].flip => u = t
    <2>1. fGuest'[t] = fGuest[t]
          BY <1>1, <1>6
    <2>2. FlipFresh(fGuest[t].flip) /\ fGuest[t].flip \notin Flips!Range(fSubmissions)
          BY <2>1, <1>6 DEF FlipWorkOK
    <2>3. FlipFresh(fGuest[t].flip)'
          BY <2>1, <2>2 DEF FlipFresh
    <2>4. fGpu'.at = "prepares" => fGuest'[t].flip # fGpu'.flip
          BY <2>1, <1>2, <1>6 DEF FlipWorkOK
    <2>5. \A u \in Guests :
             fGuest'[u].at = "submits" /\ fGuest'[u].flip = fGuest'[t].flip => u = t
          BY <2>1, <1>1, <1>6 DEF FlipWorkOK
    <2> QED BY <2>1, <2>2, <2>3, <2>4, <2>5
  <1>7. /\ fGpu'.at = "prepares" =>
             /\ fGpu'.flip \in (Flips!Queued \cup fCancelled)' /\ fGpu'.flip \notin Flips!Range(fSubmissions)'
             /\ fRequest'[fGpu'.flip].state = "Reserved"
        /\ fGpu'.at \in FlipRecorded => fGpu'.flip \notin Flips!Range(fDeferred)'
        BY <1>2, <1>3, <1>4 DEF FlipWorkOK
  <1>8. /\ fGpu'.at \in {"looks", "acquires", "assigns"} =>
             /\ fGpu'.flip \in Flips!Range(fRequests)' \cup fCancelled'
             /\ fRequest'[fGpu'.flip].state = "Recording" /\ fRequest'[fGpu'.flip].frame = None
        /\ fGpu'.at = "prepared" => FlipPrepared(fGpu.flip)'
        BY <1>2, <1>3 DEF FlipWorkOK, FlipRecorded, FlipPrepared
  <1>9. /\ \A r \in Flips!Range(fSubmissions)' : FlipFresh(r)'
        /\ \A r \in Flips!Range(fDeferred)' : FlipPrepared(r)' /\ fRequest'[r].source = "GpuEop"
        BY <1>3 DEF FlipWorkOK
  <1> QED BY <1>5, <1>6, <1>7, <1>8, <1>9 DEF FlipWorkOK, FlipFresh, FlipPrepared, FlipRecorded

LEMMA FlipShownSame == FlipShownOK /\ UNCHANGED <<fProcessing, fPresent, fRequest, fRequests>>
                         => FlipShownOK'
  BY DEF FlipShownOK

\* Who holds a frame stays the same: so do the frames.
LEMMA FlipSameHolders ==
  ASSUME NEW q, NEW old, NEW held, FlipFramesAt(q, old), \A h \in Int : held[h] = old[h]
  PROVE  FlipFramesAt(q, held)
  <1>1. \A f \in Frames : f \in Flips!Range(q) \/ \E h \in Int : held[h] = f
        BY DEF FlipFramesAt
  <1> QED BY <1>1 DEF FlipFramesAt

LEMMA FlipSameFrames ==
  ASSUME FlipFramesOK, UNCHANGED Flips!pool,
         \A h \in Int : FlipHeldBy(fRequest', fGpu', fPresent')[h] = FlipHeldBy(fRequest, fGpu, fPresent)[h],
         fGpu'.at = "assigns" => fGpu'.frame \in Frames,
         fPresent'.at = "shows" => fPresent'.frame \in Frames
  PROVE  FlipFramesOK'
  <1>1. FlipFramesAt(fFree, FlipHeld) /\ fLast \in Flips!Range(fFree) \cup {None}
        BY DEF FlipFramesOK
  <1>2. fFree' = fFree /\ fLast' = fLast
        BY DEF Flips!pool
  <1>3. PICK old : old = FlipHeldBy(fRequest, fGpu, fPresent)
        OBVIOUS
  <1>4. PICK held : held = FlipHeldBy(fRequest', fGpu', fPresent')
        OBVIOUS
  <1>5. FlipFramesAt(fFree, held)
    <2>1. FlipFramesAt(fFree, old)
          BY <1>1, <1>3 DEF FlipHeld
    <2>2. \A h \in Int : held[h] = old[h]
          BY <1>3, <1>4
    <2> QED BY <2>1, <2>2, FlipSameHolders
  <1>6. FlipHeld' = held
        BY <1>4 DEF FlipHeld
  <1>7. FlipFramesAt(fFree', FlipHeld')
        BY <1>2, <1>5, <1>6
  <1> QED BY <1>1, <1>2, <1>7 DEF FlipFramesOK

\* No thread holds a frame that did not, and what a thread holds, it keeps.
LEMMA FlipFramesSame ==
  ASSUME FlipFramesOK, UNCHANGED <<fRequest, Flips!pool>>,
         fGpu' = fGpu \/ "assigns" \notin {fGpu.at, fGpu'.at},
         fPresent' = fPresent \/ "shows" \notin {fPresent.at, fPresent'.at}
  PROVE  FlipFramesOK'
  <1>1. FlipHeldBy(fRequest', fGpu', fPresent') = FlipHeldBy(fRequest, fGpu, fPresent)
        BY DEF FlipHeldBy
  <1>2. /\ fGpu'.at = "assigns" => fGpu'.frame \in Frames
        /\ fPresent'.at = "shows" => fPresent'.frame \in Frames
        BY DEF FlipFramesOK
  <1>3. UNCHANGED Flips!pool
        OBVIOUS
  <1> QED BY <1>1, <1>2, <1>3, FlipSameFrames

\* No guest thread stops cancelling.
LEMMA FlipCountsSame ==
  ASSUME FlipCountsOK, UNCHANGED <<fGcQueueNum, Flips!port, fRequest, fRequests, fCpuRequests>>,
         fGuest' = fGuest \/ (\E t \in Guests : fGuest[t].at # "cancels" /\
                                \A u \in Guests : u # t => fGuest'[u] = fGuest[u])
  PROVE  FlipCountsOK'
  <1>1. Flips!GcQueueNumCounts'
        BY DEF FlipCountsOK, Flips!GcQueueNumCounts, Flips!port
  <1>2. Flips!Queued' = Flips!Queued /\ \A r : Flips!Current(r)' <=> Flips!Current(r)
        BY DEF Flips!Queued, Flips!Current, Flips!port
  <1>3. Flips!QueuedAreCurrent'
    <2> SUFFICES ASSUME NEW r \in Flips!Queued, ~Flips!Current(r)
                 PROVE  \E t \in Guests : fGuest'[t].at = "cancels"
                                          /\ fGuest'[t].port = fRequest'[r].port
        BY <1>2 DEF Flips!QueuedAreCurrent
    <2>1. PICK t \in Guests : fGuest[t].at = "cancels" /\ fGuest[t].port = fRequest[r].port
          BY DEF FlipCountsOK, Flips!QueuedAreCurrent
    <2>2. fGuest'[t] = fGuest[t]
          BY <2>1
    <2> QED BY <2>1, <2>2
  <1> QED BY <1>1, <1>3 DEF FlipCountsOK

(***************************************************************************)
(* The guest threads.                                                      *)
(***************************************************************************)

LEMMA FlipNobodyCloses ==
  ASSUME FlipPortsOK, fDriver = None
  PROVE  \A t \in Guests : fGuest[t].at \notin {"cancels", "resets"}
  BY FlipAssumes DEF Flips!FlipAssumption, FlipPortsOK

LEMMA FlipsOpen == ASSUME FlipsOK, NEW t \in Guests, NEW p \in Ports, Flips!Open(t, p) PROVE FlipsOK'
  <1>1. /\ FlipListsOK /\ FlipPortsOK /\ FlipWorkOK /\ FlipShownOK /\ FlipFramesOK
        /\ FlipCountsOK /\ ~fFatal
        BY DEF FlipsOK
  <1>2. /\ fDriver = None /\ ~fOpened[p]
        /\ fOpened' = [fOpened EXCEPT ![p] = TRUE] /\ fClosing' = [fClosing EXCEPT ![p] = FALSE]
        /\ fGeneration' = [fGeneration EXCEPT ![p] = @ + 1]
        /\ fGcQueueNum' = [fGcQueueNum EXCEPT ![p] = 0]
        /\ UNCHANGED <<fDriver, fProcessing, fGpu, fGuest, fPresent, fFatal>>
        /\ UNCHANGED <<fRequest, fRequests, fCpuRequests, fCancelled>>
        /\ UNCHANGED <<fFree, fLast, fSubmissions, fDeferred>>
        BY DEF Flips!Open, Flips!queue, Flips!pool, Flips!work
  <1>3. \A u \in Guests : fGuest[u].at \notin {"cancels", "resets"}
        BY <1>1, <1>2, FlipNobodyCloses
  <1>4. FlipListsOK' /\ FlipShownOK'
        BY <1>1, <1>2, FlipListsSame, FlipShownSame
  <1>5. FlipWorkOK'
        BY <1>1, <1>2, FlipWorkSame
  <1>6. FlipFramesOK'
        BY <1>1, <1>2, FlipFramesSame DEF Flips!pool
  <1>7. FlipPortsOK'
        BY <1>1, <1>2, <1>3 DEF FlipPortsOK
  <1>8. \A r \in Flips!Queued : Flips!Current(r) /\ fRequest[r].port \in Ports /\ fRequest[r].port # p
    <2>1. \A r \in Flips!Queued : Flips!Current(r)
          BY <1>1, <1>3 DEF FlipCountsOK, Flips!QueuedAreCurrent
    <2>2. \A r \in Flips!Queued : fRequest[r].port \in Ports
          BY <1>1 DEF FlipListsOK
    <2> QED BY <2>1, <2>2, <1>2 DEF Flips!Current
  <1>9. Flips!Queued' = Flips!Queued /\ \A r \in Flips!Queued : r \in Flips!Range(fRequests) \/ r \in fCpuRequests
        BY <1>2 DEF Flips!Queued
  <1>10. Flips!QueuedAreCurrent'
    <2>1. \A r \in Flips!Queued : Flips!Current(r)'
          BY <1>1, <1>2, <1>8 DEF Flips!Current, FlipPortsOK
    <2> QED BY <2>1, <1>9 DEF Flips!QueuedAreCurrent
  <1>11. Flips!GcQueueNumCounts'
    <2> SUFFICES ASSUME NEW q \in Ports, fOpened'[q] /\ ~fClosing'[q]
                 PROVE  fGcQueueNum'[q] = Flips!Cardinality({r \in Flips!Range(fRequests) :
                                 fRequest[r].port = q /\ fRequest[r].source = "GpuEop"})
        BY <1>2 DEF Flips!GcQueueNumCounts
    <2>1. CASE q = p
      <3>1. {r \in Flips!Range(fRequests) : fRequest[r].port = q /\ fRequest[r].source = "GpuEop"} = {}
            BY <2>1, <1>8 DEF Flips!Queued
      <3>2. fGcQueueNum'[q] = 0
            BY <2>1, <1>1, <1>2 DEF FlipCountsOK
      <3> QED BY <3>1, <3>2, FlipSizes, FS_EmptySet
    <2>2. CASE q # p
      <3>1. fOpened[q] /\ ~fClosing[q] /\ fGcQueueNum'[q] = fGcQueueNum[q]
            BY <2>2, <1>1, <1>2 DEF FlipPortsOK, FlipCountsOK
      <3> QED BY <3>1, <1>1 DEF FlipCountsOK, Flips!GcQueueNumCounts
    <2> QED BY <2>1, <2>2
  <1>12. fGcQueueNum' \in [Ports -> Nat]
        BY <1>1, <1>2 DEF FlipCountsOK
  <1> QED BY <1>1, <1>2, <1>4, <1>5, <1>6, <1>7, <1>10, <1>11, <1>12 DEF FlipsOK, FlipCountsOK

LEMMA FlipsCloseBegins ==
  ASSUME FlipsOK, NEW t \in Guests, NEW p \in Ports, Flips!CloseBegins(t, p) PROVE FlipsOK'
  <1>1. /\ FlipListsOK /\ FlipPortsOK /\ FlipWorkOK /\ FlipShownOK /\ FlipFramesOK
        /\ FlipCountsOK /\ ~fFatal
        BY DEF FlipsOK
  <1>2. /\ fDriver = None /\ fOpened[p] /\ ~fClosing[p] /\ fDriver' = t /\ fGuest[t] = Flips!Idle
        /\ fOpened' = [fOpened EXCEPT ![p] = FALSE] /\ fClosing' = [fClosing EXCEPT ![p] = TRUE]
        /\ fGeneration' = [fGeneration EXCEPT ![p] = @ + 1]
        /\ fGuest' = [fGuest EXCEPT ![t] = [at |-> "cancels", port |-> p]]
        /\ UNCHANGED <<fGcQueueNum, fProcessing, fGpu, fPresent, fFatal>>
        /\ UNCHANGED <<fRequest, fRequests, fCpuRequests, fCancelled>>
        /\ UNCHANGED <<fFree, fLast, fSubmissions, fDeferred>>
        BY DEF Flips!CloseBegins, Flips!status, Flips!queue, Flips!pool, Flips!work
  <1>3. \A u \in Guests : fGuest[u].at \notin {"cancels", "resets"}
        BY <1>1, <1>2, FlipNobodyCloses
  <1>4. /\ fGuest'[t].at = "cancels" /\ fGuest'[t].port = p /\ DOMAIN fGuest' = Guests
        /\ \A u \in Guests : u # t => fGuest'[u] = fGuest[u]
        BY <1>1, <1>2 DEF FlipPortsOK
  <1>5. FlipListsOK' /\ FlipShownOK'
        BY <1>1, <1>2, FlipListsSame, FlipShownSame
  <1>6. FlipWorkOK'
    <2>1. \E x \in Guests : \A u \in Guests :
             fGuest'[u] = fGuest[u] \/ (u = x /\ fGuest'[u].at # "submits")
          BY <1>4
    <2> QED BY <2>1, <1>1, <1>2, FlipWorkSame
  <1>7. FlipFramesOK'
        BY <1>1, <1>2, FlipFramesSame DEF Flips!pool
  <1>8. FlipPortsOK'
    <2>1. /\ fOpened' \in [Ports -> BOOLEAN] /\ fClosing' \in [Ports -> BOOLEAN]
          /\ fGeneration' \in [Ports -> Nat] /\ \A q \in Ports : ~(fOpened'[q] /\ fClosing'[q])
          BY <1>1, <1>2 DEF FlipPortsOK
    <2>2. \A u \in Guests :
             /\ fGuest'[u].at \in {"cancels", "resets"} =>
                  fDriver' = u /\ fGuest'[u].port \in Ports /\ fClosing'[fGuest'[u].port]
             /\ fGuest'[u].at = "reserves" =>
                  /\ fGuest'[u].port \in Ports /\ fGuest'[u].index \in Indices
                  /\ fOpened'[fGuest'[u].port] \/ fClosing'[fGuest'[u].port]
          BY <1>1, <1>2, <1>3, <1>4 DEF FlipPortsOK
    <2>3. fGpu.at \in {"reserves", "full"} =>
            /\ fGpu.port \in Ports /\ fGpu.index \in Indices
            /\ fOpened'[fGpu.port] \/ fClosing'[fGpu.port]
          BY <1>1, <1>2 DEF FlipPortsOK
    <2> QED BY <2>1, <2>2, <2>3, <1>2, <1>4 DEF FlipPortsOK
  <1>9. Flips!Queued' = Flips!Queued
        BY <1>2 DEF Flips!Queued
  <1>10. Flips!QueuedAreCurrent'
    <2> SUFFICES ASSUME NEW r \in Flips!Queued, ~(\E u \in Guests : fGuest'[u].at = "cancels"
                                                      /\ fGuest'[u].port = fRequest[r].port)
                 PROVE  Flips!Current(r)'
        BY <1>2, <1>9 DEF Flips!QueuedAreCurrent
    <2>1. Flips!Current(r) /\ fRequest[r].port \in Ports
          BY <1>1, <1>3 DEF FlipCountsOK, Flips!QueuedAreCurrent, FlipListsOK
    <2>2. fRequest[r].port # p
          BY <1>4
    <2> QED BY <2>1, <2>2, <1>1, <1>2 DEF Flips!Current, FlipPortsOK
  <1>11. Flips!GcQueueNumCounts'
    <2>1. \A q \in Ports : fOpened'[q] => fOpened[q] /\ (~fClosing'[q] => ~fClosing[q])
          BY <1>1, <1>2 DEF FlipPortsOK
    <2> QED BY <2>1, <1>1, <1>2 DEF Flips!GcQueueNumCounts, FlipCountsOK
  <1> QED BY <1>1, <1>2, <1>5, <1>6, <1>7, <1>8, <1>10, <1>11 DEF FlipsOK, FlipCountsOK

LEMMA FlipsCancelResets == ASSUME FlipsOK, NEW t \in Guests, Flips!CancelResets(t) PROVE FlipsOK'
  <1>1. /\ FlipListsOK /\ FlipPortsOK /\ FlipWorkOK /\ FlipShownOK /\ FlipFramesOK
        /\ FlipCountsOK /\ ~fFatal
        BY DEF FlipsOK
  <1>2. /\ fGuest[t].at = "resets" /\ fGuest' = [fGuest EXCEPT ![t] = Flips!Idle]
        /\ fGcQueueNum' = [fGcQueueNum EXCEPT ![fGuest[t].port] = 0]
        /\ UNCHANGED <<fOpened, fClosing, fGeneration, fProcessing, fGpu, fPresent, fFatal>>
        /\ UNCHANGED <<fRequest, fRequests, fCpuRequests, fCancelled>>
        /\ UNCHANGED <<fFree, fLast, fSubmissions, fDeferred>>
        BY DEF Flips!CancelResets, Flips!port, Flips!queue, Flips!pool, Flips!work
  <1>3. /\ fGuest'[t].at = "idle" /\ DOMAIN fGuest' = Guests
        /\ \A u \in Guests : u # t => fGuest'[u] = fGuest[u]
        BY <1>1, <1>2 DEF FlipPortsOK, Flips!Idle
  <1>4. \A u \in Guests : u # t => fGuest[u].at \notin {"cancels", "resets"}
        BY <1>1, <1>2 DEF FlipPortsOK
  <1>5. FlipListsOK' /\ FlipShownOK'
        BY <1>1, <1>2, FlipListsSame, FlipShownSame
  <1>6. FlipWorkOK'
    <2>1. \E x \in Guests : \A u \in Guests :
             fGuest'[u] = fGuest[u] \/ (u = x /\ fGuest'[u].at # "submits")
          BY <1>3
    <2> QED BY <2>1, <1>1, <1>2, FlipWorkSame
  <1>7. FlipFramesOK'
        BY <1>1, <1>2, FlipFramesSame DEF Flips!pool
  <1>8. FlipPortsOK'
    <2>1. \A u \in Guests :
             /\ fGuest'[u].at \notin {"cancels", "resets"}
             /\ fGuest'[u].at = "reserves" =>
                  /\ fGuest'[u].port \in Ports /\ fGuest'[u].index \in Indices
                  /\ fOpened[fGuest'[u].port] \/ fClosing[fGuest'[u].port]
          BY <1>1, <1>2, <1>3, <1>4 DEF FlipPortsOK
    <2> QED BY <2>1, <1>1, <1>2, <1>3 DEF FlipPortsOK
  <1>9. fGuest[t].port \in Ports /\ fClosing[fGuest[t].port]
        BY <1>1, <1>2 DEF FlipPortsOK
  <1>10. Flips!GcQueueNumCounts'
    <2>1. \A q \in Ports : ~fClosing[q] => fGcQueueNum'[q] = fGcQueueNum[q]
          BY <1>1, <1>2, <1>9 DEF FlipCountsOK
    <2> QED BY <2>1, <1>1, <1>2 DEF Flips!GcQueueNumCounts, FlipCountsOK
  <1>11. Flips!QueuedAreCurrent'
    <2>1. Flips!Queued' = Flips!Queued /\ \A r : Flips!Current(r)' <=> Flips!Current(r)
          BY <1>2 DEF Flips!Queued, Flips!Current
    <2>2. \A r \in Flips!Queued : Flips!Current(r) \/ \E u \in Guests : fGuest'[u].at = "cancels"
                                                    /\ fGuest'[u].port = fRequest[r].port
          BY <1>1, <1>2, <1>3 DEF FlipCountsOK, Flips!QueuedAreCurrent
    <2> QED BY <2>1, <2>2, <1>2 DEF Flips!QueuedAreCurrent
  <1>12. fGcQueueNum' \in [Ports -> Nat]
        BY <1>1, <1>2, <1>9 DEF FlipCountsOK
  <1> QED BY <1>1, <1>2, <1>5, <1>6, <1>7, <1>8, <1>10, <1>11, <1>12 DEF FlipsOK, FlipCountsOK

\* A guest thread looks a port up, or is told that it is closed.
LEMMA FlipsLookedUp ==
  ASSUME FlipsOK, NEW t \in Guests,
         (\E p \in Ports, i \in Indices : Flips!SubmitFlip(t, p, i)) \/ Flips!GuestIsRefused(t)
  PROVE  FlipsOK'
  <1>1. /\ FlipListsOK /\ FlipPortsOK /\ FlipWorkOK /\ FlipShownOK /\ FlipFramesOK
        /\ FlipCountsOK /\ ~fFatal
        BY DEF FlipsOK
  <1>2. /\ UNCHANGED <<fOpened, fClosing, fGeneration, fDriver, fGcQueueNum, fProcessing, fGpu>>
        /\ UNCHANGED <<fPresent, fFatal, fRequest, fRequests, fCpuRequests, fCancelled>>
        /\ UNCHANGED <<fFree, fLast, fSubmissions, fDeferred>>
        BY DEF Flips!SubmitFlip, Flips!GuestIsRefused, Flips!port, Flips!status, Flips!queue,
               Flips!pool, Flips!work
  <1>3. /\ fGuest[t].at \in {"idle", "reserves"} /\ fGuest'[t].at \in {"idle", "reserves"}
        /\ fGuest'[t].at = "reserves" =>
             fGuest'[t].port \in Ports /\ fGuest'[t].index \in Indices /\ fOpened[fGuest'[t].port]
        /\ DOMAIN fGuest' = Guests /\ \A u \in Guests : u # t => fGuest'[u] = fGuest[u]
    <2>1. DOMAIN fGuest = Guests
          BY <1>1 DEF FlipPortsOK
    <2>2. CASE Flips!GuestIsRefused(t)
          BY <2>1, <2>2 DEF Flips!GuestIsRefused, Flips!Idle
    <2>3. ASSUME NEW p \in Ports, NEW i \in Indices, Flips!SubmitFlip(t, p, i)
          PROVE  /\ fGuest[t].at = "idle" /\ fGuest'[t].at = "reserves" /\ fGuest'[t].port = p
                 /\ fGuest'[t].index = i /\ fOpened[p]
                 /\ DOMAIN fGuest' = Guests /\ \A u \in Guests : u # t => fGuest'[u] = fGuest[u]
          BY <2>1, <2>3 DEF Flips!SubmitFlip, Flips!Idle
    <2> QED BY <2>2, <2>3
  <1>4. FlipListsOK' /\ FlipShownOK'
        BY <1>1, <1>2, FlipListsSame, FlipShownSame
  <1>5. FlipWorkOK'
    <2>1. \E x \in Guests : \A u \in Guests :
             fGuest'[u] = fGuest[u] \/ (u = x /\ fGuest'[u].at # "submits")
          BY <1>3
    <2> QED BY <2>1, <1>1, <1>2, FlipWorkSame
  <1>6. FlipFramesOK'
        BY <1>1, <1>2, FlipFramesSame DEF Flips!pool
  <1>7. FlipCountsOK'
    <2>1. \E x \in Guests : fGuest[x].at # "cancels" /\ \A u \in Guests : u # x => fGuest'[u] = fGuest[u]
          BY <1>3
    <2> QED BY <2>1, <1>1, <1>2, FlipCountsSame DEF Flips!port
  <1>8. FlipPortsOK'
    <2>1. \A u \in Guests :
       /\ fGuest'[u].at \in {"cancels", "resets"} =>
            fDriver = u /\ fGuest'[u].port \in Ports /\ fClosing[fGuest'[u].port]
       /\ fGuest'[u].at = "reserves" =>
            /\ fGuest'[u].port \in Ports /\ fGuest'[u].index \in Indices
            /\ fOpened[fGuest'[u].port] \/ fClosing[fGuest'[u].port]
          BY <1>1, <1>3 DEF FlipPortsOK
    <2> QED BY <2>1, <1>1, <1>2, <1>3 DEF FlipPortsOK
  <1> QED BY <1>1, <1>2, <1>4, <1>5, <1>6, <1>7, <1>8 DEF FlipsOK

\* The GPU thread has no flip, before and after.
LEMMA FlipsGpuWithout ==
  ASSUME FlipsOK, \/ \E p \in Ports, i \in Indices : Flips!GpuFlips(p, i) \/ Flips!WaitFlipDone(p, i)
                  \/ Flips!GpuRetries \/ Flips!GpuExits \/ Flips!WaitFlipDoneReturns
  PROVE  FlipsOK'
  <1>1. /\ FlipListsOK /\ FlipPortsOK /\ FlipWorkOK /\ FlipShownOK /\ FlipFramesOK
        /\ FlipCountsOK /\ ~fFatal
        BY DEF FlipsOK
  <1>2. /\ UNCHANGED <<fOpened, fClosing, fGeneration, fDriver, fGcQueueNum, fProcessing, fGuest>>
        /\ UNCHANGED <<fPresent, fFatal, fRequest, fRequests, fCpuRequests, fCancelled>>
        /\ UNCHANGED <<fFree, fLast, fSubmissions, fDeferred>>
        BY DEF Flips!GpuFlips, Flips!WaitFlipDone, Flips!GpuRetries, Flips!GpuExits,
               Flips!WaitFlipDoneReturns, Flips!port, Flips!status, Flips!queue,
               Flips!pool, Flips!work
  <1>3. /\ fGpu.at \in {"idle", "reserves", "full", "waits"}
        /\ fGpu'.at \in {"idle", "reserves", "waits", "exits"}
        /\ fGpu'.at = "reserves" => /\ fGpu'.port \in Ports /\ fGpu'.index \in Indices
                                    /\ fOpened[fGpu'.port]
    <2>1. ASSUME NEW p \in Ports, NEW i \in Indices, Flips!GpuFlips(p, i)
          PROVE  /\ fGpu.at = "idle" /\ fGpu'.at = "reserves" /\ fGpu'.port = p /\ fGpu'.index = i
                 /\ fOpened[p]
          BY <2>1 DEF Flips!GpuFlips, Flips!Idle
    <2>2. ASSUME NEW p \in Ports, NEW i \in Indices, Flips!WaitFlipDone(p, i)
          PROVE  fGpu.at = "idle" /\ fGpu'.at = "waits"
          BY <2>2 DEF Flips!WaitFlipDone, Flips!Idle
    <2>3. CASE Flips!GpuRetries
          BY <2>3, <1>1 DEF Flips!GpuRetries, FlipPortsOK
    <2>4. CASE Flips!WaitFlipDoneReturns
          BY <2>4 DEF Flips!WaitFlipDoneReturns, Flips!Idle
    <2>5. CASE Flips!GpuExits
          BY <2>5 DEF Flips!GpuExits
    <2> QED BY <2>1, <2>2, <2>3, <2>4, <2>5
  <1>4. FlipListsOK' /\ FlipShownOK'
        BY <1>1, <1>2, FlipListsSame, FlipShownSame
  <1>5. FlipWorkOK'
    <2>1. fGpu'.at \notin FlipRecorded \cup {"prepares"}
          BY <1>3 DEF FlipRecorded
    <2> QED BY <2>1, <1>1, <1>2, FlipWorkSame
  <1>6. FlipFramesOK'
    <2>1. "assigns" \notin {fGpu.at, fGpu'.at}
          BY <1>3
    <2> QED BY <2>1, <1>1, <1>2, FlipFramesSame DEF Flips!pool
  <1>7. FlipCountsOK'
        BY <1>1, <1>2, FlipCountsSame DEF Flips!port
  <1>8. FlipPortsOK'
        BY <1>1, <1>2, <1>3 DEF FlipPortsOK
  <1> QED BY <1>1, <1>2, <1>4, <1>5, <1>6, <1>7, <1>8 DEF FlipsOK

\* The present thread shows no flip, before and after, and holds no frame.
LEMMA FlipsPresentWithout ==
  ASSUME FlipsOK, \/ Flips!Vblank \/ Flips!FlipNothing \/ Flips!RefreshBlank
                  \/ Flips!LateLooks \/ UNCHANGED flipVars
  PROVE  FlipsOK'
  <1>1. /\ FlipListsOK /\ FlipPortsOK /\ FlipWorkOK /\ FlipShownOK /\ FlipFramesOK
        /\ FlipCountsOK /\ ~fFatal
        BY DEF FlipsOK
  <1>2. /\ UNCHANGED <<fOpened, fClosing, fGeneration, fDriver, fGcQueueNum, fProcessing, fGuest>>
        /\ UNCHANGED <<fGpu, fFatal, fRequest, fRequests, fCpuRequests, fCancelled>>
        /\ UNCHANGED <<fFree, fLast, fSubmissions, fDeferred>>
        BY DEF Flips!Vblank, Flips!FlipNothing, Flips!RefreshBlank, Flips!LateLooks, flipVars, Flips!port,
               Flips!status, Flips!queue, Flips!pool, Flips!work
  <1>3. \/ fPresent' = fPresent
        \/ /\ fPresent.at \notin {"due", "presents", "ends", "shows"}
           /\ fPresent'.at \notin {"due", "presents", "ends", "shows"}
        BY DEF Flips!Vblank, Flips!FlipNothing, Flips!NotPresented, Flips!RefreshBlank,
               Flips!LateLooks, Flips!Idle, flipVars
  <1>4. FlipListsOK' /\ FlipPortsOK'
        BY <1>1, <1>2, FlipListsSame, FlipPortsSame DEF Flips!port
  <1>5. FlipWorkOK'
        BY <1>1, <1>2, FlipWorkSame
  <1>6. FlipFramesOK'
    <2>1. fPresent' = fPresent \/ "shows" \notin {fPresent.at, fPresent'.at}
          BY <1>3
    <2> QED BY <2>1, <1>1, <1>2, FlipFramesSame DEF Flips!pool
  <1>7. FlipCountsOK'
        BY <1>1, <1>2, FlipCountsSame DEF Flips!port
  <1>8. FlipShownOK'
    <2>1. CASE fPresent' = fPresent
          BY <2>1, <1>1, <1>2, FlipShownSame
    <2>2. CASE /\ fPresent.at \notin {"due", "presents", "ends", "shows"}
               /\ fPresent'.at \notin {"due", "presents", "ends", "shows"}
      <3>1. fProcessing \in BOOLEAN /\ ~fProcessing
            BY <2>2, <1>1 DEF FlipShownOK
      <3>2. fProcessing' \in BOOLEAN /\ (fProcessing' <=> fPresent'.at \in {"due", "presents", "ends"})
            BY <3>1, <2>2, <1>2
      <3>3. \A r \in DOMAIN fRequest' : fRequest'[r].state # "Presenting"
            BY <2>2, <1>1, <1>2 DEF FlipShownOK
      <3> QED BY <3>1, <3>2, <3>3, <2>2, <1>2 DEF FlipShownOK
    <2> QED BY <2>1, <2>2, <1>3
  <1> QED BY <1>1, <1>2, <1>4, <1>5, <1>6, <1>7, <1>8 DEF FlipsOK

(***************************************************************************)
(* Reserving a flip.                                                       *)
(***************************************************************************)

\* What Reserve does: flip Len(request) + 1 is new and in one of the lists.
FlipIsReserved(p, from) ==
  LET r == Len(fRequest) + 1
  IN /\ fRequest' \in Seq(FlipRecords) /\ DOMAIN fRequest' = DOMAIN fRequest \cup {r}
     /\ \A q \in DOMAIN fRequest : q # r /\ fRequest'[q] = fRequest[q]
     /\ fRequest'[r].port = p /\ fRequest'[r].generation = fGeneration[p]
     /\ fRequest'[r].source = from /\ fRequest'[r].state = "Reserved"
     /\ fRequest'[r].frame = None

LEMMA FlipReserved ==
  ASSUME FlipListsOK, FlipPortsOK, NEW p \in Ports, NEW i \in Indices,
         NEW from \in {"Cpu", "GpuEop"}, Flips!Reserve(p, i, from)
  PROVE  FlipIsReserved(p, from) /\ Len(fRequest) + 1 \notin DOMAIN fRequest
  <1> DEFINE x == [port |-> p, generation |-> fGeneration[p], index |-> i,
                   source |-> from, state |-> "Reserved", frame |-> None]
  <1>1. /\ x \in FlipRecords /\ x.port = p /\ x.generation = fGeneration[p] /\ x.source = from
        /\ x.state = "Reserved" /\ x.frame = None
        BY DEF FlipRecords, FlipStates, FlipPortsOK
  <1>2. fRequest' = Append(fRequest, x)
        BY DEF Flips!Reserve
  <1> HIDE DEF x
  <1>3. /\ fRequest \in Seq(FlipRecords) /\ Len(fRequest) \in Nat
        /\ DOMAIN fRequest = 1 .. Len(fRequest)
        BY DEF FlipListsOK
  <1>4. /\ fRequest' \in Seq(FlipRecords) /\ DOMAIN fRequest' = 1 .. Len(fRequest) + 1
        /\ fRequest'[Len(fRequest) + 1] = x
        /\ \A q \in 1 .. Len(fRequest) : fRequest'[q] = fRequest[q]
        BY <1>1, <1>2, <1>3
  <1>5. DOMAIN fRequest' = DOMAIN fRequest \cup {Len(fRequest) + 1}
        /\ \A q \in DOMAIN fRequest : q # Len(fRequest) + 1
        BY <1>3, <1>4
  <1> QED BY <1>1, <1>3, <1>4, <1>5 DEF FlipIsReserved

LEMMA FlipReserveLists ==
  ASSUME FlipListsOK, FlipPortsOK, NEW p \in Ports, NEW i \in Indices,
         NEW from \in {"Cpu", "GpuEop"}, Flips!Reserve(p, i, from), UNCHANGED fCancelled
  PROVE  /\ FlipListsOK' /\ Flips!Queued' = Flips!Queued \cup {Len(fRequest) + 1}
         /\ (Flips!Range(fRequests))' = Flips!Range(fRequests) \cup
                                   (IF from = "GpuEop" THEN {Len(fRequest) + 1} ELSE {})
         /\ fRequests # <<>> => fRequests' # <<>> /\ Head(fRequests') = Head(fRequests)
  <1> DEFINE r == Len(fRequest) + 1
  <1>1. FlipIsReserved(p, from) /\ r \notin DOMAIN fRequest /\ r \in DOMAIN fRequest'
        BY FlipReserved DEF FlipIsReserved
  <1>2. /\ fRequests \in Seq(DOMAIN fRequest) /\ fRequests \in Seq(DOMAIN fRequest')
        /\ Flips!IsInjective(fRequests) /\ r \notin Flips!Range(fRequests) /\ DOMAIN fRequest \subseteq DOMAIN fRequest'
    <2>1. fRequests \in Seq(DOMAIN fRequest) /\ Flips!IsInjective(fRequests)
          BY DEF FlipListsOK
    <2>2. DOMAIN fRequest \subseteq DOMAIN fRequest'
          BY <1>1 DEF FlipIsReserved
    <2>3. fRequests \in Seq(DOMAIN fRequest')
          BY <2>1, <2>2
    <2>4. Flips!Range(fRequests) \subseteq DOMAIN fRequest
          BY <2>1 DEF Flips!Range
    <2> QED BY <2>1, <2>2, <2>3, <2>4, <1>1
  <1>3. /\ IF from = "GpuEop" THEN fRequests' = Append(fRequests, r) /\ UNCHANGED fCpuRequests
           ELSE fCpuRequests' = fCpuRequests \cup {r} /\ UNCHANGED fRequests
        BY DEF Flips!Reserve
  <1> HIDE DEF r
  <1>4. /\ fRequests' \in Seq(DOMAIN fRequest') /\ Flips!IsInjective(fRequests')
        /\ Flips!Range(fRequests') = Flips!Range(fRequests) \cup (IF from = "GpuEop" THEN {r} ELSE {})
        /\ fRequests # <<>> => fRequests' # <<>> /\ Head(fRequests') = Head(fRequests)
    <2>1. CASE from = "GpuEop"
      <3>1. fRequests' = Append(fRequests, r)
            BY <2>1, <1>3
      <3>2. /\ Append(fRequests, r) \in Seq(DOMAIN fRequest') /\ Flips!IsInjective(Append(fRequests, r))
            /\ Flips!Range(Append(fRequests, r)) = Flips!Range(fRequests) \cup {r}
            /\ (fRequests # <<>> => Head(Append(fRequests, r)) = Head(fRequests))
            /\ Append(fRequests, r) # <<>>
            BY <1>1, <1>2, FlipAppended
      <3> QED BY <3>1, <3>2, <2>1
    <2>2. CASE from # "GpuEop"
          BY <2>2, <1>2, <1>3
    <2> QED BY <2>1, <2>2
  <1>5. fCpuRequests' = fCpuRequests \cup (IF from = "GpuEop" THEN {} ELSE {r})
        BY <1>3
  <1>6. Flips!Queued' = Flips!Queued \cup {r}
        BY <1>4, <1>5 DEF Flips!Queued
  <1>7. r \notin Flips!Queued \cup fCancelled /\ fCpuRequests \subseteq DOMAIN fRequest
        /\ fCancelled \subseteq DOMAIN fRequest /\ Flips!Range(fRequests) \cap fCpuRequests = {}
        /\ Flips!Queued \cap fCancelled = {}
        /\ Flips!Queued \cup fCancelled = {q \in DOMAIN fRequest : fRequest[q].state # "Gone"}
        BY <1>1 DEF FlipListsOK
  <1>8. fCpuRequests' \subseteq DOMAIN fRequest' /\ fCancelled' \subseteq DOMAIN fRequest'
        BY <1>1, <1>2, <1>5, <1>7
  <1>9. Flips!Range(fRequests') \cap fCpuRequests' = {} /\ Flips!Queued' \cap fCancelled' = {}
    <2>1. r \notin Flips!Range(fRequests) \cup fCpuRequests
          BY <1>7 DEF Flips!Queued
    <2> QED BY <2>1, <1>4, <1>5, <1>6, <1>7
  <1>10. Flips!Queued' \cup fCancelled' = {q \in DOMAIN fRequest' : fRequest'[q].state # "Gone"}
        BY <1>1, <1>6, <1>7 DEF FlipIsReserved, r
  <1>11. /\ \A q \in fCpuRequests' : fRequest'[q].state = "Reserved" /\ fRequest'[q].source = "Cpu"
         /\ \A q \in fCancelled' : fRequest'[q].state \in {"Reserved", "Recording"}
        BY <1>1, <1>5, <1>7 DEF FlipListsOK, FlipIsReserved, r
  <1>12. \A q \in DOMAIN fRequest' :
           /\ fRequest'[q].state # "Gone" => /\ fRequest'[q].port \in Ports
                                             /\ fRequest'[q].source \in {"Cpu", "GpuEop"}
           /\ fRequest'[q].state \in {"Reserved", "Gone"} => fRequest'[q].frame = None
           /\ fRequest'[q].state = "Ready" => fRequest'[q].frame # None
        BY <1>1 DEF FlipListsOK, FlipIsReserved, r
  <1>13. fRequest' \in Seq(FlipRecords)
        BY <1>1 DEF FlipIsReserved
  <1>14. FlipListsOK'
        BY <1>4, <1>8, <1>9, <1>10, <1>11, <1>12, <1>13 DEF FlipListsOK
  <1> QED BY <1>4, <1>6, <1>14 DEF r

\* A new flip is of its port as it is open, and has no frame.
LEMMA FlipReserveRest ==
  ASSUME FlipsOK, NEW p \in Ports, NEW i \in Indices, fOpened[p], ~fClosing[p],
         NEW from \in {"Cpu", "GpuEop"}, Flips!Reserve(p, i, from), UNCHANGED fCancelled,
         UNCHANGED <<Flips!port, fProcessing, Flips!pool, fPresent>>,
         fGuest' = fGuest \/ (\E t \in Guests : fGuest[t].at # "cancels" /\
                                \A u \in Guests : u # t => fGuest'[u] = fGuest[u]),
         fGpu' = fGpu \/ "assigns" \notin {fGpu.at, fGpu'.at}
  PROVE  FlipShownOK' /\ FlipFramesOK' /\ FlipCountsOK'
  <1> DEFINE r == Len(fRequest) + 1
  <1>1. /\ FlipListsOK /\ FlipPortsOK /\ FlipWorkOK /\ FlipShownOK /\ FlipFramesOK
        /\ FlipCountsOK /\ ~fFatal
        BY DEF FlipsOK
  <1>2. FlipIsReserved(p, from) /\ r \notin DOMAIN fRequest
        BY <1>1, FlipReserved
  <1>3. /\ FlipListsOK' /\ Flips!Queued' = Flips!Queued \cup {r}
        /\ Flips!Range(fRequests') = Flips!Range(fRequests) \cup (IF from = "GpuEop" THEN {r} ELSE {})
        /\ fRequests # <<>> => fRequests' # <<>> /\ Head(fRequests') = Head(fRequests)
        BY <1>1, FlipReserveLists
  <1>4. /\ DOMAIN fRequest' = DOMAIN fRequest \cup {r}
        /\ \A q \in DOMAIN fRequest : fRequest'[q] = fRequest[q] /\ q # r
        /\ fRequest'[r].frame = None /\ fRequest'[r].state = "Reserved"
        /\ fRequest'[r].port = p /\ fRequest'[r].generation = fGeneration[p]
        /\ fRequest'[r].source = from
        BY <1>2 DEF FlipIsReserved
  <1>5. /\ fRequest \in Seq(FlipRecords) /\ fRequest' \in Seq(FlipRecords) /\ r \in DOMAIN fRequest'
        /\ Flips!Queued \subseteq DOMAIN fRequest /\ Flips!Range(fRequests) \subseteq Flips!Queued
        BY <1>1, <1>2 DEF FlipListsOK, FlipIsReserved, Flips!Queued
  <1> HIDE DEF r
  <1>6. FlipShownOK'
    <2>1. fProcessing => fRequests # <<>> /\ Head(fRequests) = fPresent.flip
                         /\ fPresent.flip \in DOMAIN fRequest
      <3>1. ASSUME fRequests # <<>> PROVE Head(fRequests) \in DOMAIN fRequest
            BY <3>1, <1>1, FlipTail DEF FlipListsOK
      <3> QED BY <3>1, <1>1 DEF FlipShownOK
    <2>2. fPresent.at \in {"due", "presents", "ends"} => fRequest'[fPresent.flip] = fRequest[fPresent.flip]
          BY <2>1, <1>1, <1>4 DEF FlipShownOK
    <2>3. \A q \in DOMAIN fRequest' : fRequest'[q].state = "Presenting" =>
             q \in DOMAIN fRequest /\ fRequest[q].state = "Presenting"
          BY <1>4
    <2> QED BY <2>1, <2>2, <2>3, <1>1, <1>3 DEF FlipShownOK
  <1>7. FlipFramesOK'
    <2>1. FlipFramesOK /\ UNCHANGED Flips!pool
          BY <1>1 DEF Flips!pool
    <2>2. \A h \in Int : FlipHeldBy(fRequest', fGpu', fPresent')[h] = FlipHeldBy(fRequest, fGpu, fPresent)[h]
      <3> SUFFICES ASSUME NEW h \in Int
                   PROVE  FlipHeldBy(fRequest', fGpu', fPresent')[h] = FlipHeldBy(fRequest, fGpu, fPresent)[h]
          OBVIOUS
      <3>0. /\ FlipHeldBy(fRequest, fGpu, fPresent)[-1] = FlipHeldBy(fRequest', fGpu', fPresent')[-1]
            /\ FlipHeldBy(fRequest, fGpu, fPresent)[-2] = FlipHeldBy(fRequest', fGpu', fPresent')[-2]
            /\ r # -1 /\ r # -2
            BY <1>5, FlipHolders
      <3>1. CASE h \in DOMAIN fRequest
            BY <3>1, <1>4, <1>5, FlipHolders
      <3>2. CASE h = r
        <4>1. FlipHeldBy(fRequest', fGpu', fPresent')[h] = fRequest'[r].frame
              BY <3>2, <1>5, FlipHolders
        <4>2. FlipHeldBy(fRequest, fGpu, fPresent)[h] = None
              BY <3>0, <3>2, <1>2, <1>5, FlipHolders DEF r
        <4> QED BY <4>1, <4>2, <1>4
      <3>3. CASE h \notin DOMAIN fRequest' /\ h # -1 /\ h # -2
            BY <3>3, <1>4, <1>5, FlipHolders
      <3> QED BY <3>0, <3>1, <3>2, <3>3, <1>4
    <2>3. /\ fGpu'.at = "assigns" => fGpu'.frame \in Frames
          /\ fPresent'.at = "shows" => fPresent'.frame \in Frames
          BY <1>1 DEF FlipFramesOK
    <2> QED BY <2>1, <2>2, <2>3, FlipSameFrames
  <1>8. Flips!GcQueueNumCounts' /\ fGcQueueNum' \in [Ports -> Nat]
    <2>1. fGcQueueNum' = IF from = "GpuEop" THEN [fGcQueueNum EXCEPT ![p] = @ + 1] ELSE fGcQueueNum
          BY DEF Flips!Reserve
    <2>2. fGcQueueNum \in [Ports -> Nat]
          BY <1>1 DEF FlipCountsOK
    <2>3. ASSUME NEW q \in Ports, fOpened[q] /\ ~fClosing[q]
          PROVE  fGcQueueNum'[q] = Flips!Cardinality({x \in Flips!Range(fRequests') :
                                    fRequest'[x].port = q /\ fRequest'[x].source = "GpuEop"})
      <3> DEFINE old == {x \in Flips!Range(fRequests) :
                           fRequest[x].port = q /\ fRequest[x].source = "GpuEop"}
                 new == {x \in Flips!Range(fRequests') :
                           fRequest'[x].port = q /\ fRequest'[x].source = "GpuEop"}
      <3>1. fGcQueueNum[q] = Flips!Cardinality(old)
            BY <2>3, <1>1 DEF FlipCountsOK, Flips!GcQueueNumCounts
      <3>2. new = old \cup (IF from = "GpuEop" /\ q = p THEN {r} ELSE {}) /\ r \notin old
        <4>1. \A x \in Flips!Range(fRequests) : fRequest'[x] = fRequest[x] /\ x # r
              BY <1>4, <1>5
        <4> QED BY <4>1, <1>3, <1>4
      <3>3. Flips!IsFiniteSet(old)
        <4>1. Flips!IsFiniteSet(1 .. Len(fRequest))
              BY <1>5, FlipSizes, FS_Interval
        <4>2. old \in SUBSET (1 .. Len(fRequest))
              BY <1>5
        <4> QED BY <4>1, <4>2, FlipSizes, FS_Subset
      <3> HIDE DEF old, new
      <3>4. CASE from = "GpuEop" /\ q = p
        <4>1. Flips!Cardinality(new) = Flips!Cardinality(old) + 1
              BY <3>2, <3>3, <3>4, FlipSizes, FS_AddElement
        <4> QED BY <4>1, <3>1, <3>4, <2>1, <2>2 DEF new
      <3>5. CASE ~(from = "GpuEop" /\ q = p)
        <4>1. new = old /\ fGcQueueNum'[q] = fGcQueueNum[q]
              BY <3>2, <3>5, <2>1, <2>2
        <4> QED BY <4>1, <3>1 DEF new
      <3> QED BY <3>4, <3>5
    <2>4. fGcQueueNum' \in [Ports -> Nat]
          BY <2>1, <2>2
    <2> QED BY <2>3, <2>4 DEF Flips!GcQueueNumCounts, Flips!port
  <1>9. Flips!QueuedAreCurrent'
    <2> SUFFICES ASSUME NEW x \in Flips!Queued', ~Flips!Current(x)'
                 PROVE  \E t \in Guests : fGuest'[t].at = "cancels" /\ fGuest'[t].port = fRequest'[x].port
        BY DEF Flips!QueuedAreCurrent
    <2>1. x # r
          BY <1>4 DEF Flips!Current, Flips!port
    <2>2. x \in Flips!Queued /\ fRequest'[x] = fRequest[x] /\ ~Flips!Current(x)
      <3>1. x \in Flips!Queued
            BY <2>1, <1>3
      <3>2. fRequest'[x] = fRequest[x]
            BY <3>1, <1>4, <1>5
      <3> QED BY <3>1, <3>2 DEF Flips!Current, Flips!port
    <2>3. PICK t \in Guests : fGuest[t].at = "cancels" /\ fGuest[t].port = fRequest[x].port
          BY <2>2, <1>1 DEF FlipCountsOK, Flips!QueuedAreCurrent
    <2>4. fGuest'[t] = fGuest[t]
          BY <2>3
    <2> QED BY <2>2, <2>3, <2>4
  <1> QED BY <1>6, <1>7, <1>8, <1>9 DEF FlipCountsOK

\* What is worked on is as it was when a flip is reserved.
LEMMA FlipReserveWork ==
  ASSUME FlipListsOK, FlipPortsOK, FlipWorkOK, NEW p \in Ports, NEW i \in Indices,
         NEW from \in {"Cpu", "GpuEop"}, Flips!Reserve(p, i, from), UNCHANGED fCancelled
  PROVE  /\ fSubmissions \in Seq(DOMAIN fRequest') /\ fDeferred \in Seq(DOMAIN fRequest')
         /\ Len(fRequest) + 1 \notin Flips!Range(fSubmissions) \cup Flips!Range(fDeferred)
         /\ \A q \in DOMAIN fRequest : FlipFresh(q) => FlipFresh(q)'
         /\ \A q \in DOMAIN fRequest : FlipPrepared(q) => FlipPrepared(q)'
  <1> DEFINE r == Len(fRequest) + 1
  <1>1. FlipIsReserved(p, from) /\ r \notin DOMAIN fRequest
        BY FlipReserved
  <1>2. /\ FlipListsOK' /\ Flips!Queued' = Flips!Queued \cup {r}
        /\ Flips!Range(fRequests') = Flips!Range(fRequests) \cup (IF from = "GpuEop" THEN {r} ELSE {})
        BY FlipReserveLists
  <1>3. fCpuRequests \subseteq fCpuRequests'
        BY DEF Flips!Reserve
  <1>4. DOMAIN fRequest \subseteq DOMAIN fRequest' /\ \A q \in DOMAIN fRequest : fRequest'[q] = fRequest[q] /\ q # r
        BY <1>1 DEF FlipIsReserved
  <1> HIDE DEF r
  <1>5. fSubmissions \in Seq(DOMAIN fRequest) /\ fDeferred \in Seq(DOMAIN fRequest)
        BY DEF FlipWorkOK
  <1>6. fSubmissions \in Seq(DOMAIN fRequest') /\ fDeferred \in Seq(DOMAIN fRequest')
        BY <1>4, <1>5
  <1>7. r \notin Flips!Range(fSubmissions) \cup Flips!Range(fDeferred)
        BY <1>1, <1>5 DEF Flips!Range
  <1>8. \A q \in DOMAIN fRequest : FlipFresh(q) => FlipFresh(q)'
        BY <1>3, <1>4 DEF FlipFresh
  <1>9. \A q \in DOMAIN fRequest : FlipPrepared(q) => FlipPrepared(q)'
        BY <1>2, <1>4 DEF FlipPrepared
  <1> QED BY <1>6, <1>7, <1>8, <1>9 DEF r

LEMMA FlipsGuestReserves == ASSUME FlipsOK, NEW t \in Guests, Flips!GuestReserves(t) PROVE FlipsOK'
  <1> DEFINE r == Len(fRequest) + 1
             p == fGuest[t].port
             i == fGuest[t].index
  <1>1. /\ FlipListsOK /\ FlipPortsOK /\ FlipWorkOK /\ FlipShownOK /\ FlipFramesOK
        /\ FlipCountsOK /\ ~fFatal
        BY DEF FlipsOK
  <1>2. /\ fGuest[t].at = "reserves" /\ ~fClosing[p]
        /\ Flips!Reserve(p, i, "Cpu") /\ fGuest' = [fGuest EXCEPT ![t] = [at |-> "submits", flip |-> r]]
        /\ UNCHANGED <<fOpened, fClosing, fGeneration, fDriver, fCancelled, fProcessing, fGpu>>
        /\ UNCHANGED <<fPresent, fFatal, fFree, fLast, fSubmissions, fDeferred>>
        BY DEF Flips!GuestReserves, Flips!Accepts, Flips!port, Flips!pool, Flips!work
  <1>3. p \in Ports /\ i \in Indices /\ fOpened[p]
        BY <1>1, <1>2 DEF FlipPortsOK
  <1>4. /\ fGuest'[t].at = "submits" /\ fGuest'[t].flip = r /\ DOMAIN fGuest' = Guests
        /\ \A u \in Guests : u # t => fGuest'[u] = fGuest[u]
        BY <1>1, <1>2 DEF FlipPortsOK
  <1>5. FlipIsReserved(p, "Cpu") /\ r \notin DOMAIN fRequest
        BY <1>1, <1>2, <1>3, FlipReserved
  <1>6. /\ FlipListsOK' /\ Flips!Queued' = Flips!Queued \cup {r} /\ Flips!Range(fRequests') = Flips!Range(fRequests)
    <2>1. /\ FlipListsOK' /\ Flips!Queued' = Flips!Queued \cup {r}
          /\ (Flips!Range(fRequests))' = Flips!Range(fRequests) \cup (IF "Cpu" = "GpuEop" THEN {r} ELSE {})
          BY <1>1, <1>2, <1>3, FlipReserveLists
    <2> QED BY <2>1
  <1>7. FlipShownOK' /\ FlipFramesOK' /\ FlipCountsOK'
    <2>1. \E x \in Guests : fGuest[x].at # "cancels" /\ \A u \in Guests : u # x => fGuest'[u] = fGuest[u]
          BY <1>2, <1>4
    <2> HIDE DEF p, i
    <2> QED BY <2>1, <1>2, <1>3, FlipReserveRest DEF Flips!port, Flips!pool
  <1>8. /\ fSubmissions \in Seq(DOMAIN fRequest') /\ fDeferred \in Seq(DOMAIN fRequest')
        /\ r \notin Flips!Range(fSubmissions) \cup Flips!Range(fDeferred)
        /\ \A q \in DOMAIN fRequest : FlipFresh(q) => FlipFresh(q)'
        /\ \A q \in DOMAIN fRequest : FlipPrepared(q) => FlipPrepared(q)'
    <2> HIDE DEF p, i
    <2> QED BY <1>1, <1>2, <1>3, FlipReserveWork
  <1>9. /\ r \in fCpuRequests' /\ fRequest'[r].state = "Reserved" /\ fRequest'[r].source = "Cpu"
        /\ \A q \in DOMAIN fRequest : fRequest'[q] = fRequest[q] /\ q # r
        BY <1>2, <1>5 DEF Flips!Reserve, FlipIsReserved
  <1>10. Flips!Queued \cup fCancelled \subseteq DOMAIN fRequest /\ Flips!Range(fRequests) \subseteq Flips!Queued
        BY <1>1 DEF FlipListsOK, Flips!Queued
  <1> HIDE DEF r, p, i
  <1>11. FlipPortsOK'
    <2>1. \A u \in Guests :
       /\ fGuest'[u].at \in {"cancels", "resets"} =>
            fDriver = u /\ fGuest'[u].port \in Ports /\ fClosing[fGuest'[u].port]
       /\ fGuest'[u].at = "reserves" =>
            /\ fGuest'[u].port \in Ports /\ fGuest'[u].index \in Indices
            /\ fOpened[fGuest'[u].port] \/ fClosing[fGuest'[u].port]
          BY <1>1, <1>4 DEF FlipPortsOK
    <2> QED BY <2>1, <1>1, <1>2, <1>4 DEF FlipPortsOK
  <1>12. FlipWorkOK'
    <2>1. ASSUME NEW u \in Guests, fGuest'[u].at = "submits"
          PROVE  /\ FlipFresh(fGuest[u].flip)' /\ fGuest'[u].flip \notin Flips!Range(fSubmissions)
                 /\ fGpu.at = "prepares" => fGuest'[u].flip # fGpu.flip
                 /\ \A v \in Guests :
                      fGuest'[v].at = "submits" /\ fGuest'[v].flip = fGuest'[u].flip => v = u
      <3>0. ASSUME NEW v \in Guests, v # t, fGuest'[v].at = "submits"
            PROVE  /\ fGuest'[v] = fGuest[v] /\ FlipFresh(fGuest[v].flip) /\ fGuest[v].flip \in DOMAIN fRequest
                   /\ fGuest[v].flip # r
            BY <3>0, <1>1, <1>4, <1>9, <1>10 DEF FlipWorkOK, FlipFresh, Flips!Queued
      <3>1. CASE u = t
        <4>1. FlipFresh(fGuest[u].flip)'
              BY <3>1, <1>4, <1>9 DEF FlipFresh
        <4>2. fGuest'[u].flip \notin Flips!Range(fSubmissions)
              BY <3>1, <1>4, <1>8
        <4>3. fGpu.at = "prepares" => fGuest'[u].flip # fGpu.flip
          <5>1. fGpu.at = "prepares" => fGpu.flip \in DOMAIN fRequest
                BY <1>1, <1>10 DEF FlipWorkOK
          <5> QED BY <5>1, <3>1, <1>4, <1>9
        <4>4. \A v \in Guests : fGuest'[v].at = "submits" /\ fGuest'[v].flip = fGuest'[u].flip => v = u
              BY <3>0, <3>1, <1>4
        <4> QED BY <4>1, <4>2, <4>3, <4>4
      <3>2. CASE u # t
        <4>1. fGuest'[u] = fGuest[u] /\ FlipFresh(fGuest[u].flip) /\ fGuest[u].flip \in DOMAIN fRequest
              BY <3>0, <3>2, <2>1
        <4>2. FlipFresh(fGuest[u].flip)'
              BY <4>1, <1>2, <1>8 DEF FlipFresh
        <4>3. /\ fGuest'[u].flip \notin Flips!Range(fSubmissions)
              /\ fGpu.at = "prepares" => fGuest'[u].flip # fGpu.flip
              BY <4>1, <2>1, <1>1 DEF FlipWorkOK
        <4>4. \A v \in Guests : fGuest'[v].at = "submits" /\ fGuest'[v].flip = fGuest'[u].flip => v = u
              BY <3>0, <3>2, <4>1, <2>1, <1>1, <1>4 DEF FlipWorkOK
        <4> QED BY <4>2, <4>3, <4>4
      <3> QED BY <3>1, <3>2
    <2>2. \A q \in Flips!Range(fSubmissions) : FlipFresh(q)'
      <3>1. \A q \in Flips!Range(fSubmissions) : FlipFresh(q) /\ q \in DOMAIN fRequest
            BY <1>1 DEF FlipWorkOK, Flips!Range
      <3> QED BY <3>1, <1>8
    <2>3. \A q \in Flips!Range(fDeferred) : FlipPrepared(q)' /\ fRequest'[q].source = "GpuEop"
      <3>1. \A q \in Flips!Range(fDeferred) : FlipPrepared(q) /\ q \in DOMAIN fRequest /\ fRequest[q].source = "GpuEop"
            BY <1>1 DEF FlipWorkOK, Flips!Range
      <3> QED BY <3>1, <1>8, <1>9
    <2>4. fGpu.at \in FlipRecorded \cup {"prepares"} =>
            /\ fGpu.flip \in Flips!Queued \cup fCancelled /\ fGpu.flip \in DOMAIN fRequest
            /\ fRequest'[fGpu.flip] = fRequest[fGpu.flip]
      <3>1. fGpu.at \in FlipRecorded \cup {"prepares"} => fGpu.flip \in Flips!Queued \cup fCancelled
            BY <1>1, <1>10 DEF FlipWorkOK, FlipRecorded, FlipPrepared
      <3> QED BY <3>1, <1>9, <1>10
    <2>5. fGpu.at = "prepares" =>
              /\ fGpu.flip \in (Flips!Queued \cup fCancelled)' /\ fGpu.flip \notin Flips!Range(fSubmissions)
              /\ fRequest'[fGpu.flip].state = "Reserved"
          BY <2>4, <1>1, <1>2, <1>6 DEF FlipWorkOK
    <2>6. fGpu.at \in {"looks", "acquires", "assigns"} =>
              /\ fGpu.flip \in Flips!Range(fRequests)' \cup fCancelled'
              /\ fRequest'[fGpu.flip].state = "Recording" /\ fRequest'[fGpu.flip].frame = None
          BY <2>4, <1>1, <1>2, <1>6 DEF FlipWorkOK, FlipRecorded
    <2>7. fGpu.at = "prepared" => FlipPrepared(fGpu.flip)'
      <3>1. fGpu.at = "prepared" => FlipPrepared(fGpu.flip) /\ fGpu.flip \in DOMAIN fRequest
            BY <2>4, <1>1 DEF FlipWorkOK, FlipRecorded
      <3> QED BY <3>1, <1>2, <1>8 DEF FlipPrepared
    <2>8. /\ fGpu.at \in FlipRecorded => fGpu.flip \notin Flips!Range(fDeferred)
          /\ Flips!IsInjective(fSubmissions) /\ Flips!IsInjective(fDeferred)
          BY <1>1 DEF FlipWorkOK
    <2> QED BY <2>1, <2>2, <2>3, <2>5, <2>6, <2>7, <2>8, <1>2, <1>8 DEF FlipWorkOK
  <1> QED BY <1>1, <1>2, <1>6, <1>7, <1>11, <1>12 DEF FlipsOK

(***************************************************************************)
(* A step about one flip.  What it does not touch is worked on as before.  *)
(***************************************************************************)
FlipUnfinished(r) == fRequest[r].state \in {"Reserved", "Recording"}

FlipIsSame(r) == /\ r \in DOMAIN fRequest' /\ fRequest'[r] = fRequest[r]
                 /\ r \in fCpuRequests \cup fCancelled => r \in fCpuRequests' \cup fCancelled'
                 /\ r \in Flips!Range(fRequests) \cup fCancelled => r \in Flips!Range(fRequests') \cup fCancelled'
                 /\ r \in Flips!Range(fRequests') => r \in Flips!Range(fRequests)

\* The GPU thread has flip g, if any.
FlipGpuHas(g) ==
  /\ fGpu.at \in FlipRecorded \cup {"prepares"} => fGpu.flip = g
  /\ fGpu.at = "prepares" => g \in Flips!Queued \cup fCancelled /\ fRequest[g].state = "Reserved"
  /\ fGpu.at \in {"looks", "acquires", "assigns"} =>
       /\ g \in Flips!Range(fRequests) \cup fCancelled
       /\ fRequest[g].state = "Recording" /\ fRequest[g].frame = None
  /\ fGpu.at = "prepared" => FlipPrepared(g)

LEMMA FlipWorkMoves ==
  ASSUME FlipListsOK, FlipWorkOK, NEW g,
         \A r \in DOMAIN fRequest : r # g /\ FlipUnfinished(r) => FlipIsSame(r),
         fSubmissions' \in Seq(DOMAIN fRequest'), Flips!IsInjective(fSubmissions'),
         \A r \in Flips!Range(fSubmissions') :
           \/ r \in Flips!Range(fSubmissions) /\ r # g
           \/ r = g /\ FlipFresh(g)' /\ (fGpu'.at = "prepares" => fGpu'.flip # g),
         fDeferred' \in Seq(DOMAIN fRequest'), Flips!IsInjective(fDeferred'),
         \A r \in Flips!Range(fDeferred') :
           \/ r \in Flips!Range(fDeferred) /\ r # g
           \/ /\ r = g /\ FlipPrepared(g)' /\ fRequest'[g].source = "GpuEop"
              /\ fGpu'.at \in FlipRecorded => fGpu'.flip # g,
         \A t \in Guests : fGuest'[t].at = "submits" => fGuest'[t] = fGuest[t] /\ fGuest[t].flip # g,
         \/ fGpu' = fGpu /\ (fGpu.at \in FlipRecorded \cup {"prepares"} => fGpu.flip # g)
         \/ FlipGpuHas(g)'
  PROVE  FlipWorkOK'
  <1>1. /\ Flips!Queued \cup fCancelled \subseteq DOMAIN fRequest /\ Flips!Range(fRequests) \subseteq Flips!Queued
        /\ fCpuRequests \subseteq Flips!Queued
        BY DEF FlipListsOK, Flips!Queued
  <1>2. \A r : FlipFresh(r) => r \in DOMAIN fRequest /\ FlipUnfinished(r)
        BY <1>1 DEF FlipFresh, FlipUnfinished
  <1>3. \A r : FlipPrepared(r) => r \in DOMAIN fRequest /\ FlipUnfinished(r)
        BY <1>1 DEF FlipPrepared, FlipUnfinished
  <1>4. \A r : FlipFresh(r) /\ r # g => FlipFresh(r)' /\ fRequest'[r] = fRequest[r]
        BY <1>2 DEF FlipFresh, FlipIsSame
  <1>5. \A r : FlipPrepared(r) /\ r # g => FlipPrepared(r)' /\ fRequest'[r] = fRequest[r]
        BY <1>3 DEF FlipPrepared, FlipIsSame
  <1>6. \A r \in Flips!Range(fSubmissions') : FlipFresh(r)'
    <2>1. \A r \in Flips!Range(fSubmissions) : FlipFresh(r)
          BY DEF FlipWorkOK
    <2> QED BY <2>1, <1>4
  <1>7. \A r \in Flips!Range(fDeferred') : FlipPrepared(r)' /\ fRequest'[r].source = "GpuEop"
    <2>1. \A r \in Flips!Range(fDeferred) : FlipPrepared(r) /\ fRequest[r].source = "GpuEop"
          BY DEF FlipWorkOK
    <2> QED BY <2>1, <1>5
  <1>8. fGpu'.at \in FlipRecorded \cup {"prepares"} =>
          (fGpu'.flip = g /\ FlipGpuHas(g)') \/ (fGpu' = fGpu /\ fGpu.flip # g)
    <2>1. CASE fGpu' = fGpu /\ (fGpu.at \in FlipRecorded \cup {"prepares"} => fGpu.flip # g)
          BY <2>1
    <2>2. CASE FlipGpuHas(g)'
      <3>1. fGpu'.at \in FlipRecorded \cup {"prepares"} => fGpu'.flip = g
            BY <2>2 DEF FlipGpuHas
      <3> QED BY <3>1, <2>2
    <2> QED BY <2>1, <2>2
  <1>9. ASSUME fGpu' = fGpu, fGpu.flip # g, fGpu.at \in FlipRecorded \cup {"prepares"}
        PROVE  FlipIsSame(fGpu.flip)
    <2>1. fGpu.flip \in Flips!Queued \cup fCancelled /\ FlipUnfinished(fGpu.flip)
          BY <1>9, <1>1 DEF FlipWorkOK, FlipRecorded, FlipPrepared, FlipUnfinished
    <2> QED BY <2>1, <1>9, <1>1
  <1>10. fGpu'.at = "prepares" => /\ fGpu'.flip \in (Flips!Queued \cup fCancelled)'
                                  /\ fRequest'[fGpu'.flip].state = "Reserved"
                                  /\ fGpu'.flip \notin Flips!Range(fSubmissions')
    <2> SUFFICES ASSUME fGpu'.at = "prepares"
                 PROVE  /\ fGpu'.flip \in (Flips!Queued \cup fCancelled)'
                        /\ fRequest'[fGpu'.flip].state = "Reserved"
                        /\ fGpu'.flip \notin Flips!Range(fSubmissions')
        OBVIOUS
    <2>1. CASE fGpu'.flip = g /\ FlipGpuHas(g)'
      <3>1. g \in (Flips!Queued \cup fCancelled)' /\ fRequest'[g].state = "Reserved"
            BY <2>1 DEF FlipGpuHas
      <3> QED BY <3>1, <2>1
    <2>2. CASE fGpu' = fGpu /\ fGpu.flip # g
      <3>1. FlipIsSame(fGpu.flip)
            BY <2>2, <1>9
      <3>2. /\ fGpu.flip \in Flips!Queued \cup fCancelled /\ fRequest[fGpu.flip].state = "Reserved"
            /\ fGpu.flip \notin Flips!Range(fSubmissions)
            BY <2>2 DEF FlipWorkOK
      <3> QED BY <3>1, <3>2, <2>2 DEF FlipIsSame, Flips!Queued
    <2> QED BY <2>1, <2>2, <1>8
  <1>11. fGpu'.at \in FlipRecorded => fGpu'.flip \notin Flips!Range(fDeferred')
    <2> SUFFICES ASSUME fGpu'.at \in FlipRecorded PROVE fGpu'.flip \notin Flips!Range(fDeferred')
        OBVIOUS
    <2>1. CASE fGpu'.flip = g
          BY <2>1
    <2>2. CASE fGpu' = fGpu /\ fGpu.flip # g
          BY <2>2 DEF FlipWorkOK
    <2> QED BY <2>1, <2>2, <1>8
  <1>12. fGpu'.at \in {"looks", "acquires", "assigns"} =>
           /\ fGpu'.flip \in Flips!Range(fRequests') \cup fCancelled'
           /\ fRequest'[fGpu'.flip].state = "Recording" /\ fRequest'[fGpu'.flip].frame = None
    <2> SUFFICES ASSUME fGpu'.at \in {"looks", "acquires", "assigns"}
                 PROVE  /\ fGpu'.flip \in Flips!Range(fRequests') \cup fCancelled'
                        /\ fRequest'[fGpu'.flip].state = "Recording"
                        /\ fRequest'[fGpu'.flip].frame = None
        OBVIOUS
    <2>1. CASE fGpu'.flip = g /\ FlipGpuHas(g)'
          BY <2>1 DEF FlipGpuHas
    <2>2. CASE fGpu' = fGpu /\ fGpu.flip # g
      <3>1. FlipIsSame(fGpu.flip)
            BY <2>2, <1>9 DEF FlipRecorded
      <3> QED BY <3>1, <2>2 DEF FlipIsSame, FlipWorkOK
    <2> QED BY <2>1, <2>2, <1>8 DEF FlipRecorded
  <1>13. fGpu'.at = "prepared" => FlipPrepared(fGpu.flip)'
    <2> SUFFICES ASSUME fGpu'.at = "prepared" PROVE FlipPrepared(fGpu.flip)'
        OBVIOUS
    <2>1. CASE fGpu'.flip = g /\ FlipGpuHas(g)'
          BY <2>1 DEF FlipGpuHas, FlipPrepared
    <2>2. CASE fGpu' = fGpu /\ fGpu.flip # g
      <3>1. FlipIsSame(fGpu.flip) /\ FlipPrepared(fGpu.flip)
            BY <2>2, <1>9 DEF FlipRecorded, FlipWorkOK
      <3> QED BY <3>1, <2>2 DEF FlipIsSame, FlipPrepared
    <2> QED BY <2>1, <2>2, <1>8 DEF FlipRecorded
  <1>14. ASSUME NEW t \in Guests, fGuest'[t].at = "submits"
         PROVE  /\ FlipFresh(fGuest[t].flip)' /\ fGuest'[t].flip \notin Flips!Range(fSubmissions')
                /\ fGpu'.at = "prepares" => fGuest'[t].flip # fGpu'.flip
                /\ \A u \in Guests :
                     fGuest'[u].at = "submits" /\ fGuest'[u].flip = fGuest'[t].flip => u = t
    <2>1. \A u \in Guests : fGuest'[u].at = "submits" => fGuest'[u] = fGuest[u] /\ fGuest[u].flip # g
          OBVIOUS
    <2>2. fGuest'[t] = fGuest[t] /\ fGuest[t].flip # g /\ fGuest[t].at = "submits"
          BY <2>1, <1>14
    <2>3. FlipFresh(fGuest[t].flip) /\ fGuest[t].flip \notin Flips!Range(fSubmissions)
          BY <2>2 DEF FlipWorkOK
    <2>4. FlipFresh(fGuest[t].flip)'
          BY <2>2, <2>3, <1>4 DEF FlipFresh
    <2>5. fGuest'[t].flip \notin Flips!Range(fSubmissions')
          BY <2>2, <2>3
    <2>6. fGpu'.at = "prepares" => fGuest'[t].flip # fGpu'.flip
          BY <2>2, <1>8 DEF FlipWorkOK
    <2>7. \A u \in Guests :
            fGuest'[u].at = "submits" /\ fGuest'[u].flip = fGuest'[t].flip => u = t
          BY <2>1, <2>2 DEF FlipWorkOK
    <2> QED BY <2>4, <2>5, <2>6, <2>7
  <1> QED BY <1>6, <1>7, <1>10, <1>11, <1>12, <1>13, <1>14 DEF FlipWorkOK

LEMMA FlipStays ==
  ASSUME UNCHANGED <<fRequest, fRequests, fCpuRequests, fCancelled>>
  PROVE  \A r \in DOMAIN fRequest : FlipIsSame(r)
  BY DEF FlipIsSame

LEMMA FlipCountsMoves ==
  ASSUME FlipListsOK, FlipPortsOK, FlipCountsOK, UNCHANGED <<fGcQueueNum, Flips!port>>,
         \A t \in Guests : fGuest[t].at = "cancels" =>
           fGuest'[t] = fGuest[t] \/ \A r \in Flips!Queued' : fRequest'[r].port # fGuest[t].port,
         Flips!Queued' \subseteq Flips!Queued,
         \A r \in Flips!Queued' : /\ fRequest'[r].port = fRequest[r].port
                                  /\ fRequest'[r].generation = fRequest[r].generation
                                  /\ fRequest'[r].source = fRequest[r].source,
         \A r \in Flips!Queued : Flips!Current(r) /\ fRequest[r].source = "GpuEop" =>
           (r \in Flips!Range(fRequests') <=> r \in Flips!Range(fRequests))
  PROVE  FlipCountsOK'
  <1>1. UNCHANGED <<fOpened, fClosing, fGeneration, fGcQueueNum>>
        BY DEF Flips!port
  <1>2. \A r \in Flips!Queued' : Flips!Current(r)' <=> Flips!Current(r)
        BY <1>1 DEF Flips!Current
  <1>3. \A r \in Flips!Queued : Flips!Current(r) \/ \E t \in Guests : fGuest[t].at = "cancels"
                                                     /\ fGuest[t].port = fRequest[r].port
        BY DEF FlipCountsOK, Flips!QueuedAreCurrent
  <1>4. Flips!QueuedAreCurrent'
    <2> SUFFICES ASSUME NEW r \in Flips!Queued', ~Flips!Current(r)
                 PROVE  \E t \in Guests : fGuest'[t].at = "cancels" /\ fGuest'[t].port = fRequest'[r].port
        BY <1>2 DEF Flips!QueuedAreCurrent
    <2>1. PICK t \in Guests : fGuest[t].at = "cancels" /\ fGuest[t].port = fRequest[r].port
          BY <1>3
    <2>2. fGuest'[t] = fGuest[t]
          BY <2>1
    <2> QED BY <2>1, <2>2
  <1>5. Flips!GcQueueNumCounts'
    <2> SUFFICES ASSUME NEW q \in Ports, fOpened[q], ~fClosing[q]
                 PROVE  fGcQueueNum[q] = Flips!Cardinality({r \in Flips!Range(fRequests') :
                                    fRequest'[r].port = q /\ fRequest'[r].source = "GpuEop"})
        BY <1>1 DEF Flips!GcQueueNumCounts
    <2>1. fGcQueueNum[q] = Flips!Cardinality({r \in Flips!Range(fRequests) :
                                                fRequest[r].port = q /\ fRequest[r].source = "GpuEop"})
          BY DEF FlipCountsOK, Flips!GcQueueNumCounts
    <2>2. \A r \in Flips!Queued : fRequest[r].port = q => Flips!Current(r)
      <3>1. \A t \in Guests : fGuest[t].at = "cancels" => fClosing[fGuest[t].port]
            BY DEF FlipPortsOK
      <3> QED BY <3>1, <1>3
    <2>3. Flips!Range(fRequests) \subseteq Flips!Queued /\ Flips!Range(fRequests') \subseteq Flips!Queued'
          BY DEF Flips!Queued
    <2>4. {r \in Flips!Range(fRequests') : fRequest'[r].port = q /\ fRequest'[r].source = "GpuEop"}
            = {r \in Flips!Range(fRequests) : fRequest[r].port = q /\ fRequest[r].source = "GpuEop"}
          BY <2>2, <2>3
    <2> QED BY <2>1, <2>4
  <1> QED BY <1>1, <1>4, <1>5 DEF FlipCountsOK

LEMMA FlipShownMoves ==
  ASSUME FlipListsOK, FlipShownOK, UNCHANGED <<fProcessing, fPresent>>,
         fProcessing => fRequests' # <<>> /\ Head(fRequests') = Head(fRequests),
         \A r \in Flips!Range(fRequests) : fRequest[r].state \in {"Ready", "Presenting"} =>
           fRequest'[r].state = fRequest[r].state /\ fRequest'[r].frame = fRequest[r].frame,
         \A r \in DOMAIN fRequest' : fRequest'[r].state = "Presenting" =>
           r \in DOMAIN fRequest /\ fRequest[r].state = "Presenting"
  PROVE  FlipShownOK' /\ (fProcessing => fPresent.flip \in Flips!Range(fRequests))
  <1>1. fProcessing => /\ fRequests # <<>> /\ Head(fRequests) = fPresent.flip
                       /\ fPresent.flip \in Flips!Range(fRequests)
    <2>1. ASSUME fRequests # <<>> PROVE Head(fRequests) \in Flips!Range(fRequests)
          BY <2>1, FlipTail DEF FlipListsOK
    <2> QED BY <2>1 DEF FlipShownOK
  <1>2. fPresent.at \in {"due", "presents", "ends"} <=> fProcessing
        BY DEF FlipShownOK
  <1>3. fPresent.at \in {"due", "presents", "ends"} =>
          /\ fRequest'[fPresent.flip].state = fRequest[fPresent.flip].state
          /\ fRequest'[fPresent.flip].frame = fRequest[fPresent.flip].frame
    <2>1. fPresent.at \in {"due", "presents", "ends"} =>
            fRequest[fPresent.flip].state \in {"Ready", "Presenting"}
          BY DEF FlipShownOK
    <2> QED BY <2>1, <1>1, <1>2
  <1>4. fProcessing \in BOOLEAN /\ (fProcessing <=> fPresent.at \in {"due", "presents", "ends"})
        BY DEF FlipShownOK
  <1>5. fProcessing => fRequests' # <<>> /\ Head(fRequests') = fPresent.flip
        BY <1>1
  <1>6. /\ fPresent.at = "due" => fRequest'[fPresent.flip].state = "Ready"
        /\ fPresent.at \in {"presents", "ends"} => fRequest'[fPresent.flip].state = "Presenting"
        /\ fPresent.at = "presents" => fRequest'[fPresent.flip].frame # None
        /\ fPresent.at = "ends" => fRequest'[fPresent.flip].frame = None
        BY <1>3 DEF FlipShownOK
  <1>7. \A r \in DOMAIN fRequest' : fRequest'[r].state = "Presenting" =>
          fPresent.at \in {"presents", "ends"} /\ r = fPresent.flip
        BY DEF FlipShownOK
  <1> QED BY <1>1, <1>4, <1>5, <1>6, <1>7 DEF FlipShownOK

LEMMA FlipFramesKept ==
  ASSUME FlipFramesOK, UNCHANGED Flips!pool, fRequest \in Seq(FlipRecords), fRequest' \in Seq(FlipRecords),
         DOMAIN fRequest' = DOMAIN fRequest,
         \A r \in DOMAIN fRequest : fRequest'[r].frame = fRequest[r].frame,
         fGpu' = fGpu \/ "assigns" \notin {fGpu.at, fGpu'.at},
         fPresent' = fPresent \/ "shows" \notin {fPresent.at, fPresent'.at}
  PROVE  FlipFramesOK'
  <1>1. \A h \in Int : FlipHeldBy(fRequest', fGpu', fPresent')[h] = FlipHeldBy(fRequest, fGpu, fPresent)[h]
    <2> SUFFICES ASSUME NEW h \in Int
                 PROVE  FlipHeldBy(fRequest', fGpu', fPresent')[h] = FlipHeldBy(fRequest, fGpu, fPresent)[h]
        OBVIOUS
    <2>1. CASE h \in DOMAIN fRequest
          BY <2>1, FlipHolders
    <2>2. CASE h = -1
          BY <2>2, FlipHolders
    <2>3. CASE h = -2
          BY <2>3, FlipHolders
    <2>4. CASE h \notin DOMAIN fRequest /\ h # -1 /\ h # -2
          BY <2>4, FlipHolders
    <2> QED BY <2>1, <2>2, <2>3, <2>4
  <1>2. /\ fGpu'.at = "assigns" => fGpu'.frame \in Frames
        /\ fPresent'.at = "shows" => fPresent'.frame \in Frames
        BY DEF FlipFramesOK
  <1> QED BY <1>1, <1>2, FlipSameFrames

LEMMA FlipsGuestSubmits == ASSUME FlipsOK, NEW t \in Guests, Flips!GuestSubmits(t) PROVE FlipsOK'
  <1>0. PICK g : g = fGuest[t].flip
        OBVIOUS
  <1>1. /\ FlipListsOK /\ FlipPortsOK /\ FlipWorkOK /\ FlipShownOK /\ FlipFramesOK
        /\ FlipCountsOK /\ ~fFatal
        BY DEF FlipsOK
  <1>2. /\ fGuest[t].at = "submits" /\ fGuest' = [fGuest EXCEPT ![t] = Flips!Idle]
        /\ fSubmissions' = Append(fSubmissions, g)
        /\ UNCHANGED <<fOpened, fClosing, fGeneration, fDriver, fGcQueueNum, fProcessing, fGpu>>
        /\ UNCHANGED <<fPresent, fFatal, fRequest, fRequests, fCpuRequests, fCancelled>>
        /\ UNCHANGED <<fFree, fLast, fDeferred>>
        BY <1>0 DEF Flips!GuestSubmits, Flips!port, Flips!status, Flips!queue, Flips!pool
  <1>3. /\ fGuest'[t].at = "idle" /\ DOMAIN fGuest' = Guests
        /\ \A u \in Guests : u # t => fGuest'[u] = fGuest[u]
        BY <1>1, <1>2 DEF FlipPortsOK, Flips!Idle
  <1>4. FlipListsOK' /\ FlipShownOK'
        BY <1>1, <1>2, FlipListsSame, FlipShownSame
  <1>5. FlipFramesOK'
        BY <1>1, <1>2, FlipFramesSame DEF Flips!pool
  <1>6. FlipCountsOK'
    <2>1. \E x \in Guests : fGuest[x].at # "cancels" /\ \A u \in Guests : u # x => fGuest'[u] = fGuest[u]
          BY <1>2, <1>3
    <2> QED BY <2>1, <1>1, <1>2, FlipCountsSame DEF Flips!port
  <1>7. FlipPortsOK'
    <2>1. \A u \in Guests :
       /\ fGuest'[u].at \in {"cancels", "resets"} =>
            fDriver = u /\ fGuest'[u].port \in Ports /\ fClosing[fGuest'[u].port]
       /\ fGuest'[u].at = "reserves" =>
            /\ fGuest'[u].port \in Ports /\ fGuest'[u].index \in Indices
            /\ fOpened[fGuest'[u].port] \/ fClosing[fGuest'[u].port]
          BY <1>1, <1>3 DEF FlipPortsOK
    <2> QED BY <2>1, <1>1, <1>2, <1>3 DEF FlipPortsOK
  <1>8. FlipWorkOK'
    <2>1. /\ FlipFresh(g) /\ g \notin Flips!Range(fSubmissions) /\ g \in DOMAIN fRequest
          /\ fGpu.at = "prepares" => g # fGpu.flip
          /\ fSubmissions \in Seq(DOMAIN fRequest) /\ Flips!IsInjective(fSubmissions)
          /\ fDeferred \in Seq(DOMAIN fRequest) /\ Flips!IsInjective(fDeferred)
          /\ \A u \in Guests : fGuest[u].at = "submits" /\ fGuest[u].flip = g => u = t
          BY <1>0, <1>1, <1>2 DEF FlipWorkOK, FlipListsOK, FlipFresh
    <2>2. /\ fSubmissions' \in Seq(DOMAIN fRequest') /\ Flips!IsInjective(fSubmissions')
          /\ Flips!Range(fSubmissions') = Flips!Range(fSubmissions) \cup {g}
          BY <2>1, <1>2, FlipAppended
    <2>3. FlipFresh(g)'
          BY <2>1, <1>2 DEF FlipFresh
    <2>4. fGpu.at \in FlipRecorded \cup {"prepares"} => fGpu.flip # g
          BY <2>1, <1>1 DEF FlipWorkOK, FlipRecorded, FlipFresh, FlipPrepared
    <2>5. \A r \in Flips!Range(fSubmissions') :
           \/ r \in Flips!Range(fSubmissions) /\ r # g
           \/ r = g /\ FlipFresh(g)' /\ (fGpu'.at = "prepares" => fGpu'.flip # g)
          BY <2>1, <2>2, <2>3, <1>2
    <2>6. \A r \in Flips!Range(fDeferred') : r \in Flips!Range(fDeferred) /\ r # g
          BY <2>1, <1>1, <1>2 DEF FlipWorkOK, FlipFresh, FlipPrepared
    <2>7. \A u \in Guests : fGuest'[u].at = "submits" => fGuest'[u] = fGuest[u] /\ fGuest[u].flip # g
          BY <2>1, <1>3
    <2>8. \A r \in DOMAIN fRequest : r # g /\ FlipUnfinished(r) => FlipIsSame(r)
          BY <1>2, FlipStays
    <2>9. fDeferred' \in Seq(DOMAIN fRequest') /\ Flips!IsInjective(fDeferred')
          BY <2>1, <1>2
    <2> QED BY <2>2, <2>4, <2>5, <2>6, <2>7, <2>8, <2>9, <1>1, <1>2, FlipWorkMoves
  <1> QED BY <1>1, <1>2, <1>4, <1>5, <1>6, <1>7, <1>8 DEF FlipsOK

(***************************************************************************)
(* The GPU thread.                                                         *)
(***************************************************************************)

\* The ports and their threads are as they were, but for the GPU thread's.
LEMMA FlipPortsGpu ==
  ASSUME FlipPortsOK, UNCHANGED <<Flips!port, fDriver, fGuest>>, fGpu'.at \notin {"reserves", "full"}
  PROVE  FlipPortsOK'
  BY DEF FlipPortsOK, Flips!port

LEMMA FlipsGpuReserves == ASSUME FlipsOK, Flips!GpuReserves PROVE FlipsOK'
  <1> DEFINE p == fGpu.port
             i == fGpu.index
  <1>0. PICK r : r = Len(fRequest) + 1
        OBVIOUS
  <1>1. /\ FlipListsOK /\ FlipPortsOK /\ FlipWorkOK /\ FlipShownOK /\ FlipFramesOK
        /\ FlipCountsOK /\ ~fFatal
        BY DEF FlipsOK
  <1>2. /\ fGpu.at = "reserves" /\ ~fClosing[p]
        /\ UNCHANGED <<fOpened, fClosing, fGeneration, fDriver, fFatal>>
        /\ UNCHANGED <<fFree, fLast, fSubmissions, fDeferred, fGuest, fPresent>>
        BY DEF Flips!GpuReserves, Flips!Accepts, Flips!port, Flips!pool, Flips!work
  <1>3. p \in Ports /\ i \in Indices /\ fOpened[p] /\ ~fClosing[p]
        BY <1>1, <1>2 DEF FlipPortsOK
  <1>4. CASE Flips!Full
    <2>1. /\ fGpu'.at = "full" /\ fGpu'.port = p /\ fGpu'.index = i
          /\ UNCHANGED <<fGcQueueNum, fRequest, fRequests, fCpuRequests, fCancelled, fProcessing>>
          BY <1>4 DEF Flips!GpuReserves, Flips!status, Flips!queue
    <2>2. FlipListsOK' /\ FlipShownOK'
          BY <2>1, <1>1, <1>2, FlipListsSame, FlipShownSame
    <2>3. FlipWorkOK'
      <3>1. fGpu'.at \notin FlipRecorded \cup {"prepares"}
            BY <2>1 DEF FlipRecorded
      <3> QED BY <3>1, <2>1, <1>1, <1>2, FlipWorkSame
    <2>4. FlipFramesOK'
          BY <2>1, <1>1, <1>2, FlipFramesSame DEF Flips!pool
    <2>5. FlipCountsOK'
          BY <2>1, <1>1, <1>2, FlipCountsSame DEF Flips!port
    <2>6. FlipPortsOK'
          BY <2>1, <1>1, <1>2, <1>3 DEF FlipPortsOK
    <2> QED BY <2>2, <2>3, <2>4, <2>5, <2>6, <1>1, <1>2 DEF FlipsOK
  <1>5. CASE ~Flips!Full
    <2>1. /\ Flips!Reserve(p, i, "GpuEop") /\ fGpu' = [at |-> "prepares", flip |-> r]
          /\ UNCHANGED <<fCancelled, fProcessing>>
          BY <1>0, <1>5 DEF Flips!GpuReserves
    <2>2. fGpu'.at = "prepares" /\ fGpu'.flip = r
          BY <2>1
    <2>3. FlipListsOK' /\ Flips!Queued' = Flips!Queued \cup {r}
          /\ (Flips!Range(fRequests))' = Flips!Range(fRequests) \cup {r}
      <3>1. /\ FlipListsOK' /\ Flips!Queued' = Flips!Queued \cup {r}
            /\ (Flips!Range(fRequests))' = Flips!Range(fRequests) \cup (IF "GpuEop" = "GpuEop" THEN {r} ELSE {})
        <4> HIDE DEF p, i
        <4> QED BY <2>1, <1>0, <1>1, <1>3, FlipReserveLists
      <3> QED BY <3>1
    <2>4. FlipShownOK' /\ FlipFramesOK' /\ FlipCountsOK'
      <3> HIDE DEF p, i
      <3> QED BY <2>1, <2>2, <1>2, <1>3, FlipReserveRest DEF Flips!port, Flips!pool
    <2>5. /\ fSubmissions \in Seq(DOMAIN fRequest') /\ fDeferred \in Seq(DOMAIN fRequest')
          /\ r \notin Flips!Range(fSubmissions) \cup Flips!Range(fDeferred)
      <3> HIDE DEF p, i
      <3> QED BY <2>1, <1>0, <1>1, <1>3, FlipReserveWork
    <2>6. FlipIsReserved(p, "GpuEop") /\ r \notin DOMAIN fRequest
      <3> HIDE DEF p, i
      <3> QED BY <2>1, <1>0, <1>1, <1>3, FlipReserved
    <2> HIDE DEF p, i
    <2>7. FlipPortsOK'
          BY <2>2, <1>1, <1>2, FlipPortsGpu DEF Flips!port
    <2>8. FlipWorkOK'
      <3>1. \A q \in DOMAIN fRequest : q # r /\ FlipUnfinished(q) => FlipIsSame(q)
        <4>1. \A q \in DOMAIN fRequest : q \in DOMAIN fRequest' /\ fRequest'[q] = fRequest[q]
              BY <2>6, <1>0 DEF FlipIsReserved
        <4>2. UNCHANGED <<fCpuRequests, fCancelled>>
              BY <2>1 DEF Flips!Reserve
        <4> QED BY <4>1, <4>2, <2>3 DEF FlipIsSame
      <3>2. FlipGpuHas(r)'
        <4>1. r \in Flips!Queued' /\ fRequest'[r].state = "Reserved"
              BY <2>3, <2>6, <1>0 DEF FlipIsReserved
        <4> QED BY <4>1, <2>2 DEF FlipGpuHas
      <3>3. \A t \in Guests : fGuest'[t].at = "submits" => fGuest'[t] = fGuest[t] /\ fGuest[t].flip # r
        <4>1. \A t \in Guests : fGuest[t].at = "submits" => fGuest[t].flip \in DOMAIN fRequest
              BY <1>1 DEF FlipWorkOK, FlipFresh, FlipListsOK
        <4> QED BY <4>1, <2>6, <1>2
      <3>4. /\ fSubmissions' \in Seq(DOMAIN fRequest') /\ Flips!IsInjective(fSubmissions')
            /\ fDeferred' \in Seq(DOMAIN fRequest') /\ Flips!IsInjective(fDeferred')
            BY <2>5, <1>1, <1>2 DEF FlipWorkOK
      <3>5. /\ \A q \in Flips!Range(fSubmissions') : q \in Flips!Range(fSubmissions) /\ q # r
            /\ \A q \in Flips!Range(fDeferred') : q \in Flips!Range(fDeferred) /\ q # r
            BY <2>5, <1>2
      <3> QED BY <3>1, <3>2, <3>3, <3>4, <3>5, <1>1, FlipWorkMoves
    <2> QED BY <2>3, <2>4, <2>7, <2>8, <1>1, <1>2 DEF FlipsOK
  <1> QED BY <1>4, <1>5

LEMMA FlipsGpuTakesPreparation == ASSUME FlipsOK, Flips!GpuTakesPreparation PROVE FlipsOK'
  <1>0. PICK g : g = Head(fSubmissions)
        OBVIOUS
  <1>1. /\ FlipListsOK /\ FlipPortsOK /\ FlipWorkOK /\ FlipShownOK /\ FlipFramesOK
        /\ FlipCountsOK /\ ~fFatal
        BY DEF FlipsOK
  <1>2. /\ fGpu.at = "idle" /\ fSubmissions # <<>> /\ fGpu'.at = "prepares" /\ fGpu'.flip = g
        /\ fSubmissions' = Tail(fSubmissions)
        /\ UNCHANGED <<fOpened, fClosing, fGeneration, fDriver, fGcQueueNum, fProcessing, fGuest>>
        /\ UNCHANGED <<fPresent, fFatal, fRequest, fRequests, fCpuRequests, fCancelled>>
        /\ UNCHANGED <<fFree, fLast, fDeferred>>
        BY <1>0 DEF Flips!GpuTakesPreparation, Flips!Idle, Flips!port, Flips!status, Flips!queue,
                    Flips!pool
  <1>3. FlipListsOK' /\ FlipShownOK'
        BY <1>1, <1>2, FlipListsSame, FlipShownSame
  <1>4. FlipFramesOK'
        BY <1>1, <1>2, FlipFramesSame DEF Flips!pool
  <1>5. FlipCountsOK'
        BY <1>1, <1>2, FlipCountsSame DEF Flips!port
  <1>6. FlipPortsOK'
        BY <1>1, <1>2, FlipPortsGpu DEF Flips!port
  <1>7. FlipWorkOK'
    <2>1. /\ fSubmissions \in Seq(DOMAIN fRequest) /\ Flips!IsInjective(fSubmissions)
          /\ fDeferred \in Seq(DOMAIN fRequest) /\ Flips!IsInjective(fDeferred)
          /\ \A r \in Flips!Range(fSubmissions) : FlipFresh(r)
          BY <1>1 DEF FlipWorkOK
    <2>2. /\ Tail(fSubmissions) \in Seq(DOMAIN fRequest) /\ Flips!IsInjective(Tail(fSubmissions))
          /\ g \in Flips!Range(fSubmissions) /\ Flips!Range(Tail(fSubmissions)) = Flips!Range(fSubmissions) \ {g}
          BY <2>1, <1>0, <1>2, FlipTail
    <2>3. FlipFresh(g)
          BY <2>1, <2>2
    <2>4. FlipGpuHas(g)'
          BY <2>3, <1>2 DEF FlipGpuHas, FlipFresh, Flips!Queued, FlipRecorded
    <2>5. \A t \in Guests : fGuest'[t].at = "submits" => fGuest'[t] = fGuest[t] /\ fGuest[t].flip # g
          BY <2>2, <1>1, <1>2 DEF FlipWorkOK
    <2>6. \A r \in Flips!Range(fDeferred') : r \in Flips!Range(fDeferred) /\ r # g
          BY <2>3, <1>1, <1>2 DEF FlipWorkOK, FlipFresh, FlipPrepared
    <2>7. \A r \in DOMAIN fRequest : r # g /\ FlipUnfinished(r) => FlipIsSame(r)
          BY <1>2, FlipStays
    <2>8. /\ fSubmissions' \in Seq(DOMAIN fRequest') /\ Flips!IsInjective(fSubmissions')
          /\ fDeferred' \in Seq(DOMAIN fRequest') /\ Flips!IsInjective(fDeferred')
          /\ \A r \in Flips!Range(fSubmissions') : r \in Flips!Range(fSubmissions) /\ r # g
          BY <2>1, <2>2, <1>2
    <2> QED BY <2>4, <2>5, <2>6, <2>7, <2>8, <1>1, FlipWorkMoves
  <1> QED BY <1>1, <1>2, <1>3, <1>4, <1>5, <1>6, <1>7 DEF FlipsOK

\* An unfinished flip is not one that the present thread shows.
LEMMA FlipsPrepareMarks == ASSUME FlipsOK, Flips!PrepareMarks PROVE FlipsOK'
  <1>0. PICK g : g = fGpu.flip
        OBVIOUS
  <1>1. /\ FlipListsOK /\ FlipPortsOK /\ FlipWorkOK /\ FlipShownOK /\ FlipFramesOK
        /\ FlipCountsOK /\ ~fFatal
        BY DEF FlipsOK
  <1>2. /\ fGpu.at = "prepares" /\ fRequest' = [fRequest EXCEPT ![g].state = "Recording"]
        /\ IF g \in Flips!Queued
           THEN /\ fRequests' = IF g \in Flips!Range(fRequests) THEN fRequests ELSE Append(fRequests, g)
                /\ fCpuRequests' = fCpuRequests \ {g}
                /\ fGpu'.at = "looks" /\ fGpu'.flip = g
           ELSE fGpu'.at = "prepared" /\ fGpu'.flip = g /\ UNCHANGED <<fRequests, fCpuRequests>>
        /\ fFatal' = (fFatal \/ g \notin Flips!Queued \cup fCancelled \/ fRequest[g].state # "Reserved")
        /\ UNCHANGED <<fOpened, fClosing, fGeneration, fDriver, fGcQueueNum, fProcessing, fGuest>>
        /\ UNCHANGED <<fPresent, fCancelled, fFree, fLast, fSubmissions, fDeferred>>
        BY <1>0 DEF Flips!PrepareMarks, Flips!port, Flips!status, Flips!pool, Flips!work
  <1>3. /\ g \in Flips!Queued \cup fCancelled /\ g \notin Flips!Range(fSubmissions)
        /\ fRequest[g].state = "Reserved" /\ fRequest[g].frame = None /\ g \in DOMAIN fRequest
        BY <1>0, <1>1, <1>2 DEF FlipWorkOK, FlipListsOK
  <1>4. FlipBecomes(g, "Recording", None)
    <2>1. fRequest \in Seq(FlipRecords) /\ "Recording" \in FlipStates
          BY <1>1 DEF FlipListsOK, FlipStates
    <2> QED BY <2>1, <1>2, <1>3, FlipBecomesState
  <1>5. ~fFatal'
        BY <1>1, <1>2, <1>3
  <1>6. /\ fRequests \in Seq(DOMAIN fRequest) /\ Flips!IsInjective(fRequests)
        /\ fCpuRequests \subseteq DOMAIN fRequest /\ fCancelled \subseteq DOMAIN fRequest
        /\ Flips!Queued \cup fCancelled = {r \in DOMAIN fRequest : fRequest[r].state # "Gone"}
        /\ Flips!Range(fRequests) \cap fCpuRequests = {} /\ Flips!Queued \cap fCancelled = {}
        BY <1>1 DEF FlipListsOK
  <1>7. /\ fRequests' \in Seq(DOMAIN fRequest) /\ Flips!IsInjective(fRequests')
        /\ Flips!Range(fRequests') = Flips!Range(fRequests) \cup (Flips!Queued \cap {g})
        /\ fRequests # <<>> => fRequests' # <<>> /\ Head(fRequests') = Head(fRequests)
    <2>1. CASE g \in Flips!Queued /\ g \notin Flips!Range(fRequests)
      <3>1. fRequests' = Append(fRequests, g)
            BY <2>1, <1>2
      <3> QED BY <2>1, <3>1, <1>3, <1>6, FlipAppended
    <2>2. CASE g \in Flips!Queued /\ g \in Flips!Range(fRequests)
          BY <2>2, <1>2, <1>6
    <2>3. CASE g \notin Flips!Queued
          BY <2>3, <1>2, <1>6
    <2> QED BY <2>1, <2>2, <2>3
  <1>8. fCpuRequests' = fCpuRequests \ {g}
        BY <1>2 DEF Flips!Queued
  <1>9. Flips!Queued' = Flips!Queued
        BY <1>7, <1>8 DEF Flips!Queued
  <1>10. FlipListsOK'
    <2>1. fRequest' \in Seq(FlipRecords) /\ DOMAIN fRequest' = DOMAIN fRequest
          /\ fRequests' \in Seq(DOMAIN fRequest')
          BY <1>4, <1>7 DEF FlipBecomes
    <2>2. Flips!Queued' \cup fCancelled' = {r \in DOMAIN fRequest' : fRequest'[r].state # "Gone"}
      <3>1. \A r \in DOMAIN fRequest : fRequest'[r].state # "Gone" <=> fRequest[r].state # "Gone"
            BY <1>3, <1>4 DEF FlipBecomes
      <3> QED BY <3>1, <2>1, <1>2, <1>6, <1>9
    <2>3. Flips!Range(fRequests') \cap fCpuRequests' = {} /\ Flips!Queued' \cap fCancelled' = {}
          BY <1>2, <1>6, <1>7, <1>8, <1>9
    <2>4. /\ \A r \in fCpuRequests' : fRequest'[r].state = "Reserved" /\ fRequest'[r].source = "Cpu"
          /\ \A r \in fCancelled' : fRequest'[r].state \in {"Reserved", "Recording"}
      <3>1. \A r \in DOMAIN fRequest : r # g => fRequest'[r] = fRequest[r]
            BY <1>4 DEF FlipBecomes
      <3>2. fRequest'[g].state = "Recording"
            BY <1>4 DEF FlipBecomes
      <3> QED BY <3>1, <3>2, <1>1, <1>2, <1>6, <1>8 DEF FlipListsOK
    <2>5. \A r \in DOMAIN fRequest' :
       /\ fRequest'[r].state # "Gone" => /\ fRequest'[r].port \in Ports
                                         /\ fRequest'[r].source \in {"Cpu", "GpuEop"}
       /\ fRequest'[r].state \in {"Reserved", "Gone"} => fRequest'[r].frame = None
       /\ fRequest'[r].state = "Ready" => fRequest'[r].frame # None
      <3> SUFFICES ASSUME NEW r \in DOMAIN fRequest'
                   PROVE  /\ fRequest'[r].state # "Gone" =>
                               fRequest'[r].port \in Ports /\ fRequest'[r].source \in {"Cpu", "GpuEop"}
                          /\ fRequest'[r].state \in {"Reserved", "Gone"} => fRequest'[r].frame = None
                          /\ fRequest'[r].state = "Ready" => fRequest'[r].frame # None
          OBVIOUS
      <3>1. r \in DOMAIN fRequest
            BY <2>1
      <3>2. /\ fRequest[r].state # "Gone" =>
                 fRequest[r].port \in Ports /\ fRequest[r].source \in {"Cpu", "GpuEop"}
            /\ fRequest[r].state \in {"Reserved", "Gone"} => fRequest[r].frame = None
            /\ fRequest[r].state = "Ready" => fRequest[r].frame # None
            BY <3>1, <1>1 DEF FlipListsOK
      <3>3. CASE r # g
        <4>1. fRequest'[r] = fRequest[r]
              BY <3>1, <3>3, <1>4 DEF FlipBecomes
        <4> QED BY <4>1, <3>2
      <3>4. CASE r = g
        <4>1. /\ fRequest'[g].state = "Recording" /\ fRequest'[g].port = fRequest[g].port
              /\ fRequest'[g].source = fRequest[g].source
              BY <1>4 DEF FlipBecomes
        <4> QED BY <4>1, <3>2, <3>4, <1>3
      <3> QED BY <3>3, <3>4
    <2> QED BY <2>1, <2>2, <2>3, <2>4, <2>5, <1>2, <1>6, <1>7, <1>8 DEF FlipListsOK
  <1>11. FlipPortsOK'
    <2>1. fGpu'.at \notin {"reserves", "full"}
          BY <1>2
    <2> QED BY <2>1, <1>1, <1>2, FlipPortsGpu DEF Flips!port
  <1>12. FlipWorkOK'
    <2>1. \A r \in DOMAIN fRequest : r # g /\ FlipUnfinished(r) => FlipIsSame(r)
      <3>1. \A r \in DOMAIN fRequest : r # g => fRequest'[r] = fRequest[r] /\ r \in DOMAIN fRequest'
            BY <1>4 DEF FlipBecomes
      <3> QED BY <3>1, <1>2, <1>7, <1>8 DEF FlipIsSame
    <2>2. /\ fSubmissions' \in Seq(DOMAIN fRequest') /\ Flips!IsInjective(fSubmissions')
          /\ fDeferred' \in Seq(DOMAIN fRequest') /\ Flips!IsInjective(fDeferred')
          BY <1>1, <1>2, <1>4 DEF FlipWorkOK, FlipBecomes
    <2>3. /\ \A r \in Flips!Range(fSubmissions') : r \in Flips!Range(fSubmissions) /\ r # g
          /\ \A r \in Flips!Range(fDeferred') : r \in Flips!Range(fDeferred) /\ r # g
          BY <1>1, <1>2, <1>3 DEF FlipWorkOK, FlipPrepared
    <2>4. \A t \in Guests : fGuest'[t].at = "submits" => fGuest'[t] = fGuest[t] /\ fGuest[t].flip # g
          BY <1>0, <1>1, <1>2 DEF FlipWorkOK
    <2>5. FlipGpuHas(g)'
      <3>1. fRequest'[g].state = "Recording" /\ fRequest'[g].frame = None
            BY <1>4 DEF FlipBecomes
      <3>2. CASE g \in Flips!Queued
            BY <3>1, <3>2, <1>2, <1>7 DEF FlipGpuHas, FlipRecorded
      <3>3. CASE g \notin Flips!Queued
        <4>1. g \in fCancelled' /\ g \notin Flips!Range(fRequests') /\ fGpu'.at = "prepared" /\ fGpu'.flip = g
              BY <3>3, <1>2, <1>3 DEF Flips!Queued
        <4> QED BY <4>1, <3>1 DEF FlipGpuHas, FlipPrepared
      <3> QED BY <3>2, <3>3
    <2> QED BY <2>1, <2>2, <2>3, <2>4, <2>5, <1>1, FlipWorkMoves
  <1>13. FlipShownOK'
    <2>1. fProcessing => fRequests' # <<>> /\ Head(fRequests') = Head(fRequests)
          BY <1>1, <1>7 DEF FlipShownOK
    <2>2. \A r \in Flips!Range(fRequests) : fRequest[r].state \in {"Ready", "Presenting"} =>
           fRequest'[r].state = fRequest[r].state /\ fRequest'[r].frame = fRequest[r].frame
      <3>1. Flips!Range(fRequests) \subseteq DOMAIN fRequest
            BY <1>6 DEF Flips!Range
      <3> QED BY <3>1, <1>3, <1>4 DEF FlipBecomes
    <2>3. \A r \in DOMAIN fRequest' : fRequest'[r].state = "Presenting" =>
           r \in DOMAIN fRequest /\ fRequest[r].state = "Presenting"
          BY <1>4 DEF FlipBecomes
    <2>4. UNCHANGED <<fProcessing, fPresent>>
          BY <1>2
    <2> QED BY <2>1, <2>2, <2>3, <2>4, <1>1, FlipShownMoves
  <1>14. FlipFramesOK'
    <2>1. fRequest \in Seq(FlipRecords) /\ fRequest' \in Seq(FlipRecords)
          /\ DOMAIN fRequest' = DOMAIN fRequest
          /\ \A r \in DOMAIN fRequest : fRequest'[r].frame = fRequest[r].frame
          BY <1>1, <1>3, <1>4 DEF FlipBecomes, FlipListsOK
    <2>2. "assigns" \notin {fGpu.at, fGpu'.at}
          BY <1>2
    <2> QED BY <2>1, <2>2, <1>1, <1>2, FlipFramesKept DEF Flips!pool
  <1>15. FlipCountsOK'
    <2>1. \A r \in Flips!Queued' : /\ fRequest'[r].port = fRequest[r].port
                                   /\ fRequest'[r].generation = fRequest[r].generation
                                   /\ fRequest'[r].source = fRequest[r].source
          BY <1>4, <1>6, <1>9 DEF FlipBecomes
    <2>2. \A r \in Flips!Queued : Flips!Current(r) /\ fRequest[r].source = "GpuEop" =>
           (r \in Flips!Range(fRequests') <=> r \in Flips!Range(fRequests))
      <3>1. \A r \in Flips!Queued : fRequest[r].source = "GpuEop" => r \in Flips!Range(fRequests)
            BY <1>1 DEF FlipListsOK, Flips!Queued
      <3> QED BY <3>1, <1>7
    <2> QED BY <2>1, <2>2, <1>1, <1>2, <1>9, FlipCountsMoves DEF Flips!port
  <1> QED BY <1>1, <1>5, <1>10, <1>11, <1>12, <1>13, <1>14, <1>15 DEF FlipsOK

\* What is shown is not what is recorded.
LEMMA FlipShownReady ==
  ASSUME FlipListsOK, FlipShownOK, fProcessing
  PROVE  /\ fRequests # <<>> /\ Head(fRequests) = fPresent.flip /\ fPresent.flip \in Flips!Range(fRequests)
         /\ fPresent.flip \in DOMAIN fRequest
         /\ fRequest[fPresent.flip].state \in {"Ready", "Presenting"}
  <1>1. fRequests # <<>> /\ Head(fRequests) = fPresent.flip
        /\ fRequest[fPresent.flip].state \in {"Ready", "Presenting"}
        BY DEF FlipShownOK
  <1>2. fRequests \in Seq(DOMAIN fRequest)
        BY DEF FlipListsOK
  <1> QED BY <1>1, <1>2, FlipTail

LEMMA FlipsPrepareLooks == ASSUME FlipsOK, Flips!PrepareLooks PROVE FlipsOK'
  <1>0. PICK g : g = fGpu.flip
        OBVIOUS
  <1>1. /\ FlipListsOK /\ FlipPortsOK /\ FlipWorkOK /\ FlipShownOK /\ FlipFramesOK
        /\ FlipCountsOK /\ ~fFatal
        BY DEF FlipsOK
  <1>2. /\ fGpu.at = "looks" /\ fGpu'.flip = g
        /\ IF Flips!Current(g) THEN fGpu'.at = "acquires" /\ UNCHANGED <<fRequests, fCancelled>>
           ELSE /\ fGpu'.at = "prepared" /\ fRequests' \in Flips!Kept(fRequests, Flips!Range(fRequests) \ {g})
                /\ fCancelled' = fCancelled \cup (Flips!Range(fRequests) \cap {g})
        /\ UNCHANGED <<fOpened, fClosing, fGeneration, fDriver, fGcQueueNum, fProcessing, fGuest, fFatal>>
        /\ UNCHANGED <<fPresent, fRequest, fCpuRequests, fFree, fLast, fSubmissions, fDeferred>>
        BY <1>0 DEF Flips!PrepareLooks, Flips!port, Flips!status, Flips!pool, Flips!work
  <1>3. /\ g \in Flips!Range(fRequests) \cup fCancelled /\ g \notin Flips!Range(fDeferred)
        /\ fRequest[g].state = "Recording" /\ fRequest[g].frame = None
        BY <1>0, <1>1, <1>2 DEF FlipWorkOK, FlipRecorded
  <1>4. /\ fRequests \in Seq(DOMAIN fRequest) /\ Flips!IsInjective(fRequests)
        /\ Flips!Range(fRequests) \subseteq DOMAIN fRequest
        /\ Flips!Queued \cup fCancelled = {r \in DOMAIN fRequest : fRequest[r].state # "Gone"}
        /\ Flips!Range(fRequests) \cap fCpuRequests = {} /\ Flips!Queued \cap fCancelled = {}
        BY <1>1 DEF FlipListsOK, Flips!Queued
  <1> DEFINE D == IF Flips!Current(g) THEN {} ELSE {g}
  <1>5. /\ fRequests' \in Seq(DOMAIN fRequest) /\ Flips!IsInjective(fRequests')
        /\ Flips!Range(fRequests') = Flips!Range(fRequests) \ D
        /\ fCancelled' = fCancelled \cup (Flips!Range(fRequests) \cap D)
    <2>1. CASE Flips!Current(g)
          BY <2>1, <1>2, <1>4
    <2>2. CASE ~Flips!Current(g)
      <3>1. fRequests' \in Flips!Kept(fRequests, Flips!Range(fRequests) \ {g})
            BY <2>2, <1>2
      <3>2. /\ fRequests' \in Seq(DOMAIN fRequest) /\ Flips!IsInjective(fRequests')
            /\ Flips!Range(fRequests') = Flips!Range(fRequests) \cap (Flips!Range(fRequests) \ {g})
            BY <3>1, <1>4, FlipKept
      <3> QED BY <3>2, <2>2, <1>2
    <2> QED BY <2>1, <2>2
  <1>6. fProcessing => fRequests' # <<>> /\ Head(fRequests') = Head(fRequests)
    <2> SUFFICES ASSUME fProcessing PROVE fRequests' # <<>> /\ Head(fRequests') = Head(fRequests)
        OBVIOUS
    <2>1. /\ fRequests # <<>> /\ Head(fRequests) \in Flips!Range(fRequests)
          /\ fRequest[Head(fRequests)].state # "Recording"
          BY <1>1, FlipShownReady
    <2>2. CASE Flips!Current(g)
          BY <2>1, <2>2, <1>2
    <2>3. CASE ~Flips!Current(g)
      <3>1. fRequests' \in Flips!Kept(fRequests, Flips!Range(fRequests) \ {g})
            BY <2>3, <1>2
      <3>2. Head(fRequests) \in Flips!Range(fRequests) \ {g}
            BY <2>1, <1>3
      <3> QED BY <2>1, <3>1, <3>2, <1>4, FlipKept
    <2> QED BY <2>2, <2>3
  <1>7. D \subseteq {g} /\ (D # {} => ~Flips!Current(g))
        OBVIOUS
  <1>8. fGpu'.at = (IF Flips!Current(g) THEN "acquires" ELSE "prepared") /\ (~Flips!Current(g) => D = {g})
        BY <1>2
  <1> HIDE DEF D
  <1>9. Flips!Queued' = Flips!Queued \ (D \cap Flips!Range(fRequests)) /\ Flips!Queued' \cup fCancelled' = Flips!Queued \cup fCancelled
        BY <1>2, <1>4, <1>5 DEF Flips!Queued
  <1>10. FlipListsOK'
    <2>1. fCancelled' \subseteq DOMAIN fRequest'
          BY <1>1, <1>2, <1>4, <1>5 DEF FlipListsOK
    <2>2. Flips!Range(fRequests') \cap fCpuRequests' = {} /\ Flips!Queued' \cap fCancelled' = {}
          BY <1>2, <1>4, <1>5, <1>9 DEF Flips!Queued
    <2>3. \A r \in fCancelled' : fRequest'[r].state \in {"Reserved", "Recording"}
          BY <1>1, <1>2, <1>3, <1>5, <1>7 DEF FlipListsOK
    <2>4. Flips!Queued' \cup fCancelled' = {r \in DOMAIN fRequest' : fRequest'[r].state # "Gone"}
          BY <1>2, <1>4, <1>9
    <2> QED BY <2>1, <2>2, <2>3, <2>4, <1>1, <1>2, <1>5 DEF FlipListsOK
  <1>11. FlipPortsOK'
    <2>1. fGpu'.at \notin {"reserves", "full"}
          BY <1>8
    <2> QED BY <2>1, <1>1, <1>2, FlipPortsGpu DEF Flips!port
  <1>12. FlipWorkOK'
    <2>1. \A r \in DOMAIN fRequest : r # g /\ FlipUnfinished(r) => FlipIsSame(r)
          BY <1>2, <1>5, <1>7 DEF FlipIsSame
    <2>2. /\ fSubmissions' \in Seq(DOMAIN fRequest') /\ Flips!IsInjective(fSubmissions')
          /\ fDeferred' \in Seq(DOMAIN fRequest') /\ Flips!IsInjective(fDeferred')
          BY <1>1, <1>2 DEF FlipWorkOK
    <2>3. /\ \A r \in Flips!Range(fSubmissions') : r \in Flips!Range(fSubmissions) /\ r # g
          /\ \A r \in Flips!Range(fDeferred') : r \in Flips!Range(fDeferred) /\ r # g
          BY <1>1, <1>2, <1>3 DEF FlipWorkOK, FlipFresh
    <2>4. \A t \in Guests : fGuest'[t].at = "submits" => fGuest'[t] = fGuest[t] /\ fGuest[t].flip # g
          BY <1>1, <1>2, <1>3 DEF FlipWorkOK, FlipFresh
    <2>5. FlipGpuHas(g)'
      <3>1. fRequest'[g].state = "Recording" /\ fRequest'[g].frame = None
            BY <1>2, <1>3
      <3>2. g \in Flips!Range(fRequests') \cup fCancelled'
            BY <1>3, <1>5
      <3>3. ~Flips!Current(g) => g \notin Flips!Range(fRequests')
            BY <1>5, <1>8
      <3> QED BY <3>1, <3>2, <3>3, <1>2, <1>8 DEF FlipGpuHas, FlipPrepared, FlipRecorded
    <2> QED BY <2>1, <2>2, <2>3, <2>4, <2>5, <1>1, FlipWorkMoves
  <1>13. FlipShownOK'
    <2>1. /\ \A r \in Flips!Range(fRequests) : fRequest[r].state \in {"Ready", "Presenting"} =>
              fRequest'[r].state = fRequest[r].state /\ fRequest'[r].frame = fRequest[r].frame
          /\ \A r \in DOMAIN fRequest' : fRequest'[r].state = "Presenting" =>
              r \in DOMAIN fRequest /\ fRequest[r].state = "Presenting"
          /\ UNCHANGED <<fProcessing, fPresent>>
          BY <1>2
    <2> QED BY <2>1, <1>1, <1>6, FlipShownMoves
  <1>14. FlipFramesOK'
    <2>1. "assigns" \notin {fGpu.at, fGpu'.at}
          BY <1>2, <1>8
    <2> QED BY <2>1, <1>1, <1>2, FlipFramesSame DEF Flips!pool
  <1>15. FlipCountsOK'
    <2>1. Flips!Queued' \subseteq Flips!Queued
          BY <1>9
    <2>2. \A r \in Flips!Queued : Flips!Current(r) /\ fRequest[r].source = "GpuEop" =>
           (r \in Flips!Range(fRequests') <=> r \in Flips!Range(fRequests))
          BY <1>5, <1>7
    <2>3. \A r \in Flips!Queued' : /\ fRequest'[r].port = fRequest[r].port
                                   /\ fRequest'[r].generation = fRequest[r].generation
                                   /\ fRequest'[r].source = fRequest[r].source
          BY <1>2
    <2> QED BY <2>1, <2>2, <2>3, <1>1, <1>2, FlipCountsMoves DEF Flips!port
  <1> QED BY <1>1, <1>2, <1>10, <1>11, <1>12, <1>13, <1>14, <1>15 DEF FlipsOK

LEMMA FlipsPrepareAcquires == ASSUME FlipsOK, Flips!PrepareAcquires PROVE FlipsOK'
  <1>0. PICK g : g = fGpu.flip
        OBVIOUS
  <1>1. /\ FlipListsOK /\ FlipPortsOK /\ FlipWorkOK /\ FlipShownOK /\ FlipFramesOK
        /\ FlipCountsOK /\ ~fFatal
        BY DEF FlipsOK
  <1>2. /\ fGpu.at = "acquires" /\ fGpu'.at = "assigns" /\ fGpu'.flip = g /\ fGpu'.frame = Head(fFree)
        /\ fFree # <<>> /\ fFree' = Tail(fFree)
        /\ fLast' = IF fLast = Head(fFree) THEN None ELSE fLast
        /\ UNCHANGED <<fOpened, fClosing, fGeneration, fDriver, fGcQueueNum, fProcessing, fGuest, fFatal>>
        /\ UNCHANGED <<fPresent, fRequest, fRequests, fCpuRequests, fCancelled, fSubmissions, fDeferred>>
        BY <1>0 DEF Flips!PrepareAcquires, Flips!Acquire, Flips!port, Flips!status, Flips!queue,
                    Flips!work
  <1>3. FlipListsOK' /\ FlipShownOK'
        BY <1>1, <1>2, FlipListsSame, FlipShownSame
  <1>4. FlipPortsOK'
        BY <1>1, <1>2, FlipPortsGpu DEF Flips!port
  <1>5. FlipCountsOK'
        BY <1>1, <1>2, FlipCountsSame DEF Flips!port
  <1>6. FlipWorkOK'
    <2>1. \A r \in DOMAIN fRequest : r # g /\ FlipUnfinished(r) => FlipIsSame(r)
          BY <1>2, FlipStays
    <2>2. /\ g \in Flips!Range(fRequests) \cup fCancelled /\ g \notin Flips!Range(fDeferred)
          /\ fRequest[g].state = "Recording" /\ fRequest[g].frame = None
          BY <1>0, <1>1, <1>2 DEF FlipWorkOK, FlipRecorded
    <2>3. /\ fSubmissions' \in Seq(DOMAIN fRequest') /\ Flips!IsInjective(fSubmissions')
          /\ fDeferred' \in Seq(DOMAIN fRequest') /\ Flips!IsInjective(fDeferred')
          BY <1>1, <1>2 DEF FlipWorkOK
    <2>4. /\ \A r \in Flips!Range(fSubmissions') : r \in Flips!Range(fSubmissions) /\ r # g
          /\ \A r \in Flips!Range(fDeferred') : r \in Flips!Range(fDeferred) /\ r # g
          BY <1>1, <1>2, <2>2 DEF FlipWorkOK, FlipFresh
    <2>5. \A t \in Guests : fGuest'[t].at = "submits" => fGuest'[t] = fGuest[t] /\ fGuest[t].flip # g
          BY <1>1, <1>2, <2>2 DEF FlipWorkOK, FlipFresh
    <2>6. FlipGpuHas(g)'
          BY <2>2, <1>2 DEF FlipGpuHas, FlipRecorded
    <2> QED BY <2>1, <2>3, <2>4, <2>5, <2>6, <1>1, FlipWorkMoves
  <1>7. FlipFramesOK'
    <2>1. fRequest \in Seq(FlipRecords)
          BY <1>1 DEF FlipListsOK
    <2>2. \A h \in Int : FlipHeldBy(fRequest, fGpu', fPresent)[h]
                           = IF h = -1 THEN Head(fFree) ELSE FlipHeldBy(fRequest, fGpu, fPresent)[h]
      <3> SUFFICES ASSUME NEW h \in Int
                   PROVE  FlipHeldBy(fRequest, fGpu', fPresent)[h]
                            = IF h = -1 THEN Head(fFree) ELSE FlipHeldBy(fRequest, fGpu, fPresent)[h]
          OBVIOUS
      <3>1. CASE h \in DOMAIN fRequest
            BY <3>1, <2>1, FlipHolders
      <3>2. CASE h = -1
            BY <3>2, <1>2, <2>1, FlipHolders
      <3>3. CASE h = -2
            BY <3>3, <2>1, FlipHolders
      <3>4. CASE h \notin DOMAIN fRequest /\ h # -1 /\ h # -2
            BY <3>4, <2>1, FlipHolders
      <3> QED BY <3>1, <3>2, <3>3, <3>4
    <2>3. FlipHeldBy(fRequest, fGpu, fPresent)[-1] = None
          BY <1>2, <2>1, FlipHolders
    <2>4. FlipFramesAt(fFree, FlipHeldBy(fRequest, fGpu, fPresent)) /\ fLast \in Flips!Range(fFree) \cup {None}
          BY <1>1 DEF FlipFramesOK, FlipHeld
    <2>5. FlipFramesAt(Tail(fFree), FlipHeldBy(fRequest, fGpu', fPresent))
          BY <2>2, <2>3, <2>4, <1>2, FrameTaken
    <2>6a. fGpu'.frame \in Frames /\ (fPresent.at = "shows" => fPresent.frame \in Frames)
          BY <2>2, <2>3, <2>4, <1>1, <1>2, FrameTaken DEF FlipFramesOK
    <2>6. fLast' \in Flips!Range(Tail(fFree)) \cup {None}
      <3>1. Flips!Range(fFree) = Flips!Range(Tail(fFree)) \cup {Head(fFree)}
            BY <2>4, <1>2, FlipTail DEF FlipFramesAt
      <3> QED BY <3>1, <2>4, <1>2
    <2> QED BY <2>5, <2>6, <2>6a, <1>2 DEF FlipFramesOK, FlipHeld
  <1> QED BY <1>1, <1>2, <1>3, <1>4, <1>5, <1>6, <1>7 DEF FlipsOK

LEMMA FlipsPrepareAssigns == ASSUME FlipsOK, Flips!PrepareAssigns PROVE FlipsOK'
  <1>0. PICK g : g = fGpu.flip
        OBVIOUS
  <1>1. /\ FlipListsOK /\ FlipPortsOK /\ FlipWorkOK /\ FlipShownOK /\ FlipFramesOK
        /\ FlipCountsOK /\ ~fFatal
        BY DEF FlipsOK
  <1>2. /\ fGpu.at = "assigns" /\ fGpu'.at = "prepared" /\ fGpu'.flip = g
        /\ fRequest' = [fRequest EXCEPT ![g].frame = fGpu.frame]
        /\ fFatal' = (fFatal \/ g \notin Flips!Range(fRequests) \cup fCancelled
                             \/ fRequest[g].state # "Recording" \/ fRequest[g].frame # None)
        /\ UNCHANGED <<fOpened, fClosing, fGeneration, fDriver, fGcQueueNum, fProcessing, fGuest>>
        /\ UNCHANGED <<fPresent, fRequests, fCpuRequests, fCancelled, fFree, fLast>>
        /\ UNCHANGED <<fSubmissions, fDeferred>>
        BY <1>0 DEF Flips!PrepareAssigns, Flips!port, Flips!status, Flips!pool, Flips!work
  <1>3. /\ g \in Flips!Range(fRequests) \cup fCancelled /\ g \notin Flips!Range(fDeferred)
        /\ fRequest[g].state = "Recording" /\ fRequest[g].frame = None
        BY <1>0, <1>1, <1>2 DEF FlipWorkOK, FlipRecorded
  <1>4. /\ fRequest \in Seq(FlipRecords) /\ Flips!Range(fRequests) \subseteq DOMAIN fRequest
        /\ fCancelled \subseteq DOMAIN fRequest /\ g \in DOMAIN fRequest
        BY <1>1, <1>3 DEF FlipListsOK, Flips!Range
  <1>5. fGpu.frame \in Frames
        BY <1>1, <1>2 DEF FlipFramesOK
  <1>6. FlipBecomes(g, "Recording", fGpu.frame) /\ fGpu.frame # None
    <2>1. fGpu.frame # None
          BY <1>5, FlipAssumes DEF Flips!FlipAssumption
    <2> QED BY <2>1, <1>2, <1>3, <1>4, <1>5, FlipBecomesFrame
  <1>7. ~fFatal'
        BY <1>1, <1>2, <1>3
  <1>8. /\ fRequest' \in Seq(FlipRecords) /\ DOMAIN fRequest' = DOMAIN fRequest
        /\ \A r \in DOMAIN fRequest : fRequest'[r].state = fRequest[r].state
                                    /\ fRequest'[r].port = fRequest[r].port
                                    /\ fRequest'[r].generation = fRequest[r].generation
                                    /\ fRequest'[r].source = fRequest[r].source
                                    /\ (r # g => fRequest'[r] = fRequest[r])
        BY <1>3, <1>6 DEF FlipBecomes
  <1>9. Flips!Queued' = Flips!Queued /\ Flips!Queued \subseteq DOMAIN fRequest
        BY <1>1, <1>2 DEF Flips!Queued, FlipListsOK
  <1>10. FlipListsOK'
    <2>1. Flips!Queued' \cup fCancelled' = {r \in DOMAIN fRequest' : fRequest'[r].state # "Gone"}
          BY <1>1, <1>2, <1>8, <1>9 DEF FlipListsOK
    <2>2. /\ \A r \in fCpuRequests' : fRequest'[r].state = "Reserved" /\ fRequest'[r].source = "Cpu"
          /\ \A r \in fCancelled' : fRequest'[r].state \in {"Reserved", "Recording"}
          BY <1>1, <1>2, <1>8 DEF FlipListsOK
    <2>3. \A r \in DOMAIN fRequest' :
       /\ fRequest'[r].state # "Gone" => /\ fRequest'[r].port \in Ports
                                         /\ fRequest'[r].source \in {"Cpu", "GpuEop"}
       /\ fRequest'[r].state \in {"Reserved", "Gone"} => fRequest'[r].frame = None
       /\ fRequest'[r].state = "Ready" => fRequest'[r].frame # None
          BY <1>1, <1>3, <1>8 DEF FlipListsOK
    <2>4. Flips!Queued' \cap fCancelled' = {}
          BY <1>1, <1>2, <1>9 DEF FlipListsOK
    <2> QED BY <2>1, <2>2, <2>3, <2>4, <1>1, <1>2, <1>8 DEF FlipListsOK
  <1>11. FlipPortsOK'
        BY <1>1, <1>2, FlipPortsGpu DEF Flips!port
  <1>12. FlipWorkOK'
    <2>1. \A r \in DOMAIN fRequest : r # g /\ FlipUnfinished(r) => FlipIsSame(r)
          BY <1>2, <1>8 DEF FlipIsSame
    <2>2. /\ fSubmissions' \in Seq(DOMAIN fRequest') /\ Flips!IsInjective(fSubmissions')
          /\ fDeferred' \in Seq(DOMAIN fRequest') /\ Flips!IsInjective(fDeferred')
          BY <1>1, <1>2, <1>8 DEF FlipWorkOK
    <2>3. /\ \A r \in Flips!Range(fSubmissions') : r \in Flips!Range(fSubmissions) /\ r # g
          /\ \A r \in Flips!Range(fDeferred') : r \in Flips!Range(fDeferred) /\ r # g
          BY <1>1, <1>2, <1>3 DEF FlipWorkOK, FlipFresh
    <2>4. \A t \in Guests : fGuest'[t].at = "submits" => fGuest'[t] = fGuest[t] /\ fGuest[t].flip # g
          BY <1>1, <1>2, <1>3 DEF FlipWorkOK, FlipFresh
    <2>5. FlipGpuHas(g)'
      <3>1. fRequest'[g].state = "Recording" /\ fRequest'[g].frame # None
            BY <1>6 DEF FlipBecomes
      <3> QED BY <3>1, <1>2, <1>3 DEF FlipGpuHas, FlipPrepared, FlipRecorded
    <2> QED BY <2>1, <2>2, <2>3, <2>4, <2>5, <1>1, FlipWorkMoves
  <1>13. FlipShownOK'
    <2>1. fProcessing => fRequests' # <<>> /\ Head(fRequests') = Head(fRequests)
          BY <1>1, <1>2 DEF FlipShownOK
    <2>2. \A r \in Flips!Range(fRequests) : fRequest[r].state \in {"Ready", "Presenting"} =>
           fRequest'[r].state = fRequest[r].state /\ fRequest'[r].frame = fRequest[r].frame
          BY <1>3, <1>4, <1>8
    <2>3. \A r \in DOMAIN fRequest' : fRequest'[r].state = "Presenting" =>
           r \in DOMAIN fRequest /\ fRequest[r].state = "Presenting"
          BY <1>8
    <2>4. UNCHANGED <<fProcessing, fPresent>>
          BY <1>2
    <2> QED BY <2>1, <2>2, <2>3, <2>4, <1>1, FlipShownMoves
  <1>14. FlipFramesOK'
    <2>1. \A h \in Int : FlipHeldBy(fRequest', fGpu', fPresent)[h]
            = IF h = -1 THEN None ELSE IF h = g THEN FlipHeldBy(fRequest, fGpu, fPresent)[-1]
              ELSE FlipHeldBy(fRequest, fGpu, fPresent)[h]
      <3> SUFFICES ASSUME NEW h \in Int
                   PROVE  FlipHeldBy(fRequest', fGpu', fPresent)[h]
            = IF h = -1 THEN None ELSE IF h = g THEN FlipHeldBy(fRequest, fGpu, fPresent)[-1]
              ELSE FlipHeldBy(fRequest, fGpu, fPresent)[h]
          OBVIOUS
      <3>1. CASE h = -1
        <4>1. fRequest' \in Seq(FlipRecords) /\ fGpu'.at # "assigns"
              BY <1>2, <1>8
        <4>2. FlipHeldBy(fRequest', fGpu', fPresent)[-1] = IF fGpu'.at = "assigns" THEN fGpu'.frame ELSE None
              BY <4>1, FlipHolders
        <4>3. FlipHeldBy(fRequest', fGpu', fPresent)[-1] = None
              BY <4>1, <4>2
        <4> QED BY <4>3, <3>1
      <3>2. CASE h = g
        <4>1. FlipHeldBy(fRequest', fGpu', fPresent)[h] = fGpu.frame
          <5>1. FlipHeldBy(fRequest', fGpu', fPresent)[g] = fRequest'[g].frame
                BY <1>4, <1>8, FlipHolders
          <5> QED BY <5>1, <3>2, <1>6 DEF FlipBecomes
        <4>2. FlipHeldBy(fRequest, fGpu, fPresent)[-1] = fGpu.frame /\ h # -1
              BY <3>2, <1>2, <1>4, FlipHolders
        <4> QED BY <4>1, <4>2, <3>2
      <3>3. CASE h \in DOMAIN fRequest /\ h # g
        <4>1. /\ FlipHeldBy(fRequest', fGpu', fPresent)[h] = fRequest'[h].frame
              /\ FlipHeldBy(fRequest, fGpu, fPresent)[h] = fRequest[h].frame /\ h # -1
              BY <3>3, <1>4, <1>8, FlipHolders
        <4> QED BY <4>1, <3>3, <1>8
      <3>4. CASE h = -2
        <4>1. FlipHeldBy(fRequest', fGpu', fPresent)[-2] = FlipHeldBy(fRequest, fGpu, fPresent)[-2] /\ g # -2
              BY <1>4, <1>8, FlipHolders
        <4> QED BY <4>1, <3>4
      <3>5. CASE h \notin DOMAIN fRequest /\ h # -1 /\ h # -2
        <4>1. FlipHeldBy(fRequest', fGpu', fPresent)[h] = None /\ FlipHeldBy(fRequest, fGpu, fPresent)[h] = None
              BY <3>5, <1>4, <1>8, FlipHolders
        <4> QED BY <4>1, <3>5, <1>4
      <3> QED BY <3>1, <3>2, <3>3, <3>4, <3>5
    <2>2. FlipHeldBy(fRequest, fGpu, fPresent)[g] = None
          BY <1>3, <1>4, FlipHolders
    <2>3. FlipFramesAt(fFree, FlipHeldBy(fRequest, fGpu, fPresent)) /\ fLast \in Flips!Range(fFree) \cup {None}
          /\ (fPresent.at = "shows" => fPresent.frame \in Frames)
          BY <1>1 DEF FlipFramesOK, FlipHeld
    <2>4. g \in Int /\ -1 \in Int
          BY <1>4
    <2>5. FlipFramesAt(fFree, FlipHeldBy(fRequest', fGpu', fPresent))
          BY <2>1, <2>2, <2>3, <2>4, FramePassed
    <2> QED BY <2>3, <2>5, <1>2 DEF FlipFramesOK, FlipHeld
  <1>15. FlipCountsOK'
    <2>1. \A r \in Flips!Queued' : /\ fRequest'[r].port = fRequest[r].port
                                   /\ fRequest'[r].generation = fRequest[r].generation
                                   /\ fRequest'[r].source = fRequest[r].source
          BY <1>8, <1>9
    <2> QED BY <2>1, <1>1, <1>2, <1>9, FlipCountsMoves DEF Flips!port
  <1> QED BY <1>1, <1>7, <1>10, <1>11, <1>12, <1>13, <1>14, <1>15 DEF FlipsOK

\* What the holders outside C hold is as it was.
LEMMA FlipHeldChange ==
  ASSUME fRequest \in Seq(FlipRecords), fRequest' \in Seq(FlipRecords),
         DOMAIN fRequest' = DOMAIN fRequest, NEW C,
         \A r \in DOMAIN fRequest : r \notin C => fRequest'[r].frame = fRequest[r].frame,
         -1 \in C \/ fGpu' = fGpu \/ "assigns" \notin {fGpu.at, fGpu'.at},
         -2 \in C \/ fPresent' = fPresent \/ "shows" \notin {fPresent.at, fPresent'.at}
  PROVE  \A h \in Int : h \notin C =>
           FlipHeldBy(fRequest', fGpu', fPresent')[h] = FlipHeldBy(fRequest, fGpu, fPresent)[h]
  <1> SUFFICES ASSUME NEW h \in Int, h \notin C
               PROVE  FlipHeldBy(fRequest', fGpu', fPresent')[h] = FlipHeldBy(fRequest, fGpu, fPresent)[h]
      OBVIOUS
  <1>1. CASE h \in DOMAIN fRequest
    <2>1. FlipHeldBy(fRequest', fGpu', fPresent')[h] = fRequest'[h].frame /\ FlipHeldBy(fRequest, fGpu, fPresent)[h] = fRequest[h].frame
          BY <1>1, FlipHolders
    <2> QED BY <2>1, <1>1
  <1>2. CASE h = -1
    <2>1. FlipHeldBy(fRequest', fGpu', fPresent')[-1] = FlipHeldBy(fRequest, fGpu, fPresent)[-1]
          BY <1>2, FlipHolders
    <2> QED BY <2>1, <1>2
  <1>3. CASE h = -2
    <2>1. FlipHeldBy(fRequest', fGpu', fPresent')[-2] = FlipHeldBy(fRequest, fGpu, fPresent)[-2]
          BY <1>3, FlipHolders
    <2> QED BY <2>1, <1>3
  <1>4. CASE h \notin DOMAIN fRequest /\ h # -1 /\ h # -2
    <2>1. FlipHeldBy(fRequest', fGpu', fPresent')[h] = None /\ FlipHeldBy(fRequest, fGpu, fPresent)[h] = None
          BY <1>4, FlipHolders
    <2> QED BY <2>1
  <1> QED BY <1>1, <1>2, <1>3, <1>4

(***************************************************************************)
(* Completing a flip.                                                      *)
(***************************************************************************)

\* A prepared flip becomes ready, or a cancelled one leaves with its frame.
LEMMA FlipCompleted ==
  ASSUME FlipsOK, NEW g, FlipPrepared(g), Flips!Complete(g),
         UNCHANGED <<Flips!port, fDriver, fGcQueueNum, fRequests, fCpuRequests, fProcessing>>,
         UNCHANGED <<fSubmissions, fGuest, fPresent>>,
         fDeferred' \in Seq(DOMAIN fRequest), Flips!IsInjective(fDeferred'),
         \A r \in Flips!Range(fDeferred') : r \in Flips!Range(fDeferred) /\ r # g,
         \/ fGpu' = fGpu /\ (fGpu.at \in FlipRecorded => fGpu.flip # g)
         \/ fGpu'.at = "idle" /\ fGpu.at # "assigns"
  PROVE  FlipsOK'
  <1>1. /\ FlipListsOK /\ FlipPortsOK /\ FlipWorkOK /\ FlipShownOK /\ FlipFramesOK
        /\ FlipCountsOK /\ ~fFatal
        BY DEF FlipsOK
  <1>2. /\ g \in Flips!Range(fRequests) \cup fCancelled /\ fRequest[g].state = "Recording"
        /\ (g \in Flips!Range(fRequests) => fRequest[g].frame # None)
        BY DEF FlipPrepared
  <1>3. /\ fRequest \in Seq(FlipRecords) /\ Flips!Range(fRequests) \subseteq DOMAIN fRequest
        /\ fCancelled \subseteq DOMAIN fRequest /\ g \in DOMAIN fRequest
        /\ Flips!Range(fRequests) \cap fCancelled = {} /\ fCpuRequests \cap fCancelled = {}
        /\ fCpuRequests \subseteq DOMAIN fRequest
        /\ Flips!Queued \cup fCancelled = {r \in DOMAIN fRequest : fRequest[r].state # "Gone"}
        BY <1>1, <1>2 DEF FlipListsOK, Flips!Range, Flips!Queued
  <1>4. Flips!Queued' = Flips!Queued /\ Flips!Range(fRequests') = Flips!Range(fRequests)
        BY DEF Flips!Queued
  <1>5. /\ fRequest' \in Seq(FlipRecords) /\ DOMAIN fRequest' = DOMAIN fRequest
        /\ \A r \in DOMAIN fRequest : r # g => fRequest'[r] = fRequest[r]
        /\ fCancelled' = fCancelled \ {g} /\ ~fFatal'
        /\ fRequest'[g].state = IF g \in Flips!Range(fRequests) THEN "Ready" ELSE "Gone"
        /\ fRequest'[g].frame = IF g \in Flips!Range(fRequests) THEN fRequest[g].frame ELSE None
        /\ g \in Flips!Range(fRequests) => /\ fRequest'[g].port = fRequest[g].port
                                           /\ fRequest'[g].generation = fRequest[g].generation
                                           /\ fRequest'[g].source = fRequest[g].source
        /\ g \in Flips!Range(fRequests) => UNCHANGED Flips!pool
        /\ g \notin Flips!Range(fRequests) =>
             /\ fFree' = IF fRequest[g].frame = None THEN fFree ELSE Append(fFree, fRequest[g].frame)
             /\ fLast' = fLast
    <2>1. CASE g \in Flips!Range(fRequests)
      <3>1. /\ fRequest' = [fRequest EXCEPT ![g].state = "Ready"] /\ UNCHANGED <<fCancelled, Flips!pool>>
            /\ fFatal' = (fFatal \/ fRequest[g].state # "Recording" \/ fRequest[g].frame = None)
            BY <2>1 DEF Flips!Complete
      <3>2. FlipBecomes(g, "Ready", fRequest[g].frame)
            BY <3>1, <1>3, FlipBecomesState DEF FlipStates
      <3>3. /\ fRequest' \in Seq(FlipRecords) /\ DOMAIN fRequest' = DOMAIN fRequest
            /\ \A r \in DOMAIN fRequest : r # g => fRequest'[r] = fRequest[r]
            /\ fRequest'[g].state = "Ready" /\ fRequest'[g].frame = fRequest[g].frame
            /\ fRequest'[g].port = fRequest[g].port
            /\ fRequest'[g].generation = fRequest[g].generation
            /\ fRequest'[g].source = fRequest[g].source
            BY <3>2 DEF FlipBecomes
      <3>4. ~fFatal' /\ fCancelled' = fCancelled \ {g}
            BY <3>1, <2>1, <1>1, <1>2, <1>3
      <3> QED BY <3>1, <3>3, <3>4, <2>1
    <2>2. CASE g \notin Flips!Range(fRequests)
      <3>1. /\ fRequest' = [fRequest EXCEPT ![g] = Flips!Gone] /\ fCancelled' = fCancelled \ {g}
            /\ fFatal' = (fFatal \/ g \notin fCancelled \/ fRequest[g].state # "Recording")
            /\ fFree' = IF fRequest[g].frame = None THEN fFree ELSE Append(fFree, fRequest[g].frame)
            /\ fLast' = fLast
            BY <2>2 DEF Flips!Complete, Flips!Release
      <3>2. FlipLeavesAll(g)
            BY <3>1, <1>3, FlipLeaves
      <3>3. ~fFatal'
            BY <3>1, <2>2, <1>1, <1>2
      <3>4. /\ fRequest' \in Seq(FlipRecords) /\ DOMAIN fRequest' = DOMAIN fRequest
            /\ \A r \in DOMAIN fRequest : r # g => fRequest'[r] = fRequest[r]
            /\ fRequest'[g].state = "Gone" /\ fRequest'[g].frame = None
            BY <3>2 DEF FlipLeavesAll
      <3>5. /\ fRequest'[g].state = IF g \in Flips!Range(fRequests) THEN "Ready" ELSE "Gone"
            /\ fRequest'[g].frame = IF g \in Flips!Range(fRequests) THEN fRequest[g].frame ELSE None
            /\ g \notin Flips!Range(fRequests) =>
                 /\ fFree' = IF fRequest[g].frame = None THEN fFree ELSE Append(fFree, fRequest[g].frame)
                 /\ fLast' = fLast
            BY <3>1, <3>4, <2>2
      <3>6. fCancelled' = fCancelled \ {g}
            BY <3>1
      <3> QED BY <3>3, <3>4, <3>5, <3>6, <2>2
    <2> QED BY <2>1, <2>2
  <1>6. FlipListsOK'
    <2>1. Flips!Queued' \cup fCancelled' = {r \in DOMAIN fRequest' : fRequest'[r].state # "Gone"}
      <3>1. \A r \in DOMAIN fRequest : r \in Flips!Queued \cup fCancelled' <=> fRequest'[r].state # "Gone"
        <4>1. g \notin Flips!Range(fRequests) => g \notin Flips!Queued
              BY <1>2, <1>3 DEF Flips!Queued
        <4>2. g \in Flips!Range(fRequests) => g \in Flips!Queued
              BY DEF Flips!Queued
        <4> QED BY <4>1, <4>2, <1>3, <1>5
      <3> QED BY <3>1, <1>3, <1>4, <1>5
    <2>2. /\ \A r \in fCpuRequests' : fRequest'[r].state = "Reserved" /\ fRequest'[r].source = "Cpu"
          /\ \A r \in fCancelled' : fRequest'[r].state \in {"Reserved", "Recording"}
      <3>1. g \notin fCpuRequests
            BY <1>1, <1>2 DEF FlipListsOK
      <3> QED BY <3>1, <1>1, <1>3, <1>5 DEF FlipListsOK
    <2>3. \A r \in DOMAIN fRequest' :
       /\ fRequest'[r].state # "Gone" => /\ fRequest'[r].port \in Ports
                                         /\ fRequest'[r].source \in {"Cpu", "GpuEop"}
       /\ fRequest'[r].state \in {"Reserved", "Gone"} => fRequest'[r].frame = None
       /\ fRequest'[r].state = "Ready" => fRequest'[r].frame # None
      <3>1. \A r \in DOMAIN fRequest :
       /\ fRequest[r].state # "Gone" => /\ fRequest[r].port \in Ports
                                        /\ fRequest[r].source \in {"Cpu", "GpuEop"}
       /\ fRequest[r].state \in {"Reserved", "Gone"} => fRequest[r].frame = None
       /\ fRequest[r].state = "Ready" => fRequest[r].frame # None
            BY <1>1 DEF FlipListsOK
      <3>2. CASE g \in Flips!Range(fRequests)
            BY <3>1, <3>2, <1>2, <1>3, <1>5
      <3>3. CASE g \notin Flips!Range(fRequests)
            BY <3>1, <3>3, <1>2, <1>3, <1>5
      <3> QED BY <3>2, <3>3
    <2>4. Flips!Queued' \cap fCancelled' = {} /\ fCancelled' \subseteq DOMAIN fRequest'
          BY <1>1, <1>4, <1>5 DEF FlipListsOK
    <2> QED BY <2>1, <2>2, <2>3, <2>4, <1>1, <1>5 DEF FlipListsOK
  <1>7. FlipPortsOK'
    <2>1. fGpu' = fGpu \/ fGpu'.at \notin {"reserves", "full"}
          OBVIOUS
    <2>2. CASE fGpu' = fGpu
          BY <2>2, <1>1, FlipPortsSame
    <2>3. CASE fGpu'.at \notin {"reserves", "full"}
          BY <2>3, <1>1, FlipPortsGpu
    <2> QED BY <2>1, <2>2, <2>3
  <1>8. FlipWorkOK'
    <2>1. \A r \in DOMAIN fRequest : r # g /\ FlipUnfinished(r) => FlipIsSame(r)
          BY <1>5 DEF FlipIsSame
    <2>2. /\ fSubmissions' \in Seq(DOMAIN fRequest') /\ Flips!IsInjective(fSubmissions')
          /\ fDeferred' \in Seq(DOMAIN fRequest') /\ Flips!IsInjective(fDeferred')
          BY <1>1, <1>5 DEF FlipWorkOK
    <2>3. /\ \A r \in Flips!Range(fSubmissions') : r \in Flips!Range(fSubmissions) /\ r # g
          /\ \A r \in Flips!Range(fDeferred') : r \in Flips!Range(fDeferred) /\ r # g
          BY <1>1, <1>2 DEF FlipWorkOK, FlipFresh
    <2>4. \A t \in Guests : fGuest'[t].at = "submits" => fGuest'[t] = fGuest[t] /\ fGuest[t].flip # g
          BY <1>1, <1>2 DEF FlipWorkOK, FlipFresh
    <2>5. \/ fGpu' = fGpu /\ (fGpu.at \in FlipRecorded \cup {"prepares"} => fGpu.flip # g)
          \/ FlipGpuHas(g)'
      <3>1. CASE fGpu'.at = "idle"
            BY <3>1 DEF FlipGpuHas, FlipRecorded
      <3>2. CASE fGpu' = fGpu /\ (fGpu.at \in FlipRecorded => fGpu.flip # g)
        <4>1. fGpu.at = "prepares" => fGpu.flip # g
              BY <1>1, <1>2 DEF FlipWorkOK
        <4> QED BY <4>1, <3>2
      <3> QED BY <3>1, <3>2
    <2> QED BY <2>1, <2>2, <2>3, <2>4, <2>5, <1>1, FlipWorkMoves
  <1>9. FlipShownOK'
    <2>1. fProcessing => fRequests' # <<>> /\ Head(fRequests') = Head(fRequests)
          BY <1>1 DEF FlipShownOK
    <2>2. \A r \in Flips!Range(fRequests) : fRequest[r].state \in {"Ready", "Presenting"} =>
           fRequest'[r].state = fRequest[r].state /\ fRequest'[r].frame = fRequest[r].frame
          BY <1>2, <1>3, <1>5
    <2>3. \A r \in DOMAIN fRequest' : fRequest'[r].state = "Presenting" =>
           r \in DOMAIN fRequest /\ fRequest[r].state = "Presenting"
          BY <1>5
    <2> QED BY <2>1, <2>2, <2>3, <1>1, FlipShownMoves
  <1>10. FlipCountsOK'
    <2>1. \A r \in Flips!Queued' : /\ fRequest'[r].port = fRequest[r].port
                                   /\ fRequest'[r].generation = fRequest[r].generation
                                   /\ fRequest'[r].source = fRequest[r].source
      <3>1. \A r \in Flips!Queued : r \in DOMAIN fRequest /\ (r = g => g \in Flips!Range(fRequests))
            BY <1>2, <1>3 DEF Flips!Queued
      <3> QED BY <3>1, <1>4, <1>5
    <2> QED BY <2>1, <1>1, <1>4, FlipCountsMoves
  <1>11. FlipFramesOK'
    <2>0. fGpu' = fGpu \/ "assigns" \notin {fGpu.at, fGpu'.at}
          OBVIOUS
    <2>1. CASE g \in Flips!Range(fRequests) \/ fRequest[g].frame = None
      <3>1. UNCHANGED Flips!pool
            BY <2>1, <1>5 DEF Flips!pool
      <3>2. \A r \in DOMAIN fRequest : fRequest'[r].frame = fRequest[r].frame
            BY <2>1, <1>5
      <3> QED BY <2>0, <3>1, <3>2, <1>1, <1>3, <1>5, FlipFramesKept
    <2>2. CASE g \notin Flips!Range(fRequests) /\ fRequest[g].frame # None
      <3>1. fFree' = Append(fFree, fRequest[g].frame) /\ fLast' = fLast
            BY <2>2, <1>5
      <3>2. \A h \in Int : h \notin {g} =>
               FlipHeldBy(fRequest', fGpu', fPresent')[h] = FlipHeldBy(fRequest, fGpu, fPresent)[h]
        <4>0. PICK C : C = {g}
              OBVIOUS
        <4>1. \A r \in DOMAIN fRequest : r \notin C => fRequest'[r].frame = fRequest[r].frame
              BY <4>0, <1>5
        <4>2. -2 \in C \/ fPresent' = fPresent \/ "shows" \notin {fPresent.at, fPresent'.at}
              OBVIOUS
        <4>3. -1 \in C \/ fGpu' = fGpu \/ "assigns" \notin {fGpu.at, fGpu'.at}
              BY <2>0
        <4>4. fRequest \in Seq(FlipRecords) /\ fRequest' \in Seq(FlipRecords)
              /\ DOMAIN fRequest' = DOMAIN fRequest
              BY <1>3, <1>5
        <4>5. \A h \in Int : h \notin C =>
                 FlipHeldBy(fRequest', fGpu', fPresent')[h] = FlipHeldBy(fRequest, fGpu, fPresent)[h]
              BY <4>1, <4>2, <4>3, <4>4, FlipHeldChange
        <4> QED BY <4>0, <4>5
      <3>3. FlipHeldBy(fRequest, fGpu, fPresent)[g] = fRequest[g].frame /\ g \in Int
            BY <1>3, FlipHolders
      <3>4. FlipHeldBy(fRequest', fGpu', fPresent')[g] = None
        <4>1. FlipHeldBy(fRequest', fGpu', fPresent')[g] = fRequest'[g].frame
              BY <1>3, <1>5, FlipHolders
        <4> QED BY <4>1, <2>2, <1>5
      <3>5. FlipFramesAt(fFree, FlipHeldBy(fRequest, fGpu, fPresent)) /\ fLast \in Flips!Range(fFree) \cup {None}
            BY <1>1 DEF FlipFramesOK, FlipHeld
      <3>6. FlipFramesAt(Append(fFree, fRequest[g].frame), FlipHeldBy(fRequest', fGpu', fPresent'))
        <4>1. \A k \in Int : FlipHeldBy(fRequest', fGpu', fPresent')[k]
                               = IF k = g THEN None ELSE FlipHeldBy(fRequest, fGpu, fPresent)[k]
              BY <3>2, <3>4
        <4>2. FlipHeldBy(fRequest, fGpu, fPresent)[g] # None
              BY <3>3, <2>2
        <4>3. FlipFramesAt(Append(fFree, FlipHeldBy(fRequest, fGpu, fPresent)[g]), FlipHeldBy(fRequest', fGpu', fPresent'))
              BY <3>3, <3>5, <4>1, <4>2, FrameGiven
        <4> QED BY <4>3, <3>3
      <3>7. fLast' \in Flips!Range(fFree') \cup {None}
        <4>1. fRequest[g].frame \in Frames
              BY <2>2, <3>3, <3>5 DEF FlipFramesAt
        <4>2. Flips!Range(Append(fFree, fRequest[g].frame)) = Flips!Range(fFree) \cup {fRequest[g].frame}
              BY <4>1, <3>5, FlipAppended DEF FlipFramesAt
        <4> QED BY <4>2, <3>1, <3>5
      <3>8. /\ fGpu'.at = "assigns" => fGpu'.frame \in Frames
            /\ fPresent'.at = "shows" => fPresent'.frame \in Frames
            BY <2>0, <1>1 DEF FlipFramesOK
      <3> QED BY <3>1, <3>6, <3>7, <3>8 DEF FlipFramesOK, FlipHeld
    <2> QED BY <2>1, <2>2
  <1> QED BY <1>5, <1>6, <1>7, <1>8, <1>9, <1>10, <1>11 DEF FlipsOK

LEMMA FlipsGpuCompletes == ASSUME FlipsOK, Flips!GpuCompletes PROVE FlipsOK'
  <1>0. PICK g : g = fGpu.flip
        OBVIOUS
  <1>1. FlipWorkOK
        BY DEF FlipsOK
  <1>2. /\ fGpu.at = "prepared" /\ Flips!Complete(g) /\ fGpu'.at = "idle"
        /\ UNCHANGED <<Flips!port, fDriver, fGcQueueNum, fRequests, fCpuRequests, fProcessing>>
        /\ UNCHANGED <<fSubmissions, fDeferred, fGuest, fPresent>>
        BY <1>0 DEF Flips!GpuCompletes, Flips!Idle, Flips!status, Flips!work
  <1>3. FlipPrepared(g) /\ g \notin Flips!Range(fDeferred)
        BY <1>0, <1>1, <1>2 DEF FlipWorkOK, FlipRecorded, FlipPrepared
  <1>4. fDeferred \in Seq(DOMAIN fRequest) /\ Flips!IsInjective(fDeferred)
        BY <1>1 DEF FlipWorkOK
  <1> QED BY <1>2, <1>3, <1>4, FlipCompleted

LEMMA FlipsCompleteFlip == ASSUME FlipsOK, Flips!CompleteFlip PROVE FlipsOK'
  <1>0. PICK g : g = Head(fDeferred)
        OBVIOUS
  <1>1. FlipWorkOK
        BY DEF FlipsOK
  <1>2. /\ fDeferred # <<>> /\ Flips!Complete(g) /\ fDeferred' = Tail(fDeferred)
        /\ UNCHANGED <<Flips!port, fDriver, fGcQueueNum, fRequests, fCpuRequests, fProcessing>>
        /\ UNCHANGED <<fSubmissions, fGpu, fGuest, fPresent>>
        BY <1>0 DEF Flips!CompleteFlip, Flips!status
  <1>3. fDeferred \in Seq(DOMAIN fRequest) /\ Flips!IsInjective(fDeferred)
        BY <1>1 DEF FlipWorkOK
  <1>4. /\ Tail(fDeferred) \in Seq(DOMAIN fRequest) /\ Flips!IsInjective(Tail(fDeferred))
        /\ g \in Flips!Range(fDeferred) /\ Flips!Range(Tail(fDeferred)) = Flips!Range(fDeferred) \ {g}
        BY <1>0, <1>2, <1>3, FlipTail
  <1>5. FlipPrepared(g) /\ (fGpu.at \in FlipRecorded => fGpu.flip # g)
        BY <1>1, <1>4 DEF FlipWorkOK
  <1> QED BY <1>2, <1>4, <1>5, FlipCompleted

LEMMA FlipsGpuDefers == ASSUME FlipsOK, Flips!GpuDefers PROVE FlipsOK'
  <1>0. PICK g : g = fGpu.flip
        OBVIOUS
  <1>1. /\ FlipListsOK /\ FlipPortsOK /\ FlipWorkOK /\ FlipShownOK /\ FlipFramesOK
        /\ FlipCountsOK /\ ~fFatal
        BY DEF FlipsOK
  <1>2. /\ fGpu.at = "prepared" /\ fRequest[g].source = "GpuEop" /\ fGpu'.at = "idle"
        /\ fDeferred' = Append(fDeferred, g)
        /\ UNCHANGED <<fOpened, fClosing, fGeneration, fDriver, fGcQueueNum, fProcessing, fGuest>>
        /\ UNCHANGED <<fPresent, fFatal, fRequest, fRequests, fCpuRequests, fCancelled>>
        /\ UNCHANGED <<fFree, fLast, fSubmissions>>
        BY <1>0 DEF Flips!GpuDefers, Flips!Idle, Flips!port, Flips!status, Flips!queue, Flips!pool
  <1>3. FlipListsOK' /\ FlipShownOK'
        BY <1>1, <1>2, FlipListsSame, FlipShownSame
  <1>4. FlipFramesOK'
    <2>1. "assigns" \notin {fGpu.at, fGpu'.at}
          BY <1>2
    <2> QED BY <2>1, <1>1, <1>2, FlipFramesSame DEF Flips!pool
  <1>5. FlipCountsOK'
        BY <1>1, <1>2, FlipCountsSame DEF Flips!port
  <1>6. FlipPortsOK'
        BY <1>1, <1>2, FlipPortsGpu DEF Flips!port
  <1>7. FlipWorkOK'
    <2>1. FlipPrepared(g) /\ g \notin Flips!Range(fDeferred) /\ g \in DOMAIN fRequest
          BY <1>0, <1>1, <1>2 DEF FlipWorkOK, FlipRecorded, FlipPrepared, FlipListsOK, Flips!Queued
    <2>2. /\ fDeferred \in Seq(DOMAIN fRequest) /\ Flips!IsInjective(fDeferred)
          /\ fSubmissions \in Seq(DOMAIN fRequest) /\ Flips!IsInjective(fSubmissions)
          BY <1>1 DEF FlipWorkOK
    <2>3. /\ fDeferred' \in Seq(DOMAIN fRequest') /\ Flips!IsInjective(fDeferred')
          /\ Flips!Range(fDeferred') = Flips!Range(fDeferred) \cup {g}
          BY <2>1, <2>2, <1>2, FlipAppended
    <2>4. FlipPrepared(g)' /\ fRequest'[g].source = "GpuEop"
          BY <2>1, <1>2 DEF FlipPrepared
    <2>5. FlipGpuHas(g)'
          BY <1>2 DEF FlipGpuHas, FlipRecorded
    <2>6. \A r \in Flips!Range(fDeferred') :
           \/ r \in Flips!Range(fDeferred) /\ r # g
           \/ /\ r = g /\ FlipPrepared(g)' /\ fRequest'[g].source = "GpuEop"
              /\ fGpu'.at \in FlipRecorded => fGpu'.flip # g
          BY <2>1, <2>3, <2>4, <1>2 DEF FlipRecorded
    <2>7. \A r \in Flips!Range(fSubmissions') : r \in Flips!Range(fSubmissions) /\ r # g
          BY <2>1, <1>1, <1>2 DEF FlipWorkOK, FlipFresh, FlipPrepared
    <2>8. \A t \in Guests : fGuest'[t].at = "submits" => fGuest'[t] = fGuest[t] /\ fGuest[t].flip # g
          BY <2>1, <1>1, <1>2 DEF FlipWorkOK, FlipFresh, FlipPrepared
    <2>9. \A r \in DOMAIN fRequest : r # g /\ FlipUnfinished(r) => FlipIsSame(r)
          BY <1>2, FlipStays
    <2>10. fSubmissions' \in Seq(DOMAIN fRequest') /\ Flips!IsInjective(fSubmissions')
          BY <2>2, <1>2
    <2> QED BY <2>3, <2>5, <2>6, <2>7, <2>8, <2>9, <2>10, <1>1, FlipWorkMoves
  <1> QED BY <1>1, <1>2, <1>3, <1>4, <1>5, <1>6, <1>7 DEF FlipsOK

\* Frame f, held by h, is given back.
LEMMA FlipGivesFrame ==
  ASSUME FlipFramesOK, NEW h \in Int, NEW f, f # None,
         FlipHeldBy(fRequest, fGpu, fPresent)[h] = f, FlipHeldBy(fRequest', fGpu', fPresent')[h] = None,
         \A k \in Int : k # h =>
           FlipHeldBy(fRequest', fGpu', fPresent')[k] = FlipHeldBy(fRequest, fGpu, fPresent)[k],
         fFree' = Append(fFree, f), fLast' \in {fLast, f},
         fGpu'.at = "assigns" => fGpu'.frame \in Frames,
         fPresent'.at = "shows" => fPresent'.frame \in Frames
  PROVE  FlipFramesOK'
  <1>1. FlipFramesAt(fFree, FlipHeldBy(fRequest, fGpu, fPresent)) /\ fLast \in Flips!Range(fFree) \cup {None}
        BY DEF FlipFramesOK, FlipHeld
  <1>2. \A k \in Int : FlipHeldBy(fRequest', fGpu', fPresent')[k]
                         = IF k = h THEN None ELSE FlipHeldBy(fRequest, fGpu, fPresent)[k]
        OBVIOUS
  <1>3. FlipHeldBy(fRequest, fGpu, fPresent)[h] # None
        OBVIOUS
  <1>4. FlipFramesAt(Append(fFree, FlipHeldBy(fRequest, fGpu, fPresent)[h]), FlipHeldBy(fRequest', fGpu', fPresent'))
        BY <1>1, <1>2, <1>3, FrameGiven
  <1>5. f \in Frames /\ fFree \in Seq(Frames)
        BY <1>1 DEF FlipFramesAt
  <1>6. Flips!Range(Append(fFree, f)) = Flips!Range(fFree) \cup {f}
        BY <1>5, FlipAppended
  <1>7. fLast' \in Flips!Range(fFree') \cup {None}
        BY <1>1, <1>6
  <1> QED BY <1>4, <1>7 DEF FlipFramesOK, FlipHeld

\* What is worked on is as it was when only flips that are done change.
LEMMA FlipWorkFinished ==
  ASSUME FlipListsOK, FlipWorkOK, DOMAIN fRequest' = DOMAIN fRequest,
         \A r \in DOMAIN fRequest : FlipUnfinished(r) => FlipIsSame(r),
         UNCHANGED <<fSubmissions, fDeferred, fGpu>>,
         \A t \in Guests : fGuest'[t].at = "submits" => fGuest'[t] = fGuest[t]
  PROVE  FlipWorkOK'
  <1>0. PICK g : g = 0
        OBVIOUS
  <1>1. g \notin DOMAIN fRequest
    <2>1. DOMAIN fRequest = 1 .. Len(fRequest) /\ Len(fRequest) \in Nat
          BY DEF FlipListsOK
    <2> QED BY <2>1, <1>0
  <1>2. Flips!Queued \cup fCancelled \subseteq DOMAIN fRequest /\ Flips!Range(fRequests) \subseteq Flips!Queued
        BY DEF FlipListsOK, Flips!Queued
  <1>3. /\ fSubmissions \in Seq(DOMAIN fRequest) /\ Flips!IsInjective(fSubmissions)
        /\ fDeferred \in Seq(DOMAIN fRequest) /\ Flips!IsInjective(fDeferred)
        BY DEF FlipWorkOK
  <1>4. /\ \A r \in Flips!Range(fSubmissions') : r \in Flips!Range(fSubmissions) /\ r # g
        /\ \A r \in Flips!Range(fDeferred') : r \in Flips!Range(fDeferred) /\ r # g
        BY <1>1, <1>3 DEF Flips!Range
  <1>5. \A t \in Guests : fGuest'[t].at = "submits" => fGuest'[t] = fGuest[t] /\ fGuest[t].flip # g
    <2>1. \A t \in Guests : fGuest[t].at = "submits" => fGuest[t].flip \in DOMAIN fRequest
          BY <1>2 DEF FlipWorkOK, FlipFresh, Flips!Queued
    <2> QED BY <2>1, <1>1
  <1>6. fGpu' = fGpu /\ (fGpu.at \in FlipRecorded \cup {"prepares"} => fGpu.flip # g)
    <2>1. fGpu.at \in FlipRecorded \cup {"prepares"} => fGpu.flip \in DOMAIN fRequest
          BY <1>2 DEF FlipWorkOK, FlipRecorded, FlipPrepared
    <2> QED BY <2>1, <1>1
  <1>7. \A r \in DOMAIN fRequest : r # g /\ FlipUnfinished(r) => FlipIsSame(r)
        OBVIOUS
  <1>8. /\ fSubmissions' \in Seq(DOMAIN fRequest') /\ Flips!IsInjective(fSubmissions')
        /\ fDeferred' \in Seq(DOMAIN fRequest') /\ Flips!IsInjective(fDeferred')
        BY <1>3
  <1> QED BY <1>4, <1>5, <1>6, <1>7, <1>8, FlipWorkMoves

(***************************************************************************)
(* The present thread.                                                     *)
(***************************************************************************)

\* It chooses the first flip, or lets it wait.
LEMMA FlipsChosen == ASSUME FlipsOK, Flips!FlipChooses \/ Flips!FlipNotDue PROVE FlipsOK'
  <1>1. /\ FlipListsOK /\ FlipPortsOK /\ FlipWorkOK /\ FlipShownOK /\ FlipFramesOK
        /\ FlipCountsOK /\ ~fFatal
        BY DEF FlipsOK
  <1>2. /\ UNCHANGED <<fOpened, fClosing, fGeneration, fDriver, fGcQueueNum, fGuest, fGpu>>
        /\ UNCHANGED <<fRequest, fRequests, fCpuRequests, fCancelled>>
        /\ UNCHANGED <<fFree, fLast, fSubmissions, fDeferred>>
        BY DEF Flips!FlipChooses, Flips!FlipNotDue, Flips!port, Flips!status, Flips!pool, Flips!work
  <1>3. /\ fPresent.at \notin {"presents", "ends", "shows"} /\ fPresent'.at \notin {"presents", "ends", "shows"}
        /\ \/ /\ fPresent'.at # "due" /\ fProcessing' = FALSE
           \/ /\ fPresent'.at = "due" /\ fProcessing' = TRUE /\ fRequests # <<>>
              /\ fPresent'.flip = Head(fRequests) /\ fRequest[Head(fRequests)].state = "Ready"
        BY DEF Flips!FlipChooses, Flips!FlipNotDue, Flips!FrontIsReady, Flips!NotPresented,
               Flips!Idle
  <1>4. ~fFatal'
    <2>1. CASE Flips!FlipChooses
      <3>1. ~fProcessing
            BY <2>1, <1>1 DEF Flips!FlipChooses, FlipShownOK
      <3> QED BY <3>1, <2>1, <1>1 DEF Flips!FlipChooses
    <2>2. CASE Flips!FlipNotDue
          BY <2>2, <1>1 DEF Flips!FlipNotDue
    <2> QED BY <2>1, <2>2
  <1>5. FlipListsOK' /\ FlipPortsOK'
        BY <1>1, <1>2, FlipListsSame, FlipPortsSame DEF Flips!port
  <1>6. FlipWorkOK'
        BY <1>1, <1>2, FlipWorkSame
  <1>7. FlipFramesOK'
    <2>1. "shows" \notin {fPresent.at, fPresent'.at}
          BY <1>3
    <2> QED BY <2>1, <1>1, <1>2, FlipFramesSame DEF Flips!pool
  <1>8. FlipCountsOK'
        BY <1>1, <1>2, FlipCountsSame DEF Flips!port
  <1>9. FlipShownOK'
    <2>1. \A r \in DOMAIN fRequest' : fRequest'[r].state # "Presenting"
          BY <1>1, <1>2, <1>3 DEF FlipShownOK
    <2>2. fProcessing' \in BOOLEAN /\ (fProcessing' <=> fPresent'.at \in {"due", "presents", "ends"})
          BY <1>3
    <2>3. /\ fProcessing' => fRequests' # <<>> /\ Head(fRequests') = fPresent'.flip
          /\ fPresent'.at = "due" => fRequest'[fPresent'.flip].state = "Ready"
          BY <1>2, <1>3
    <2> QED BY <2>1, <2>2, <2>3, <1>3 DEF FlipShownOK
  <1> QED BY <1>4, <1>5, <1>6, <1>7, <1>8, <1>9 DEF FlipsOK

\* The flip that is shown changes: the lists do not.
LEMMA FlipShowsOn ==
  ASSUME FlipsOK, NEW g, g = fPresent.flip, fProcessing, NEW s, s \in {"Presenting"}, NEW f,
         FlipBecomes(g, s, f),
         UNCHANGED <<fOpened, fClosing, fGeneration, fDriver, fGcQueueNum, fGuest, fGpu>>,
         UNCHANGED <<fRequests, fCpuRequests, fCancelled, fProcessing, fSubmissions, fDeferred>>
  PROVE  FlipListsOK' /\ FlipPortsOK' /\ FlipWorkOK' /\ FlipCountsOK'
  <1>1. /\ FlipListsOK /\ FlipPortsOK /\ FlipWorkOK /\ FlipShownOK /\ FlipFramesOK
        /\ FlipCountsOK /\ ~fFatal
        BY DEF FlipsOK
  <1>2. /\ g \in Flips!Range(fRequests) /\ g \in DOMAIN fRequest
        /\ fRequest[g].state \in {"Ready", "Presenting"}
        BY <1>1, FlipShownReady
  <1>3. /\ fRequest' \in Seq(FlipRecords) /\ DOMAIN fRequest' = DOMAIN fRequest
        /\ \A r \in DOMAIN fRequest : /\ fRequest'[r].port = fRequest[r].port
                                      /\ fRequest'[r].generation = fRequest[r].generation
                                      /\ fRequest'[r].source = fRequest[r].source
                                      /\ r # g => fRequest'[r] = fRequest[r]
        /\ fRequest'[g].state = "Presenting"
        BY DEF FlipBecomes
  <1>4. Flips!Queued' = Flips!Queued /\ Flips!Queued \subseteq DOMAIN fRequest /\ g \notin fCpuRequests \cup fCancelled
        BY <1>1, <1>2 DEF FlipListsOK, Flips!Queued
  <1>5. FlipListsOK'
    <2>1. Flips!Queued' \cup fCancelled' = {r \in DOMAIN fRequest' : fRequest'[r].state # "Gone"}
      <3>1. \A r \in DOMAIN fRequest : fRequest'[r].state # "Gone" <=> fRequest[r].state # "Gone"
            BY <1>2, <1>3
      <3> QED BY <3>1, <1>1, <1>3, <1>4 DEF FlipListsOK
    <2>2. /\ \A r \in fCpuRequests' : fRequest'[r].state = "Reserved" /\ fRequest'[r].source = "Cpu"
          /\ \A r \in fCancelled' : fRequest'[r].state \in {"Reserved", "Recording"}
      <3>1. /\ \A r \in fCpuRequests : fRequest[r].state = "Reserved" /\ fRequest[r].source = "Cpu"
            /\ \A r \in fCancelled : fRequest[r].state \in {"Reserved", "Recording"}
            /\ fCpuRequests \subseteq DOMAIN fRequest /\ fCancelled \subseteq DOMAIN fRequest
            BY <1>1 DEF FlipListsOK
      <3>2. \A r \in fCpuRequests \cup fCancelled : fRequest'[r] = fRequest[r]
            BY <3>1, <1>3, <1>4
      <3> QED BY <3>1, <3>2
    <2>3. \A r \in DOMAIN fRequest' :
       /\ fRequest'[r].state # "Gone" => /\ fRequest'[r].port \in Ports
                                         /\ fRequest'[r].source \in {"Cpu", "GpuEop"}
       /\ fRequest'[r].state \in {"Reserved", "Gone"} => fRequest'[r].frame = None
       /\ fRequest'[r].state = "Ready" => fRequest'[r].frame # None
          BY <1>1, <1>2, <1>3 DEF FlipListsOK
    <2>4. Flips!Queued' \cap fCancelled' = {}
          BY <1>1, <1>4 DEF FlipListsOK
    <2> QED BY <2>1, <2>2, <2>3, <2>4, <1>1, <1>3 DEF FlipListsOK
  <1>6. FlipPortsOK'
        BY <1>1, FlipPortsSame DEF Flips!port
  <1>7. FlipWorkOK'
    <2>1. \A r \in DOMAIN fRequest : FlipUnfinished(r) => FlipIsSame(r)
      <3>1. \A r \in DOMAIN fRequest : FlipUnfinished(r) => fRequest'[r] = fRequest[r]
            BY <1>2, <1>3 DEF FlipUnfinished
      <3> QED BY <3>1, <1>3 DEF FlipIsSame
    <2> QED BY <2>1, <1>1, <1>3, FlipWorkFinished
  <1>8. FlipCountsOK'
    <2>1. \A r \in Flips!Queued' : /\ fRequest'[r].port = fRequest[r].port
                                   /\ fRequest'[r].generation = fRequest[r].generation
                                   /\ fRequest'[r].source = fRequest[r].source
          BY <1>3, <1>4
    <2> QED BY <2>1, <1>1, <1>4, FlipCountsMoves DEF Flips!port
  <1> QED BY <1>5, <1>6, <1>7, <1>8

LEMMA FlipsDue == ASSUME FlipsOK, Flips!FlipDue PROVE FlipsOK'
  <1>0. PICK g : g = fPresent.flip
        OBVIOUS
  <1>1. /\ FlipListsOK /\ FlipPortsOK /\ FlipWorkOK /\ FlipShownOK /\ FlipFramesOK
        /\ FlipCountsOK /\ ~fFatal
        BY DEF FlipsOK
  <1>2. /\ fPresent.at = "due" /\ fPresent'.at = "presents" /\ fPresent'.flip = g
        /\ fRequest' = [fRequest EXCEPT ![g].state = "Presenting"]
        /\ fFatal' = (fFatal \/ fRequests = <<>> \/ Head(fRequests) # g
                             \/ fRequest[g].state # "Ready" \/ ~fProcessing)
        /\ UNCHANGED <<fOpened, fClosing, fGeneration, fDriver, fGcQueueNum, fGuest, fGpu>>
        /\ UNCHANGED <<fRequests, fCpuRequests, fCancelled, fProcessing, fSubmissions, fDeferred>>
        /\ UNCHANGED <<fFree, fLast>>
        BY <1>0 DEF Flips!FlipDue, Flips!port, Flips!status, Flips!pool, Flips!work
  <1>3. fProcessing
        BY <1>1, <1>2 DEF FlipShownOK
  <1>4. /\ fRequests # <<>> /\ Head(fRequests) = g /\ g \in DOMAIN fRequest
        /\ fRequest[g].state = "Ready" /\ fRequest[g].frame # None
    <2>1. fRequests # <<>> /\ Head(fRequests) = g /\ g \in DOMAIN fRequest
          BY <1>0, <1>1, <1>3, FlipShownReady
    <2>2. fRequest[g].state = "Ready"
          BY <1>0, <1>1, <1>2 DEF FlipShownOK
    <2> QED BY <2>1, <2>2, <1>1 DEF FlipListsOK
  <1>5. FlipBecomes(g, "Presenting", fRequest[g].frame)
    <2>1. fRequest \in Seq(FlipRecords) /\ "Presenting" \in FlipStates
          BY <1>1 DEF FlipListsOK, FlipStates
    <2> QED BY <2>1, <1>2, <1>4, FlipBecomesState
  <1>6. ~fFatal'
        BY <1>1, <1>2, <1>3, <1>4
  <1>7. FlipListsOK' /\ FlipPortsOK' /\ FlipWorkOK' /\ FlipCountsOK'
    <2>1. PICK s : s = "Presenting"
          OBVIOUS
    <2>2. PICK f : f = fRequest[g].frame
          OBVIOUS
    <2>3. FlipBecomes(g, s, f) /\ s \in {"Presenting"}
          BY <2>1, <2>2, <1>5
    <2> QED BY <2>3, <1>0, <1>2, <1>3, FlipShowsOn
  <1>8. /\ fRequest \in Seq(FlipRecords) /\ fRequest' \in Seq(FlipRecords)
        /\ DOMAIN fRequest' = DOMAIN fRequest
        /\ \A r \in DOMAIN fRequest : fRequest'[r].frame = fRequest[r].frame
        /\ \A r \in DOMAIN fRequest : r # g => fRequest'[r] = fRequest[r]
        /\ fRequest'[g].state = "Presenting"
        BY <1>1, <1>5 DEF FlipBecomes, FlipListsOK
  <1>9. FlipFramesOK'
    <2>1. UNCHANGED Flips!pool
          BY <1>2 DEF Flips!pool
    <2>2. "shows" \notin {fPresent.at, fPresent'.at}
          BY <1>2
    <2> QED BY <2>1, <2>2, <1>1, <1>2, <1>8, FlipFramesKept
  <1>10. FlipShownOK'
    <2>1. fProcessing' \in BOOLEAN /\ (fProcessing' <=> fPresent'.at \in {"due", "presents", "ends"})
          BY <1>1, <1>2, <1>3 DEF FlipShownOK
    <2>2. \A r \in DOMAIN fRequest' : fRequest'[r].state = "Presenting" => r = g
          BY <1>1, <1>2, <1>8 DEF FlipShownOK
    <2>3. fRequest'[g].frame # None
          BY <1>4, <1>8
    <2> QED BY <2>1, <2>2, <2>3, <1>2, <1>4, <1>8 DEF FlipShownOK
  <1> QED BY <1>6, <1>7, <1>9, <1>10 DEF FlipsOK

LEMMA FlipsPresented == ASSUME FlipsOK, Flips!FlipPresents PROVE FlipsOK'
  <1>0. PICK g : g = fPresent.flip
        OBVIOUS
  <1>1. /\ FlipListsOK /\ FlipPortsOK /\ FlipWorkOK /\ FlipShownOK /\ FlipFramesOK
        /\ FlipCountsOK /\ ~fFatal
        BY DEF FlipsOK
  <1>2. /\ fPresent.at = "presents" /\ fPresent'.at = "ends" /\ fPresent'.flip = g
        /\ fRequest' = [fRequest EXCEPT ![g].frame = None]
        /\ fFree' = (IF fRequest[g].frame = None THEN fFree ELSE Append(fFree, fRequest[g].frame))
        /\ fLast' \in {fLast, fRequest[g].frame}
        /\ UNCHANGED <<fOpened, fClosing, fGeneration, fDriver, fGcQueueNum, fGuest, fGpu, fFatal>>
        /\ UNCHANGED <<fRequests, fCpuRequests, fCancelled, fProcessing, fSubmissions, fDeferred>>
        BY <1>0 DEF Flips!FlipPresents, Flips!Release, Flips!port, Flips!status, Flips!work
  <1>3. fProcessing
        BY <1>1, <1>2 DEF FlipShownOK
  <1>4. /\ fRequests # <<>> /\ Head(fRequests) = g /\ g \in DOMAIN fRequest
        /\ fRequest[g].state = "Presenting" /\ fRequest[g].frame # None
    <2>1. fRequests # <<>> /\ Head(fRequests) = g /\ g \in DOMAIN fRequest
          BY <1>0, <1>1, <1>3, FlipShownReady
    <2> QED BY <2>1, <1>0, <1>1, <1>2 DEF FlipShownOK
  <1>5. FlipBecomes(g, "Presenting", None)
    <2>1. fRequest \in Seq(FlipRecords) /\ None \in Frames \cup {None}
          BY <1>1 DEF FlipListsOK
    <2> QED BY <2>1, <1>2, <1>4, FlipBecomesFrame
  <1>6. FlipListsOK' /\ FlipPortsOK' /\ FlipWorkOK' /\ FlipCountsOK'
    <2>1. PICK s : s = "Presenting"
          OBVIOUS
    <2>2. PICK f : f = None
          OBVIOUS
    <2>3. FlipBecomes(g, s, f) /\ s \in {"Presenting"}
          BY <2>1, <2>2, <1>5
    <2> QED BY <2>3, <1>0, <1>2, <1>3, FlipShowsOn
  <1>7. /\ fRequest \in Seq(FlipRecords) /\ fRequest' \in Seq(FlipRecords)
        /\ DOMAIN fRequest' = DOMAIN fRequest
        /\ \A r \in DOMAIN fRequest : r # g => fRequest'[r] = fRequest[r]
        /\ fRequest'[g].state = "Presenting" /\ fRequest'[g].frame = None
        BY <1>1, <1>5 DEF FlipBecomes, FlipListsOK
  <1>8. FlipFramesOK'
    <2>1. PICK f : f = fRequest[g].frame
          OBVIOUS
    <2>2. g \in Int /\ FlipHeldBy(fRequest, fGpu, fPresent)[g] = f
          BY <2>1, <1>4, <1>7, FlipHolders
    <2>3. FlipHeldBy(fRequest', fGpu', fPresent')[g] = None
      <3>1. FlipHeldBy(fRequest', fGpu', fPresent')[g] = fRequest'[g].frame
            BY <1>4, <1>7, FlipHolders
      <3> QED BY <3>1, <1>7
    <2>4. \A k \in Int : k # g =>
             FlipHeldBy(fRequest', fGpu', fPresent')[k] = FlipHeldBy(fRequest, fGpu, fPresent)[k]
      <3>1. PICK C : C = {g}
            OBVIOUS
      <3>2. \A r \in DOMAIN fRequest : r \notin C => fRequest'[r].frame = fRequest[r].frame
            BY <3>1, <1>7
      <3>3. -1 \in C \/ fGpu' = fGpu \/ "assigns" \notin {fGpu.at, fGpu'.at}
            BY <1>2
      <3>4. -2 \in C \/ fPresent' = fPresent \/ "shows" \notin {fPresent.at, fPresent'.at}
            BY <1>2
      <3>5. \A h \in Int : h \notin C =>
               FlipHeldBy(fRequest', fGpu', fPresent')[h] = FlipHeldBy(fRequest, fGpu, fPresent)[h]
            BY <3>2, <3>3, <3>4, <1>7, FlipHeldChange
      <3> QED BY <3>1, <3>5
    <2>5. /\ fGpu'.at = "assigns" => fGpu'.frame \in Frames
          /\ fPresent'.at = "shows" => fPresent'.frame \in Frames
          BY <1>1, <1>2 DEF FlipFramesOK
    <2>6. fFree' = Append(fFree, f) /\ fLast' \in {fLast, f} /\ f # None
          BY <2>1, <1>2, <1>4
    <2> QED BY <2>2, <2>3, <2>4, <2>5, <2>6, <1>1, FlipGivesFrame
  <1>9. FlipShownOK'
    <2>1. fProcessing' \in BOOLEAN /\ (fProcessing' <=> fPresent'.at \in {"due", "presents", "ends"})
          BY <1>1, <1>2, <1>3 DEF FlipShownOK
    <2>2. \A r \in DOMAIN fRequest' : fRequest'[r].state = "Presenting" => r = g
          BY <1>0, <1>1, <1>2, <1>7 DEF FlipShownOK
    <2> QED BY <2>1, <2>2, <1>2, <1>4, <1>7 DEF FlipShownOK
  <1> QED BY <1>1, <1>2, <1>6, <1>8, <1>9 DEF FlipsOK

\* The shown flip leaves the list, and the count of its port if that is open.
LEMMA FlipsEnded == ASSUME FlipsOK, Flips!FlipEnds PROVE FlipsOK'
  <1>0. PICK g : g = fPresent.flip
        OBVIOUS
  <1>1. /\ FlipListsOK /\ FlipPortsOK /\ FlipWorkOK /\ FlipShownOK /\ FlipFramesOK
        /\ FlipCountsOK /\ ~fFatal
        BY DEF FlipsOK
  <1>2. /\ fPresent.at = "ends" /\ fPresent'.at = "idle" /\ fProcessing' = FALSE
        /\ fRequest' = [fRequest EXCEPT ![g] = Flips!Gone] /\ fRequests' = Tail(fRequests)
        /\ fFatal' = (fFatal \/ fRequests = <<>> \/ Head(fRequests) # g
                             \/ fRequest[g].state # "Presenting")
        /\ fGcQueueNum' = IF Flips!Current(g) /\ Flips!LeavesGpu(g)
                          THEN [fGcQueueNum EXCEPT ![fRequest[g].port] = @ - 1] ELSE fGcQueueNum
        /\ UNCHANGED <<fOpened, fClosing, fGeneration, fDriver, fGuest, fGpu>>
        /\ UNCHANGED <<fCpuRequests, fCancelled, fFree, fLast, fSubmissions, fDeferred>>
        BY <1>0 DEF Flips!FlipEnds, Flips!Idle, Flips!port, Flips!status, Flips!pool, Flips!work
  <1>3. fProcessing
        BY <1>1, <1>2 DEF FlipShownOK
  <1>4. /\ fRequests # <<>> /\ Head(fRequests) = g /\ g \in DOMAIN fRequest /\ g \in Flips!Range(fRequests)
        /\ fRequest[g].state = "Presenting" /\ fRequest[g].frame = None
    <2>1. fRequests # <<>> /\ Head(fRequests) = g /\ g \in DOMAIN fRequest /\ g \in Flips!Range(fRequests)
          BY <1>0, <1>1, <1>3, FlipShownReady
    <2> QED BY <2>1, <1>0, <1>1, <1>2 DEF FlipShownOK
  <1>5. ~fFatal'
        BY <1>1, <1>2, <1>4
  <1>6. FlipLeavesAll(g)
    <2>1. fRequest \in Seq(FlipRecords)
          BY <1>1 DEF FlipListsOK
    <2> QED BY <2>1, <1>2, <1>4, FlipLeaves
  <1>7. /\ fRequest \in Seq(FlipRecords) /\ fRequest' \in Seq(FlipRecords)
        /\ DOMAIN fRequest' = DOMAIN fRequest
        /\ \A r \in DOMAIN fRequest : r # g => fRequest'[r] = fRequest[r]
        /\ fRequest'[g].state = "Gone" /\ fRequest'[g].frame = None
        BY <1>1, <1>6 DEF FlipLeavesAll, FlipListsOK
  <1>8. /\ fRequests' \in Seq(DOMAIN fRequest) /\ Flips!IsInjective(fRequests')
        /\ Flips!Range(fRequests') = Flips!Range(fRequests) \ {g}
    <2>1. fRequests \in Seq(DOMAIN fRequest) /\ Flips!IsInjective(fRequests)
          BY <1>1 DEF FlipListsOK
    <2> QED BY <2>1, <1>2, <1>4, FlipTail
  <1>9. /\ Flips!Queued \cup fCancelled = {r \in DOMAIN fRequest : fRequest[r].state # "Gone"}
        /\ g \in Flips!Queued /\ Flips!Queued' = Flips!Queued \ {g} /\ g \notin fCpuRequests \cup fCancelled
        /\ Flips!Queued \subseteq DOMAIN fRequest
        BY <1>1, <1>2, <1>4, <1>8 DEF FlipListsOK, Flips!Queued
  <1>10. FlipListsOK'
    <2>1. Flips!Queued' \cup fCancelled' = {r \in DOMAIN fRequest' : fRequest'[r].state # "Gone"}
          BY <1>2, <1>7, <1>9
    <2>2. /\ \A r \in fCpuRequests' : fRequest'[r].state = "Reserved" /\ fRequest'[r].source = "Cpu"
          /\ \A r \in fCancelled' : fRequest'[r].state \in {"Reserved", "Recording"}
          BY <1>1, <1>2, <1>7, <1>9 DEF FlipListsOK
    <2>3. \A r \in DOMAIN fRequest' :
       /\ fRequest'[r].state # "Gone" => /\ fRequest'[r].port \in Ports
                                         /\ fRequest'[r].source \in {"Cpu", "GpuEop"}
       /\ fRequest'[r].state \in {"Reserved", "Gone"} => fRequest'[r].frame = None
       /\ fRequest'[r].state = "Ready" => fRequest'[r].frame # None
          BY <1>1, <1>7 DEF FlipListsOK
    <2>4. Flips!Queued' \cap fCancelled' = {} /\ Flips!Range(fRequests') \cap fCpuRequests' = {}
          BY <1>1, <1>2, <1>8, <1>9 DEF FlipListsOK
    <2> QED BY <2>1, <2>2, <2>3, <2>4, <1>1, <1>2, <1>7, <1>8 DEF FlipListsOK
  <1>11. FlipPortsOK'
        BY <1>1, <1>2, FlipPortsSame DEF Flips!port
  <1>12. FlipWorkOK'
    <2>1. \A r \in DOMAIN fRequest : FlipUnfinished(r) => FlipIsSame(r)
      <3>1. \A r \in DOMAIN fRequest : FlipUnfinished(r) => fRequest'[r] = fRequest[r] /\ r # g
            BY <1>4, <1>7 DEF FlipUnfinished
      <3> QED BY <3>1, <1>2, <1>7, <1>8 DEF FlipIsSame
    <2> QED BY <2>1, <1>1, <1>2, <1>7, FlipWorkFinished
  <1>13. FlipFramesOK'
    <2>1. UNCHANGED Flips!pool
          BY <1>2 DEF Flips!pool
    <2>2. "shows" \notin {fPresent.at, fPresent'.at}
          BY <1>2
    <2>3. \A r \in DOMAIN fRequest : fRequest'[r].frame = fRequest[r].frame
          BY <1>4, <1>7
    <2> QED BY <2>1, <2>2, <2>3, <1>1, <1>2, <1>7, FlipFramesKept
  <1>14. FlipShownOK'
    <2>1. \A r \in DOMAIN fRequest' : fRequest'[r].state # "Presenting"
          BY <1>0, <1>1, <1>7 DEF FlipShownOK
    <2> QED BY <2>1, <1>2 DEF FlipShownOK
  <1>15. Flips!QueuedAreCurrent'
    <2>1. \A r \in Flips!Queued' : Flips!Current(r)' <=> Flips!Current(r)
          BY <1>2, <1>7, <1>9 DEF Flips!Current
    <2>2. \A r \in Flips!Queued' : fRequest'[r] = fRequest[r] /\ r \in Flips!Queued
          BY <1>7, <1>9
    <2> QED BY <2>1, <2>2, <1>1, <1>2 DEF FlipCountsOK, Flips!QueuedAreCurrent
  <1>16. fGcQueueNum' \in [Ports -> Nat]
    <2>1. fGcQueueNum \in [Ports -> Nat]
          BY <1>1 DEF FlipCountsOK
    <2>2. fRequest[g].port \in Ports
          BY <1>1, <1>4 DEF FlipListsOK
    <2> QED BY <2>1, <2>2, <1>2 DEF Flips!LeavesGpu
  <1>17. Flips!GcQueueNumCounts'
    <2> SUFFICES ASSUME NEW q \in Ports, fOpened[q] /\ ~fClosing[q]
                 PROVE  fGcQueueNum'[q] = Flips!Cardinality({x \in Flips!Range(fRequests') :
                                     fRequest'[x].port = q /\ fRequest'[x].source = "GpuEop"})
        BY <1>2 DEF Flips!GcQueueNumCounts
    <2> DEFINE old == {x \in Flips!Range(fRequests) : fRequest[x].port = q /\ fRequest[x].source = "GpuEop"}
               new == {x \in Flips!Range(fRequests') :
                         fRequest'[x].port = q /\ fRequest'[x].source = "GpuEop"}
    <2>1. fGcQueueNum[q] = Flips!Cardinality(old) /\ fGcQueueNum \in [Ports -> Nat]
          BY <1>1 DEF FlipCountsOK, Flips!GcQueueNumCounts
    <2>2. new = old \ {g} /\ (g \in old <=> fRequest[g].port = q /\ fRequest[g].source = "GpuEop")
      <3>1. Flips!Range(fRequests) \subseteq Flips!Queued
            BY DEF Flips!Queued
      <3> QED BY <3>1, <1>4, <1>7, <1>8, <1>9
    <2>3. Flips!IsFiniteSet(old)
      <3>3. fRequest \in Seq(FlipRecords)
            BY <1>1 DEF FlipListsOK
      <3>4. Len(fRequest) \in Int /\ DOMAIN fRequest = 1 .. Len(fRequest)
            BY <3>3
      <3>1. Flips!IsFiniteSet(1 .. Len(fRequest)) /\ DOMAIN fRequest = 1 .. Len(fRequest)
            BY <3>4, FlipSizes, FS_Interval
      <3>2. old \in SUBSET (1 .. Len(fRequest))
            BY <3>1, <1>9 DEF Flips!Queued
      <3> QED BY <3>1, <3>2, FlipSizes, FS_Subset
    <2>4. fRequest[g].port = q => Flips!Current(g)
      <3>1. ASSUME fRequest[g].port = q, ~Flips!Current(g) PROVE FALSE
        <4>1. PICK t \in Guests : fGuest[t].at = "cancels" /\ fGuest[t].port = q
              BY <3>1, <1>1, <1>9 DEF FlipCountsOK, Flips!QueuedAreCurrent
        <4> QED BY <4>1, <1>1 DEF FlipPortsOK
      <3> QED BY <3>1
    <2> HIDE DEF old, new
    <2>5. CASE g \in old
      <3>1. Flips!Cardinality(new) = Flips!Cardinality(old) - 1 /\ Flips!Cardinality(old) > 0
        <4>1. Flips!Cardinality(old \ {g}) = Flips!Cardinality(old) - 1
              BY <2>3, <2>5, FlipSizes, FS_RemoveElement
        <4>2. Flips!IsFiniteSet(old \ {g})
              BY <2>3, FlipSizes, FS_RemoveElement
        <4>3. Flips!Cardinality(old \ {g}) \in Nat /\ Flips!Cardinality(old) \in Nat
              BY <2>3, <4>2, FlipSizes, FS_CardinalityType
        <4> QED BY <4>1, <4>3, <2>2
      <3>2. Flips!Current(g) /\ Flips!LeavesGpu(g) /\ fRequest[g].port = q
            BY <2>1, <2>2, <2>4, <2>5, <3>1 DEF Flips!LeavesGpu
      <3>3. fGcQueueNum'[q] = fGcQueueNum[q] - 1
            BY <3>2, <2>1, <1>2
      <3> QED BY <3>1, <3>3, <2>1 DEF new
    <2>6. CASE g \notin old
      <3>1. new = old
            BY <2>2, <2>6
      <3>2. fGcQueueNum'[q] = fGcQueueNum[q]
        <4>1. Flips!LeavesGpu(g) => fRequest[g].port # q
              BY <2>2, <2>6 DEF Flips!LeavesGpu
        <4> QED BY <4>1, <2>1, <1>2
      <3> QED BY <3>1, <3>2, <2>1 DEF new
    <2> QED BY <2>5, <2>6
  <1> QED BY <1>5, <1>10, <1>11, <1>12, <1>13, <1>14, <1>15, <1>16, <1>17
          DEF FlipsOK, FlipCountsOK

\* The present thread takes or gives back a frame of its own: the flips stay.
LEMMA FlipsRefreshed ==
  ASSUME FlipsOK, FlipFramesOK',
         fPresent.at \notin {"due", "presents", "ends"},
         fPresent'.at \notin {"due", "presents", "ends"},
         UNCHANGED <<fOpened, fClosing, fGeneration, fDriver, fGcQueueNum, fGuest, fGpu>>,
         UNCHANGED <<fRequest, fRequests, fCpuRequests, fCancelled, fProcessing>>,
         UNCHANGED <<fSubmissions, fDeferred>>, ~fFatal'
  PROVE  FlipsOK'
  <1>1. /\ FlipListsOK /\ FlipPortsOK /\ FlipWorkOK /\ FlipShownOK /\ FlipFramesOK
        /\ FlipCountsOK /\ ~fFatal
        BY DEF FlipsOK
  <1>2. FlipListsOK' /\ FlipPortsOK'
        BY <1>1, FlipListsSame, FlipPortsSame DEF Flips!port
  <1>3. FlipWorkOK'
        BY <1>1, FlipWorkSame
  <1>4. FlipCountsOK'
        BY <1>1, FlipCountsSame DEF Flips!port
  <1>5. FlipShownOK'
    <2>1. fProcessing \in BOOLEAN /\ ~fProcessing
          BY <1>1 DEF FlipShownOK
    <2>2. \A r \in DOMAIN fRequest' : fRequest'[r].state # "Presenting"
          BY <1>1 DEF FlipShownOK
    <2> QED BY <2>1, <2>2 DEF FlipShownOK
  <1> QED BY <1>1, <1>2, <1>3, <1>4, <1>5 DEF FlipsOK

\* Only what the present thread itself holds changes.
LEMMA FlipHeldByPresent ==
  ASSUME FlipListsOK, UNCHANGED <<fRequest, fGpu>>
  PROVE  \A k \in Int : k # -2 =>
           FlipHeldBy(fRequest', fGpu', fPresent')[k] = FlipHeldBy(fRequest, fGpu, fPresent)[k]
  <1>1. PICK C : C = {-2}
        OBVIOUS
  <1>2. /\ fRequest \in Seq(FlipRecords) /\ fRequest' \in Seq(FlipRecords)
        /\ DOMAIN fRequest' = DOMAIN fRequest
        /\ \A r \in DOMAIN fRequest : r \notin C => fRequest'[r].frame = fRequest[r].frame
        BY DEF FlipListsOK
  <1>3. -1 \in C \/ fGpu' = fGpu \/ "assigns" \notin {fGpu.at, fGpu'.at}
        OBVIOUS
  <1>4. -2 \in C \/ fPresent' = fPresent \/ "shows" \notin {fPresent.at, fPresent'.at}
        BY <1>1
  <1>5. \A h \in Int : h \notin C =>
           FlipHeldBy(fRequest', fGpu', fPresent')[h] = FlipHeldBy(fRequest, fGpu, fPresent)[h]
        BY <1>2, <1>3, <1>4, FlipHeldChange
  <1> QED BY <1>1, <1>5

LEMMA FlipsRefreshLast == ASSUME FlipsOK, Flips!RefreshLast PROVE FlipsOK'
  <1>0. PICK f : f = fLast
        OBVIOUS
  <1>1. FlipListsOK /\ FlipFramesOK /\ ~fFatal
        BY DEF FlipsOK
  <1>2. /\ fPresent.at \in {"idle", "refreshes"} /\ f # None /\ fLast' = None
        /\ fFree' \in Flips!Kept(fFree, Flips!Range(fFree) \ {f}) /\ fPresent'.at = "shows" /\ fPresent'.frame = f
        /\ fFatal' = (fFatal \/ f \notin Flips!Range(fFree))
        /\ UNCHANGED <<fOpened, fClosing, fGeneration, fDriver, fGcQueueNum, fGuest, fGpu>>
        /\ UNCHANGED <<fRequest, fRequests, fCpuRequests, fCancelled, fProcessing>>
        /\ UNCHANGED <<fSubmissions, fDeferred>>
        BY <1>0 DEF Flips!RefreshLast, Flips!port, Flips!status, Flips!queue, Flips!work
  <1>3. f \in Flips!Range(fFree) /\ FlipFramesAt(fFree, FlipHeldBy(fRequest, fGpu, fPresent))
        BY <1>0, <1>1, <1>2 DEF FlipFramesOK, FlipHeld
  <1>4. ~fFatal'
        BY <1>1, <1>2, <1>3
  <1>5. fRequest \in Seq(FlipRecords) /\ fRequest' \in Seq(FlipRecords)
        BY <1>1, <1>2 DEF FlipListsOK
  <1>6. FlipHeldBy(fRequest, fGpu, fPresent)[-2] = None
        BY <1>2, <1>5, FlipHolders
  <1>7. \A k \in Int : FlipHeldBy(fRequest', fGpu', fPresent')[k]
                         = IF k = -2 THEN f ELSE FlipHeldBy(fRequest, fGpu, fPresent)[k]
    <2>1. FlipHeldBy(fRequest', fGpu', fPresent')[-2] = f
          BY <1>2, <1>5, FlipHolders
    <2>2. \A k \in Int : k # -2 =>
             FlipHeldBy(fRequest', fGpu', fPresent')[k] = FlipHeldBy(fRequest, fGpu, fPresent)[k]
          BY <1>1, <1>2, FlipHeldByPresent
    <2> QED BY <2>1, <2>2
  <1>8. FlipFramesAt(fFree', FlipHeldBy(fRequest', fGpu', fPresent')) /\ f \in Frames
    <2>1. -2 \in Int
          OBVIOUS
    <2> QED BY <2>1, <1>2, <1>3, <1>6, <1>7, FramePicked
  <1>9. FlipFramesOK'
    <2>1. fGpu'.at = "assigns" => fGpu'.frame \in Frames
          BY <1>1, <1>2 DEF FlipFramesOK
    <2> QED BY <2>1, <1>2, <1>8 DEF FlipFramesOK, FlipHeld
  <1>10. /\ fPresent.at \notin {"due", "presents", "ends"}
         /\ fPresent'.at \notin {"due", "presents", "ends"}
        BY <1>2
  <1> QED BY <1>2, <1>4, <1>9, <1>10, FlipsRefreshed

LEMMA FlipsBlankAcquires == ASSUME FlipsOK, Flips!BlankAcquires PROVE FlipsOK'
  <1>1. FlipListsOK /\ FlipFramesOK /\ ~fFatal
        BY DEF FlipsOK
  <1>2. /\ fPresent.at = "acquires" /\ fPresent'.at = "shows" /\ fPresent'.frame = Head(fFree)
        /\ fFree # <<>> /\ fFree' = Tail(fFree)
        /\ fLast' = IF fLast = Head(fFree) THEN None ELSE fLast
        /\ UNCHANGED <<fOpened, fClosing, fGeneration, fDriver, fGcQueueNum, fGuest, fGpu, fFatal>>
        /\ UNCHANGED <<fRequest, fRequests, fCpuRequests, fCancelled, fProcessing>>
        /\ UNCHANGED <<fSubmissions, fDeferred>>
        BY DEF Flips!BlankAcquires, Flips!Acquire, Flips!port, Flips!status, Flips!queue, Flips!work
  <1>3. FlipFramesAt(fFree, FlipHeldBy(fRequest, fGpu, fPresent)) /\ fLast \in Flips!Range(fFree) \cup {None}
        BY <1>1 DEF FlipFramesOK, FlipHeld
  <1>4. fRequest \in Seq(FlipRecords) /\ fRequest' \in Seq(FlipRecords)
        BY <1>1, <1>2 DEF FlipListsOK
  <1>5. FlipHeldBy(fRequest, fGpu, fPresent)[-2] = None
        BY <1>2, <1>4, FlipHolders
  <1>6. \A k \in Int : FlipHeldBy(fRequest', fGpu', fPresent')[k]
                         = IF k = -2 THEN Head(fFree) ELSE FlipHeldBy(fRequest, fGpu, fPresent)[k]
    <2>1. FlipHeldBy(fRequest', fGpu', fPresent')[-2] = Head(fFree)
          BY <1>2, <1>4, FlipHolders
    <2>2. \A k \in Int : k # -2 =>
             FlipHeldBy(fRequest', fGpu', fPresent')[k] = FlipHeldBy(fRequest, fGpu, fPresent)[k]
          BY <1>1, <1>2, FlipHeldByPresent
    <2> QED BY <2>1, <2>2
  <1>7. -2 \in Int
        OBVIOUS
  <1>8. FlipFramesAt(Tail(fFree), FlipHeldBy(fRequest', fGpu', fPresent'))
        BY <1>2, <1>3, <1>5, <1>6, <1>7, FrameTaken
  <1>9. Head(fFree) \in Frames /\ Flips!Range(fFree) = Flips!Range(Tail(fFree)) \cup {Head(fFree)}
        BY <1>2, <1>3, FlipTail DEF FlipFramesAt
  <1>10. FlipFramesOK'
    <2>1. fGpu'.at = "assigns" => fGpu'.frame \in Frames
          BY <1>1, <1>2 DEF FlipFramesOK
    <2>2. fLast' \in Flips!Range(fFree') \cup {None}
          BY <1>2, <1>3, <1>9
    <2> QED BY <2>1, <2>2, <1>2, <1>8, <1>9 DEF FlipFramesOK, FlipHeld
  <1>11. /\ fPresent.at \notin {"due", "presents", "ends"}
         /\ fPresent'.at \notin {"due", "presents", "ends"}
        BY <1>2
  <1> QED BY <1>1, <1>2, <1>10, <1>11, FlipsRefreshed

LEMMA FlipsRefreshShows == ASSUME FlipsOK, Flips!RefreshShows PROVE FlipsOK'
  <1>0. PICK f : f = fPresent.frame
        OBVIOUS
  <1>1. FlipListsOK /\ FlipFramesOK /\ ~fFatal
        BY DEF FlipsOK
  <1>2. f # None
    <2>1. fPresent.at = "shows"
          BY DEF Flips!RefreshShows
    <2> QED BY <2>1, <1>0, <1>1, FlipAssumes DEF FlipFramesOK, Flips!FlipAssumption
  <1>3. /\ fPresent.at = "shows" /\ fPresent'.at = "idle" /\ fFree' = Append(fFree, f)
        /\ fLast' \in {fLast, f}
        /\ UNCHANGED <<fOpened, fClosing, fGeneration, fDriver, fGcQueueNum, fGuest, fGpu, fFatal>>
        /\ UNCHANGED <<fRequest, fRequests, fCpuRequests, fCancelled, fProcessing>>
        /\ UNCHANGED <<fSubmissions, fDeferred>>
        BY <1>0, <1>2 DEF Flips!RefreshShows, Flips!Release, Flips!Idle, Flips!port, Flips!status,
                          Flips!queue, Flips!work
  <1>4. fRequest \in Seq(FlipRecords) /\ fRequest' \in Seq(FlipRecords)
        BY <1>1, <1>3 DEF FlipListsOK
  <1>5. FlipHeldBy(fRequest, fGpu, fPresent)[-2] = f
        BY <1>0, <1>3, <1>4, FlipHolders
  <1>6. FlipHeldBy(fRequest', fGpu', fPresent')[-2] = None
        BY <1>3, <1>4, FlipHolders
  <1>7. \A k \in Int : k # -2 =>
           FlipHeldBy(fRequest', fGpu', fPresent')[k] = FlipHeldBy(fRequest, fGpu, fPresent)[k]
        BY <1>1, <1>3, FlipHeldByPresent
  <1>8. /\ fGpu'.at = "assigns" => fGpu'.frame \in Frames
        /\ fPresent'.at = "shows" => fPresent'.frame \in Frames
        BY <1>1, <1>3 DEF FlipFramesOK
  <1>9. fLast' \in {fLast, f} /\ -2 \in Int
        BY <1>3
  <1>10. FlipFramesOK'
        BY <1>1, <1>2, <1>3, <1>5, <1>6, <1>7, <1>8, <1>9, FlipGivesFrame
  <1>11. /\ fPresent.at \notin {"due", "presents", "ends"}
         /\ fPresent'.at \notin {"due", "presents", "ends"}
        BY <1>3
  <1> QED BY <1>1, <1>3, <1>10, <1>11, FlipsRefreshed

\* Close takes its port's flips out of the lists.
LEMMA FlipsCancelMoves == ASSUME FlipsOK, NEW t \in Guests, Flips!CancelMoves(t) PROVE FlipsOK'
  <1>0. PICK p, all, unfinished, dropped :
          /\ p = fGuest[t].port /\ all = {r \in Flips!Queued : fRequest[r].port = p}
          /\ unfinished = {r \in all : fRequest[r].state \in {"Reserved", "Recording"}}
          /\ dropped = all \ unfinished
        OBVIOUS
  <1>1. /\ FlipListsOK /\ FlipPortsOK /\ FlipWorkOK /\ FlipShownOK /\ FlipFramesOK
        /\ FlipCountsOK /\ ~fFatal
        BY DEF FlipsOK
  <1>2. /\ fGuest[t].at = "cancels" /\ Flips!MayCancel(p)
        /\ fRequests' \in Flips!Kept(fRequests, Flips!Queued \ all) /\ fCpuRequests' = fCpuRequests \ all
        /\ fCancelled' = fCancelled \cup unfinished
        /\ fRequest' = [r \in DOMAIN fRequest |-> IF r \in dropped THEN Flips!Gone ELSE fRequest[r]]
        /\ fFatal' = (fFatal \/ \E r \in all : fRequest[r].state = "Presenting")
        /\ \E d \in Flips!Kept(fRequests, {r \in dropped : fRequest[r].frame # None}) :
             fFree' = fFree \o [k \in DOMAIN d |-> fRequest[d[k]].frame]
        /\ fGuest' = [fGuest EXCEPT ![t] = [at |-> "resets", port |-> p]]
        /\ UNCHANGED <<fOpened, fClosing, fGeneration, fGcQueueNum, fDriver, fProcessing, fLast>>
        /\ UNCHANGED <<fSubmissions, fDeferred, fGpu, fPresent>>
        BY <1>0 DEF Flips!CancelMoves, Flips!port, Flips!status, Flips!work
  <1>3. /\ p \in Ports /\ fClosing[p] /\ fDriver = t
        /\ fGuest'[t].at = "resets" /\ fGuest'[t].port = p /\ DOMAIN fGuest' = Guests
        /\ \A u \in Guests : u # t => fGuest'[u] = fGuest[u]
        BY <1>0, <1>1, <1>2 DEF FlipPortsOK
  <1>4. /\ fRequest \in Seq(FlipRecords) /\ fRequests \in Seq(DOMAIN fRequest)
        /\ Flips!IsInjective(fRequests) /\ Flips!Queued \subseteq DOMAIN fRequest
        /\ DOMAIN fRequest = 1 .. Len(fRequest) /\ Len(fRequest) \in Nat
        BY <1>1 DEF FlipListsOK
  <1>5. /\ fRequest' \in Seq(FlipRecords) /\ DOMAIN fRequest' = DOMAIN fRequest
        /\ \A r \in DOMAIN fRequest : r \notin dropped => fRequest'[r] = fRequest[r]
        /\ \A r \in dropped : /\ r \in DOMAIN fRequest /\ fRequest'[r].state = "Gone"
                              /\ fRequest'[r].frame = None
    <2>1. dropped \subseteq DOMAIN fRequest
          BY <1>0, <1>4
    <2>2. \A r \in DOMAIN fRequest : (IF r \in dropped THEN Flips!Gone ELSE fRequest[r]) \in FlipRecords
          BY <1>4, FlipGone
    <2>3. fRequest' \in Seq(FlipRecords) /\ DOMAIN fRequest' = DOMAIN fRequest
          BY <2>2, <1>2, <1>4
    <2> QED BY <2>1, <2>3, <1>2, FlipGone
  <1>6. /\ fRequests' \in Seq(DOMAIN fRequest) /\ Flips!IsInjective(fRequests')
        /\ Flips!Range(fRequests') = Flips!Range(fRequests) \ all
        /\ fRequests # <<>> /\ Head(fRequests) \in Flips!Queued \ all =>
             fRequests' # <<>> /\ Head(fRequests') = Head(fRequests)
    <2>1. Flips!Range(fRequests) \subseteq Flips!Queued
          BY DEF Flips!Queued
    <2>2. /\ fRequests' \in Seq(DOMAIN fRequest) /\ Flips!IsInjective(fRequests')
          /\ Flips!Range(fRequests') = Flips!Range(fRequests) \cap (Flips!Queued \ all)
          /\ fRequests # <<>> /\ Head(fRequests) \in Flips!Queued \ all =>
               fRequests' # <<>> /\ Head(fRequests') = Head(fRequests)
          BY <1>2, <1>4, FlipKept
    <2> QED BY <2>1, <2>2
  <1>7. Flips!Queued' = Flips!Queued \ all
        BY <1>2, <1>6 DEF Flips!Queued
  <1>8. /\ all \subseteq Flips!Queued /\ unfinished \subseteq all /\ dropped = all \ unfinished
        /\ \A r \in unfinished : fRequest[r].state \in {"Reserved", "Recording"}
        /\ \A r \in dropped : fRequest[r].state \notin {"Reserved", "Recording"}
        BY <1>0
  <1>9. dropped \subseteq Flips!Range(fRequests) /\ dropped \cap fCpuRequests = {}
        /\ dropped \cap fCancelled = {}
    <2>1. \A r \in fCpuRequests : fRequest[r].state = "Reserved"
          BY <1>1 DEF FlipListsOK
    <2>2. \A r \in fCancelled : fRequest[r].state \in {"Reserved", "Recording"}
          BY <1>1 DEF FlipListsOK
    <2> QED BY <2>1, <2>2, <1>8 DEF Flips!Queued
  <1>10. fProcessing => /\ fRequests # <<>> /\ Head(fRequests) = fPresent.flip
                        /\ Head(fRequests) \in Flips!Queued \ all
    <2> SUFFICES ASSUME fProcessing
                 PROVE  /\ fRequests # <<>> /\ Head(fRequests) = fPresent.flip
                        /\ Head(fRequests) \in Flips!Queued \ all
        OBVIOUS
    <2>1. fRequests # <<>> /\ Head(fRequests) = fPresent.flip /\ fPresent.flip \in Flips!Range(fRequests)
          BY <1>1, FlipShownReady
    <2>2. fRequest[Head(fRequests)].port # p
          BY <2>1, <1>2 DEF Flips!MayCancel
    <2> QED BY <2>1, <2>2, <1>0 DEF Flips!Queued
  <1>11. ~fFatal'
    <2>1. ASSUME NEW r \in all, fRequest[r].state = "Presenting" PROVE FALSE
      <3>1. r \in DOMAIN fRequest
            BY <1>4, <1>8
      <3>2. fProcessing /\ r = fPresent.flip
            BY <2>1, <3>1, <1>1 DEF FlipShownOK
      <3> QED BY <3>2, <1>10
    <2> QED BY <2>1, <1>1, <1>2
  <1>12. FlipListsOK'
    <2>1. Flips!Queued' \cup fCancelled' = {r \in DOMAIN fRequest' : fRequest'[r].state # "Gone"}
      <3>1. Flips!Queued' \cup fCancelled' = (Flips!Queued \cup fCancelled) \ dropped
            BY <1>2, <1>7, <1>8, <1>9
      <3>2. Flips!Queued \cup fCancelled = {r \in DOMAIN fRequest : fRequest[r].state # "Gone"}
            BY <1>1 DEF FlipListsOK
      <3>3. \A r \in DOMAIN fRequest :
              fRequest'[r].state # "Gone" <=> fRequest[r].state # "Gone" /\ r \notin dropped
            BY <1>5
      <3> QED BY <3>1, <3>2, <3>3, <1>5
    <2>2. fCpuRequests' \subseteq DOMAIN fRequest' /\ fCancelled' \subseteq DOMAIN fRequest'
          /\ fRequests' \in Seq(DOMAIN fRequest')
          BY <1>1, <1>2, <1>4, <1>5, <1>6, <1>8 DEF FlipListsOK
    <2>3. Flips!Range(fRequests') \cap fCpuRequests' = {} /\ Flips!Queued' \cap fCancelled' = {}
          BY <1>1, <1>2, <1>6, <1>7, <1>8 DEF FlipListsOK
    <2>4. \A r \in fCpuRequests' : fRequest'[r].state = "Reserved" /\ fRequest'[r].source = "Cpu"
          BY <1>1, <1>2, <1>5, <1>9 DEF FlipListsOK
    <2>5. \A r \in fCancelled' : fRequest'[r].state \in {"Reserved", "Recording"}
      <3>1. \A r \in fCancelled : fRequest'[r] = fRequest[r]
            BY <1>1, <1>5, <1>9 DEF FlipListsOK
      <3>2. \A r \in unfinished : fRequest'[r] = fRequest[r]
            BY <1>4, <1>5, <1>8
      <3> QED BY <3>1, <3>2, <1>1, <1>2, <1>8 DEF FlipListsOK
    <2>6. \A r \in DOMAIN fRequest' :
       /\ fRequest'[r].state # "Gone" => /\ fRequest'[r].port \in Ports
                                         /\ fRequest'[r].source \in {"Cpu", "GpuEop"}
       /\ fRequest'[r].state \in {"Reserved", "Gone"} => fRequest'[r].frame = None
       /\ fRequest'[r].state = "Ready" => fRequest'[r].frame # None
          BY <1>1, <1>5 DEF FlipListsOK
    <2> QED BY <2>1, <2>2, <2>3, <2>4, <2>5, <2>6, <1>5, <1>6 DEF FlipListsOK
  <1>13. FlipPortsOK'
    <2>1. \A u \in Guests :
       /\ fGuest'[u].at \in {"cancels", "resets"} =>
            fDriver = u /\ fGuest'[u].port \in Ports /\ fClosing[fGuest'[u].port]
       /\ fGuest'[u].at = "reserves" =>
            /\ fGuest'[u].port \in Ports /\ fGuest'[u].index \in Indices
            /\ fOpened[fGuest'[u].port] \/ fClosing[fGuest'[u].port]
          BY <1>1, <1>3 DEF FlipPortsOK
    <2> QED BY <2>1, <1>1, <1>2, <1>3 DEF FlipPortsOK
  <1>14. FlipWorkOK'
    <2>1. \A r \in DOMAIN fRequest : FlipUnfinished(r) => FlipIsSame(r)
      <3> SUFFICES ASSUME NEW r \in DOMAIN fRequest, FlipUnfinished(r) PROVE FlipIsSame(r)
          OBVIOUS
      <3>1. r \notin dropped /\ (r \in all => r \in unfinished)
            BY <1>0 DEF FlipUnfinished
      <3>2. r \in DOMAIN fRequest' /\ fRequest'[r] = fRequest[r]
            BY <3>1, <1>5
      <3>3. r \in fCpuRequests \cup fCancelled => r \in fCpuRequests' \cup fCancelled'
            BY <3>1, <1>2
      <3>4. r \in Flips!Range(fRequests) \cup fCancelled => r \in Flips!Range(fRequests') \cup fCancelled'
            BY <3>1, <1>2, <1>6
      <3>5. r \in Flips!Range(fRequests') => r \in Flips!Range(fRequests)
            BY <1>6
      <3> QED BY <3>2, <3>3, <3>4, <3>5 DEF FlipIsSame
    <2>2. \A u \in Guests : fGuest'[u].at = "submits" => fGuest'[u] = fGuest[u]
          BY <1>3
    <2> QED BY <2>1, <2>2, <1>1, <1>2, <1>5, FlipWorkFinished
  <1>15. FlipShownOK'
    <2>1. fProcessing => fRequests' # <<>> /\ Head(fRequests') = Head(fRequests)
          BY <1>6, <1>10
    <2>2. fProcessing => fPresent.flip \notin dropped /\ fPresent.flip \in DOMAIN fRequest
          BY <1>4, <1>8, <1>10
    <2>3. fPresent.at \in {"due", "presents", "ends"} => fRequest'[fPresent.flip] = fRequest[fPresent.flip]
          BY <2>2, <1>1, <1>5 DEF FlipShownOK
    <2>4. \A r \in DOMAIN fRequest' : fRequest'[r].state = "Presenting" =>
             fRequest[r].state = "Presenting"
          BY <1>5
    <2>5. fProcessing \in BOOLEAN /\ (fProcessing <=> fPresent.at \in {"due", "presents", "ends"})
          BY <1>1 DEF FlipShownOK
    <2> QED BY <2>1, <2>3, <2>4, <2>5, <1>1, <1>2, <1>5, <1>10 DEF FlipShownOK
  <1>16. FlipCountsOK'
    <2>1. \A u \in Guests : fGuest[u].at = "cancels" =>
             fGuest'[u] = fGuest[u] \/ \A r \in Flips!Queued' : fRequest'[r].port # fGuest[u].port
      <3>1. \A r \in Flips!Queued' : fRequest'[r].port # p
            BY <1>0, <1>4, <1>5, <1>7, <1>8
      <3> QED BY <3>1, <1>0, <1>3
    <2>2. \A r \in Flips!Queued' : fRequest'[r] = fRequest[r]
          BY <1>4, <1>5, <1>7, <1>8
    <2>3. \A r \in Flips!Queued : Flips!Current(r) => r \notin all
          BY <1>0, <1>3 DEF Flips!Current
    <2>4. \A r \in Flips!Queued : Flips!Current(r) /\ fRequest[r].source = "GpuEop" =>
             (r \in Flips!Range(fRequests') <=> r \in Flips!Range(fRequests))
          BY <2>3, <1>6
    <2>5. Flips!Queued' \subseteq Flips!Queued
          BY <1>7
    <2> QED BY <2>1, <2>2, <2>4, <2>5, <1>1, <1>2, FlipCountsMoves DEF Flips!port
  <1>17. FlipFramesOK'
    <2>1. PICK d \in Flips!Kept(fRequests, {r \in dropped : fRequest[r].frame # None}) :
             fFree' = fFree \o [k \in DOMAIN d |-> fRequest[d[k]].frame]
          BY <1>2
    <2>2. /\ d \in Seq(DOMAIN fRequest) /\ Flips!IsInjective(d)
          /\ Flips!Range(d) = {r \in dropped : fRequest[r].frame # None}
      <3>1. /\ d \in Seq(DOMAIN fRequest) /\ Flips!IsInjective(d)
            /\ Flips!Range(d) = Flips!Range(fRequests) \cap {r \in dropped : fRequest[r].frame # None}
            BY <1>4, FlipKept
      <3> QED BY <3>1, <1>9
    <2>3. d \in Seq(dropped)
      <3>1. \A k \in 1 .. Len(d) : d[k] \in Flips!Range(d)
            BY <2>2 DEF Flips!Range
      <3> QED BY <3>1, <2>2
    <2>4. \A r \in dropped : FlipHeldBy(fRequest, fGpu, fPresent)[r] = fRequest[r].frame
      <3>1. \A r \in DOMAIN fRequest : FlipHeldBy(fRequest, fGpu, fPresent)[r] = fRequest[r].frame
            BY <1>4, FlipHolders
      <3>2. dropped \subseteq DOMAIN fRequest
            BY <1>5
      <3> QED BY <3>1, <3>2
    <2>5. Flips!Range(d) = {h \in dropped : FlipHeldBy(fRequest, fGpu, fPresent)[h] # None}
          BY <2>2, <2>4
    <2>6. PICK g : g = [k \in DOMAIN d |-> fRequest[d[k]].frame]
          OBVIOUS
    <2>7. g = [k \in DOMAIN d |-> FlipHeldBy(fRequest, fGpu, fPresent)[d[k]]]
      <3>1. \A k \in DOMAIN d : d[k] \in dropped
            BY <2>3
      <3> QED BY <3>1, <2>4, <2>6
    <2>8. \A k \in Int : FlipHeldBy(fRequest', fGpu', fPresent')[k]
                           = IF k \in dropped THEN None ELSE FlipHeldBy(fRequest, fGpu, fPresent)[k]
      <3>1. \A k \in Int : k \notin dropped =>
               FlipHeldBy(fRequest', fGpu', fPresent')[k] = FlipHeldBy(fRequest, fGpu, fPresent)[k]
        <4>1. \A r \in DOMAIN fRequest : r \notin dropped => fRequest'[r].frame = fRequest[r].frame
              BY <1>5
        <4>2. fGpu' = fGpu /\ fPresent' = fPresent
              BY <1>2
        <4> QED BY <4>1, <4>2, <1>4, <1>5, FlipHeldChange
      <3>2. \A r \in dropped : FlipHeldBy(fRequest', fGpu', fPresent')[r] = None
        <4>1. \A r \in dropped : FlipHeldBy(fRequest', fGpu', fPresent')[r] = fRequest'[r].frame
              BY <1>5, FlipHolders
        <4> QED BY <4>1, <1>5
      <3> QED BY <3>1, <3>2
    <2>9. FlipFramesAt(fFree, FlipHeldBy(fRequest, fGpu, fPresent)) /\ fLast \in Flips!Range(fFree) \cup {None}
          BY <1>1 DEF FlipFramesOK, FlipHeld
    <2>10. dropped \in SUBSET Int
          BY <1>4, <1>5
    <2>11. FlipFramesAt(fFree \o g, FlipHeldBy(fRequest', fGpu', fPresent'))
          BY <2>2, <2>3, <2>5, <2>7, <2>8, <2>9, <2>10, FramesGiven
    <2>12. fLast' \in Flips!Range(fFree') \cup {None}
      <3>1. fFree \in Seq(Frames) /\ g \in Seq(Frames)
        <4>1. \A k \in DOMAIN d : d[k] \in Int /\ FlipHeldBy(fRequest, fGpu, fPresent)[d[k]] # None
              BY <2>2, <2>3, <2>5, <2>10 DEF Flips!Range
        <4>2. \A k \in DOMAIN d : FlipHeldBy(fRequest, fGpu, fPresent)[d[k]] \in Frames
              BY <4>1, <2>9 DEF FlipFramesAt
        <4>3. DOMAIN d = 1 .. Len(d) /\ Len(d) \in Nat
              BY <2>2
        <4>4. g \in Seq(Frames)
              BY <4>2, <4>3, <2>7
        <4> QED BY <4>4, <2>9 DEF FlipFramesAt
      <3>2. Flips!Range(fFree) \subseteq Flips!Range(fFree \o g)
        <4>1. \A k \in 1 .. Len(fFree) : k \in DOMAIN (fFree \o g) /\ (fFree \o g)[k] = fFree[k]
              BY <3>1
        <4> QED BY <4>1, <3>1 DEF Flips!Range
      <3> QED BY <3>2, <2>1, <2>6, <2>9, <1>2
    <2>13. /\ fGpu'.at = "assigns" => fGpu'.frame \in Frames
           /\ fPresent'.at = "shows" => fPresent'.frame \in Frames
          BY <1>1, <1>2 DEF FlipFramesOK
    <2> QED BY <2>1, <2>6, <2>11, <2>12, <2>13 DEF FlipFramesOK, FlipHeld
  <1> QED BY <1>11, <1>12, <1>13, <1>14, <1>15, <1>16, <1>17 DEF FlipsOK

(***************************************************************************)
(* The invariant and what it says.                                         *)
(***************************************************************************)
LEMMA FlipsBegin == Flips!Init => FlipsOK
  <1> SUFFICES ASSUME Flips!Init PROVE FlipsOK
      OBVIOUS
  <1>1. /\ fOpened = [p \in Ports |-> FALSE] /\ fClosing = [p \in Ports |-> FALSE]
        /\ fGeneration = [p \in Ports |-> 0] /\ fGcQueueNum = [p \in Ports |-> 0]
        /\ fRequest = <<>> /\ fRequests = <<>> /\ fCpuRequests = {} /\ fCancelled = {}
        /\ fProcessing = FALSE /\ fFree \in Flips!FrameOrders /\ fLast = None
        /\ fSubmissions = <<>> /\ fDeferred = <<>> /\ fGpu.at = "idle" /\ fPresent.at = "idle"
        /\ DOMAIN fGuest = Guests /\ \A t \in Guests : fGuest[t].at = "idle"
        /\ ~fFatal
        BY DEF Flips!Init, Flips!Idle
  <1>2. /\ \A A : <<>> \in Seq(A)
        /\ DOMAIN <<>> = {}
        OBVIOUS
  <1>3. Flips!Range(<<>>) = {} /\ Flips!IsInjective(<<>>)
        BY <1>2 DEF Flips!Range, Flips!IsInjective
  <1>4. Flips!Queued = {}
        BY <1>1, <1>3 DEF Flips!Queued
  <1>5. FlipListsOK
    <2>1. fRequest \in Seq(FlipRecords) /\ fRequests \in Seq(DOMAIN fRequest)
          BY <1>1, <1>2
    <2>2. DOMAIN fRequest = {} /\ Flips!Range(fRequests) = {} /\ Flips!IsInjective(fRequests)
          BY <1>1, <1>2, <1>3
    <2> QED BY <2>1, <2>2, <1>1, <1>4 DEF FlipListsOK
  <1>6. FlipPortsOK
        BY <1>1 DEF FlipPortsOK
  <1>7. FlipWorkOK
    <2>1. fSubmissions \in Seq(DOMAIN fRequest) /\ fDeferred \in Seq(DOMAIN fRequest)
          BY <1>1, <1>2
    <2>2. /\ Flips!IsInjective(fSubmissions) /\ Flips!IsInjective(fDeferred)
          /\ Flips!Range(fSubmissions) = {} /\ Flips!Range(fDeferred) = {}
          BY <1>1, <1>3
    <2> QED BY <2>1, <2>2, <1>1 DEF FlipWorkOK, FlipRecorded
  <1>8. FlipShownOK
    <2>1. DOMAIN fRequest = {}
          BY <1>1, <1>2
    <2> QED BY <2>1, <1>1 DEF FlipShownOK
  <1>9. FlipFramesOK
    <2>1. Flips!Cardinality(Frames) \in Nat
          BY FlipSizes, FS_CardinalityType, FlipAssumes DEF Flips!FlipAssumption
    <2>2. fFree \in Seq(Frames) /\ Flips!IsInjective(fFree) /\ Flips!Range(fFree) = Frames
          BY <2>1, <1>1 DEF Flips!FrameOrders
    <2>3. \A h \in Int : FlipHeld[h] = None
      <3>1. fRequest \in Seq(FlipRecords) /\ DOMAIN fRequest = {}
            BY <1>1, <1>2
      <3>2. FlipHeld = FlipHeldBy(fRequest, fGpu, fPresent)
            BY DEF FlipHeld
      <3>3. /\ FlipHeldBy(fRequest, fGpu, fPresent)[-1] = None /\ FlipHeldBy(fRequest, fGpu, fPresent)[-2] = None
            /\ \A h \in Int : h \notin DOMAIN fRequest /\ h # -1 /\ h # -2 =>
                 FlipHeldBy(fRequest, fGpu, fPresent)[h] = None
        <4>1. fRequest \in Seq(FlipRecords) /\ fGpu.at # "assigns" /\ fPresent.at # "shows"
              BY <3>1, <1>1
        <4>2. /\ FlipHeldBy(fRequest, fGpu, fPresent)[-1] = IF fGpu.at = "assigns" THEN fGpu.frame ELSE None
              /\ FlipHeldBy(fRequest, fGpu, fPresent)[-2]
                   = IF fPresent.at = "shows" THEN fPresent.frame ELSE None
              /\ \A h \in Int : h \notin DOMAIN fRequest /\ h # -1 /\ h # -2 =>
                   FlipHeldBy(fRequest, fGpu, fPresent)[h] = None
              BY <4>1, FlipHolders
        <4> QED BY <4>1, <4>2
      <3> SUFFICES ASSUME NEW h \in Int PROVE FlipHeldBy(fRequest, fGpu, fPresent)[h] = None
          BY <3>2
      <3>4. CASE h = -1 \/ h = -2
            BY <3>3, <3>4
      <3>5. CASE h # -1 /\ h # -2
            BY <3>1, <3>3, <3>5
      <3> QED BY <3>4, <3>5
    <2> QED BY <2>2, <2>3, <1>1 DEF FlipFramesOK, FlipFramesAt
  <1>10. FlipCountsOK
    <2>1. Flips!GcQueueNumCounts
          BY <1>1 DEF Flips!GcQueueNumCounts
    <2>2. Flips!QueuedAreCurrent
          BY <1>4 DEF Flips!QueuedAreCurrent
    <2> QED BY <2>1, <2>2, <1>1 DEF FlipCountsOK
  <1> QED BY <1>1, <1>5, <1>6, <1>7, <1>8, <1>9, <1>10 DEF FlipsOK

LEMMA FlipsStep == FlipsOK /\ [Flips!Next]_flipVars => FlipsOK'
  <1> SUFFICES ASSUME FlipsOK, [Flips!Next]_flipVars PROVE FlipsOK'
      OBVIOUS
  <1>1. ASSUME NEW t \in Guests, Flips!GuestBegins(t) PROVE FlipsOK'
    <2>1. ASSUME NEW p \in Ports, Flips!Open(t, p) \/ Flips!CloseBegins(t, p) PROVE FlipsOK'
          BY <2>1, FlipsOpen, FlipsCloseBegins
    <2>2. ASSUME NEW p \in Ports, NEW i \in Indices, Flips!SubmitFlip(t, p, i) PROVE FlipsOK'
          BY <2>2, FlipsLookedUp
    <2> QED BY <2>1, <2>2, <1>1 DEF Flips!GuestBegins
  <1>2. ASSUME NEW t \in Guests, Flips!GuestCall(t) PROVE FlipsOK'
    <2>1. CASE Flips!CancelMoves(t)
          BY <2>1, FlipsCancelMoves
    <2>2. CASE Flips!CancelResets(t)
          BY <2>2, FlipsCancelResets
    <2>3. CASE Flips!GuestIsRefused(t)
          BY <2>3, FlipsLookedUp
    <2>4. CASE Flips!GuestReserves(t)
          BY <2>4, FlipsGuestReserves
    <2>5. CASE Flips!GuestSubmits(t)
          BY <2>5, FlipsGuestSubmits
    <2> QED BY <2>1, <2>2, <2>3, <2>4, <2>5, <1>2 DEF Flips!GuestCall
  <1>3. ASSUME NEW p \in Ports, NEW i \in Indices, Flips!GpuFlips(p, i) \/ Flips!WaitFlipDone(p, i)
        PROVE  FlipsOK'
        BY <1>3, FlipsGpuWithout
  <1>4. CASE Flips!GpuThread
    <2>1. CASE Flips!GpuReserves
          BY <2>1, FlipsGpuReserves
    <2>2. CASE Flips!GpuRetries \/ Flips!GpuExits \/ Flips!WaitFlipDoneReturns
          BY <2>2, FlipsGpuWithout
    <2>3. CASE Flips!GpuTakesPreparation
          BY <2>3, FlipsGpuTakesPreparation
    <2>4. CASE Flips!PrepareMarks
          BY <2>4, FlipsPrepareMarks
    <2>5. CASE Flips!PrepareLooks
          BY <2>5, FlipsPrepareLooks
    <2>6. CASE Flips!PrepareAcquires
          BY <2>6, FlipsPrepareAcquires
    <2>7. CASE Flips!PrepareAssigns
          BY <2>7, FlipsPrepareAssigns
    <2>8. CASE Flips!GpuCompletes
          BY <2>8, FlipsGpuCompletes
    <2>9. CASE Flips!GpuDefers
          BY <2>9, FlipsGpuDefers
    <2> QED BY <2>1, <2>2, <2>3, <2>4, <2>5, <2>6, <2>7, <2>8, <2>9, <1>4 DEF Flips!GpuThread
  <1>5. CASE Flips!CompleteFlip
        BY <1>5, FlipsCompleteFlip
  <1>6. CASE Flips!PresentThread
    <2>1. CASE \/ Flips!Vblank \/ Flips!FlipNothing \/ Flips!RefreshBlank \/ Flips!LateLooks
               \/ Flips!PausedIdle
      <3>1. CASE Flips!PausedIdle
        <4>1. UNCHANGED flipVars
              BY <3>1 DEF Flips!PausedIdle, flipVars, Flips!vars, Flips!port, Flips!status,
                          Flips!queue, Flips!pool, Flips!work
        <4> QED BY <4>1, FlipsPresentWithout
      <3> QED BY <3>1, <2>1, FlipsPresentWithout
    <2>2. CASE Flips!FlipChooses \/ Flips!FlipNotDue
          BY <2>2, FlipsChosen
    <2>3. CASE Flips!FlipDue
          BY <2>3, FlipsDue
    <2>4. CASE Flips!FlipPresents
          BY <2>4, FlipsPresented
    <2>5. CASE Flips!FlipEnds
          BY <2>5, FlipsEnded
    <2>6. CASE Flips!RefreshLast
          BY <2>6, FlipsRefreshLast
    <2>7. CASE Flips!BlankAcquires
          BY <2>7, FlipsBlankAcquires
    <2>8. CASE Flips!RefreshShows
          BY <2>8, FlipsRefreshShows
    <2> QED BY <2>1, <2>2, <2>3, <2>4, <2>5, <2>6, <2>7, <2>8, <1>6 DEF Flips!PresentThread
  <1>7. CASE Flips!Stopped \/ UNCHANGED flipVars
    <2>1. UNCHANGED flipVars
          BY <1>7 DEF Flips!Stopped, flipVars, Flips!vars, Flips!port, Flips!status,
                      Flips!queue, Flips!pool, Flips!work
    <2> QED BY <2>1, FlipsPresentWithout
  <1> QED BY <1>1, <1>2, <1>3, <1>4, <1>5, <1>6, <1>7 DEF Flips!Next, Flips!Step

\* Each frame that is not free has exactly one holder.
LEMMA FlipsHeldOnce ==
  ASSUME FlipsOK, NEW f \in Frames
  PROVE  IF f \in Flips!Range(fFree) THEN Flips!Holders(f) = {} ELSE \E h \in Flips!Holders(f) : Flips!Holders(f) = {h}
  <1>1. /\ fRequest \in Seq(FlipRecords) /\ FlipFramesAt(fFree, FlipHeldBy(fRequest, fGpu, fPresent))
        BY DEF FlipsOK, FlipListsOK, FlipFramesOK, FlipHeld
  <1>2. f # None
        BY FlipAssumes DEF Flips!FlipAssumption
  <1>3. /\ DOMAIN fRequest \subseteq Int /\ -1 \notin DOMAIN fRequest /\ -2 \notin DOMAIN fRequest
        /\ \A r \in DOMAIN fRequest : FlipHeldBy(fRequest, fGpu, fPresent)[r] = fRequest[r].frame
        /\ FlipHeldBy(fRequest, fGpu, fPresent)[-1] = IF fGpu.at = "assigns" THEN fGpu.frame ELSE None
        /\ FlipHeldBy(fRequest, fGpu, fPresent)[-2] = IF fPresent.at = "shows" THEN fPresent.frame ELSE None
        /\ \A h \in Int : h \notin DOMAIN fRequest /\ h # -1 /\ h # -2 =>
             FlipHeldBy(fRequest, fGpu, fPresent)[h] = None
        BY <1>1, FlipHolders
  <1>4. \A h : h \in Flips!Holders(f) => h \in Int /\ FlipHeldBy(fRequest, fGpu, fPresent)[h] = f
        BY <1>3 DEF Flips!Holders
  <1>5. \A h \in Int : FlipHeldBy(fRequest, fGpu, fPresent)[h] = f => h \in Flips!Holders(f)
    <2> SUFFICES ASSUME NEW h \in Int, FlipHeldBy(fRequest, fGpu, fPresent)[h] = f
                 PROVE  h \in Flips!Holders(f)
        OBVIOUS
    <2>1. CASE h \in DOMAIN fRequest
          BY <2>1, <1>3 DEF Flips!Holders
    <2>2. CASE h = -1
          BY <2>2, <1>2, <1>3 DEF Flips!Holders
    <2>3. CASE h = -2
          BY <2>3, <1>2, <1>3 DEF Flips!Holders
    <2>4. CASE h \notin DOMAIN fRequest /\ h # -1 /\ h # -2
          BY <2>4, <1>2, <1>3
    <2> QED BY <2>1, <2>2, <2>3, <2>4
  <1>6. CASE f \in Flips!Range(fFree)
    <2>1. \A h \in Int : FlipHeldBy(fRequest, fGpu, fPresent)[h] # f
          BY <1>1, <1>2, <1>6 DEF FlipFramesAt
    <2> QED BY <2>1, <1>4, <1>6
  <1>7. CASE f \notin Flips!Range(fFree)
    <2>1. PICK h \in Int : FlipHeldBy(fRequest, fGpu, fPresent)[h] = f
          BY <1>1, <1>7 DEF FlipFramesAt
    <2>2. \A k \in Flips!Holders(f) : k = h
          BY <2>1, <1>1, <1>2, <1>4 DEF FlipFramesAt
    <2>3. h \in Flips!Holders(f)
          BY <2>1, <1>5
    <2> QED BY <2>2, <2>3, <1>7
  <1> QED BY <1>6, <1>7

LEMMA FlipsSound == FlipsOK => Flips!FlipsAreSound
  <1> SUFFICES ASSUME FlipsOK PROVE Flips!FlipsAreSound
      OBVIOUS
  <1>1. FlipListsOK /\ FlipFramesOK /\ FlipCountsOK /\ ~fFatal
        BY DEF FlipsOK
  <1>2. \A f \in Frames : IF f \in Flips!Range(fFree) THEN Flips!Holders(f) = {}
                          ELSE \E h \in Flips!Holders(f) : Flips!Holders(f) = {h}
        BY FlipsHeldOnce
  <1>3. /\ Flips!IsInjective(fFree) /\ Flips!Range(fFree) \subseteq Frames /\ fLast \in Flips!Range(fFree) \cup {None}
    <2>1. fFree \in Seq(Frames) /\ Flips!IsInjective(fFree) /\ fLast \in Flips!Range(fFree) \cup {None}
          BY <1>1 DEF FlipFramesOK, FlipFramesAt
    <2> QED BY <2>1 DEF Flips!Range
  <1>4. Flips!TypeOK
        BY <1>1, <1>2, <1>3 DEF Flips!TypeOK, FlipListsOK
  <1> QED BY <1>1, <1>4 DEF Flips!FlipsAreSound, Flips!NeverFatal, FlipCountsOK

LEMMA FlipStep ==
  ASSUME [RendererNext]_rendererVars PROVE [Flips!Next]_flipVars
  BY DEF RendererNext, rendererVars, OfBuffers, OfInterrupts, OfPages, OfFlips

\* Whatever closes, prepares, completes and shows flips, for any number of ports, guest
\* threads, frames and flips: each flip that is not finished is in one list, each frame
\* that is not free has one holder, the count that a guest polls is that of its flips
\* the GPU thread has queued, no flip outlives the opening of its port that it was
\* reserved in, and no EXIT finds a flip or a frame elsewhere (the emulator may end for a
\* queue that the CPU's flips saturate, or a port closed under a command buffer's flip).
THEOREM FlipsHold == RendererSpec => []FlipsAreSound
  <1>1. RendererInit => FlipsOK
        BY FlipsBegin DEF RendererInit
  <1>2. FlipsOK /\ [RendererNext]_rendererVars => FlipsOK'
        BY FlipStep, FlipsStep
  <1>3. FlipsOK => FlipsAreSound
        BY FlipsSound DEF FlipsAreSound
  <1> QED BY <1>1, <1>2, <1>3, PTL DEF RendererSpec
=============================================================================
