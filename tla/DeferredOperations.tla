------------------------ MODULE DeferredOperations ------------------------
(***************************************************************************)
(* The operations the renderer defers to the end of a submission, class    *)
(* CommandScheduler of src/graphics/host_gpu/renderer/commandScheduler.cpp.*)
(* Normal operations are run by the recording thread when it gets to       *)
(* PopPendingOperations, priority operations by a thread of their own, the *)
(* Runner; Shutdown drains both and ends the Runner.                       *)
(*                                                                         *)
(* A section under m_operation_mutex is one step, except that the Runner   *)
(* holds the mutex from where it finds its queue empty ("poised") to where *)
(* it is asleep: request_stop and the notifications do not take the mutex  *)
(* and can fall in between.  Waits are predicate waits, so a wakeup that   *)
(* finds its predicate false changes nothing and none is spurious.         *)
(*                                                                         *)
(* The command buffers and the timeline are in module CommandBuffers; here *)
(* "tick" and "done" are the tick being recorded and the last one the GPU  *)
(* has finished.  Operations deferred while a thread has a speculation's   *)
(* recorder are refused by an exception and left out.                      *)
(***************************************************************************)
EXTENDS Integers, Sequences, FiniteSets

CONSTANTS Threads,    \* every thread but the Runner
          Owner,      \* the thread that records, submits and retires
          Deferrers,  \* those that defer operations outside of a callback
          Waiters,    \* those that call WaitPriorityOperations from outside
          Closers,    \* those that call Shutdown
          Runner,     \* PriorityOperationsThread
          None,
          MaxTick, MaxOps  \* bounds on submissions and operations

DeferredAssumption ==
  /\ Owner \in Threads /\ Deferrers \subseteq Threads /\ Waiters \subseteq Threads /\ Closers \subseteq Threads
  /\ Runner \notin Threads /\ None \notin Threads
  /\ MaxTick \in Nat \ {0} /\ MaxOps \in Nat

VARIABLES
  tick, done,  \* CurrentTick() and the timeline's value
  known,       \* KnownGpuTick(), the value last read from the timeline
  ops,         \* every operation deferred so far, in order
  pending,     \* m_pending_operations, indices into ops
  priority,    \* m_priority_operations
  active,      \* the operation of m_priority_active, 0 when there is none
  phase,       \* m_operation_state
  stop,        \* m_priority_thread's stop request
  runner,      \* where the Runner is
  pc, arg,     \* where each thread is, and with which tick or operation
  closer,      \* the thread that does the shutdown
  asleep,      \* those blocked in m_operation_available
  owes         \* those that have pushed and not yet called notify_one

vars == <<tick, done, known, ops, pending, priority, active, phase, stop, runner, pc,
          arg, closer, asleep, owes>>
queues == <<ops, pending, priority>>
clock == <<tick, done, known>>

Statuses == {"queued", "taken", "running", "done", "dropped"}

\* m_operation_mutex is free.
Unlocked == runner # "poised"

Awake(t) == t \notin asleep /\ t \notin owes

Goto(t, place) == pc' = [pc EXCEPT ![t] = place]

SetStatus(o, status) == ops' = [ops EXCEPT ![o].status = status]

Init ==
  /\ tick = 1 /\ done = 0 /\ known = 0
  /\ ops = <<>> /\ pending = <<>> /\ priority = <<>> /\ active = 0
  /\ phase = "Open" /\ stop = FALSE /\ runner = "top"
  /\ pc = [t \in Threads |-> "idle"] /\ arg = [t \in Threads |-> 0]
  /\ closer = None /\ asleep = {} /\ owes = {}

(***************************************************************************)
(* The GPU, which finishes submissions in order, and the notifications.    *)
(***************************************************************************)

GpuFinishes == /\ done < tick - 1
               /\ done' = done + 1
               /\ UNCHANGED <<tick, known, queues, active, phase, stop, runner, pc,
                              arg, closer, asleep, owes>>

\* notify_one wakes any one of those asleep.
NotifyOne(t) ==
  /\ t \in owes
  /\ owes' = owes \ {t}
  /\ IF asleep = {} THEN UNCHANGED asleep
                    ELSE \E u \in asleep : asleep' = asleep \ {u}
  /\ UNCHANGED <<clock, queues, active, phase, stop, runner, pc, arg, closer>>

(***************************************************************************)
(* Submit, on the thread that records.                                     *)
(***************************************************************************)

Flush ==
  /\ pc[Owner] = "idle" /\ Awake(Owner) /\ phase = "Open" /\ tick < MaxTick
  /\ tick' = tick + 1
  /\ UNCHANGED <<done, known, queues, active, phase, stop, runner, pc, arg, closer,
                 asleep, owes>>

(***************************************************************************)
(* DeferOperation and DeferPriorityOperation.  An operation that is not    *)
(* queued has tick 0.                                                      *)
(***************************************************************************)

Operation(prio, k, status) == [prio |-> prio, tick |-> k, status |-> status]

\* Mutant: the Runner is not notified of a priority operation.
PushSilently(t, prio) ==
  /\ Unlocked /\ phase = "Open" /\ Len(ops) < MaxOps
  /\ ops' = Append(ops, Operation(prio, tick, "queued"))
  /\ IF prio THEN priority' = Append(priority, Len(ops) + 1) /\ UNCHANGED pending
             ELSE pending' = Append(pending, Len(ops) + 1) /\ UNCHANGED priority
  /\ UNCHANGED owes

\* The push while m_operation_state is Open, by t.
Push(t, prio) ==
  /\ Unlocked /\ phase = "Open" /\ Len(ops) < MaxOps
  /\ ops' = Append(ops, Operation(prio, tick, "queued"))
  /\ IF prio THEN /\ priority' = Append(priority, Len(ops) + 1)
                  /\ owes' = owes \cup {t}
                  /\ UNCHANGED pending
             ELSE /\ pending' = Append(pending, Len(ops) + 1)
                  /\ UNCHANGED <<priority, owes>>

Defer(t, prio) ==
  /\ pc[t] = "idle" /\ Awake(t)
  /\ Push(t, prio)
  /\ UNCHANGED <<clock, active, phase, stop, runner, pc, arg, closer, asleep>>

\* Deferred once the shutdown has begun: run by the caller when it is over.
DeferLate(t) ==
  /\ pc[t] = "idle" /\ Awake(t) /\ Unlocked /\ phase # "Open" /\ Len(ops) < MaxOps
  /\ Goto(t, "late")
  /\ UNCHANGED <<clock, queues, active, phase, stop, runner, arg, closer,
                 asleep, owes>>

RunLate(t) ==
  /\ pc[t] = "late" /\ Awake(t) /\ Unlocked /\ Len(ops) < MaxOps
  /\ IF phase = "Closed"
     THEN /\ ops' = Append(ops, Operation(FALSE, 0, "done"))
          /\ Goto(t, "idle") /\ UNCHANGED asleep
     ELSE /\ asleep' = asleep \cup {t} /\ UNCHANGED <<ops, pc>>
  /\ UNCHANGED <<clock, pending, priority, active, phase, stop, runner,
                 arg, closer, owes>>

\* From inside a callback: queued, or run at once when the shutdown has begun.
Executing(e) == IF e = Runner THEN runner = "runs" ELSE pc[e] = "runs"

DeferInCallback(e, prio) ==
  /\ Executing(e) /\ Awake(e)
  /\ \/ Push(e, prio)
     \/ /\ Unlocked /\ phase # "Open" /\ Len(ops) < MaxOps
        /\ ops' = Append(ops, Operation(prio, 0, "done"))
        /\ UNCHANGED <<pending, priority, owes>>
  /\ UNCHANGED <<clock, active, phase, stop, runner, pc, arg, closer, asleep>>

(***************************************************************************)
(* WaitPriorityOperations, called by other threads and by                  *)
(* PopPendingOperations.  Only the front of the queue is looked at.  Every *)
(* caller has waited for the GPU to finish the tick before.                *)
(***************************************************************************)

\* Mutant: only the operation that is being run is waited for.
PriorityDoneActiveOnly(k) == ~(active # 0 /\ ops[active].tick <= k)

PriorityDone(k) ==
  /\ ~(active # 0 /\ ops[active].tick <= k)
  /\ ~(priority # <<>> /\ ops[Head(priority)].tick <= k)

WaitPriority(t, k) ==
  /\ pc[t] = "idle" /\ Awake(t) /\ k <= done
  /\ Goto(t, "waits") /\ arg' = [arg EXCEPT ![t] = k]
  /\ UNCHANGED <<clock, queues, active, phase, stop, runner, closer,
                 asleep, owes>>

WaitPriorityReturns(t) ==
  /\ pc[t] = "waits" /\ Awake(t) /\ Unlocked
  /\ IF PriorityDone(arg[t])
     THEN Goto(t, "idle") /\ arg' = [arg EXCEPT ![t] = 0] /\ UNCHANGED asleep
     ELSE asleep' = asleep \cup {t} /\ UNCHANGED <<pc, arg>>
  /\ UNCHANGED <<clock, queues, active, phase, stop, runner, closer, owes>>

(***************************************************************************)
(* PopPendingOperations, on the Owner or inside a Shutdown.  The count that *)
(* may be looked at before it is the length of the queue, so it skips      *)
(* nothing the loop would not.                                             *)
(***************************************************************************)

IsFree(k) == known >= k

\* MasterSemaphore::Wait(k): returns once the GPU has finished k.
Waited(k) == /\ done >= k
             /\ known' = IF IsFree(k) THEN known ELSE done

\* Mutant: the tick being recorded is taken for the GPU's.
PopBeginsAhead ==
  /\ pc[Owner] = "idle" /\ Awake(Owner) /\ phase = "Open"
  /\ known' = tick
  /\ Goto(Owner, "pops")
  /\ UNCHANGED <<tick, done, queues, active, phase, stop, runner, arg, closer,
                 asleep, owes>>

PopBegins ==
  /\ pc[Owner] = "idle" /\ Awake(Owner) /\ phase = "Open"
  /\ known' = done
  /\ Goto(Owner, "pops")
  /\ UNCHANGED <<tick, done, queues, active, phase, stop, runner, arg, closer,
                 asleep, owes>>

\* Mutant: the front is taken whether the GPU is done with it or not.
ReadyAlways == pending # <<>>

Ready == pending # <<>> /\ IsFree(ops[Head(pending)].tick)

PopTakes(t) ==
  /\ pc[t] = "pops" /\ Unlocked /\ Ready
  /\ pending' = Tail(pending)
  /\ arg' = [arg EXCEPT ![t] = Head(pending)]
  /\ SetStatus(Head(pending), "taken")
  /\ Goto(t, "yields")
  /\ UNCHANGED <<clock, priority, active, phase, stop, runner, closer, asleep, owes>>

\* WaitPriorityOperations(operation.tick), then the callback begins.
PopRuns(t) ==
  /\ pc[t] = "yields" /\ Awake(t) /\ Unlocked
  /\ IF PriorityDone(ops[arg[t]].tick)
     THEN SetStatus(arg[t], "running") /\ Goto(t, "runs") /\ UNCHANGED asleep
     ELSE asleep' = asleep \cup {t} /\ UNCHANGED <<ops, pc>>
  /\ UNCHANGED <<clock, pending, priority, active, phase, stop, runner, arg,
                 closer, owes>>

PopReturns(t) ==
  /\ pc[t] = "runs" /\ Awake(t)
  /\ SetStatus(arg[t], "done")
  /\ arg' = [arg EXCEPT ![t] = 0]
  /\ Goto(t, "pops")
  /\ UNCHANGED <<clock, pending, priority, active, phase, stop, runner, closer,
                 asleep, owes>>

PopEnds(t) ==
  /\ pc[t] = "pops" /\ Unlocked /\ ~Ready
  /\ Goto(t, IF closer = t THEN "drains" ELSE "idle")
  /\ UNCHANGED <<clock, queues, active, phase, stop, runner, arg, closer,
                 asleep, owes>>

(***************************************************************************)
(* PriorityOperationsThread.                                               *)
(***************************************************************************)

\* Under the mutex: leave, take the front, or go to sleep with the mutex held.
RunnerLooks ==
  /\ runner = "top" /\ Awake(Runner)
  /\ \/ /\ stop
        /\ runner' = "exited" /\ UNCHANGED <<queues, active>>
     \/ /\ ~stop /\ priority # <<>>
        /\ priority' = Tail(priority) /\ active' = Head(priority)
        /\ SetStatus(Head(priority), "taken")
        /\ runner' = "waits" /\ UNCHANGED pending
     \/ /\ ~stop /\ priority = <<>>
        /\ runner' = "poised" /\ UNCHANGED <<queues, active>>
  /\ UNCHANGED <<clock, phase, stop, pc, arg, closer, asleep, owes>>

RunnerSleeps ==
  /\ runner = "poised"
  /\ runner' = "top" /\ asleep' = asleep \cup {Runner}
  /\ UNCHANGED <<clock, queues, active, phase, stop, pc, arg, closer, owes>>

\* After m_master.Wait; a stop request drops the operation.
RunnerRuns ==
  /\ runner = "waits"
  /\ Waited(ops[active].tick)
  /\ IF stop THEN SetStatus(active, "dropped") /\ runner' = "clears"
             ELSE SetStatus(active, "running") /\ runner' = "runs"
  /\ UNCHANGED <<tick, done, pending, priority, active, phase, stop, pc, arg,
                 closer, asleep, owes>>

RunnerReturns ==
  /\ runner = "runs" /\ Awake(Runner)
  /\ SetStatus(active, "done") /\ runner' = "clears"
  /\ UNCHANGED <<clock, pending, priority, active, phase, stop, pc, arg, closer,
                 asleep, owes>>

RunnerClears ==
  /\ runner = "clears"
  /\ active' = 0 /\ runner' = "notifies"
  /\ UNCHANGED <<clock, queues, phase, stop, pc, arg, closer, asleep, owes>>

RunnerNotifies ==
  /\ runner = "notifies"
  /\ runner' = "top" /\ asleep' = {}
  /\ UNCHANGED <<clock, queues, active, phase, stop, pc, arg, closer, owes>>

(***************************************************************************)
(* Shutdown.  Its callers have stopped the Owner first, or are the Owner.  *)
(* Called from a callback it returns at once.                              *)
(***************************************************************************)

ShutdownBegins(t) ==
  /\ pc[t] = "idle" /\ Awake(t) /\ Unlocked
  /\ pc[Owner] = "idle" /\ Awake(Owner)
  /\ phase = "Open"
  /\ phase' = "Draining" /\ closer' = t
  /\ Goto(t, "submits")
  /\ UNCHANGED <<clock, queues, active, stop, runner, arg, asleep, owes>>

\* The last command buffer; the GPU thread has one open between two Flushes.
ShutdownSubmits(t) ==
  /\ pc[t] = "submits"
  /\ tick' = tick + 1
  /\ Goto(t, "retires")
  /\ UNCHANGED <<done, known, queues, active, phase, stop, runner, arg, closer,
                 asleep, owes>>

ShutdownRetires(t) ==
  /\ pc[t] = "retires"
  /\ done >= tick - 1 /\ known' = done
  /\ Goto(t, "pops")
  /\ UNCHANGED <<tick, done, queues, active, phase, stop, runner, arg, closer,
                 asleep, owes>>

Drained == priority = <<>> /\ active = 0

ShutdownDrains(t) ==
  /\ pc[t] = "drains" /\ Awake(t) /\ Unlocked
  /\ IF Drained THEN Goto(t, "stops") /\ UNCHANGED asleep
                ELSE asleep' = asleep \cup {t} /\ UNCHANGED pc
  /\ UNCHANGED <<clock, queues, active, phase, stop, runner, arg, closer, owes>>

\* request_stop and notify_all, without the mutex.
ShutdownStops(t) ==
  /\ pc[t] = "stops"
  /\ stop' = TRUE /\ Goto(t, "wakes")
  /\ UNCHANGED <<clock, queues, active, phase, runner, arg, closer, asleep, owes>>

ShutdownWakes(t) ==
  /\ pc[t] = "wakes"
  /\ asleep' = {} /\ Goto(t, "joins")
  /\ UNCHANGED <<clock, queues, active, phase, stop, runner, arg, closer, owes>>

ShutdownJoins(t) ==
  /\ pc[t] = "joins" /\ runner = "exited"
  /\ phase' = "Closed" /\ Goto(t, "tells")
  /\ UNCHANGED <<clock, queues, active, stop, runner, arg, closer, asleep, owes>>

ShutdownTells(t) ==
  /\ pc[t] = "tells"
  /\ asleep' = {} /\ closer' = None /\ Goto(t, "idle")
  /\ UNCHANGED <<clock, queues, active, phase, stop, runner, arg, owes>>

\* Another caller of Shutdown waits until the first has closed.
ShutdownJoinsOther(t) ==
  /\ pc[t] = "idle" /\ Awake(t) /\ Unlocked /\ phase = "Draining"
  /\ Goto(t, "follows")
  /\ UNCHANGED <<clock, queues, active, phase, stop, runner, arg, closer, asleep, owes>>

ShutdownFollows(t) ==
  /\ pc[t] = "follows" /\ Awake(t) /\ Unlocked
  /\ IF phase = "Closed" THEN Goto(t, "idle") /\ UNCHANGED asleep
                         ELSE asleep' = asleep \cup {t} /\ UNCHANGED pc
  /\ UNCHANGED <<clock, queues, active, phase, stop, runner, arg, closer, owes>>

(***************************************************************************)
(* Specification.  A thread that has begun a call goes on with it, the     *)
(* Runner goes on, callbacks return, the GPU finishes what was submitted   *)
(* and the Owner keeps coming back to PopPendingOperations (it does so     *)
(* before every draw and dispatch).  Nobody has to submit, to defer or to  *)
(* shut down.                                                              *)
(***************************************************************************)

RunnerStep == \/ RunnerLooks \/ RunnerSleeps \/ RunnerRuns
              \/ RunnerReturns \/ RunnerClears \/ RunnerNotifies

Shuts(t) == \/ ShutdownSubmits(t) \/ ShutdownRetires(t) \/ ShutdownDrains(t)
            \/ ShutdownStops(t) \/ ShutdownWakes(t) \/ ShutdownJoins(t)
            \/ ShutdownTells(t) \/ ShutdownFollows(t)

Pops(t) == PopTakes(t) \/ PopRuns(t) \/ PopReturns(t) \/ PopEnds(t)

Continues(t) == Pops(t) \/ Shuts(t) \/ RunLate(t) \/ WaitPriorityReturns(t)

Calls(t) ==
  \/ t \in Deferrers /\ (DeferLate(t) \/ \E prio \in BOOLEAN : Defer(t, prio))
  \/ t \in Waiters /\ \E k \in 1 .. MaxTick : WaitPriority(t, k)
  \/ t \in Closers /\ (ShutdownBegins(t) \/ ShutdownJoinsOther(t))

Next ==
  \/ GpuFinishes \/ Flush \/ PopBegins \/ RunnerStep
  \/ \E e \in Threads \cup {Runner} :
       NotifyOne(e) \/ \E prio \in BOOLEAN : DeferInCallback(e, prio)
  \/ \E t \in Threads : Calls(t) \/ Continues(t)

Spec == Init /\ [][Next]_vars

Fairness == /\ WF_vars(GpuFinishes) /\ WF_vars(RunnerStep) /\ WF_vars(PopBegins)
            /\ \A e \in Threads \cup {Runner} : WF_vars(NotifyOne(e))
            /\ \A t \in Threads : WF_vars(Continues(t))

FairSpec == Spec /\ Fairness

(***************************************************************************)
(* Properties.                                                             *)
(***************************************************************************)

\* Every variable keeps its type, and what is known of the timeline is never
\* ahead of it.
TypeOK ==
  /\ tick \in 1 .. MaxTick + 1 /\ done \in 0 .. tick - 1 /\ known \in 0 .. done
  /\ ops \in Seq([prio : BOOLEAN, tick : 0 .. MaxTick, status : Statuses])
  /\ pending \in Seq(1 .. Len(ops)) /\ priority \in Seq(1 .. Len(ops))
  /\ active \in 0 .. Len(ops)
  /\ phase \in {"Open", "Draining", "Closed"} /\ stop \in BOOLEAN
  /\ runner \in {"top", "poised", "waits", "runs", "clears", "notifies", "exited"}
  /\ pc \in [Threads -> {"idle", "late", "waits", "pops", "yields", "runs", "submits",
                         "retires", "drains", "stops", "wakes", "joins", "tells", "follows"}]
  /\ arg \in [Threads -> Nat]
  /\ closer \in Threads \cup {None}
  /\ asleep \subseteq Threads \cup {Runner} /\ owes \subseteq Threads \cup {Runner}

\* No operation runs before the GPU has finished the submission it was
\* deferred in: what it frees may still be in use.
RunsAfterGpu == \A o \in DOMAIN ops :
  ops[o].status \in {"running", "done"} => ops[o].tick <= done

\* While a normal operation runs, every priority operation of its submission
\* and of earlier ones has run (PopPendingOperations waits for them).
PriorityFirst == \A o, p \in DOMAIN ops :
  (/\ ~ops[o].prio /\ ops[o].status = "running"
   /\ ops[p].prio /\ ops[p].tick <= ops[o].tick) => ops[p].status = "done"

\* The Runner is only told to stop when nothing is left to run, so its test of
\* the stop request never drops an operation and Shutdown finds both queues empty.
NothingLost == stop => /\ pending = <<>> /\ priority = <<>> /\ active = 0
                       /\ \A o \in DOMAIN ops : ops[o].status = "done"

\* All of it: ticks and queues are sound, operations run in time, and none is
\* dropped at the end.
DeferredInv == TypeOK /\ RunsAfterGpu /\ PriorityFirst /\ NothingLost

\* An operation of a submission that was made is run, in whichever queue it
\* is: the Runner is told of it, and PopPendingOperations waits for the Runner
\* without missing it.  (There are MaxOps of them at most and what is submitted
\* or has run stays so: each is run when, again and again, none is left.)
Submitted(o) == o \in DOMAIN ops /\ ops[o].tick < tick
Ran(o) == o \in DOMAIN ops /\ ops[o].status = "done"
OperationsRun == []<>(\A o \in DOMAIN ops : Submitted(o) => Ran(o))

\* WaitPriorityOperations returns.  Only one thread is notified of a priority
\* operation, and it might be a waiting one rather than the Runner: that does
\* not happen because the thread that defers also submits, so nobody waits yet
\* for the tick of an operation the Runner has not been told of.
WaitPriorityEnds == \A t \in Waiters : (pc[t] = "waits") ~> (pc[t] = "idle")

\* Both: what was deferred runs, and who waits for it returns.
OperationsComplete == OperationsRun /\ WaitPriorityEnds

\* "The owning thread will finish shutdown": once begun it comes to an end.
ShutdownFinishes == (phase = "Draining") ~> (phase = "Closed")
=============================================================================
