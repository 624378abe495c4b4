----------------------------- MODULE KernelSema -----------------------------
(***************************************************************************)
(* The kernel counting semaphore, class KernelSemaPrivate of               *)
(* src/kernel/semaphore.cpp: Wait, Poll, Signal, Cancel, the destructor,   *)
(* and KernelCreateSema which makes a new object once the old one is gone. *)
(*                                                                         *)
(* Every method holds m_mutex from its first to its last line except where *)
(* it sleeps, so a method that does not sleep is one action.  Signal is    *)
(* cut into the iterations of WakeWaiters, made while m_mutex is held: the *)
(* cursor `scan' is the loop's iterator, 0 when no thread holds m_mutex    *)
(* inside Signal.  A waiter that sleeps is "parked" in m_cond_var; "awake" *)
(* is the stretch between the return of WaitFor and the re-locking of      *)
(* m_mutex, in which it dispatches pending signals.                        *)
(***************************************************************************)
EXTENDS Integers, Sequences

CONSTANTS Threads,       \* threads of the guest program
          Inits, Maxes,  \* arguments of KernelCreateSema
          Needs,         \* need_count arguments of Wait
          SignalCounts,  \* signal_count arguments of Signal
          CancelCounts,  \* set_count arguments of Cancel
          Priorities     \* thread priorities, a small number is served first

ASSUME KernelSemaAssumption ==
  /\ Inits \subseteq Int /\ Maxes \subseteq Int /\ Needs \subseteq Int
  /\ SignalCounts \subseteq Int /\ CancelCounts \subseteq Int
  /\ Priorities \subseteq Int

VARIABLES
  status,    \* m_status, or "Freed" when there is no object
  count,     \* m_count
  initCount, \* m_init_count
  maxCount,  \* m_max_count
  fifo,      \* m_fifo_order
  queue,     \* m_waiting_threads, the threads whose WaitingThread is listed
  scan,      \* iterator of WakeWaiters, 0 when nobody runs it
  pc,        \* where each thread is
  need,      \* waiter.need_count
  priority,  \* waiter.priority
  timed,     \* ptr_micros # nullptr
  ready,     \* waiter.ready
  result     \* waiter.result; after the call, what Wait returned

object == <<status, initCount, maxCount, fifo>>
waiter == <<need, priority, timed>>
decision == <<ready, result>>
vars == <<status, count, initCount, maxCount, fifo, queue, scan, pc,
          need, priority, timed, ready, result>>

Results == {"Ok", "TimedOut", "Canceled", "Deleted", "InvalCount"}
Locations == {"idle", "parked", "awake", "signal", "delete"}

\* Threads that are inside Wait and on the list.
Waiting == {t \in Threads : pc[t] \in {"parked", "awake"}}

\* m_mutex can be taken: nobody is inside the loop of WakeWaiters.
MutexFree == scan = 0

(***************************************************************************)
(* The list of waiters.                                                    *)
(***************************************************************************)

\* Mutant: in front of the waiters of an equal priority.
InsertBeforeEquals(p) ==
  IF \A i \in DOMAIN queue : priority[queue[i]] < p
    THEN Len(queue) + 1
    ELSE CHOOSE i \in DOMAIN queue :
           /\ priority[queue[i]] >= p
           /\ \A j \in 1..(i - 1) : priority[queue[j]] < p

\* Where AddWaiter inserts: at the end in FIFO order, otherwise in front of
\* the first waiter of a greater priority number, behind its equals.
InsertPosition(p) ==
  IF fifo \/ \A i \in DOMAIN queue : priority[queue[i]] <= p
    THEN Len(queue) + 1
    ELSE CHOOSE i \in DOMAIN queue :
           /\ priority[queue[i]] > p
           /\ \A j \in 1..(i - 1) : priority[queue[j]] <= p

AddWaiter(t, p) ==
  LET at == InsertPosition(p)
  IN queue' = [i \in 1..(Len(queue) + 1) |->
                 IF i < at THEN queue[i]
                 ELSE IF i = at THEN t ELSE queue[i - 1]]

RemoveWaiter(t) ==
  LET at == CHOOSE i \in DOMAIN queue : queue[i] = t
  IN queue' = [i \in 1..(Len(queue) - 1) |->
                 IF i < at THEN queue[i] ELSE queue[i + 1]]

\* m_cond_var.SignalAll: every parked thread leaves WaitFor.
Awakened == [u \in Threads |-> IF pc[u] = "parked" THEN "awake" ELSE pc[u]]

\* Cancel and the destructor make every waiter ready that is not.
ReadyAll(r) ==
  /\ ready' = [u \in Threads |-> ready[u] \/ u \in Waiting]
  /\ result' = [u \in Threads |->
                  IF u \in Waiting /\ ~ready[u] THEN r ELSE result[u]]

(***************************************************************************)
(* Creation.                                                               *)
(***************************************************************************)

Init ==
  /\ status = "Freed" /\ count = 0 /\ initCount = 0 /\ maxCount = 0
  /\ fifo = FALSE /\ queue = <<>> /\ scan = 0
  /\ pc = [t \in Threads |-> "idle"]
  /\ need = [t \in Threads |-> 0]
  /\ priority = [t \in Threads |-> 0]
  /\ timed = [t \in Threads |-> FALSE]
  /\ ready = [t \in Threads |-> FALSE]
  /\ result = [t \in Threads |-> "TimedOut"]

Create(t, init, max, order) ==
  /\ status = "Freed" /\ pc[t] = "idle"
  /\ init >= 0 /\ max > 0 /\ init <= max
  /\ status' = "Set" /\ count' = init
  /\ initCount' = init /\ maxCount' = max /\ fifo' = order
  /\ UNCHANGED <<queue, scan, pc, waiter, decision>>

(***************************************************************************)
(* Wait and Poll.                                                          *)
(***************************************************************************)

\* A call enters a method: the thread is free, the object exists, m_mutex is
\* taken.
Enters(t) == pc[t] = "idle" /\ status # "Freed" /\ MutexFree

\* Mutant: the status is not looked at.
MayWaitOnDeleted(n) == n >= 1 /\ n <= maxCount

\* The need count passes the checks at the head of Wait.
MayWait(n) == n >= 1 /\ n <= maxCount /\ status = "Set"

WaitRejected(t, n) ==
  /\ Enters(t) /\ ~MayWait(n)
  /\ result' = [result EXCEPT ![t] =
                  IF n < 1 \/ n > maxCount THEN "InvalCount" ELSE "Deleted"]
  /\ UNCHANGED <<object, count, queue, scan, pc, waiter, ready>>

WaitTakes(t, n) ==
  /\ Enters(t) /\ MayWait(n) /\ count >= n
  /\ count' = count - n
  /\ result' = [result EXCEPT ![t] = "Ok"]
  /\ UNCHANGED <<object, queue, scan, pc, waiter, ready>>

\* Poll, or Wait with a timeout of zero.
PollFails(t, n) ==
  /\ Enters(t) /\ MayWait(n) /\ count < n
  /\ result' = [result EXCEPT ![t] = "TimedOut"]
  /\ UNCHANGED <<object, count, queue, scan, pc, waiter, ready>>

\* The WaitingThread of t has its initial values, see ForgetWaiter.
WaitBlocks(t, n, p, hasTimeout) ==
  /\ Enters(t) /\ MayWait(n) /\ count < n
  /\ AddWaiter(t, p)
  /\ need' = [need EXCEPT ![t] = n]
  /\ priority' = [priority EXCEPT ![t] = p]
  /\ timed' = [timed EXCEPT ![t] = hasTimeout]
  /\ result' = [result EXCEPT ![t] = "TimedOut"]
  /\ pc' = [pc EXCEPT ![t] = "parked"]
  /\ UNCHANGED <<object, count, scan, ready>>

\* WaitFor returns by itself: the 10 ms slice of an endless wait or the rest
\* of a timed one has passed, or the wakeup is spurious.
SliceEnds(t) ==
  /\ pc[t] = "parked"
  /\ pc' = [pc EXCEPT ![t] = "awake"]
  /\ UNCHANGED <<object, count, queue, scan, waiter, decision>>

\* Wait returns: its WaitingThread leaves the list and the stack.
ForgetWaiter(t) ==
  /\ RemoveWaiter(t)
  /\ need' = [need EXCEPT ![t] = 0]
  /\ priority' = [priority EXCEPT ![t] = 0]
  /\ timed' = [timed EXCEPT ![t] = FALSE]
  /\ ready' = [ready EXCEPT ![t] = FALSE]
  /\ pc' = [pc EXCEPT ![t] = "idle"]

\* The waiter has m_mutex again and finds itself ready.
WaitReturns(t) ==
  /\ pc[t] = "awake" /\ MutexFree /\ ready[t]
  /\ ForgetWaiter(t)
  /\ UNCHANGED <<object, count, scan, result>>

\* Mutant: elapsed time is tested before ready.
TimeBeforeReady(t) ==
  /\ pc[t] = "awake" /\ MutexFree /\ timed[t]
  /\ ForgetWaiter(t)
  /\ result' = [result EXCEPT ![t] = "TimedOut"]
  /\ UNCHANGED <<object, count, scan>>

\* Not ready, and the time it allowed has passed.
WaitTimesOut(t) ==
  /\ pc[t] = "awake" /\ MutexFree /\ ~ready[t] /\ timed[t]
  /\ ForgetWaiter(t)
  /\ result' = [result EXCEPT ![t] = "TimedOut"]
  /\ UNCHANGED <<object, count, scan>>

\* Not ready, time left: the loop sleeps again.
WaitSleepsAgain(t) ==
  /\ pc[t] = "awake" /\ MutexFree /\ ~ready[t]
  /\ pc' = [pc EXCEPT ![t] = "parked"]
  /\ UNCHANGED <<object, count, queue, scan, waiter, decision>>

(***************************************************************************)
(* Signal.                                                                 *)
(***************************************************************************)

\* Mutant: the maximum is not looked at.
MaySignalPastMax(n) == status = "Set"

\* The checks at the head of Signal.
MaySignal(n) == status = "Set" /\ count + n <= maxCount

SignalRejected(t, n) ==
  /\ Enters(t) /\ ~MaySignal(n)
  /\ UNCHANGED vars

SignalBegins(t, n) ==
  /\ Enters(t) /\ MaySignal(n)
  /\ count' = count + n
  /\ scan' = 1
  /\ pc' = [pc EXCEPT ![t] = "signal"]
  /\ UNCHANGED <<object, queue, waiter, decision>>

\* Mutant: a waiter that fits exactly is skipped.
FitsStrictly(u) == ~ready[u] /\ need[u] < count

\* The test of one iteration of WakeWaiters.
Fits(u) == ~ready[u] /\ need[u] <= count

\* Mutant: the iterator is advanced twice.
WakeWaiterTwice(t) ==
  /\ pc[t] = "signal" /\ scan \in DOMAIN queue
  /\ scan' = scan + 2
  /\ UNCHANGED <<object, count, queue, pc, waiter, decision>>

\* One iteration of WakeWaiters.
WakeWaiter(t) ==
  /\ pc[t] = "signal" /\ scan \in DOMAIN queue
  /\ LET u == queue[scan]
     IN IF Fits(u)
          THEN /\ count' = count - need[u]
               /\ ready' = [ready EXCEPT ![u] = TRUE]
               /\ result' = [result EXCEPT ![u] = "Ok"]
          ELSE UNCHANGED <<count, ready, result>>
  /\ scan' = scan + 1
  /\ UNCHANGED <<object, queue, pc, waiter>>

\* Mutant: SignalAll is forgotten.
SignalEndsSilently(t) ==
  /\ pc[t] = "signal" /\ scan > Len(queue)
  /\ scan' = 0
  /\ pc' = [pc EXCEPT ![t] = "idle"]
  /\ UNCHANGED <<object, count, queue, waiter, decision>>

SignalEnds(t) ==
  /\ pc[t] = "signal" /\ scan > Len(queue)
  /\ scan' = 0
  /\ pc' = [Awakened EXCEPT ![t] = "idle"]
  /\ UNCHANGED <<object, count, queue, waiter, decision>>

(***************************************************************************)
(* Cancel.                                                                 *)
(***************************************************************************)

Cancel(t, n) ==
  /\ Enters(t) /\ n <= maxCount /\ status = "Set"
  /\ count' = IF n < 0 THEN initCount ELSE n
  /\ ReadyAll("Canceled")
  /\ pc' = Awakened
  /\ UNCHANGED <<object, queue, scan, waiter>>

CancelRejected(t, n) ==
  /\ Enters(t) /\ (n > maxCount \/ status = "Deleted")
  /\ UNCHANGED vars

(***************************************************************************)
(* Deletion.  The destructor polls the list every 10 us until it is empty. *)
(***************************************************************************)

DeleteBegins(t) ==
  /\ Enters(t) /\ status = "Set"
  /\ status' = "Deleted"
  /\ ReadyAll("Deleted")
  /\ pc' = [Awakened EXCEPT ![t] = "delete"]
  /\ UNCHANGED <<count, initCount, maxCount, fifo, queue, scan, waiter>>

DeleteEnds(t) ==
  /\ pc[t] = "delete" /\ MutexFree /\ queue = <<>>
  /\ status' = "Freed"
  /\ pc' = [pc EXCEPT ![t] = "idle"]
  /\ UNCHANGED <<count, initCount, maxCount, fifo, queue, scan, waiter,
                 decision>>

-----------------------------------------------------------------------------

Calls(t) ==
  \/ \E i \in Inits, m \in Maxes, f \in BOOLEAN : Create(t, i, m, f)
  \/ \E n \in Needs : WaitRejected(t, n)
  \/ \E n \in Needs : WaitTakes(t, n)
  \/ \E n \in Needs : PollFails(t, n)
  \/ \E n \in Needs, p \in Priorities, b \in BOOLEAN : WaitBlocks(t, n, p, b)
  \/ \E n \in SignalCounts : SignalRejected(t, n)
  \/ \E n \in SignalCounts : SignalBegins(t, n)
  \/ \E n \in CancelCounts : Cancel(t, n)
  \/ \E n \in CancelCounts : CancelRejected(t, n)
  \/ DeleteBegins(t)

\* The steps a thread takes once it is inside a call.
Continues(t) ==
  \/ SliceEnds(t)
  \/ WaitReturns(t)
  \/ WaitTimesOut(t)
  \/ WaitSleepsAgain(t)
  \/ WakeWaiter(t)
  \/ SignalEnds(t)
  \/ DeleteEnds(t)

Next == \E t \in Threads : Calls(t) \/ Continues(t)

Spec == Init /\ [][Next]_vars

(***************************************************************************)
(* Fairness.  A thread that can go on without the mutex does (WF).  A      *)
(* thread that wants m_mutex, which is free again and again, is assumed to *)
(* get it (SF): neither std::recursive_mutex nor CRITICAL_SECTION starves  *)
(* a thread for ever in practice, and the destructor sleeps between its    *)
(* attempts.  WaitTimesOut is fair because elapsed time only grows.        *)
(***************************************************************************)
Fairness ==
  \A t \in Threads :
    /\ WF_vars(SliceEnds(t)) /\ WF_vars(WakeWaiter(t)) /\ WF_vars(SignalEnds(t))
    /\ SF_vars(WaitReturns(t)) /\ SF_vars(WaitTimesOut(t))
    /\ SF_vars(DeleteEnds(t))

FairSpec == Spec /\ Fairness

-----------------------------------------------------------------------------
(***************************************************************************)
(* Properties.                                                             *)
(***************************************************************************)

\* Types of the variables; every thread on the list is inside Wait, and once.
TypeOK ==
  /\ status \in {"Set", "Deleted", "Freed"}
  /\ count \in Int /\ initCount \in Int /\ maxCount \in Int
  /\ fifo \in BOOLEAN
  /\ queue \in Seq(Threads)
  /\ scan \in 0..(Len(queue) + 1)
  /\ pc \in [Threads -> Locations]
  /\ need \in [Threads -> Int]
  /\ priority \in [Threads -> Int]
  /\ timed \in [Threads -> BOOLEAN]
  /\ ready \in [Threads -> BOOLEAN]
  /\ result \in [Threads -> Results]

\* The list of the object and the stacks of the threads agree: a thread is
\* listed exactly while it is inside Wait, and never twice, so no list entry
\* outlives the WaitingThread on its owner's stack.
ListMatchesStacks ==
  /\ \A t \in Waiting : \E i \in DOMAIN queue : queue[i] = t
  /\ \A i \in DOMAIN queue : queue[i] \in Waiting
  /\ \A i, j \in DOMAIN queue : queue[i] = queue[j] => i = j

\* No waiter is stranded: whenever m_mutex is free, a waiter that is not ready
\* asks for more than is there.  WakeWaiters skips a big request and goes on,
\* and Wait may take past the list: neither may leave a waiter that fits.
NoStrandedWaiter ==
  MutexFree => \A t \in Waiting : ~ready[t] => need[t] > count

\* While WakeWaiters runs, the waiters it has passed do not fit any more.
PassedDoNotFit ==
  \A i \in DOMAIN queue :
    i < scan /\ ~ready[queue[i]] => need[queue[i]] > count

\* The count stays between zero and the maximum: no interleaving of takes,
\* grants, signals and cancels hands out a unit that is not there.  (For
\* signal counts that are not negative: Signal does not reject those.)
CountInRange ==
  /\ count <= maxCount
  /\ SignalCounts \subseteq Nat => count >= 0

\* A decided waiter does not sleep: when m_mutex is free, no parked thread is
\* ready, so a grant is never delayed until the waiter's slice ends.
ReadyIsAwake ==
  MutexFree => \A t \in Threads : pc[t] = "parked" => ~ready[t]

\* In priority order the list is sorted, so that WakeWaiters serves the most
\* important waiter first.
SortedByPriority ==
  ~fifo => \A i, j \in DOMAIN queue :
             i < j => priority[queue[i]] <= priority[queue[j]]

\* What the other invariants rest on: a thread outside Wait has a fresh
\* WaitingThread, a listed one asks for something, the initial count is a legal
\* one, and an object is freed only with an empty list.
Support ==
  /\ \A t \in Threads : t \notin Waiting => ~ready[t]
  /\ \A t \in Waiting : need[t] >= 1
  /\ 0 <= initCount /\ initCount <= maxCount
  /\ status = "Freed" => queue = <<>>

\* Once the destructor has set Deleted every listed waiter is ready, so
\* nobody joins or stays and the destructor's wait for an empty list ends.
DeletedIsDraining ==
  status = "Deleted" => \A t \in Waiting : ready[t]

\* WakeWaiters never passes over a waiter that fits: a waiter is granted only
\* if every undecided waiter in front of it asks for more than there is.
GrantInOrder ==
  \A i \in DOMAIN queue :
    (~ready[queue[i]] /\ ready'[queue[i]] /\ result'[queue[i]] = "Ok")
      => \A j \in 1..(i - 1) : ready[queue[j]] \/ need[queue[j]] > count

\* Among waiters that stay, the order of the list never changes, and in FIFO
\* order a waiter that joins goes behind all of them.
ArrivalOrder ==
  /\ \A i, j \in DOMAIN queue, k, l \in DOMAIN queue' :
       i < j /\ queue'[k] = queue[i] /\ queue'[l] = queue[j] => k < l
  /\ fifo => \A k \in DOMAIN queue' :
               queue'[k] \notin Waiting => k = Len(queue')

\* Both: the list keeps its order, and grants follow it.
GrantsKeepOrder == [][GrantInOrder /\ ArrivalOrder]_vars

\* All of it: the invariant that is inductive.
IInv == /\ TypeOK /\ ListMatchesStacks /\ Support
        /\ PassedDoNotFit /\ NoStrandedWaiter /\ CountInRange
        /\ ReadyIsAwake /\ SortedByPriority /\ DeletedIsDraining

\* The destructor's wait for an empty list ends.
DeleteCompletes == status = "Deleted" ~> status = "Freed"

(* Refinement: a listed waiter that is not ready is an undecided call. *)
Abstract == INSTANCE CountingSema WITH
  units <- count, limit <- maxCount, asks <- need, inside <- Waiting,
  answer <- [t \in Threads |-> IF t \in Waiting /\ ~ready[t]
                                THEN "undecided" ELSE result[t]]

\* KernelSema implements CountingSema: units move only by a take, a release, a
\* cancel or a grant of exactly what one waiting call asked for, and a call
\* returns Ok exactly when it was charged (src/kernel/semaphore.cpp).
ImplementsCountingSema == Abstract!Spec
=============================================================================
