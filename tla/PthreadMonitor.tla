--------------------------- MODULE PthreadMonitor ---------------------------
(***************************************************************************)
(* A guest mutex and a condition variable used with it, the Native*,       *)
(* Cond* and PthreadCond* functions of src/kernel/pthread.cpp.             *)
(*                                                                         *)
(* Every function holds the m of its object from its first to its last     *)
(* line except where it sleeps.  A sleep is at most 10 ms long, and then m *)
(* is given up to dispatch signals, so where a sleeper is ("parked" or     *)
(* dispatching) makes no difference to what it may do next: it is one      *)
(* location, Polls is one turn of its loop, and a notification only        *)
(* shortens the sleep.  A condition wait gives the mutex up while it holds *)
(* the m of the condition; nobody else can touch the condition before it   *)
(* sleeps, so both are one action.                                         *)
(*                                                                         *)
(* The condition counts broadcasts (sequence) and the signals each thread  *)
(* received (cond_sequence); a waiter compares both with what it read when *)
(* it came.  A 64-bit counter that was incremented never has the old value *)
(* again, so the model keeps which waiters see a difference: `moved'.      *)
(*                                                                         *)
(* Signal handlers that wait on a condition themselves, inside the wait    *)
(* they interrupt, are not modelled.                                       *)
(***************************************************************************)
EXTENDS Naturals, Sequences

CONSTANTS Threads, NoOne,
          Types,    \* the types mutexes are created with
          CountMax  \* UINT32_MAX, the greatest count of a recursive mutex

\* What the constants have to be; the instances assume it.
PthreadMonitorAssumption ==
  /\ NoOne \notin Threads
  /\ Types \subseteq {"recursive", "other"}
  /\ CountMax \in Nat \ {0}

VARIABLES
  type,     \* mutex->type, 2 is "recursive"
  owner,    \* mutex->owner
  count,    \* mutex->count
  waiters,  \* cond->waiters
  moved,    \* waiting threads whose ready() is true
  pc,       \* where each thread is
  timed,    \* the call each thread is in has a deadline
  recurse,  \* the local `recurse' of a condition wait
  outcome,  \* what the last condition wait of each thread returned
  depth     \* locks each thread took and did not give back (history)

mutex == <<type, owner, count>>
cond == <<waiters, moved>>
vars == <<mutex, cond, pc, timed, recurse, outcome, depth>>

Locations == {"idle", "locking", "waiting", "relocking", "recounting"}

Listed == {waiters[i] : i \in DOMAIN waiters}

Init ==
  /\ type \in Types /\ owner = NoOne /\ count = 0
  /\ waiters = <<>> /\ moved = {}
  /\ pc = [t \in Threads |-> "idle"]
  /\ timed = [t \in Threads |-> FALSE]
  /\ recurse = [t \in Threads |-> 0]
  /\ outcome = [t \in Threads |-> "Ok"]
  /\ depth = [t \in Threads |-> 0]

Goes(t, where) == pc' = [pc EXCEPT ![t] = where]

(***************************************************************************)
(* The mutex.  A call that is refused (EBUSY, EDEADLK, EAGAIN, EPERM, a    *)
(* time of zero, a timed lock of a mutex one holds) changes nothing.       *)
(***************************************************************************)

Take(t) == owner' = t /\ count' = 1 /\ UNCHANGED type

\* NativeMutexLock and NativeMutexTrylock of a mutex nobody has.
LockTakes(t) ==
  /\ pc[t] = "idle" /\ owner = NoOne
  /\ Take(t)
  /\ depth' = [depth EXCEPT ![t] = 1]
  /\ UNCHANGED <<cond, pc, timed, recurse, outcome>>

\* Mutant: the count is not limited, and wraps.
LockWraps(t) ==
  /\ pc[t] = "idle" /\ owner = t /\ type = "recursive"
  /\ count' = (count + 1) % (CountMax + 1)
  /\ depth' = [depth EXCEPT ![t] = @ + 1]
  /\ UNCHANGED <<type, owner, cond, pc, timed, recurse, outcome>>

LockAgain(t) ==
  /\ pc[t] = "idle" /\ owner = t /\ type = "recursive" /\ count < CountMax
  /\ count' = count + 1
  /\ depth' = [depth EXCEPT ![t] = @ + 1]
  /\ UNCHANGED <<type, owner, cond, pc, timed, recurse, outcome>>

LockBlocks(t, hasTimeout) ==
  /\ pc[t] = "idle" /\ owner \notin {t, NoOne}
  /\ Goes(t, "locking")
  /\ timed' = [timed EXCEPT ![t] = hasTimeout]
  /\ UNCHANGED <<mutex, cond, recurse, outcome, depth>>

LockGets(t) ==
  /\ pc[t] = "locking" /\ owner = NoOne
  /\ Take(t) /\ Goes(t, "idle")
  /\ timed' = [timed EXCEPT ![t] = FALSE]
  /\ depth' = [depth EXCEPT ![t] = 1]
  /\ UNCHANGED <<cond, recurse, outcome>>

LockTimesOut(t) ==
  /\ pc[t] = "locking" /\ owner # NoOne /\ timed[t]
  /\ Goes(t, "idle")
  /\ timed' = [timed EXCEPT ![t] = FALSE]
  /\ UNCHANGED <<mutex, cond, recurse, outcome, depth>>

\* NativeMutexUnlock without `recurse'.
Unlock(t) ==
  /\ pc[t] = "idle" /\ owner = t
  /\ IF type = "recursive" /\ count > 1
       THEN count' = count - 1 /\ UNCHANGED owner
       ELSE count' = 0 /\ owner' = NoOne
  /\ depth' = [depth EXCEPT ![t] = @ - 1]
  /\ UNCHANGED <<type, cond, pc, timed, recurse, outcome>>

(***************************************************************************)
(* PthreadCondWait, PthreadCondTimedwait and PthreadCondTimedwaitAbs.      *)
(***************************************************************************)

\* NativeMutexUnlock with `recurse': all holds are given up at once.
GivesUp(t) == /\ recurse' = [recurse EXCEPT ![t] = count]
              /\ owner' = NoOne /\ count' = 0 /\ UNCHANGED type

CondWaitBegins(t, hasTimeout) ==
  /\ pc[t] = "idle" /\ owner = t
  /\ waiters' = Append(waiters, t) /\ UNCHANGED moved
  /\ GivesUp(t) /\ Goes(t, "waiting")
  /\ timed' = [timed EXCEPT ![t] = hasTimeout]
  /\ UNCHANGED <<outcome, depth>>

\* A relative time of zero: listed, and taken off before m is given up.
CondWaitZero(t) ==
  /\ pc[t] = "idle" /\ owner = t
  /\ GivesUp(t) /\ Goes(t, "relocking")
  /\ outcome' = [outcome EXCEPT ![t] = "TimedOut"]
  /\ UNCHANGED <<cond, timed, depth>>

\* CondRemoveWaiter: find and erase.
Removes(t) ==
  waiters' = IF t \notin Listed THEN waiters
             ELSE LET at == CHOOSE i \in DOMAIN waiters : waiters[i] = t
                  IN [i \in 1..(Len(waiters) - 1) |-> waiters[IF i < at THEN i ELSE i + 1]]

\* Mutant: a deadline that has passed is answered before ready() is asked.
DeadlineFirst(t) ==
  /\ pc[t] = "waiting"
  /\ t \in moved \/ timed[t]
  /\ outcome' = [outcome EXCEPT ![t] = IF timed[t] THEN "TimedOut" ELSE "Ok"]
  /\ Removes(t) /\ moved' = moved \ {t}
  /\ timed' = [timed EXCEPT ![t] = FALSE]
  /\ Goes(t, "relocking")
  /\ UNCHANGED <<mutex, recurse, depth>>

CondWaitEnds(t) ==
  /\ pc[t] = "waiting"
  /\ t \in moved \/ timed[t]
  /\ outcome' = [outcome EXCEPT ![t] = IF t \in moved THEN "Ok" ELSE "TimedOut"]
  /\ Removes(t) /\ moved' = moved \ {t}
  /\ timed' = [timed EXCEPT ![t] = FALSE]
  /\ Goes(t, "relocking")
  /\ UNCHANGED <<mutex, recurse, depth>>

\* NativeMutexLockRecurse: the lock, then the count under a second lock of m.
Relocks(t) ==
  /\ pc[t] = "relocking" /\ owner = NoOne
  /\ Take(t) /\ Goes(t, "recounting")
  /\ UNCHANGED <<cond, timed, recurse, outcome, depth>>

\* Mutant: the saved count is forgotten.
RecountsOne(t) ==
  /\ pc[t] = "recounting"
  /\ count' = 1 /\ Goes(t, "idle")
  /\ recurse' = [recurse EXCEPT ![t] = 0]
  /\ UNCHANGED <<type, owner, cond, timed, outcome, depth>>

Recounts(t) ==
  /\ pc[t] = "recounting"
  /\ count' = (IF recurse[t] > 1 THEN recurse[t] ELSE 1) /\ Goes(t, "idle")
  /\ recurse' = [recurse EXCEPT ![t] = 0]
  /\ UNCHANGED <<type, owner, cond, timed, outcome, depth>>

(***************************************************************************)
(* PthreadCondSignal, PthreadCondSignalto and PthreadCondBroadcast; any    *)
(* thread may call them, with the mutex or without.                        *)
(***************************************************************************)

\* CondWakeWaiter, with a thread of the list.
CondWakeWaiter(t) ==
  /\ t \in Listed
  /\ Removes(t) /\ moved' = moved \cup {t}
  /\ UNCHANGED <<mutex, pc, timed, recurse, outcome, depth>>

CanCall == \E t \in Threads : pc[t] = "idle"

Signal == CanCall /\ waiters # <<>> /\ CondWakeWaiter(Head(waiters))

Signalto(t) == CanCall /\ CondWakeWaiter(t)

Broadcast ==
  /\ CanCall /\ waiters # <<>>
  /\ moved' = moved \cup Listed /\ waiters' = <<>>
  /\ UNCHANGED <<mutex, pc, timed, recurse, outcome, depth>>

-----------------------------------------------------------------------------

Mutex(t) ==
  \/ LockTakes(t) \/ LockAgain(t) \/ LockGets(t) \/ LockTimesOut(t) \/ Unlock(t)
  \/ \E hasTimeout \in BOOLEAN : LockBlocks(t, hasTimeout)

Cond(t) ==
  \/ \E hasTimeout \in BOOLEAN : CondWaitBegins(t, hasTimeout)
  \/ CondWaitZero(t) \/ CondWaitEnds(t) \/ Relocks(t) \/ Recounts(t)
  \/ Signalto(t)

\* A sleep of 10 ms is over, and another begins.
Polls(t) == pc[t] \in {"locking", "waiting"} /\ UNCHANGED vars

Next == Signal \/ Broadcast \/ \E t \in Threads : Mutex(t) \/ Cond(t) \/ Polls(t)

Spec == Init /\ [][Next]_vars

-----------------------------------------------------------------------------

\* What a thread's locks are worth where it is: the mutex's own count, or the
\* number a condition wait has saved.
DepthIsKept(t) ==
  CASE pc[t] \in {"idle", "locking"} -> depth[t] = IF owner = t THEN count ELSE 0
    [] pc[t] \in {"waiting", "relocking"} ->
         owner # t /\ depth[t] = recurse[t] /\ recurse[t] > 0
    [] pc[t] = "recounting" ->
         owner = t /\ count = 1 /\ depth[t] = recurse[t] /\ recurse[t] > 0

TypeOK ==
  /\ type \in {"recursive", "other"} /\ owner \in Threads \cup {NoOne}
  /\ count \in 0..CountMax
  /\ waiters \in Seq(Threads) /\ moved \subseteq Threads
  /\ pc \in [Threads -> Locations] /\ timed \in [Threads -> BOOLEAN]
  /\ recurse \in [Threads -> 0..CountMax] /\ depth \in [Threads -> 0..CountMax]
  /\ outcome \in [Threads -> {"Ok", "TimedOut"}]

\* A thread that believes to hold the mutex does, as many times as it believes,
\* across every condition wait.
HoldsAreKept ==
  /\ count = 0 <=> owner = NoOne
  /\ type = "other" => count < 2 /\ \A t \in Threads : recurse[t] < 2
  /\ \A t \in Threads : DepthIsKept(t)
  /\ owner # NoOne => pc[owner] \in {"idle", "recounting"}

\* A waiter is ready exactly when it is off the list, so no wakeup is spent on a
\* thread that has one.
ReadyIsUnlisted ==
  /\ \A i, j \in DOMAIN waiters : waiters[i] = waiters[j] => i = j
  /\ \A t \in Threads : pc[t] = "waiting" <=> t \in Listed \/ t \in moved
  /\ Listed \cap moved = {}

\* All three; together they are inductive.
IInv == TypeOK /\ HoldsAreKept /\ ReadyIsUnlisted

Abstract == INSTANCE Monitor WITH
  holder <- owner, holds <- depth, asleep <- waiters, woken <- moved,
  answer <- outcome

\* A mutex and a condition keep what a monitor promises: one holder, the holds
\* returned by a wait, one thread per signal and in order, Ok if and only if
\* the thread was woken before its deadline was found to have passed.
ImplementsMonitor == Abstract!Spec
=============================================================================
