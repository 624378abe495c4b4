------------------------------- MODULE PosixSem -------------------------------
(***************************************************************************)
(* A POSIX semaphore (PosixSemPrivate in kernel/semaphore.cpp): a count    *)
(* under a mutex, a condition variable, and a record in guest memory that  *)
(* repeats the count and says whether somebody waits.  A wait without a    *)
(* deadline sleeps in slices and dispatches signals between them, with     *)
(* the mutex given up, so a waiter may be awake and not yet looking.       *)
(*                                                                         *)
(* To destroy or to initialise anew a semaphore that threads wait on frees *)
(* what they use: the guest does not.                                      *)
(***************************************************************************)
EXTENDS Integers, FiniteSets

CONSTANTS Guests,   \* threads
          ValueMax  \* POSIX_SEM_VALUE_MAX

PosixSemAssumption == ValueMax \in Nat \ {0} /\ IsFiniteSet(Guests)

VARIABLES
  open,    \* g_posix_sems knows it
  count,   \* m_count
  waiters, \* m_waiters
  record,  \* m_guest: [count, hasWaiters]
  pc,      \* of each thread: "idle", "asleep", or "awake" without the mutex
  timed    \* the threads whose wait has a deadline

vars == <<open, count, waiters, record, pc, timed>>

Asleep == {t \in Guests : pc[t] = "asleep"}
Awake == {t \in Guests : pc[t] = "awake"}

Init ==
  /\ open = FALSE /\ count = 0 /\ waiters = 0 /\ timed = {}
  /\ record = [count |-> 0, hasWaiters |-> FALSE]
  /\ pc = [t \in Guests |-> "idle"]

--------------------------------------------------------------------------------
SyncGuest == record' = [count |-> count', hasWaiters |-> waiters' > 0]

\* SemInitImpl, also of one that is there.
SemInit(value) ==
  /\ Asleep \cup Awake = {}
  /\ open' = TRUE /\ count' = value /\ waiters' = 0 /\ SyncGuest
  /\ UNCHANGED <<pc, timed>>

SemDestroy ==
  /\ open /\ Asleep \cup Awake = {}
  /\ open' = FALSE /\ count' = 0 /\ waiters' = 0 /\ SyncGuest
  /\ UNCHANGED <<pc, timed>>

\* Mutant: whoever waits is told of the first unit alone.
PostFirst ==
  /\ open /\ count < ValueMax
  /\ count' = count + 1
  /\ IF Asleep = {} \/ count > 0 THEN UNCHANGED pc
     ELSE \E t \in Asleep : pc' = [pc EXCEPT ![t] = "awake"]
  /\ UNCHANGED <<open, waiters, timed>> /\ SyncGuest

\* One more, and one sleeper is signalled; at the maximum the post is refused.
Post ==
  /\ open /\ count < ValueMax
  /\ count' = count + 1
  /\ IF Asleep = {} THEN UNCHANGED pc
     ELSE \E t \in Asleep : pc' = [pc EXCEPT ![t] = "awake"]
  /\ UNCHANGED <<open, waiters, timed>> /\ SyncGuest

\* TryWait, and Wait where a unit is there.
Take ==
  /\ open /\ count > 0
  /\ count' = count - 1
  /\ UNCHANGED <<open, waiters, pc, timed>> /\ SyncGuest

Wait(t) ==
  /\ open /\ count = 0 /\ pc[t] = "idle"
  /\ waiters' = waiters + 1
  /\ pc' = [pc EXCEPT ![t] = "asleep"]
  /\ timed' \in {timed, timed \cup {t}}
  /\ UNCHANGED <<open, count>> /\ SyncGuest

\* A slice or the deadline ends the sleep.
Wakes(t) ==
  /\ pc[t] = "asleep"
  /\ pc' = [pc EXCEPT ![t] = "awake"]
  /\ UNCHANGED <<open, count, waiters, record, timed>>

\* The waiter has the mutex again, and leaves with a unit, ...
Leaves(t) == /\ waiters' = waiters - 1
             /\ pc' = [pc EXCEPT ![t] = "idle"] /\ timed' = timed \ {t}
WaitTakes(t) ==
  /\ pc[t] = "awake" /\ count > 0
  /\ count' = count - 1 /\ Leaves(t)
  /\ UNCHANGED open /\ SyncGuest

\* Mutant: the deadline is looked at before the count.
TimesOutFirst(t) ==
  /\ pc[t] = "awake" /\ t \in timed
  /\ Leaves(t)
  /\ UNCHANGED <<open, count>> /\ SyncGuest

\* ... or because its deadline has passed, ...
WaitTimesOut(t) ==
  /\ pc[t] = "awake" /\ t \in timed /\ count = 0
  /\ Leaves(t)
  /\ UNCHANGED <<open, count>> /\ SyncGuest

\* ... or sleeps again, counted down and up.
SleepsAgain(t) ==
  /\ pc[t] = "awake" /\ count = 0
  /\ pc' = [pc EXCEPT ![t] = "asleep"]
  /\ UNCHANGED <<open, count, waiters, timed>> /\ SyncGuest

Next ==
  \/ SemDestroy \/ Post \/ Take
  \/ \E value \in 0 .. ValueMax : SemInit(value)
  \/ \E t \in Guests : Wait(t) \/ Wakes(t) \/ WaitTakes(t) \/ WaitTimesOut(t) \/ SleepsAgain(t)

Spec == Init /\ [][Next]_vars

--------------------------------------------------------------------------------
\* No unit is left while somebody sleeps: for each one a waiter is on its way
\* to it, whoever takes units past the waiters, gives up or is out to dispatch
\* signals.  And the guest's record is in step with the object whenever the
\* mutex is free.
PosixSemInv ==
  /\ Asleep = {} \/ count <= Cardinality(Awake)
  /\ waiters = Cardinality(Asleep \cup Awake)
  /\ record = [count |-> count, hasWaiters |-> Asleep \cup Awake # {}]
================================================================================
