---------------------------- MODULE PthreadRwlock ---------------------------
(***************************************************************************)
(* A guest read-write lock, PthreadRwlockPrivate of                        *)
(* src/kernel/pthread.cpp.  Every function holds m except while it sleeps  *)
(* (10 ms at most, then signals are dispatched and the loop is entered     *)
(* again), so a turn of the loop of RwlockLockCooperative is one action:   *)
(* the first turn from "idle", the next ones from "reading" or "writing".  *)
(* writer_count is 0 or 1 (a second write lock is refused) and is left     *)
(* out.  Calls that are refused change nothing.                            *)
(***************************************************************************)
EXTENDS Integers, FiniteSets

CONSTANTS Threads, NoOne,
          MaxReads  \* bound: read locks one thread holds

\* What the constants have to be; the instances assume it.
PthreadRwlockAssumption == NoOne \notin Threads /\ MaxReads \in Nat \ {0}

VARIABLES
  writer,         \* rwlock->writer
  readers,        \* the count of each thread's entry in rwlock->readers
  waitingWriters, \* rwlock->waiting_writers
  pc,             \* the loop each thread is in
  timed           \* has_timeout

vars == <<writer, readers, waitingWriters, pc, timed>>

Readers == {t \in Threads : readers[t] > 0}
Writing == {t \in Threads : pc[t] = "writing"}
Waiting == {t \in Threads : pc[t] # "idle"}

\* Nobody holds the lock; a sum of counts is zero when each count is.
Free == writer = NoOne /\ Readers = {}

Init ==
  /\ writer = NoOne /\ readers = [t \in Threads |-> 0]
  /\ waitingWriters = 0
  /\ pc = [t \in Threads |-> "idle"] /\ timed = [t \in Threads |-> FALSE]

Leaves(t) == pc' = [pc EXCEPT ![t] = "idle"] /\ timed' = [timed EXCEPT ![t] = FALSE]

Sleeps(t, where, hasTimeout) ==
  pc' = [pc EXCEPT ![t] = where] /\ timed' = [timed EXCEPT ![t] = hasTimeout]

\* Mutant: waiting writers are not looked at.
MayReadAlways(t) == writer \in {NoOne, t}

\* A reader is let in: past waiting writers only if it reads or writes already.
MayRead(t) == \/ writer = NoOne /\ (waitingWriters = 0 \/ t \in Readers)
              \/ writer = t

\* Rdlock, Timedrdlock and Tryrdlock.
ReadLocks(t) ==
  /\ pc[t] \in {"idle", "reading"} /\ MayRead(t)
  /\ readers[t] < MaxReads
  /\ readers' = [readers EXCEPT ![t] = @ + 1]
  /\ Leaves(t)
  /\ UNCHANGED <<writer, waitingWriters>>

ReadBlocks(t, hasTimeout) ==
  /\ pc[t] = "idle" /\ ~MayRead(t)
  /\ Sleeps(t, "reading", hasTimeout)
  /\ UNCHANGED <<writer, readers, waitingWriters>>

ReadTimesOut(t) ==
  /\ pc[t] = "reading" /\ ~MayRead(t) /\ timed[t]
  /\ Leaves(t)
  /\ UNCHANGED <<writer, readers, waitingWriters>>

\* Mutant: a writer may enter when no thread writes.
WriteLocksOverReaders(t) ==
  /\ pc[t] \in {"idle", "writing"}
  /\ readers[t] = 0 /\ writer = NoOne
  /\ writer' = t
  /\ waitingWriters' = waitingWriters - (IF pc[t] = "writing" THEN 1 ELSE 0)
  /\ Leaves(t)
  /\ UNCHANGED readers

\* Wrlock, Timedwrlock and Trywrlock; a registered writer unregisters.
WriteLocks(t) ==
  /\ pc[t] \in {"idle", "writing"} /\ Free
  /\ writer' = t
  /\ waitingWriters' = waitingWriters - (IF pc[t] = "writing" THEN 1 ELSE 0)
  /\ Leaves(t)
  /\ UNCHANGED readers

\* The writer registers (EDEADLK when it holds the lock itself).
WriteBlocks(t, hasTimeout) ==
  /\ pc[t] = "idle" /\ ~Free /\ writer # t /\ t \notin Readers
  /\ waitingWriters' = waitingWriters + 1
  /\ Sleeps(t, "writing", hasTimeout)
  /\ UNCHANGED <<writer, readers>>

WriteTimesOut(t) ==
  /\ pc[t] = "writing" /\ ~Free /\ timed[t]
  /\ waitingWriters' = waitingWriters - 1
  /\ Leaves(t)
  /\ UNCHANGED <<writer, readers>>

\* A read lock is given back before a write lock.
Unlock(t) ==
  /\ pc[t] = "idle"
  /\ \/ /\ t \in Readers
        /\ readers' = [readers EXCEPT ![t] = @ - 1] /\ UNCHANGED writer
     \/ /\ t \notin Readers /\ writer = t
        /\ writer' = NoOne /\ UNCHANGED readers
  /\ UNCHANGED <<waitingWriters, pc, timed>>

\* A sleep of 10 ms ends and the loop finds no reason to leave.
Polls(t) == pc[t] # "idle" /\ UNCHANGED vars

ReadLoop(t) == pc[t] = "reading" /\ (ReadLocks(t) \/ ReadTimesOut(t))
WriteLoop(t) == pc[t] = "writing" /\ (WriteLocks(t) \/ WriteTimesOut(t))

Next ==
  \E t \in Threads :
    \/ ReadLocks(t) \/ ReadTimesOut(t) \/ WriteLocks(t) \/ WriteTimesOut(t)
    \/ \E hasTimeout \in BOOLEAN : ReadBlocks(t, hasTimeout) \/ WriteBlocks(t, hasTimeout)
    \/ Unlock(t) \/ Polls(t)

Spec == Init /\ [][Next]_vars

\* A sleeper looks again every 10 ms; a guest thread gives back what it has.
Fairness == \A t \in Threads :
  WF_vars(ReadLoop(t)) /\ WF_vars(WriteLoop(t)) /\ WF_vars(Unlock(t))

FairSpec == Spec /\ Fairness

-----------------------------------------------------------------------------

\* Types; a writer shares the lock with no other thread; and as many writers
\* are registered as wait, on every way out of the loop: one too many would
\* keep new readers out for ever.
TypeOK ==
  /\ writer \in Threads \cup {NoOne} /\ readers \in [Threads -> 0..MaxReads]
  /\ pc \in [Threads -> {"idle", "reading", "writing"}]
  /\ timed \in [Threads -> BOOLEAN]
  /\ writer # NoOne => Readers \subseteq {writer} /\ pc[writer] = "idle"
  /\ Writing \cap Readers = {}
  /\ waitingWriters = Cardinality(Writing)

\* New readers do not starve writers: while writers wait and threads that read
\* do not read once more, the lock gets to a writer or the writers give up.
WritersGetIn ==
  <>[][\A t \in Threads : readers[t] > 0 => readers'[t] <= readers[t]]_vars =>
    []<>(writer # NoOne \/ waitingWriters = 0)

\* A free lock somebody waits for does not stay free: no registration is left
\* behind that keeps the waiting readers out.
FreeLockIsTaken == []<>(~Free \/ Waiting = {})

\* Both.
RwlockServes == WritersGetIn /\ FreeLockIsTaken
=============================================================================
