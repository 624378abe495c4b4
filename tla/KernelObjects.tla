---------------------------- MODULE KernelObjects ----------------------------
(***************************************************************************)
(* The synchronisation objects of the kernel share no state: a behaviour   *)
(* is of one of them, and the threads call that one.  Those but the        *)
(* semaphore and the monitor take turns with the variables x1 to x12, and  *)
(* what the chosen one does not use stays 0.                               *)
(*                                                                         *)
(* Some instances are of the module that has a component's proofs, whose   *)
(* lemmas are then known of the instance (KernelObjects_proofs).           *)
(***************************************************************************)
EXTENDS KernelSema, FiniteSets

CONSTANTS
  NoOne,
  FlagBits, FlagWaits, FlagChanges, FlagPatterns,  \* arguments of the event flag's calls
  MutexTypes, CountMax, MaxReads,                  \* of locks
  Entries, Platforms, Values, WakeCounts,          \* of waiting for a word
  Records, MaxLives,                               \* of threads that create threads
  MaxTriggers,                                     \* of event queues
  ValueMax                                         \* of POSIX semaphores

VARIABLES
  used,  \* which object the threads use
  mType, mOwner, mCount, mWaiters, mMoved, mPc, mTimed, mRecurse, mOutcome, mDepth,
  x1, x2, x3, x4, x5, x6, x7, x8, x9, x10, x11, x12

\* A mutex of either type and a condition.
Pthread == INSTANCE PthreadMonitor_proofs WITH
  Types <- MutexTypes,
  type <- mType, owner <- mOwner, count <- mCount, waiters <- mWaiters,
  moved <- mMoved, pc <- mPc, timed <- mTimed, recurse <- mRecurse,
  outcome <- mOutcome, depth <- mDepth

\* A word threads wait on, on either host; and, as Waits!Rwlock, Waits!Posix,
\* Waits!Threading, Waits!Flag and Waits!Events, a read-write lock, a POSIX
\* semaphore, the records of the threads that threads create, an event flag, and
\* an event queue with an event of each kind whose waiters ask for one or for two.
Waits == INSTANCE KernelWaits_proofs WITH
  None <- NoOne, Counts <- WakeCounts,
  platform <- x1, word <- x2, queue <- x3, registry <- x4,
  waiters <- x5, requested <- x6, pc <- x7, entry <- x8,
  expected <- x9, timed <- x10, outcome <- x11, owed <- x12,
  writer <- x1, readers <- x2, waitingWriters <- x3, lockPc <- x4, lockTimed <- x5,
  open <- x1, units <- x2, sleepers <- x3, record <- x4, semPc <- x5, semTimed <- x6,
  free <- x1, detached <- x2, almostDone <- x3, stack <- x4, hostThread <- x5,
  life <- x6, guest <- x7, reaper <- x8, bad <- x9, slipped <- x10,
  flagStatus <- x1, flagSingle <- x2, flagBits <- x3, flagWaiting <- x4,
  flagPc <- x5, flagCall <- x6, flagResult <- x7,
  UserEvents <- {"user"}, QueuedEvents <- {"queued"}, TimerEvents <- {"timer"},
  EventNums <- {1, 2}, MaxOthers <- 1,
  registered <- x1, closed <- x2, events <- x3, waiter <- x4,
  triggers <- x5, others <- x6, sent <- x7, got <- x8

ASSUME ObjectsAssumption ==
  /\ IsFiniteSet(Threads)
  /\ Waits!Flag!EventFlagAssumption
  /\ Pthread!PthreadMonitorAssumption
  /\ Waits!SyncOnAddressAssumption
  /\ Waits!Rwlock!PthreadRwlockAssumption
  /\ Waits!Posix!PosixSemAssumption
  /\ Waits!Threading!ThreadsAssumption
  /\ Waits!Events!EventAssumption

monitorVars == <<mType, mOwner, mCount, mWaiters, mMoved, mPc, mTimed, mRecurse,
                 mOutcome, mDepth>>

\* What is left of x1 to x12 after the first 5 to 10.
last2 == <<x11, x12>>
last4 == <<x9, x10, last2>>
last5 == <<x8, last4>>
last6 == <<x7, last5>>
last7 == <<x6, last6>>
all12 == <<x1, x2, x3, x4, x5, last7>>

objectVars == <<used, vars, monitorVars, all12>>

Unused2 == x11 = 0 /\ x12 = 0
Unused4 == x9 = 0 /\ x10 = 0 /\ Unused2
Unused5 == x8 = 0 /\ Unused4
Unused6 == x7 = 0 /\ Unused5
Unused7 == x6 = 0 /\ Unused6
Unused12 == x1 = 0 /\ x2 = 0 /\ x3 = 0 /\ x4 = 0 /\ x5 = 0 /\ Unused7

ObjectsInit ==
  /\ Init /\ Pthread!Init
  /\ \/ used = "semaphore" /\ Unused12
     \/ used = "monitor" /\ Unused12
     \/ used = "flag" /\ Waits!Flag!Init /\ Unused5
     \/ used = "rwlock" /\ Waits!Rwlock!Init /\ Unused7
     \/ used = "address" /\ Waits!Init
     \/ used = "threads" /\ Waits!Threading!Init /\ Unused2
     \/ used = "events" /\ Waits!Events!Init /\ Unused4
     \/ used = "posix" /\ Waits!Posix!Init /\ Unused6
  /\ used # "monitor" => mType = "other"

ObjectsNext ==
  \/ used = "semaphore" /\ Next /\ UNCHANGED <<used, monitorVars, all12>>
  \/ used = "monitor" /\ Pthread!Next /\ UNCHANGED <<used, vars, all12>>
  \/ used = "flag" /\ Waits!Flag!Next /\ UNCHANGED <<used, vars, monitorVars, last5>>
  \/ used = "rwlock" /\ Waits!Rwlock!Next /\ UNCHANGED <<used, vars, monitorVars, last7>>
  \/ used = "address" /\ Waits!Next /\ UNCHANGED <<used, vars, monitorVars>>
  \/ used = "threads" /\ Waits!Threading!Next /\ UNCHANGED <<used, vars, monitorVars, last2>>
  \/ used = "events" /\ Waits!Events!Next /\ UNCHANGED <<used, vars, monitorVars, last4>>
  \/ used = "posix" /\ Waits!Posix!Next /\ UNCHANGED <<used, vars, monitorVars, last6>>
  \/ used = "events" /\ UNCHANGED objectVars \* the bounds end it

ObjectsSpec == ObjectsInit /\ [][ObjectsNext]_objectVars

-----------------------------------------------------------------------------

\* The waiters of the flag are counted right and none sleeps through a Set.
FlagInv == used = "flag" => Waits!Flag!FlagInv

\* Locks are exclusive, kept across condition waits and given back to whom waits
\* for them: no wakeup is spent twice, no writer stays registered.
LocksInv == Pthread!IInv /\ (used = "rwlock" => Waits!Rwlock!TypeOK)

\* The pthread mutex and condition are a monitor.
ImplementsMonitor == Pthread!ImplementsMonitor

\* A wake of the word reaches every waiter.
WaitersAreReachable == used = "address" => Waits!WaitersAreReachable

\* A thread is joined once and its record belongs to one thread at a time.
ThreadsInv == used = "threads" => Waits!Threading!ThreadsInv

\* Cancel and the destructor of the flag leave nobody, and the portable registry
\* loses no wake that was meant for everybody.
WakesAreTotal ==
  [][/\ used = "flag" => Waits!Flag!CancelIsExclusive /\ Waits!Flag!CancelLeavesNobody
     /\ used = "address" => Waits!KeepsWakes("portable")]_objectVars

\* Triggers of an event queue and its deletion reach who waits.
EventsInv == used = "events" => Waits!Events!EventsInv

\* No unit of a POSIX semaphore is left while a thread sleeps for one.
PosixSemInv == used = "posix" => Waits!Posix!PosixSemInv

\* The futex path loses no such wake either (it does).
FutexKeepsWakes == [][used = "address" => Waits!KeepsWakes("futex")]_objectVars
=============================================================================
