------------------------------- MODULE MCLive -------------------------------
(***************************************************************************)
(* Small instances of seven modules, for their liveness properties.  They  *)
(* share no state: an instance chooses one, and the others stay as they    *)
(* were made.  As only one of them ever takes a step, fairness of A and    *)
(* fairness of B are fairness of A \/ B when A and B are of two of them;   *)
(* TLC searches the graph again for every fairness it is given, so they    *)
(* are joined here.                                                        *)
(***************************************************************************)
EXTENDS Integers, Sequences, TLC

CONSTANTS t1, t2, t3, NoOne, None, f1, f2, v1, p1, p2

VARIABLES
  used,  \* which module runs
  kStatus, kCount, kInitCount, kMaxCount, kFifo, kQueue, kScan, kPc, kNeed,
  kPriority, kTimed, kReady, kResult,
  fStatus, fSingle, fBits, fWaiting, fPc, fCall, fResult,
  rWriter, rReaders, rWaitingWriters, rPc, rTimed,
  qOpened, qClosing, qGeneration, qGcQueueNum, qFlipPendingNum, qDriver, qRequest,
  qRequests, qCpuRequests, qCancelled, qProcessing, qFree, qLast, qSubmissions,
  qDeferred, qGpu, qGuest, qPresent, qFatal,
  bMode, bNewest, bDevice, bMemory, bGpuDirty, bSlotOf, bHeld, bRequest, bQueue,
  bEngine, bGuest, bRender,
  cMaps, cEpoch, cCached, cOwner, cSharers, cCopier, cWritePending, cWritePages,
  cReadPages, cPc, cJob, cPages,
  aRange, aView, aMemory, aResidency, aCall, aSync, aRender, aFailed, aOwned, aVacant

\* Two threads wait for one or two units of a semaphore.
Sema == INSTANCE KernelSema WITH
  Threads <- {t1, t2}, Inits <- {0}, Maxes <- {2}, Needs <- {1, 2},
  SignalCounts <- {1, 2}, CancelCounts <- {-1, 1, 3}, Priorities <- {1},
  status <- kStatus, count <- kCount, initCount <- kInitCount,
  maxCount <- kMaxCount, fifo <- kFifo, queue <- kQueue, scan <- kScan, pc <- kPc,
  need <- kNeed, priority <- kPriority, timed <- kTimed, ready <- kReady,
  result <- kResult

W(b, m, c, x) == [op |-> "wait", bits |-> b, mode |-> m, clear |-> c, timed |-> x]
M(o, b) == [op |-> o, bits |-> b]

\* Two threads and an event flag of two bits.
Flag == INSTANCE EventFlag WITH
  Threads <- {t1, t2}, Bits <- {1, 2},
  WaitArgs <- {W({1, 2}, "And", "None", FALSE), W({1, 2}, "Or", "Bits", TRUE),
               W({1}, "And", "All", FALSE)},
  ModifyArgs <- {M("set", {1}), M("set", {2}), M("clear", {1}), M("cancel", {2}),
                 M("delete", {})},
  InitPatterns <- {{}, {1}},
  status <- fStatus, single <- fSingle, bits <- fBits, waiting <- fWaiting,
  pc <- fPc, call <- fCall, result <- fResult

\* Three threads and a read-write lock.
Rwlock == INSTANCE PthreadRwlock WITH
  Threads <- {t1, t2, t3}, MaxReads <- 2,
  writer <- rWriter, readers <- rReaders, waitingWriters <- rWaitingWriters,
  pc <- rPc, timed <- rTimed

\* One port and one guest thread: two flips, or one of a port opened twice.
Flips == INSTANCE FlipQueue WITH
  Ports <- {v1}, Guests <- {t1}, Frames <- {f1, f2}, Indices <- {1},
  Capacity <- 2, Limits <- {<<2, 1>>, <<1, 2>>},
  opened <- qOpened, closing <- qClosing, generation <- qGeneration,
  gcQueueNum <- qGcQueueNum, flipPendingNum <- qFlipPendingNum,
  driver <- qDriver, request <- qRequest, requests <- qRequests,
  cpuRequests <- qCpuRequests, cancelled <- qCancelled,
  processing <- qProcessing, free <- qFree, last <- qLast,
  submissions <- qSubmissions, deferred <- qDeferred, gpu <- qGpu,
  guest <- qGuest, present <- qPresent, fatal <- qFatal

\* Two guest threads fault on one page, over one slot; what a mode allows includes
\* what it does without.
Reads == INSTANCE GuestReadback WITH
  Guests <- {t1, t2}, Pages <- {p1}, Slots <- {1}, Requests <- 1..3,
  Modes <- {[engine |-> TRUE, detach |-> TRUE, slots |-> 1]}, MaxWrites <- 2,
  mode <- bMode, newest <- bNewest, device <- bDevice, memory <- bMemory,
  gpuDirty <- bGpuDirty, slotOf <- bSlotOf, held <- bHeld, request <- bRequest,
  queue <- bQueue, engine <- bEngine, guest <- bGuest, render <- bRender

\* Two threads use the backing of one guest range and two pages.
Fence == INSTANCE BackingFence WITH
  Thread <- {t1, t2}, Addr <- {v1}, Page <- {p1, p2}, LastEpoch <- 1,
  maps <- cMaps, epoch <- cEpoch, cached <- cCached, owner <- cOwner,
  sharers <- cSharers, copier <- cCopier, writePending <- cWritePending,
  writePages <- cWritePages, readPages <- cReadPages, pc <- cPc, job <- cJob,
  pages <- cPages

\* Two guest threads and a page that is partially resident.
Residency == INSTANCE PrtResidency WITH
  Guests <- {t1, t2}, Pages <- {p1},
  range <- aRange, view <- aView, memory <- aMemory, residency <- aResidency,
  call <- aCall, sync <- aSync, render <- aRender, failed <- aFailed,
  owned <- aOwned, vacant <- aVacant

ASSUME Assumptions == /\ Sema!KernelSemaAssumption /\ Flag!EventFlagAssumption
                      /\ Rwlock!PthreadRwlockAssumption /\ Flips!FlipAssumption
                      /\ Reads!GuestReadbackAssumption /\ Residency!PrtAssumption

semaVars == <<kStatus, kCount, kInitCount, kMaxCount, kFifo, kQueue, kScan, kPc, kNeed,
              kPriority, kTimed, kReady, kResult>>
flagVars == <<fStatus, fSingle, fBits, fWaiting, fPc, fCall, fResult>>
rwlockVars == <<rWriter, rReaders, rWaitingWriters, rPc, rTimed>>
flipVars == <<qOpened, qClosing, qGeneration, qGcQueueNum, qFlipPendingNum, qDriver,
              qRequest, qRequests, qCpuRequests, qCancelled, qProcessing, qFree, qLast,
              qSubmissions, qDeferred, qGpu, qGuest, qPresent, qFatal>>
readVars == <<bMode, bNewest, bDevice, bMemory, bGpuDirty, bSlotOf, bHeld, bRequest,
              bQueue, bEngine, bGuest, bRender>>
fenceVars == <<cMaps, cEpoch, cCached, cOwner, cSharers, cCopier, cWritePending,
               cWritePages, cReadPages, cPc, cJob, cPages>>
prtVars == <<aRange, aView, aMemory, aResidency, aCall, aSync, aRender, aFailed,
             aOwned, aVacant>>
memoryVars == <<fenceVars, prtVars>>
vars == <<used, semaVars, flagVars, rwlockVars, flipVars, readVars, memoryVars>>

\* A step of one of the modules.
OfSema(A) == /\ used = "sema" /\ A
             /\ UNCHANGED <<used, flagVars, rwlockVars, flipVars, readVars, memoryVars>>
OfFlag(A) == /\ used = "flag" /\ A
             /\ UNCHANGED <<used, semaVars, rwlockVars, flipVars, readVars, memoryVars>>
OfRwlock(A) == /\ used = "rwlock" /\ A
               /\ UNCHANGED <<used, semaVars, flagVars, flipVars, readVars, memoryVars>>
OfFlips(A) == /\ used = "flips" /\ A
              /\ UNCHANGED <<used, semaVars, flagVars, rwlockVars, readVars, memoryVars>>
OfReads(A) == /\ used = "reads" /\ A
              /\ UNCHANGED <<used, semaVars, flagVars, rwlockVars, flipVars, memoryVars>>
OfFence(A) == /\ used = "fence" /\ A
              /\ UNCHANGED <<used, semaVars, flagVars, rwlockVars, flipVars, readVars, prtVars>>
OfPrt(A) == /\ used = "prt" /\ A
            /\ UNCHANGED <<used, semaVars, flagVars, rwlockVars, flipVars, readVars, fenceVars>>

Init ==
  /\ used \in {"sema", "flag", "rwlock", "flips", "reads", "fence", "prt"}
  /\ Sema!Init /\ Flag!Init /\ Rwlock!Init /\ Flips!Init /\ Reads!Init
  /\ Fence!Init /\ Residency!Init
  /\ used # "flips" => qFree[1] = f1
  /\ used # "fence" => cMaps[v1] = NoOne

Next == \/ OfSema(Sema!Next) \/ OfFlag(Flag!Next) \/ OfRwlock(Rwlock!Next)
        \/ OfFlips(Flips!Next) \/ OfReads(Reads!Next)
        \/ OfFence(Fence!Next) \/ OfPrt(Residency!Next)

\* The weak fairness of each module; a line has one fair action of each.
WeakFairness ==
  /\ \A t \in {t1, t2} :
       /\ WF_vars(\/ OfSema(Sema!SliceEnds(t)) \/ OfFlag(Flag!Wakes(t))
                  \/ OfReads(Reads!GuestRuns(t)) \/ OfRwlock(Rwlock!ReadLoop(t)))
       /\ WF_vars(\/ OfSema(Sema!WakeWaiter(t)) \/ OfFlag(Flag!Relocks(t))
                  \/ OfFence(Fence!Goes(t)) \/ OfPrt(Residency!GuestRuns(t))
                  \/ OfRwlock(Rwlock!WriteLoop(t)))
  /\ WF_vars(\/ OfSema(Sema!SignalEnds(t1)) \/ OfFlag(Flag!CancelEnds(t1))
             \/ OfFlips(Flips!Running /\ Flips!CompleteFlip) \/ OfRwlock(Rwlock!Unlock(t1)))
  /\ WF_vars(\/ OfSema(Sema!SignalEnds(t2)) \/ OfFlag(Flag!CancelEnds(t2))
             \/ OfFlips(Flips!Running /\ Flips!PresentThread) \/ OfReads(Reads!RenderRuns)
             \/ OfRwlock(Rwlock!Unlock(t2)))
  /\ WF_vars(\/ OfFlag(Flag!DeleteEnds(t1)) \/ OfFlips(Flips!Running /\ Flips!GuestCall(t1))
             \/ OfRwlock(Rwlock!ReadLoop(t3)))
  /\ WF_vars(\/ OfFlag(Flag!DeleteEnds(t2)) \/ OfFlips(Flips!GpuThread)
             \/ OfReads(Reads!GpuRuns) \/ OfPrt(Residency!ReaderRuns)
             \/ OfRwlock(Rwlock!WriteLoop(t3)))
  /\ WF_vars(OfRwlock(Rwlock!Unlock(t3)))

\* The strong fairness of each module.
StrongFairness ==
  /\ SF_vars(\/ OfSema(Sema!WaitReturns(t1) \/ Sema!WaitTimesOut(t1))
             \/ OfFlag(Flag!WaitTimesOut(t1))
             \/ OfFlips(Flips!GpuRetries)
             \/ OfReads(Reads!Command(t1))
             \/ OfPrt(Residency!TakeResidency(t1)))
  /\ SF_vars(\/ OfSema(Sema!WaitReturns(t2) \/ Sema!WaitTimesOut(t2))
             \/ OfFlag(Flag!WaitTimesOut(t2))
             \/ OfFlips(Flips!Running /\ (Flips!Vblank \/ Flips!LateLooks))
             \/ OfReads(Reads!Command(t2))
             \/ OfPrt(Residency!TakeResidency(t2)))
  /\ SF_vars(\/ OfSema(Sema!DeleteEnds(t1)) \/ OfFlag(Flag!Retries(t1))
             \/ OfFlips(Flips!Running /\ Flips!FlipDue) \/ OfPrt(Residency!ServeSync))
  /\ SF_vars(\/ OfSema(Sema!DeleteEnds(t2)) \/ OfFlag(Flag!Retries(t2))
             \/ OfPrt(Residency!ReadLocks))

Spec == Init /\ [][Next]_vars /\ WeakFairness /\ StrongFairness

\* The destructor of the semaphore returns.
DeleteCompletes == Sema!DeleteCompletes

\* Cancel of the flag returns, and what met a Cancel is carried out.
FlagCallsComplete == Flag!FlagCallsComplete

\* A writer gets in past new readers, and a free lock is taken.
RwlockServes == Rwlock!RwlockServes

\* Closing a port and waiting for a flip return.
FlipCallsReturn == Flips!FlipCallsReturn

\* Every guest read that faulted goes on, who closes the fence gets in, and a
\* call and a read of partially resident memory return.
MemoryCallsReturn == Reads!ReadsReturn /\ Fence!FenceOpens /\ Residency!PrtCallsReturn
=============================================================================
