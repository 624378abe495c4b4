------------------------------ MODULE Renderer ------------------------------
(***************************************************************************)
(* The renderer's threads and the guest's: command buffers and the         *)
(* submission timeline (CommandBuffers), who is told of interrupts         *)
(* (Interrupts), the protection of guest pages (PageTracking), and the     *)
(* flips of video-out ports (FlipQueue).  The four share no state: a       *)
(* behaviour is of one of them, and the others stay as they were made.     *)
(***************************************************************************)
EXTENDS CommandBuffers

CONSTANTS Guests,                           \* guest threads
          Raisers, Queues, Ids,             \* of Interrupts
          Pages, Backed, Capacity, Joined, Modes,  \* of PageTracking
          Ports, Frames, Indices, FlipCapacity, Limits  \* of FlipQueue

VARIABLES
  used,  \* "buffers", "interrupts", "pages" or "flips"
  iOpen, iPresent, iEqs, iThread, iRaced,
  pMode, pCpuDirty, pGpuDirty, pWritable, pWatchers, pAccess, pHost, pImaged, pLock,
  pDeferred, pQueue, pProven, pSame, pBda, pStale, pImageStale, pBehind, pSlipped,
  pGuest, pGpu, pExited,
  fOpened, fClosing, fGeneration, fGcQueueNum, fFlipPendingNum, fDriver, fRequest,
  fRequests, fCpuRequests, fCancelled, fProcessing, fFree, fLast, fSubmissions,
  fDeferred, fGpu, fGuest, fPresent, fFatal

Irqs == INSTANCE Interrupts WITH
  open <- iOpen, present <- iPresent, eqs <- iEqs, thread <- iThread, raced <- iRaced

Tracked == INSTANCE PageTracking WITH
  Guest <- Guests, NoOne <- None,
  mode <- pMode, cpuDirty <- pCpuDirty, gpuDirty <- pGpuDirty, writable <- pWritable,
  watchers <- pWatchers, access <- pAccess, host <- pHost, imaged <- pImaged,
  lock <- pLock, deferred <- pDeferred, queue <- pQueue, proven <- pProven,
  same <- pSame, bda <- pBda, stale <- pStale, imageStale <- pImageStale,
  behind <- pBehind, slipped <- pSlipped, guest <- pGuest, gpu <- pGpu,
  exited <- pExited

Flips == INSTANCE FlipQueue WITH
  Capacity <- FlipCapacity,
  opened <- fOpened, closing <- fClosing, generation <- fGeneration,
  gcQueueNum <- fGcQueueNum, flipPendingNum <- fFlipPendingNum, driver <- fDriver,
  request <- fRequest, requests <- fRequests, cpuRequests <- fCpuRequests,
  cancelled <- fCancelled, processing <- fProcessing, free <- fFree, last <- fLast,
  submissions <- fSubmissions, deferred <- fDeferred, gpu <- fGpu, guest <- fGuest,
  present <- fPresent, fatal <- fFatal

\* A setting that queues protections queues what they have to precede: the images'
\* copies, and of each page either every copy or none.  ProtectionPrecedesCopies of
\* PageTracking tells of the settings that do not.
Precedes(m) ==
  m.reprotect /\ m.upload > 0 =>
    /\ m.image = {} \/ m.upload = 2
    /\ Joined => SUBSET m.pages \subseteq Backed

ASSUME RendererAssumption ==
  /\ Irqs!InterruptsAssumption /\ Tracked!PageAssumption /\ Flips!FlipAssumption
  /\ \A m \in Modes : Precedes(m)

interruptVars == <<iOpen, iPresent, iEqs, iThread, iRaced>>
pageVars == <<pMode, pCpuDirty, pGpuDirty, pWritable, pWatchers, pAccess, pHost, pImaged,
              pLock, pDeferred, pQueue, pProven, pSame, pBda, pStale, pImageStale,
              pBehind, pSlipped, pGuest, pGpu, pExited>>
flipVars == <<fOpened, fClosing, fGeneration, fGcQueueNum, fFlipPendingNum, fDriver,
              fRequest, fRequests, fCpuRequests, fCancelled, fProcessing, fFree, fLast,
              fSubmissions, fDeferred, fGpu, fGuest, fPresent, fFatal>>
rendererVars == <<used, vars, interruptVars, pageVars, flipVars>>

OfBuffers(A) == used = "buffers" /\ A /\ UNCHANGED <<used, interruptVars, pageVars, flipVars>>
OfInterrupts(A) == used = "interrupts" /\ A /\ UNCHANGED <<used, vars, pageVars, flipVars>>
OfPages(A) == used = "pages" /\ A /\ UNCHANGED <<used, vars, interruptVars, flipVars>>
OfFlips(A) == used = "flips" /\ A /\ UNCHANGED <<used, vars, interruptVars, pageVars>>

\* What is not used has one initial state.
RendererInit ==
  /\ used \in {"buffers", "interrupts", "pages", "flips"}
  /\ Init /\ Irqs!Init /\ Tracked!Init /\ Flips!Init
  /\ used # "pages" => pMode = CHOOSE m \in Modes : ~m.alone
  /\ used # "flips" => fFree = CHOOSE s \in Flips!FrameOrders : TRUE

RendererNext == \/ OfBuffers(Next) \/ OfInterrupts(Irqs!Next)
                \/ OfPages(Tracked!Next) \/ OfFlips(Flips!Next)

RendererSpec == RendererInit /\ [][RendererNext]_rendererVars

\* Who added an event is told of interrupts.
InterruptsInv == Irqs!InterruptsInv

\* No write of a guest thread or of the GPU to a page is lost to the other.
PagesAreSound == used = "pages" => Tracked!PagesAreSound

\* Flips and frames are where they belong, and no EXIT finds them elsewhere.
FlipsAreSound == used = "flips" => Flips!FlipsAreSound
=============================================================================
