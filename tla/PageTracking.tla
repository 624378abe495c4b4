---------------------------- MODULE PageTracking ----------------------------
(***************************************************************************)
(* How the emulator notices that guest memory and the GPU's copy of it     *)
(* differ.  Each page of a tracked region has dirty bits (regionManager.h, *)
(* memoryTracker), counts of watchers and a host protection                *)
(* (pageManager.cpp).  Guest threads write pages directly while the host   *)
(* protection lets them and fault otherwise; the render thread uploads     *)
(* dirty pages, marks pages the GPU writes and downloads them again; the   *)
(* upload worker applies queued protections and copies in order.           *)
(*                                                                         *)
(* The data is abstracted to what the tracking must get right: the pages   *)
(* whose buffer (or image) lacks a guest write and those whose guest       *)
(* memory lacks a GPU write.                                               *)
(***************************************************************************)
EXTENDS Integers, Sequences

CONSTANTS
    Pages,      \* pages of tracked regions
    Guest,      \* guest threads
    Gpu,        \* the render (GPU) thread
    NoOne,      \* the region lock is free
    Backed,     \* sets of pages whose guest range has one backing pointer
    Capacity,   \* of the worker's ring
    Joined,     \* adjacent dirty pages are copied as one range
    Modes       \* settings and layouts a behaviour may start with

\* A setting: KYTY_ASYNC_REPROTECT, KYTY_ASYNC_UPLOAD (0, 1, 2), the pages of
\* the region and those under a registered image, whether the guest changes
\* protections, and whether only one guest thread uses the region.
Mode == [reprotect : BOOLEAN, upload : 0..2, pages : (SUBSET Pages) \ {{}},
         image : SUBSET Pages, mprotect : BOOLEAN, alone : BOOLEAN]

PageAssumption ==
    /\ Gpu \notin Guest /\ NoOne \notin Guest \cup {Gpu}
    /\ Backed \subseteq SUBSET Pages /\ Joined \in BOOLEAN
    /\ Modes \subseteq {m \in Mode : m.image \subseteq m.pages} /\ Capacity \in Nat \ {0}

VARIABLES
    mode,       \* chosen at the start
    cpuDirty,   \* m_cpu_dirty: the buffer must be updated from memory
    gpuDirty,   \* m_gpu_dirty: memory must be updated from the buffer
    writable,   \* m_writable: the tracker holds no write watcher
    watchers,   \* write watchers of each page (tracker and images)
    access,     \* pages with a read watcher
    host,       \* host protection of each page
    imaged,     \* pages a tracked image watches
    lock,       \* holder of the region's TrackingSpinLock
    deferred,   \* m_deferred_protects
    queue,      \* jobs of the upload worker, oldest first
    proven,     \* the region request's cpu_epoch is the current epoch
    same,       \* the epoch the render thread read is non-zero and current
    bda,        \* the region's bits: set, and set but not yet published
    stale,      \* pages whose buffer lacks a guest write
    imageStale, \* pages whose image lacks a guest write
    behind,     \* pages whose memory lacks a GPU write
    slipped,    \* pages written while mprotect had them open
    guest,      \* what each guest thread is doing
    gpu,        \* what the render thread is doing
    exited      \* an EXIT or Fatal was reached

tracker == <<cpuDirty, gpuDirty, writable, lock>>
pages == <<watchers, access, host>>
data == <<stale, imageStale, behind, slipped>>
epochs == <<deferred, proven, same, bda>>
vars == <<mode, tracker, pages, imaged, epochs, queue, data, guest, gpu, exited>>

\* The pages of the region.
Page == mode.pages

Job == [kind : {"protect", "settle", "copy", "image"}, pages : SUBSET Page]
GuestPc == {"run", "window", "restore", "invalidate", "unprotect", "images",
            "sent", "reapply", "away"}
GpuPc == {"idle", "sync", "handover", "copies", "written", "prove", "download", "unmark",
          "mark", "unprotect", "untrack", "image"}

\* A thread that runs guest code; a render thread between two commands.
Running == [pc |-> "run", page |-> CHOOSE p \in Page : TRUE,
            marked |-> {}, then |-> "run"]
Idle == [pc |-> "idle", range |-> {}, use |-> "read", protect |-> {},
         copies |-> {}, who |-> NoOne]

Init ==
    /\ mode \in Modes
    /\ cpuDirty = Page /\ gpuDirty = {} /\ writable = Page /\ lock = NoOne
    /\ watchers = [p \in Page |-> 0] /\ access = {}
    /\ host = [p \in Page |-> "RW"] /\ imaged = {}
    /\ deferred = 0 /\ proven = FALSE /\ same = FALSE /\ bda = {"set"}
    /\ queue = <<>>
    /\ stale = Page /\ imageStale = mode.image /\ behind = {} /\ slipped = {}
    /\ \E users \in IF mode.alone THEN {{g} : g \in Guest} ELSE {Guest} :
         guest = [g \in Guest |-> IF g \in users THEN Running ELSE [Running EXCEPT !.pc = "away"]]
    /\ gpu = Idle /\ exited = FALSE

-----------------------------------------------------------------------------
(***************************************************************************)
(* Pages: watchers and the host protection that follows them.              *)
(***************************************************************************)
\* Mutant of Perms: write watchers are looked at first.
PermsSwapped(w, a, p) == IF w[p] > 0 THEN "RO" ELSE IF p \in a THEN "NA" ELSE "RW"

\* PageState::Perms
Perms(w, a, p) == IF p \in a THEN "NA" ELSE IF w[p] > 0 THEN "RO" ELSE "RW"

\* UpdateRegionWatchers on P: the counts, and the host protection of the
\* pages whose permission the first (or last) watcher changes.
Watch(P) == [p \in Page |-> IF p \in P THEN watchers[p] + 1 ELSE watchers[p]]
Unwatch(P) == [p \in Page |-> IF p \in P THEN watchers[p] - 1 ELSE watchers[p]]

\* Pages of P whose permission a first write watcher changes.
FirstWatched(P) == {p \in P : watchers[p] = 0 /\ p \notin access}
Protected(P) == [p \in Page |-> IF p \in P THEN "RO" ELSE host[p]]

\* Mutant: released although another watcher remains.
ReleasedAll(P) == [p \in Page |-> IF p \in P /\ p \notin access THEN "RW" ELSE host[p]]

Released(P) == [p \in Page |->
    IF p \in P /\ watchers[p] = 1 /\ p \notin access THEN "RW" ELSE host[p]]

\* Read watchers come and go with the GPU's ownership (UpdateGpuProtection).
SetGpuDirty(D) ==
    /\ gpuDirty' = D
    /\ access' = D
    /\ host' = [p \in Page |-> IF p \in gpuDirty /\ p \in D THEN host[p]
                               ELSE IF p \in gpuDirty \cup D THEN Perms(watchers, D, p)
                               ELSE host[p]]

\* ReapplyProtection: only permissions that are not read-write are applied.
Reapply(P) == host' = [p \in Page |->
    IF p \in P /\ Perms(watchers, access, p) # "RW" THEN Perms(watchers, access, p)
    ELSE host[p]]

-----------------------------------------------------------------------------
(***************************************************************************)
(* ChangeState<Cpu, true> under the region lock, in the order of the code: *)
(* the bits, the epoch and the BDA mark, then the protection.              *)
(***************************************************************************)
MarkDirty(t, P) ==
    /\ lock = NoOne /\ lock' = t
    /\ exited' = (exited \/ P \cap gpuDirty # {})
    /\ cpuDirty' = cpuDirty \cup P
    /\ proven' = FALSE /\ same' = FALSE
    /\ bda' = bda \cup {IF t = Gpu THEN "set" ELSE "pending"}
    /\ UNCHANGED <<gpuDirty, writable, deferred>>

\* UpdateCpuProtection<false> on P, and the end of the locked section.
Unprotect(P) ==
    LET U == (P \cap cpuDirty) \ writable IN
    /\ writable' = writable \cup U
    /\ watchers' = Unwatch(U) /\ host' = Released(U)
    /\ exited' = (exited \/ \E p \in U : watchers[p] = 0)
    /\ lock' = NoOne
    /\ UNCHANGED <<cpuDirty, gpuDirty, access>>

-----------------------------------------------------------------------------
(***************************************************************************)
(* Guest threads.                                                          *)
(***************************************************************************)
At(g, pc) == guest[g].pc = pc
Become(g, r) == guest' = [guest EXCEPT ![g] = r]
Go(g, pc) == guest' = [guest EXCEPT ![g].pc = pc]

\* A write the host protection allows.
GuestWrite(g, p) ==
    /\ At(g, "run") /\ host[p] = "RW"
    /\ stale' = stale \cup {p}
    /\ imageStale' = imageStale \cup ({p} \cap mode.image)
    /\ slipped' = IF \E o \in Guest : At(o, "reapply") /\ guest[o].page = p
                  THEN slipped \cup {p} ELSE slipped
    /\ UNCHANGED <<mode, tracker, pages, imaged, epochs, queue, behind, guest, gpu, exited>>

\* HandleFault: a write fault first tries the window around it, a read fault
\* asks the render thread for the GPU's data.
WriteFault(g, p) ==
    /\ At(g, "run") /\ host[p] # "RW"
    /\ Become(g, [Running EXCEPT !.pc = "window", !.page = p])
    /\ UNCHANGED <<mode, tracker, pages, imaged, epochs, queue, data, gpu, exited>>

ReadFault(g, p) ==
    /\ At(g, "run") /\ host[p] = "NA"
    /\ Become(g, [Running EXCEPT !.pc = "sent", !.page = p])
    /\ UNCHANGED <<mode, tracker, pages, imaged, epochs, queue, data, gpu, exited>>

\* TryInvalidateCpuWriteWindow: the whole window becomes CPU-dirty when no
\* image lies on it and the GPU owns none of it.
WriteWindow(g) ==
    /\ At(g, "window") /\ mode.image = {} /\ gpuDirty = {}
    /\ MarkDirty(g, Page)
    /\ guest' = [guest EXCEPT ![g].pc = "unprotect", ![g].marked = Page]
    /\ UNCHANGED <<mode, pages, imaged, queue, data, gpu>>

\* The window is unmapped in part, aliased, imaged or owned by the GPU.
NoWindow(g) ==
    /\ At(g, "window") /\ lock = NoOne
    /\ Go(g, "restore")
    /\ UNCHANGED <<mode, tracker, pages, imaged, epochs, queue, data, gpu, exited>>

\* RestoreIfUnwatched
Restore(g) ==
    LET p == guest[g].page
        free == Perms(watchers, access, p) = "RW" IN
    /\ At(g, "restore")
    /\ host' = IF free THEN [host EXCEPT ![p] = "RW"] ELSE host
    /\ Go(g, IF free THEN "run" ELSE "invalidate")
    /\ UNCHANGED <<mode, tracker, watchers, access, imaged, epochs, queue, data, gpu, exited>>

\* Mutant: the ownership check is dropped.
InvalidateUnchecked(g) ==
    LET p == guest[g].page IN
    /\ At(g, "invalidate")
    /\ MarkDirty(g, {p})
    /\ guest' = [guest EXCEPT ![g].pc = "unprotect", ![g].marked = {p}, ![g].then = "images"]
    /\ UNCHANGED <<mode, pages, imaged, queue, data, gpu>>

\* MemoryTracker::InvalidateRegion: ownership and dirty state under one lock.
Invalidate(g) ==
    LET p == guest[g].page IN
    /\ At(g, "invalidate") /\ p \notin gpuDirty
    /\ MarkDirty(g, {p})
    /\ guest' = [guest EXCEPT ![g].pc = "unprotect", ![g].marked = {p}, ![g].then = "images"]
    /\ UNCHANGED <<mode, pages, imaged, queue, data, gpu>>

\* The GPU owns the page: its data comes back first (ReadMemory, is_write).
InvalidateFlush(g) ==
    /\ At(g, "invalidate") /\ lock = NoOne /\ guest[g].page \in gpuDirty
    /\ guest' = [guest EXCEPT ![g].pc = "sent", ![g].then = "images"]
    /\ UNCHANGED <<mode, tracker, pages, imaged, epochs, queue, data, gpu, exited>>

GuestUnprotect(g) ==
    /\ At(g, "unprotect") /\ lock = g
    /\ Unprotect(guest[g].marked)
    /\ guest' = [guest EXCEPT ![g].pc = guest[g].then, ![g].marked = {}]
    /\ UNCHANGED <<mode, imaged, epochs, queue, data, gpu>>

\* TextureCache::InvalidateMemory: the image is dirty and watches no longer.
InvalidateImages(g) ==
    LET U == {guest[g].page} \cap imaged IN
    /\ At(g, "images")
    /\ watchers' = Unwatch(U) /\ host' = Released(U) /\ imaged' = imaged \ U
    /\ exited' = (exited \/ \E p \in U : watchers[p] = 0)
    /\ Become(g, Running)
    /\ UNCHANGED <<mode, tracker, access, epochs, queue, data, gpu>>

\* KernelMprotect: the guest's protection is applied, then the trackers'.
Mprotect(g, p) ==
    /\ At(g, "run") /\ mode.mprotect
    /\ host' = [host EXCEPT ![p] = "RW"]
    /\ Become(g, [Running EXCEPT !.pc = "reapply", !.page = p])
    /\ UNCHANGED <<mode, tracker, watchers, access, imaged, epochs, queue, data, gpu, exited>>

MprotectReapply(g) ==
    /\ At(g, "reapply")
    /\ Reapply({guest[g].page})
    /\ Become(g, Running)
    /\ UNCHANGED <<mode, tracker, watchers, access, imaged, epochs, queue, data, gpu, exited>>

-----------------------------------------------------------------------------
(***************************************************************************)
(* The render thread.  Each operation starts when it is idle and runs to   *)
(* its end; guest threads and the worker move between its steps.           *)
(***************************************************************************)
Gpc(pc) == gpu.pc = pc
Do(pc) == gpu' = [gpu EXCEPT !.pc = pc]

\* ForEachUploadRange, first part: the dirty pages of S become clean and get
\* their write watcher; the protection is applied, or deferred (the sink of
\* SetDeferredWriteProtectSink) when the upload is not for a GPU write.
TakeDirty(S, use) ==
    LET D == S \cap cpuDirty
        T == IF D = {} THEN {} ELSE S \cap writable
        P == FirstWatched(T)
        defer == mode.reprotect /\ use # "write" IN
    /\ lock = NoOne /\ lock' = IF use = "write" THEN Gpu ELSE NoOne
    /\ cpuDirty' = cpuDirty \ D /\ writable' = writable \ T
    /\ watchers' = Watch(T)
    /\ host' = IF defer THEN host ELSE Protected(P)
    /\ deferred' = IF defer /\ P # {} THEN deferred + 1 ELSE deferred
    /\ gpu' = [Idle EXCEPT !.pc = "handover", !.range = S, !.use = use,
                 !.protect = IF defer THEN P ELSE {},
                 !.copies = IF D = {} THEN {} ELSE IF Joined THEN {D} ELSE {{p} : p \in D}]
    /\ UNCHANGED <<mode, gpuDirty, access, imaged, proven, same, bda, queue, data, guest, exited>>

\* SynchronizeBuffer: nothing to do for clean pages, nor for pages the GPU
\* is to write and owns already.
Upload(S, use) ==
    /\ Gpc("idle")
    /\ IF use = "write" THEN ~(S \subseteq gpuDirty) ELSE S \cap cpuDirty # {}
    /\ TakeDirty(S, use)

\* The GPU performs copies in the order they were recorded: what a queued
\* one brings of pages that a later one writes as well does not matter.
Overtaken(kind, P) == [i \in DOMAIN queue |->
    IF queue[i].kind = kind THEN [queue[i] EXCEPT !.pages = @ \ P] ELSE queue[i]]

\* Worker::Add, which waits while the ring is full.
Push(kind, P) ==
    /\ Len(queue) < Capacity
    /\ queue' = Append(IF kind = "protect" THEN queue ELSE Overtaken(kind, P),
                      [kind |-> kind, pages |-> P])

\* UploadCopies: protections deferred by this upload precede its copies,
\* queued when every copy is, applied here otherwise.
Queued(c) == mode.upload >= 1 /\ c \in Backed

HandOver ==
    LET all == \A c \in gpu.copies : Queued(c) IN
    /\ Gpc("handover")
    /\ IF gpu.protect = {} THEN UNCHANGED <<host, queue, deferred, proven, same>>
       ELSE IF all
       THEN /\ Push("protect", gpu.protect)
            /\ UNCHANGED <<host, deferred, proven, same>>
       ELSE /\ Reapply(gpu.protect)
            /\ deferred' = deferred - 1 /\ proven' = FALSE /\ same' = FALSE
            /\ UNCHANGED queue
    /\ gpu' = [gpu EXCEPT !.pc = "copies", !.protect = {}]
    /\ UNCHANGED <<mode, tracker, watchers, access, imaged, bda, data, guest, exited>>

CopyRange(c) ==
    /\ Gpc("copies") /\ c \in gpu.copies
    /\ IF Queued(c)
       THEN Push("copy", c) /\ UNCHANGED stale
       ELSE stale' = stale \ c /\ queue' = Overtaken("copy", c)
    /\ gpu' = [gpu EXCEPT !.copies = @ \ {c}]
    /\ UNCHANGED <<mode, tracker, pages, imaged, epochs, imageStale, behind, slipped, guest, exited>>

CopiesDone ==
    /\ Gpc("copies") /\ gpu.copies = {}
    /\ IF gpu.use = "read" THEN gpu' = Idle
       ELSE Do(IF gpu.use = "write" THEN "written" ELSE "prove")
    /\ UNCHANGED <<mode, tracker, pages, imaged, epochs, queue, data, guest, exited>>

\* The written pages become the GPU's before the region lock is released.
Written ==
    /\ Gpc("written") /\ lock = Gpu
    /\ exited' = (exited \/ gpu.range \cap cpuDirty # {})
    /\ SetGpuDirty(gpuDirty \cup gpu.range)
    /\ behind' = behind \cup gpu.range
    /\ lock' = NoOne /\ gpu' = Idle
    /\ UNCHANGED <<mode, cpuDirty, writable, watchers, imaged, epochs, queue, stale,
                   imageStale, slipped, guest>>

\* SynchronizeDirtyBdaRegions: the bit is cleared, the epoch is read, and a
\* request proven at that epoch is skipped (SynchronizeRegionRequest).
VisitBda ==
    /\ Gpc("idle") /\ "set" \in bda
    /\ bda' = bda \ {"set"}
    /\ same' = (deferred = 0)
    /\ IF deferred = 0 /\ proven THEN UNCHANGED gpu ELSE Do("sync")
    /\ UNCHANGED <<mode, tracker, pages, imaged, deferred, proven, queue, data, guest, exited>>

SyncBuffers ==
    /\ Gpc("sync") /\ lock = NoOne
    /\ IF cpuDirty # {} THEN TakeDirty(Page, "visit")
       ELSE /\ Do("prove")
            /\ UNCHANGED <<mode, tracker, pages, imaged, epochs, queue, data, guest, exited>>

\* Mutant: the second read of the epoch is left out.
ProveAtOnce ==
    /\ Gpc("prove")
    /\ proven' = TRUE
    /\ gpu' = Idle
    /\ UNCHANGED <<mode, tracker, pages, imaged, deferred, same, bda, queue, data, guest, exited>>

\* The request is proven when no page became dirty and no protection was
\* applied or is queued since the epoch was read.
Prove ==
    LET held == same /\ deferred = 0 IN
    /\ Gpc("prove")
    /\ proven' = held
    /\ bda' = IF ~held /\ deferred = 0 THEN bda \cup {"set"} ELSE bda
    /\ gpu' = Idle
    /\ UNCHANGED <<mode, tracker, pages, imaged, deferred, same, queue, data, guest, exited>>

\* BdaDirtyRegions::Publish, at a submission or a satisfied wait.
Publish ==
    /\ Gpc("idle") /\ "pending" \in bda
    /\ bda' = {"set"}
    /\ UNCHANGED <<mode, tracker, pages, imaged, deferred, proven, same, queue, data, guest,
                   gpu, exited>>

\* ReadMemory's is_write: the guest goes on to invalidate images.
IsWrite(g) == guest[g].then = "images"

\* A guest thread's ReadMemory runs as a command (SendCommandSync).
Serve(g) ==
    /\ Gpc("idle") /\ At(g, "sent")
    /\ gpu' = [Idle EXCEPT !.pc = IF gpuDirty # {} THEN "download"
                                  ELSE IF IsWrite(g) THEN "mark" ELSE "unmark",
                           !.range = {guest[g].page}, !.who = g]
    /\ UNCHANGED <<mode, tracker, pages, imaged, epochs, queue, data, guest, exited>>

\* DownloadBufferMemory: its submission waits for every queued upload, and
\* the GPU's data reaches guest memory through the backing view.
Download ==
    /\ Gpc("download") /\ queue = <<>>
    /\ behind' = behind \ gpuDirty
    /\ Do("unmark")
    /\ UNCHANGED <<mode, tracker, pages, imaged, epochs, queue, stale, imageStale, slipped,
                   guest, exited>>

\* UnmarkRegionAsGpuModified over the window; a guest that only read goes on.
Unmark ==
    LET g == gpu.who IN
    /\ Gpc("unmark") /\ lock = NoOne
    /\ SetGpuDirty({})
    /\ IF g \in Guest /\ ~IsWrite(g)
       THEN gpu' = Idle /\ Become(g, Running)
       ELSE Do(IF g = NoOne THEN "untrack" ELSE "mark") /\ UNCHANGED guest
    /\ UNCHANGED <<mode, cpuDirty, writable, lock, watchers, imaged, epochs, queue, data, exited>>

\* MarkRegionAsCpuModified, after the download for a guest's write.
Mark ==
    /\ Gpc("mark")
    /\ MarkDirty(Gpu, gpu.range)
    /\ Do("unprotect")
    /\ UNCHANGED <<mode, pages, imaged, queue, data, guest>>

\* Buffer collection: a buffer with GPU data is downloaded first, then its
\* pages are untracked (UntrackMemory exits on GPU data) and it is deleted.
Retire ==
    /\ Gpc("idle")
    /\ gpu' = [Idle EXCEPT !.pc = IF gpuDirty # {} THEN "download" ELSE "untrack", !.range = Page]
    /\ UNCHANGED <<mode, tracker, pages, imaged, epochs, queue, data, guest, exited>>

Untrack ==
    /\ Gpc("untrack")
    /\ MarkDirty(Gpu, Page)
    /\ Do("unprotect")
    /\ UNCHANGED <<mode, pages, imaged, queue, data, guest>>

GpuUnprotect ==
    LET g == gpu.who IN
    /\ Gpc("unprotect") /\ lock = Gpu
    /\ Unprotect(gpu.range)
    /\ gpu' = Idle
    /\ IF g \in Guest THEN Go(g, guest[g].then) /\ UNCHANGED stale
       ELSE stale' = Page /\ UNCHANGED guest
    /\ UNCHANGED <<mode, imaged, epochs, queue, imageStale, behind, slipped>>

\* CopyGuestMemory into a clean page: its images are invalidated, it becomes
\* dirty with its protection kept, and is written through the backing view.
CopyKept(p) ==
    LET U == {p} \cap imaged IN
    /\ Gpc("idle") /\ lock = NoOne /\ {p} \in Backed
    /\ p \notin cpuDirty \cup gpuDirty
    /\ watchers' = Unwatch(U) /\ host' = Released(U) /\ imaged' = imaged \ U
    /\ cpuDirty' = cpuDirty \cup {p}
    /\ proven' = FALSE /\ same' = FALSE /\ bda' = bda \cup {"set"}
    /\ stale' = stale \cup {p}
    /\ imageStale' = imageStale \cup ({p} \cap mode.image)
    /\ UNCHANGED <<mode, gpuDirty, writable, lock, access, deferred, queue, behind, slipped,
                   guest, gpu, exited>>

\* RefreshImage: the image watches its pages, then its source is read from
\* guest memory through a staging buffer (the image reaches beyond the pages
\* of one buffer; inside one, its source is that buffer).
RefreshImage(p) ==
    LET U == {p} \ imaged IN
    /\ Gpc("idle") /\ p \in mode.image \cap imageStale /\ p \notin gpuDirty
    /\ watchers' = Watch(U) /\ host' = Protected(FirstWatched(U)) /\ imaged' = imaged \cup U
    /\ gpu' = [Idle EXCEPT !.pc = "image", !.range = {p}]
    /\ UNCHANGED <<mode, tracker, access, epochs, queue, data, guest, exited>>

\* ObtainBufferForImage / StageImagePieces
StageImage ==
    /\ Gpc("image")
    /\ IF mode.upload = 2
       THEN Push("image", gpu.range) /\ UNCHANGED imageStale
       ELSE imageStale' = imageStale \ gpu.range /\ queue' = Overtaken("image", gpu.range)
    /\ gpu' = Idle
    /\ UNCHANGED <<mode, tracker, pages, imaged, epochs, stale, behind, slipped, guest, exited>>

-----------------------------------------------------------------------------
(***************************************************************************)
(* The upload worker: jobs in queue order.                                 *)
(***************************************************************************)
\* ApplyDeferredProtection: the protection, then the epoch and the count.
WorkerProtect ==
    /\ queue # <<>> /\ Head(queue).kind = "protect"
    /\ Reapply(Head(queue).pages)
    /\ queue' = [queue EXCEPT ![1].kind = "settle"]
    /\ UNCHANGED <<mode, tracker, watchers, access, imaged, epochs, data, guest, gpu, exited>>

WorkerSettle ==
    /\ queue # <<>> /\ Head(queue).kind = "settle"
    /\ queue' = Tail(queue)
    /\ deferred' = deferred - 1 /\ proven' = FALSE /\ same' = FALSE
    /\ UNCHANGED <<mode, tracker, pages, imaged, bda, data, guest, gpu, exited>>

WorkerCopy ==
    /\ queue # <<>> /\ Head(queue).kind \in {"copy", "image"}
    /\ queue' = Tail(queue)
    /\ IF Head(queue).kind = "copy"
       THEN stale' = stale \ Head(queue).pages /\ UNCHANGED imageStale
       ELSE imageStale' = imageStale \ Head(queue).pages /\ UNCHANGED stale
    /\ UNCHANGED <<mode, tracker, pages, imaged, epochs, behind, slipped, guest, gpu, exited>>

-----------------------------------------------------------------------------
GuestNext(g) ==
    \/ \E p \in Page : GuestWrite(g, p) \/ WriteFault(g, p) \/ ReadFault(g, p) \/ Mprotect(g, p)
    \/ WriteWindow(g) \/ NoWindow(g) \/ Restore(g) \/ Invalidate(g) \/ InvalidateFlush(g)
    \/ GuestUnprotect(g) \/ InvalidateImages(g) \/ MprotectReapply(g)

GpuNext ==
    \/ \E S \in (SUBSET Page) \ {{}}, use \in {"read", "write"} : Upload(S, use)
    \/ HandOver \/ CopiesDone \/ Written \/ VisitBda \/ SyncBuffers \/ Prove \/ Publish
    \/ \E c \in SUBSET Page : CopyRange(c)
    \/ \E g \in Guest : Serve(g)
    \/ Download \/ Unmark \/ Mark \/ Retire \/ Untrack \/ GpuUnprotect
    \/ \E p \in Page : CopyKept(p) \/ RefreshImage(p)
    \/ StageImage

WorkerNext == WorkerProtect \/ WorkerSettle \/ WorkerCopy

Next == (\E g \in Guest : GuestNext(g)) \/ GpuNext \/ WorkerNext

Spec == Init /\ [][Next]_vars

-----------------------------------------------------------------------------
\* Pages an mprotect has opened and not yet given back to the trackers.
Opened == {guest[g].page : g \in {o \in Guest : At(o, "reapply")}}

\* Pages whose buffer copy will still be taken from memory as it is then.
CopyAhead == UNION (gpu.copies \cup {queue[i].pages : i \in {j \in DOMAIN queue : queue[j].kind = "copy"}})

ImageAhead == (IF Gpc("image") THEN gpu.range ELSE {})
    \cup UNION {queue[i].pages : i \in {j \in DOMAIN queue : queue[j].kind = "image"}}

\* Types, and that no EXIT is reached: no page is dirty on both sides and no
\* watcher is taken away that was not there.
TypeOK ==
    /\ mode \in Modes
    /\ cpuDirty \subseteq Page /\ gpuDirty \subseteq Page /\ writable \subseteq Page
    /\ watchers \in [Page -> 0..127] /\ access \subseteq Page
    /\ host \in [Page -> {"RW", "RO", "NA"}] /\ imaged \subseteq mode.image
    /\ lock \in Guest \cup {Gpu, NoOne}
    /\ deferred \in Nat /\ proven \in BOOLEAN /\ same \in BOOLEAN
    /\ bda \subseteq {"set", "pending"}
    /\ queue \in Seq(Job)
    /\ stale \subseteq Page /\ imageStale \subseteq mode.image
    /\ behind \subseteq Page /\ slipped \subseteq Page
    /\ guest \in [Guest -> [pc : GuestPc, page : Page, marked : SUBSET Page,
                            then : {"run", "images"}]]
    /\ gpu \in [pc : GpuPc, range : SUBSET Page, use : {"read", "write", "visit"},
                protect : SUBSET Page, copies : SUBSET SUBSET Page, who : Guest \cup {NoOne}]
    /\ exited = FALSE

\* A guest write never stays unknown to the GPU: a page whose buffer lacks one
\* is dirty or will still be copied, and an image that lacks one no longer
\* counts as current or will still be read, unless mprotect let it slip.
WritesReachGpu ==
    /\ stale \subseteq cpuDirty \cup CopyAhead \cup slipped
    /\ imaged \cap imageStale \subseteq ImageAhead \cup slipped

\* While memory lacks a GPU write, the page is the GPU's and no guest thread
\* can read or write it (mprotect's opening aside).
GpuDataIsGuarded ==
    /\ behind \subseteq gpuDirty
    /\ \A p \in behind : host[p] = "NA" \/ p \in Opened

\* Both: no EXIT is reached and the GPU's writes are safe.
GpuSideInv == TypeOK /\ GpuDataIsGuarded

\* A request proven current at the region's epoch covers no dirty page and
\* none a guest thread could write unseen; and every region with a dirty
\* page has its bit set (or is being synchronized), so that it is visited.
ProofsHold ==
    /\ proven /\ deferred = 0 =>
         cpuDirty = {} /\ \A p \in Page : host[p] # "RW" \/ p \in Opened
    /\ cpuDirty # {} => bda # {} \/ Gpc("sync")

\* All of it: neither side's writes are lost, and what passes for current is.
PagesAreSound == GpuSideInv /\ WritesReachGpu /\ ProofsHold

\* Protections still queued.
Unapplied == UNION {queue[i].pages : i \in {j \in DOMAIN queue : queue[j].kind = "protect"}}

\* What UploadCopies says of a deferred protection (bufferCache.cpp:1599): it
\* precedes every copy.  A copy taken earlier misses the writes in between.
ProtectionPrecedesCopies ==
    [][((stale \ stale') \cup (imageStale \ imageStale')) \cap Unapplied = {}]_vars
=============================================================================
