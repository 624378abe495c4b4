---------------------------- MODULE Memory_proofs ----------------------------
(***************************************************************************)
(* Proofs about the parts of Memory, for any threads, pages, guest ranges, *)
(* slots and requests.  The backing's fence: the two ways of reading the   *)
(* backing and the two fences against them never let a copy be torn, and   *)
(* a translation used without a lock is the mapping of now.  The sparse    *)
(* reads: whatever calls run, the renderer reads what is owned.  The       *)
(* readbacks: what a guest thread reads is the last write to it.           *)
(***************************************************************************)
EXTENDS Memory, Sequences, TLAPS

USE FenceAssumption
USE DEF InSlot, Looking, Spanning, Copying, Sharing, Changing, Fencing, Publishing, Excluding, Goto

LEMMA InitFence == Init => FenceInv
  <1> SUFFICES ASSUME Init PROVE FenceInv
      OBVIOUS
  <1> USE DEF Init
  <1>1. TypeOK
    <2>4. LastEpoch \in Nat /\ LastEpoch >= 1
          OBVIOUS
    <2>5. epoch = 1 /\ writePending = FALSE
          OBVIOUS
    <2>6. epoch \in 1 .. LastEpoch
          BY <2>4, <2>5
    <2>7. writePending \in BOOLEAN
          BY <2>5
    <2>1. /\ maps \in [Addr -> Page \cup {NoOne}]
          /\ owner \in Thread \cup {NoOne} /\ sharers \subseteq Thread
          /\ copier \in Thread \cup {NoOne}
          /\ writePages \subseteq Page /\ readPages \subseteq Page
          OBVIOUS
    <2>2. cached \in [addr : Addr \cup {NoOne}, page : Page \cup {NoOne}, epoch : 0 .. LastEpoch]
          OBVIOUS
    <2>3. /\ pc \in [Thread -> Places]
          /\ job \in [Thread -> Job \cup {NoJob}]
          /\ pages \in [Thread -> SUBSET Page]
          BY DEF Places
    <2> QED BY <2>6, <2>1, <2>2, <2>3, <2>7 DEF TypeOK
  <1>2. LocksHeld /\ WordsTold /\ JobsFit /\ ReadersHeldOff /\ CacheFresh
        BY DEF LocksHeld, WordsTold, JobsFit, ReadersHeldOff, CacheFresh
  <1> QED BY <1>1, <1>2 DEF FenceInv

LEMMA StartReadKeeps == ASSUME NEW t \in Thread, FenceInv, StartRead(t) PROVE FenceInv'
  <1> USE DEF StartRead, maptable, locks, words, Job, Ranges, Single
  <1> TypeOK /\ LocksHeld /\ WordsTold /\ JobsFit /\ ReadersHeldOff /\ CacheFresh
      BY DEF FenceInv
  <1>1. TypeOK'
        BY DEF TypeOK, Places, NoJob, Job, Ranges, Single, Images
  <1>2. LocksHeld'
        BY DEF TypeOK, LocksHeld
  <1>3. WordsTold'
        BY DEF TypeOK, LocksHeld, WordsTold, JobsFit
  <1>4. JobsFit'
        BY DEF TypeOK, LocksHeld, JobsFit, ReadersHeldOff, CacheFresh, Images
  <1>5. ReadersHeldOff'
        BY DEF TypeOK, LocksHeld, WordsTold, JobsFit, ReadersHeldOff
  <1>6. CacheFresh'
        BY DEF TypeOK, CacheFresh, ReadersHeldOff
  <1> QED BY <1>1, <1>2, <1>3, <1>4, <1>5, <1>6 DEF FenceInv

LEMMA CheckKeeps == ASSUME NEW t \in Thread, FenceInv, Check(t) PROVE FenceInv'
  <1> USE DEF Check, maptable, locks, words
  <1> TypeOK /\ LocksHeld /\ WordsTold /\ JobsFit /\ ReadersHeldOff /\ CacheFresh
      BY DEF FenceInv
  <1>1. TypeOK'
        BY DEF TypeOK, Places, NoJob, Job, Ranges, Single, Images
  <1>2. LocksHeld'
        BY DEF TypeOK, LocksHeld
  <1>3. WordsTold'
        BY DEF TypeOK, LocksHeld, WordsTold, JobsFit
  <1>4. JobsFit'
        BY DEF TypeOK, LocksHeld, JobsFit, ReadersHeldOff, CacheFresh, Images
  <1>5. ReadersHeldOff'
        BY DEF TypeOK, LocksHeld, WordsTold, JobsFit, ReadersHeldOff
  <1>6. CacheFresh'
        BY DEF TypeOK, CacheFresh, ReadersHeldOff
  <1> QED BY <1>1, <1>2, <1>3, <1>4, <1>5, <1>6 DEF FenceInv

LEMMA ClaimKeeps == ASSUME NEW t \in Thread, FenceInv, Claim(t) PROVE FenceInv'
  <1> USE DEF Claim, maptable, locks, words
  <1> TypeOK /\ LocksHeld /\ WordsTold /\ JobsFit /\ ReadersHeldOff /\ CacheFresh
      BY DEF FenceInv
  <1>1. TypeOK'
        BY DEF TypeOK, Places, NoJob, Job, Ranges, Single, Images
  <1>2. LocksHeld'
        BY DEF TypeOK, LocksHeld
  <1>3. WordsTold'
        BY DEF TypeOK, LocksHeld, WordsTold, JobsFit
  <1>4. JobsFit'
        BY DEF TypeOK, LocksHeld, JobsFit, ReadersHeldOff, CacheFresh, Images
  <1>5. ReadersHeldOff'
        BY DEF TypeOK, LocksHeld, WordsTold, JobsFit, ReadersHeldOff
  <1>6. CacheFresh'
        BY DEF TypeOK, CacheFresh, ReadersHeldOff
  <1> QED BY <1>1, <1>2, <1>3, <1>4, <1>5, <1>6 DEF FenceInv

LEMMA RecheckKeeps == ASSUME NEW t \in Thread, FenceInv, Recheck(t) PROVE FenceInv'
  <1> USE DEF Recheck, maptable, locks, words
  <1> TypeOK /\ LocksHeld /\ WordsTold /\ JobsFit /\ ReadersHeldOff /\ CacheFresh
      BY DEF FenceInv
  <1>1. TypeOK'
        BY DEF TypeOK, Places, NoJob, Job, Ranges, Single, Images
  <1>2. LocksHeld'
        BY DEF TypeOK, LocksHeld
  <1>3. WordsTold'
        BY DEF TypeOK, LocksHeld, WordsTold, JobsFit
  <1>4. JobsFit'
        BY DEF TypeOK, LocksHeld, JobsFit, ReadersHeldOff, CacheFresh, Images
  <1>5. ReadersHeldOff'
        BY DEF TypeOK, LocksHeld, WordsTold, JobsFit, ReadersHeldOff
  <1>6. CacheFresh'
        BY DEF TypeOK, CacheFresh, ReadersHeldOff
  <1> QED BY <1>1, <1>2, <1>3, <1>4, <1>5, <1>6 DEF FenceInv

LEMMA LookupKeeps == ASSUME NEW t \in Thread, FenceInv, Lookup(t) PROVE FenceInv'
  <1> USE DEF Lookup, Return, Cached, maptable, locks, words
  <1> TypeOK /\ LocksHeld /\ WordsTold /\ JobsFit /\ ReadersHeldOff /\ CacheFresh
      BY DEF FenceInv
  <1>1. TypeOK'
    <2>1. /\ readPages' \subseteq Page
          /\ job' \in [Thread -> Job \cup {NoJob}]
          BY DEF TypeOK
    <2>2. pc' \in [Thread -> Places]
          BY DEF TypeOK, Places
    <2>3. cached.epoch = epoch => cached.page \in Page
          BY DEF CacheFresh
    <2>4. \A a \in Addr : maps[a] # NoOne => maps[a] \in Page
          BY DEF TypeOK
    <2>5. pages' \in [Thread -> SUBSET Page]
          BY <2>3, <2>4 DEF TypeOK
    <2>6. cached' \in [addr : Addr \cup {NoOne}, page : Page \cup {NoOne}, epoch : 0 .. LastEpoch]
          BY <2>4 DEF TypeOK
    <2> QED BY <2>1, <2>2, <2>5, <2>6 DEF TypeOK
  <1>2. LocksHeld'
        BY DEF TypeOK, LocksHeld
  <1>3. WordsTold'
        BY DEF TypeOK, LocksHeld, WordsTold, JobsFit
  <1>4. JobsFit'
    <2>1. ASSUME NEW u \in Thread, u # t
          PROVE  /\ pc'[u] = pc[u] /\ job'[u] = job[u] /\ pages'[u] = pages[u]
                 /\ Images(job[u].at)' = Images(job'[u].at)
          BY <2>1 DEF TypeOK, Images
    <2>2. \A a \in Addr : Images({a}) = {maps[a]}
          BY DEF Images
    <2>3. pc'[t] = "narrow" => \E a \in Addr : job[t].at = {a} /\ pages'[t] = {maps[a]} /\ job' = job
          BY DEF TypeOK, CacheFresh
    <2>4. pc'[t] \in {"narrow", "lock", "idle"} /\ (pc'[t] # "idle" => job' = job)
          BY DEF TypeOK
    <2>5. job[t].kind \in {"read", "pointer"} /\ (pc'[t] = "narrow" => job[t].kind = "read")
          BY DEF TypeOK, JobsFit
    <2> QED BY <2>1, <2>2, <2>3, <2>4, <2>5 DEF JobsFit, Images
  <1>5. ReadersHeldOff'
        BY DEF TypeOK, LocksHeld, WordsTold, JobsFit, ReadersHeldOff
  <1>6. CacheFresh'
        BY DEF TypeOK, CacheFresh, ReadersHeldOff
  <1> QED BY <1>1, <1>2, <1>3, <1>4, <1>5, <1>6 DEF FenceInv

LEMMA NarrowKeeps == ASSUME NEW t \in Thread, FenceInv, Narrow(t) PROVE FenceInv'
  <1> USE DEF Narrow, maptable, locks, words
  <1> TypeOK /\ LocksHeld /\ WordsTold /\ JobsFit /\ ReadersHeldOff /\ CacheFresh
      BY DEF FenceInv
  <1>1. TypeOK'
        BY DEF TypeOK, Places, NoJob, Job, Ranges, Single, Images
  <1>2. LocksHeld'
        BY DEF TypeOK, LocksHeld
  <1>3. WordsTold'
        BY DEF TypeOK, LocksHeld, WordsTold, JobsFit
  <1>4. JobsFit'
        BY DEF TypeOK, LocksHeld, JobsFit, ReadersHeldOff, CacheFresh, Images
  <1>5. ReadersHeldOff'
        BY DEF TypeOK, LocksHeld, WordsTold, JobsFit, ReadersHeldOff
  <1>6. CacheFresh'
        BY DEF TypeOK, CacheFresh, ReadersHeldOff
  <1> QED BY <1>1, <1>2, <1>3, <1>4, <1>5, <1>6 DEF FenceInv

LEMMA InspectKeeps == ASSUME NEW t \in Thread, FenceInv, Inspect(t) PROVE FenceInv'
  <1> USE DEF Inspect, maptable, locks, words
  <1> TypeOK /\ LocksHeld /\ WordsTold /\ JobsFit /\ ReadersHeldOff /\ CacheFresh
      BY DEF FenceInv
  <1>1. TypeOK'
        BY DEF TypeOK, Places, NoJob, Job, Ranges, Single, Images
  <1>2. LocksHeld'
        BY DEF TypeOK, LocksHeld
  <1>3. WordsTold'
        BY DEF TypeOK, LocksHeld, WordsTold, JobsFit
  <1>4. JobsFit'
        BY DEF TypeOK, LocksHeld, JobsFit, ReadersHeldOff, CacheFresh, Images
  <1>5. ReadersHeldOff'
        BY DEF TypeOK, LocksHeld, WordsTold, JobsFit, ReadersHeldOff
  <1>6. CacheFresh'
        BY DEF TypeOK, CacheFresh, ReadersHeldOff
  <1> QED BY <1>1, <1>2, <1>3, <1>4, <1>5, <1>6 DEF FenceInv

LEMMA EndCopyKeeps == ASSUME NEW t \in Thread, FenceInv, EndCopy(t) PROVE FenceInv'
  <1> USE DEF EndCopy, Return, maptable, locks, words
  <1> TypeOK /\ LocksHeld /\ WordsTold /\ JobsFit /\ ReadersHeldOff /\ CacheFresh
      BY DEF FenceInv
  <1>1. TypeOK'
        BY DEF TypeOK, Places, NoJob, Job, Ranges, Single, Images
  <1>2. LocksHeld'
        BY DEF TypeOK, LocksHeld
  <1>3. WordsTold'
        BY DEF TypeOK, LocksHeld, WordsTold, JobsFit
  <1>4. JobsFit'
        BY DEF TypeOK, LocksHeld, JobsFit, ReadersHeldOff, CacheFresh, Images
  <1>5. ReadersHeldOff'
        BY DEF TypeOK, LocksHeld, WordsTold, JobsFit, ReadersHeldOff
  <1>6. CacheFresh'
        BY DEF TypeOK, CacheFresh, ReadersHeldOff
  <1> QED BY <1>1, <1>2, <1>3, <1>4, <1>5, <1>6 DEF FenceInv

LEMMA StartWriteKeeps == ASSUME NEW t \in Thread, FenceInv, StartWrite(t) PROVE FenceInv'
  <1> USE DEF StartWrite, maptable, locks, words, Job, Ranges, Single
  <1> TypeOK /\ LocksHeld /\ WordsTold /\ JobsFit /\ ReadersHeldOff /\ CacheFresh
      BY DEF FenceInv
  <1>1. TypeOK'
        BY DEF TypeOK, Places, NoJob, Job, Ranges, Single, Images
  <1>2. LocksHeld'
        BY DEF TypeOK, LocksHeld
  <1>3. WordsTold'
        BY DEF TypeOK, LocksHeld, WordsTold, JobsFit
  <1>4. JobsFit'
        BY DEF TypeOK, LocksHeld, JobsFit, ReadersHeldOff, CacheFresh, Images
  <1>5. ReadersHeldOff'
        BY DEF TypeOK, LocksHeld, WordsTold, JobsFit, ReadersHeldOff
  <1>6. CacheFresh'
        BY DEF TypeOK, CacheFresh, ReadersHeldOff
  <1> QED BY <1>1, <1>2, <1>3, <1>4, <1>5, <1>6 DEF FenceInv

LEMMA LockMapsKeeps == ASSUME NEW t \in Thread, FenceInv, LockMaps(t) PROVE FenceInv'
  <1> USE DEF LockMaps, Return, maptable, locks, words
  <1> TypeOK /\ LocksHeld /\ WordsTold /\ JobsFit /\ ReadersHeldOff /\ CacheFresh
      BY DEF FenceInv
  <1>1. TypeOK'
        BY DEF TypeOK, Places, NoJob, Job, Ranges, Single, Images
  <1>2. LocksHeld'
        BY DEF TypeOK, LocksHeld
  <1>3. WordsTold'
        BY DEF TypeOK, LocksHeld, WordsTold, JobsFit
  <1>4. JobsFit'
        BY DEF TypeOK, LocksHeld, JobsFit, ReadersHeldOff, CacheFresh, Images
  <1>5. ReadersHeldOff'
        BY DEF TypeOK, LocksHeld, WordsTold, JobsFit, ReadersHeldOff
  <1>6. CacheFresh'
        BY DEF TypeOK, CacheFresh, ReadersHeldOff
  <1> QED BY <1>1, <1>2, <1>3, <1>4, <1>5, <1>6 DEF FenceInv

LEMMA LockDataKeeps == ASSUME NEW t \in Thread, FenceInv, LockData(t) PROVE FenceInv'
  <1> USE DEF LockData, Return, maptable, locks, words
  <1> TypeOK /\ LocksHeld /\ WordsTold /\ JobsFit /\ ReadersHeldOff /\ CacheFresh
      BY DEF FenceInv
  <1>1. TypeOK'
    <2>1. /\ sharers' \subseteq Thread /\ copier' \in Thread \cup {NoOne}
          /\ job' \in [Thread -> Job \cup {NoJob}]
          BY DEF TypeOK
    <2>2. pc' \in [Thread -> Places]
          BY DEF TypeOK, Places
    <2>3. /\ job[t].kind \in {"read", "write"}
          /\ job[t] \in Job
          BY DEF TypeOK, NoJob, JobsFit
    <2>4. job[t].at \subseteq Addr
          BY <2>3 DEF Job, Ranges, Single
    <2>5. Images(job[t].at) \subseteq Page \cup {NoOne}
          BY <2>4 DEF TypeOK, Images
    <2>6. pages' \in [Thread -> SUBSET Page]
          BY <2>5 DEF TypeOK
    <2> QED BY <2>1, <2>2, <2>6 DEF TypeOK
  <1>2. LocksHeld'
        BY DEF TypeOK, LocksHeld
  <1>3. WordsTold'
        BY DEF TypeOK, LocksHeld, WordsTold, JobsFit
  <1>4. JobsFit'
        BY DEF TypeOK, LocksHeld, JobsFit, ReadersHeldOff, CacheFresh, Images
  <1>5. ReadersHeldOff'
        BY DEF TypeOK, LocksHeld, WordsTold, JobsFit, ReadersHeldOff
  <1>6. CacheFresh'
        BY DEF TypeOK, CacheFresh, ReadersHeldOff
  <1> QED BY <1>1, <1>2, <1>3, <1>4, <1>5, <1>6 DEF FenceInv

LEMMA EndCopyLockedKeeps == ASSUME NEW t \in Thread, FenceInv, EndCopyLocked(t) PROVE FenceInv'
  <1> USE DEF EndCopyLocked, Return, maptable, locks, words
  <1> TypeOK /\ LocksHeld /\ WordsTold /\ JobsFit /\ ReadersHeldOff /\ CacheFresh
      BY DEF FenceInv
  <1>1. TypeOK'
        BY DEF TypeOK, Places, NoJob, Job, Ranges, Single, Images
  <1>2. LocksHeld'
        BY DEF TypeOK, LocksHeld
  <1>3. WordsTold'
        BY DEF TypeOK, LocksHeld, WordsTold, JobsFit
  <1>4. JobsFit'
        BY DEF TypeOK, LocksHeld, JobsFit, ReadersHeldOff, CacheFresh, Images
  <1>5. ReadersHeldOff'
        BY DEF TypeOK, LocksHeld, WordsTold, JobsFit, ReadersHeldOff
  <1>6. CacheFresh'
        BY DEF TypeOK, CacheFresh, ReadersHeldOff
  <1> QED BY <1>1, <1>2, <1>3, <1>4, <1>5, <1>6 DEF FenceInv

LEMMA PublishKeeps == ASSUME NEW t \in Thread, FenceInv, Publish(t) PROVE FenceInv'
  <1> USE DEF Publish, maptable, locks, words
  <1> TypeOK /\ LocksHeld /\ WordsTold /\ JobsFit /\ ReadersHeldOff /\ CacheFresh
      BY DEF FenceInv
  <1>1. TypeOK'
        BY DEF TypeOK, Places, NoJob, Job, Ranges, Single, Images
  <1>2. LocksHeld'
        BY DEF TypeOK, LocksHeld
  <1>3. WordsTold'
        BY DEF TypeOK, LocksHeld, WordsTold, JobsFit
  <1>4. JobsFit'
        BY DEF TypeOK, LocksHeld, JobsFit, ReadersHeldOff, CacheFresh, Images
  <1>5. ReadersHeldOff'
        BY DEF TypeOK, LocksHeld, WordsTold, JobsFit, ReadersHeldOff
  <1>6. CacheFresh'
        BY DEF TypeOK, CacheFresh, ReadersHeldOff
  <1> QED BY <1>1, <1>2, <1>3, <1>4, <1>5, <1>6 DEF FenceInv

LEMMA DrainKeeps == ASSUME NEW t \in Thread, FenceInv, Drain(t) PROVE FenceInv'
  <1> USE DEF Drain, maptable, locks, words
  <1> TypeOK /\ LocksHeld /\ WordsTold /\ JobsFit /\ ReadersHeldOff /\ CacheFresh
      BY DEF FenceInv
  <1>1. TypeOK'
        BY DEF TypeOK, Places, NoJob, Job, Ranges, Single, Images
  <1>2. LocksHeld'
        BY DEF TypeOK, LocksHeld
  <1>3. WordsTold'
        BY DEF TypeOK, LocksHeld, WordsTold, JobsFit
  <1>4. JobsFit'
        BY DEF TypeOK, LocksHeld, JobsFit, ReadersHeldOff, CacheFresh, Images
  <1>5. ReadersHeldOff'
        BY DEF TypeOK, LocksHeld, WordsTold, JobsFit, ReadersHeldOff
  <1>6. CacheFresh'
        BY DEF TypeOK, CacheFresh, ReadersHeldOff
  <1> QED BY <1>1, <1>2, <1>3, <1>4, <1>5, <1>6 DEF FenceInv

LEMMA EndWriteKeeps == ASSUME NEW t \in Thread, FenceInv, EndWrite(t) PROVE FenceInv'
  <1> USE DEF EndWrite, Return, maptable, locks, words
  <1> TypeOK /\ LocksHeld /\ WordsTold /\ JobsFit /\ ReadersHeldOff /\ CacheFresh
      BY DEF FenceInv
  <1>1. TypeOK'
        BY DEF TypeOK, Places, NoJob, Job, Ranges, Single, Images
  <1>2. LocksHeld'
        BY DEF TypeOK, LocksHeld
  <1>3. WordsTold'
        BY DEF TypeOK, LocksHeld, WordsTold, JobsFit
  <1>4. JobsFit'
        BY DEF TypeOK, LocksHeld, JobsFit, ReadersHeldOff, CacheFresh, Images
  <1>5. ReadersHeldOff'
        BY DEF TypeOK, LocksHeld, WordsTold, JobsFit, ReadersHeldOff
  <1>6. CacheFresh'
        BY DEF TypeOK, CacheFresh, ReadersHeldOff
  <1> QED BY <1>1, <1>2, <1>3, <1>4, <1>5, <1>6 DEF FenceInv

LEMMA LockForChangeKeeps == ASSUME NEW t \in Thread, FenceInv, LockForChange(t) PROVE FenceInv'
  <1> USE DEF LockForChange, maptable, locks, words, Job, Ranges, Single
  <1> TypeOK /\ LocksHeld /\ WordsTold /\ JobsFit /\ ReadersHeldOff /\ CacheFresh
      BY DEF FenceInv
  <1>1. TypeOK'
        BY DEF TypeOK, Places, NoJob, Job, Ranges, Single, Images
  <1>2. LocksHeld'
        BY DEF TypeOK, LocksHeld
  <1>3. WordsTold'
        BY DEF TypeOK, LocksHeld, WordsTold, JobsFit
  <1>4. JobsFit'
        BY DEF TypeOK, LocksHeld, JobsFit, ReadersHeldOff, CacheFresh, Images
  <1>5. ReadersHeldOff'
        BY DEF TypeOK, LocksHeld, WordsTold, JobsFit, ReadersHeldOff
  <1>6. CacheFresh'
        BY DEF TypeOK, CacheFresh, ReadersHeldOff
  <1> QED BY <1>1, <1>2, <1>3, <1>4, <1>5, <1>6 DEF FenceInv

LEMMA AnnounceKeeps == ASSUME NEW t \in Thread, FenceInv, Announce(t) PROVE FenceInv'
  <1> USE DEF Announce, maptable, locks, words
  <1> TypeOK /\ LocksHeld /\ WordsTold /\ JobsFit /\ ReadersHeldOff /\ CacheFresh
      BY DEF FenceInv
  <1>1. TypeOK'
        BY DEF TypeOK, Places, NoJob, Job, Ranges, Single, Images
  <1>2. LocksHeld'
        BY DEF TypeOK, LocksHeld
  <1>3. WordsTold'
        BY DEF TypeOK, LocksHeld, WordsTold, JobsFit
  <1>4. JobsFit'
        BY DEF TypeOK, LocksHeld, JobsFit, ReadersHeldOff, CacheFresh, Images
  <1>5. ReadersHeldOff'
        BY DEF TypeOK, LocksHeld, WordsTold, JobsFit, ReadersHeldOff
  <1>6. CacheFresh'
        BY DEF TypeOK, CacheFresh, ReadersHeldOff
  <1> QED BY <1>1, <1>2, <1>3, <1>4, <1>5, <1>6 DEF FenceInv

LEMMA AwaitKeeps == ASSUME NEW t \in Thread, FenceInv, Await(t) PROVE FenceInv'
  <1> USE DEF Await, maptable, locks, words
  <1> TypeOK /\ LocksHeld /\ WordsTold /\ JobsFit /\ ReadersHeldOff /\ CacheFresh
      BY DEF FenceInv
  <1>1. TypeOK'
        BY DEF TypeOK, Places, NoJob, Job, Ranges, Single, Images
  <1>2. LocksHeld'
        BY DEF TypeOK, LocksHeld
  <1>3. WordsTold'
        BY DEF TypeOK, LocksHeld, WordsTold, JobsFit
  <1>4. JobsFit'
        BY DEF TypeOK, LocksHeld, JobsFit, ReadersHeldOff, CacheFresh, Images
  <1>5. ReadersHeldOff'
        BY DEF TypeOK, LocksHeld, WordsTold, JobsFit, ReadersHeldOff
  <1>6. CacheFresh'
        BY DEF TypeOK, CacheFresh, ReadersHeldOff
  <1> QED BY <1>1, <1>2, <1>3, <1>4, <1>5, <1>6 DEF FenceInv

LEMMA EndWriteSpanKeeps == ASSUME NEW t \in Thread, FenceInv, EndWriteSpan(t) PROVE FenceInv'
  <1> USE DEF EndWriteSpan, Return, maptable, locks, words
  <1> TypeOK /\ LocksHeld /\ WordsTold /\ JobsFit /\ ReadersHeldOff /\ CacheFresh
      BY DEF FenceInv
  <1>1. TypeOK'
        BY DEF TypeOK, Places, NoJob, Job, Ranges, Single, Images
  <1>2. LocksHeld'
        BY DEF TypeOK, LocksHeld
  <1>3. WordsTold'
        BY DEF TypeOK, LocksHeld, WordsTold, JobsFit
  <1>4. JobsFit'
        BY DEF TypeOK, LocksHeld, JobsFit, ReadersHeldOff, CacheFresh, Images
  <1>5. ReadersHeldOff'
        BY DEF TypeOK, LocksHeld, WordsTold, JobsFit, ReadersHeldOff
  <1>6. CacheFresh'
        BY DEF TypeOK, CacheFresh, ReadersHeldOff
  <1> QED BY <1>1, <1>2, <1>3, <1>4, <1>5, <1>6 DEF FenceInv

LEMMA EndChangeKeeps == ASSUME NEW t \in Thread, FenceInv, EndChange(t) PROVE FenceInv'
  <1> USE DEF EndChange, Return, InvalidateMappingLookup, maptable, locks, words
  <1> TypeOK /\ LocksHeld /\ WordsTold /\ JobsFit /\ ReadersHeldOff /\ CacheFresh
      BY DEF FenceInv
  <1>1. TypeOK'
    <2>1. /\ owner' \in Thread \cup {NoOne} /\ writePending' \in BOOLEAN
          /\ job' \in [Thread -> Job \cup {NoJob}]
          /\ pages' \in [Thread -> SUBSET Page]
          BY DEF TypeOK
    <2>2. pc' \in [Thread -> Places]
          BY DEF TypeOK, Places
    <2>3. job[t].kind = "map" => job[t].page \in Page
          BY DEF TypeOK, Job, NoJob
    <2>4. maps' \in [Addr -> Page \cup {NoOne}]
          BY <2>3 DEF TypeOK
    <2>5. epoch' \in 1 .. LastEpoch
          BY DEF TypeOK
    <2>6. cached' \in [addr : Addr \cup {NoOne}, page : Page \cup {NoOne}, epoch : 0 .. LastEpoch]
          BY DEF TypeOK
    <2> QED BY <2>1, <2>2, <2>4, <2>5, <2>6 DEF TypeOK
  <1>2. LocksHeld'
        BY DEF TypeOK, LocksHeld
  <1>3. WordsTold'
        BY DEF TypeOK, LocksHeld, WordsTold, JobsFit
  <1>4. JobsFit'
        BY DEF TypeOK, LocksHeld, JobsFit, ReadersHeldOff, CacheFresh, Images
  <1>5. ReadersHeldOff'
        BY DEF TypeOK, LocksHeld, WordsTold, JobsFit, ReadersHeldOff
  <1>6. CacheFresh'
        BY DEF TypeOK, CacheFresh, ReadersHeldOff
  <1> QED BY <1>1, <1>2, <1>3, <1>4, <1>5, <1>6 DEF FenceInv

LEMMA FenceStep == FenceInv /\ [Next]_vars => FenceInv'
  <1> SUFFICES ASSUME FenceInv, [Next]_vars PROVE FenceInv'
      OBVIOUS
  <1>1. CASE UNCHANGED vars
        BY <1>1 DEF vars, maptable, locks, words, FenceInv, TypeOK, LocksHeld, WordsTold, JobsFit,
                    ReadersHeldOff, CacheFresh, Images
  <1>2. ASSUME NEW t \in Thread, Begin(t) PROVE FenceInv'
        BY <1>2, StartReadKeeps, StartWriteKeeps, LockForChangeKeeps DEF Begin
  <1>3. ASSUME NEW t \in Thread, Goes(t) PROVE FenceInv'
        BY <1>3, CheckKeeps, ClaimKeeps, RecheckKeeps, LookupKeeps, NarrowKeeps, InspectKeeps,
           EndCopyKeeps, LockMapsKeeps, LockDataKeeps, EndCopyLockedKeeps, PublishKeeps, DrainKeeps,
           EndWriteKeeps, AnnounceKeeps, AwaitKeeps, EndWriteSpanKeeps, EndChangeKeeps DEF Goes
  <1> QED BY <1>1, <1>2, <1>3 DEF Next

\* The locks, the words, the cache and the places of the threads agree.
THEOREM FenceHolds == Spec => []FenceInv
  BY InitFence, FenceStep, PTL DEF Spec

LEMMA FenceExcludes == FenceInv => CopiesAreWhole
  <1> SUFFICES ASSUME FenceInv, NEW t \in Thread, NEW u \in Thread, t # u
               PROVE  Writes(t) \cap (Reads(u) \cup Writes(u)) = {}
      BY DEF CopiesAreWhole
  <1> USE DEF FenceInv, TypeOK, LocksHeld, ReadersHeldOff
  <1>1. CASE pc[t] = "write"
        BY <1>1 DEF Reads, Writes
  <1>2. CASE pc[t] = "writeSpan"
        BY <1>2 DEF Reads, Writes
  <1>3. CASE pc[t] = "change"
        BY <1>3 DEF Reads, Writes
  <1> QED BY <1>1, <1>2, <1>3 DEF Writes

\* No copy into or out of the backing overlaps a write of the same bytes.
THEOREM CopiesWhole == Spec => []CopiesAreWhole
  BY FenceHolds, FenceExcludes, PTL

LEMMA FenceTranslates == FenceInv => TranslationsAreCurrent
  BY DEF FenceInv, JobsFit, CacheFresh, TranslationsAreCurrent

\* What the render thread looks up without a lock is what is mapped.
THEOREM TranslationsCurrent == Spec => []TranslationsAreCurrent
  BY FenceHolds, FenceTranslates, PTL

-----------------------------------------------------------------------------
(***************************************************************************)
(* Partially resident memory.                                              *)
(***************************************************************************)

USE MemoryAssumption DEF Residency!PrtAssumption

Steps == {"sync", "lock", "unlock", "consume", "addReserved", "addCommitted", "mapView",
          "unmapView"}

LEMMA Members ==
  /\ "sync" \in Steps /\ "lock" \in Steps /\ "unlock" \in Steps /\ "consume" \in Steps
  /\ "addReserved" \in Steps /\ "addCommitted" \in Steps
  /\ "mapView" \in Steps /\ "unmapView" \in Steps
BY DEF Steps

\* A list of steps before another.
LEMMA Joined ==
  ASSUME NEW S, NEW s \in Seq(S), NEW t \in Seq(S), s # <<>>
  PROVE  /\ s \o t \in Seq(S) /\ s \o t # <<>>
         /\ Head(s \o t) = Head(s) /\ Tail(s \o t) = Tail(s) \o t
OBVIOUS

LEMMA JoinedToNone == \A S : \A t \in Seq(S) : <<>> \o t = t
OBVIOUS

\* The pages replaced may be mapped by the same call.
AndMaps(s) == {s, s \o Residency!MapReserved}

\* What a call has left to do on a page that is owned, of range r and with a view or
\* not (v is 1 or 0), while it has the mutex of the residency ...
LeftHolding(r, v) ==
  CASE r = "reserved" -> {<<"consume", "mapView", "addCommitted", "unlock", "sync">>,
                          <<"consume", "addReserved", "unlock">>} \cup AndMaps(<<"unlock">>)
    [] r = "none" /\ v = 0 -> {<<"mapView", "addCommitted", "unlock", "sync">>}
                           \cup AndMaps(<<"addReserved", "unlock">>)
    [] r = "none" /\ v = 1 -> {<<"addCommitted", "unlock", "sync">>}
                          \cup AndMaps(<<"unmapView", "addReserved", "unlock">>)
    [] r = "committed" /\ v = 1 -> {<<"unlock", "sync">>,
                                <<"unmapView", "consume", "addReserved", "unlock">>,
                                <<"consume", "addCommitted", "unlock", "sync">>}
                               \cup AndMaps(<<"consume", "unmapView", "addReserved", "unlock">>)
    [] r = "committed" /\ v = 0 -> {<<"consume", "addReserved", "unlock">>}

\* ... while it does not ...
LeftFree(r) ==
  CASE r = "reserved" -> {<<>>, Residency!MapReserved, <<"sync">> \o Residency!MapReserved,
                          Residency!ReserveAgain, <<"sync">> \o Residency!ReserveAgain}
    [] r = "committed" -> {<<>>, <<"sync">>, Residency!Decommit, Tail(Residency!Decommit),
                           Residency!ReplaceRefused, Tail(Residency!ReplaceRefused)}
                          \cup AndMaps(Residency!Replace) \cup AndMaps(Tail(Residency!Replace))
    [] r = "none" -> {}

\* ... and on a page that is nobody's, which it may have begun to map.
LeftTaking(r, v) ==
  CASE r = "none" /\ v = 0 -> {<<"mapView", "addCommitted", "unlock", "sync">>}
    [] r = "none" /\ v = 1 -> {<<"addCommitted", "unlock", "sync">>}
    [] r = "committed" /\ v = 1 -> {<<"unlock", "sync">>}
    [] OTHER -> {}

LeftVacant(r, v) ==
  CASE r = "reserved" -> {<<"sync", "consume">>, <<"consume">>, <<>>}
    [] r = "none" -> {<<"sync", "addReserved">>, <<"addReserved">>, <<>>,
                      Residency!MapVacant, Tail(Residency!MapVacant)}
    [] r = "committed" /\ v = 1 -> {<<"sync", "unmapView", "consume">>, <<"unmapView", "consume">>,
                                 <<"sync">>, <<>>}
    [] r = "committed" /\ v = 0 -> {<<"consume">>}

Left(s, r, v, h, o) ==
  /\ r = "reserved" => v = 0
  /\ h = 1 => s \in LeftHolding(r, v) /\ (o = 0 => s \in LeftTaking(r, v))
  /\ h = 0 /\ o = 1 => s \in LeftFree(r) /\ (v = 1 <=> r = "committed")
  /\ h = 0 /\ o = 0 => s \in LeftVacant(r, v) /\ (v = 1 => r = "committed")

LEMMA MapsNext ==
  ASSUME NEW t \in Seq(Steps), t # <<>>, NEW s \in AndMaps(t)
  PROVE  s # <<>> /\ Head(s) = Head(t) /\ Tail(s) \in AndMaps(Tail(t))
<1>1. Residency!MapReserved \in Seq(Steps)
  BY Members DEF Residency!MapReserved
<1>2. CASE s = t
  <2>1. Tail(s) = Tail(t)
    BY <1>2
  <2>2. QED
    BY <1>2, <2>1 DEF AndMaps
<1>3. CASE s = t \o Residency!MapReserved
  <2>1. s # <<>> /\ Head(s) = Head(t) /\ Tail(s) = Tail(t) \o Residency!MapReserved
    BY <1>1, <1>3, Joined
  <2>2. QED
    BY <2>1 DEF AndMaps
<1>4. QED
  BY <1>2, <1>3 DEF AndMaps

LEMMA HeldGoesOn ==
  ASSUME NEW r \in {"none", "reserved", "committed"}, NEW v \in {0, 1},
         NEW s \in LeftHolding(r, v), r = "reserved" => v = 0
  PROVE  /\ s # <<>> /\ Head(s) \notin {"lock", "sync"}
         /\ Head(s) = "consume" => Tail(s) \in LeftHolding("none", v)
         /\ Head(s) = "addReserved" => v = 0 /\ Tail(s) \in LeftHolding("reserved", v)
         /\ Head(s) = "addCommitted" => Tail(s) \in LeftHolding("committed", v)
         /\ Head(s) = "mapView" => r # "reserved" /\ Tail(s) \in LeftHolding(r, 1)
         /\ Head(s) = "unmapView" => Tail(s) \in LeftHolding(r, 0)
         /\ Head(s) = "unlock" => Tail(s) \in LeftFree(r) /\ (v = 1 <=> r = "committed")
<1>1. CASE r = "reserved"
  <2>1. CASE s = <<"consume", "mapView", "addCommitted", "unlock", "sync">>
    <3>1. s # <<>> /\ Head(s) = "consume" /\ Tail(s) = <<"mapView", "addCommitted", "unlock", "sync">>
      BY <2>1
    <3>2. QED
      BY <1>1, <3>1 DEF LeftHolding
  <2>2. CASE s = <<"consume", "addReserved", "unlock">>
    <3>1. s # <<>> /\ Head(s) = "consume" /\ Tail(s) = <<"addReserved", "unlock">>
      BY <2>2
    <3>2. QED
      BY <1>1, <3>1 DEF LeftHolding, AndMaps
  <2>3. CASE s \in AndMaps(<<"unlock">>)
    <3>1. <<"unlock">> \in Seq(Steps) /\ <<"unlock">> # <<>> /\ Head(<<"unlock">>) = "unlock"
          /\ Tail(<<"unlock">>) = <<>>
      BY Members
    <3>2. s # <<>> /\ Head(s) = "unlock" /\ Tail(s) \in AndMaps(<<>>)
      BY <2>3, <3>1, MapsNext
    <3>3. AndMaps(<<>>) = {<<>>, Residency!MapReserved}
      BY Members, JoinedToNone DEF AndMaps, Residency!MapReserved
    <3>4. Tail(s) \in LeftFree(r)
      BY <1>1, <3>2, <3>3 DEF LeftFree
    <3>5. QED
      BY <1>1, <3>2, <3>4
  <2>4. QED
    BY <1>1, <2>1, <2>2, <2>3 DEF LeftHolding
<1>2. CASE r = "none" /\ v = 0
  <2>1. CASE s = <<"mapView", "addCommitted", "unlock", "sync">>
    <3>1. s # <<>> /\ Head(s) = "mapView" /\ Tail(s) = <<"addCommitted", "unlock", "sync">>
      BY <2>1
    <3>2. QED
      BY <1>2, <3>1 DEF LeftHolding
  <2>2. CASE s \in AndMaps(<<"addReserved", "unlock">>)
    <3>1. <<"addReserved", "unlock">> \in Seq(Steps) /\ <<"addReserved", "unlock">> # <<>>
          /\ Head(<<"addReserved", "unlock">>) = "addReserved"
          /\ Tail(<<"addReserved", "unlock">>) = <<"unlock">>
      BY Members
    <3>2. s # <<>> /\ Head(s) = "addReserved" /\ Tail(s) \in AndMaps(<<"unlock">>)
      BY <2>2, <3>1, MapsNext
    <3>3. QED
      BY <1>2, <3>2 DEF LeftHolding
  <2>3. QED
    BY <1>2, <2>1, <2>2 DEF LeftHolding
<1>3. CASE r = "none" /\ v = 1
  <2>1. CASE s = <<"addCommitted", "unlock", "sync">>
    <3>1. s # <<>> /\ Head(s) = "addCommitted" /\ Tail(s) = <<"unlock", "sync">>
      BY <2>1
    <3>2. QED
      BY <1>3, <3>1 DEF LeftHolding
  <2>2. CASE s \in AndMaps(<<"unmapView", "addReserved", "unlock">>)
    <3> DEFINE t == <<"unmapView", "addReserved", "unlock">>
    <3>1. t \in Seq(Steps) /\ t # <<>> /\ Head(t) = "unmapView" /\ Tail(t) = <<"addReserved", "unlock">>
      BY Members
    <3>2. s # <<>> /\ Head(s) = "unmapView" /\ Tail(s) \in AndMaps(<<"addReserved", "unlock">>)
      BY <2>2, <3>1, MapsNext
    <3>3. QED
      BY <1>3, <3>2 DEF LeftHolding
  <2>3. QED
    BY <1>3, <2>1, <2>2 DEF LeftHolding
<1>4. CASE r = "committed" /\ v = 1
  <2>1. CASE s = <<"unlock", "sync">>
    <3>1. s # <<>> /\ Head(s) = "unlock" /\ Tail(s) = <<"sync">>
      BY <2>1
    <3>2. QED
      BY <1>4, <3>1 DEF LeftFree
  <2>2. CASE s = <<"unmapView", "consume", "addReserved", "unlock">>
    <3>1. s # <<>> /\ Head(s) = "unmapView" /\ Tail(s) = <<"consume", "addReserved", "unlock">>
      BY <2>2
    <3>2. QED
      BY <1>4, <3>1 DEF LeftHolding
  <2>3. CASE s = <<"consume", "addCommitted", "unlock", "sync">>
    <3>1. s # <<>> /\ Head(s) = "consume" /\ Tail(s) = <<"addCommitted", "unlock", "sync">>
      BY <2>3
    <3>2. QED
      BY <1>4, <3>1 DEF LeftHolding
  <2>4. CASE s \in AndMaps(<<"consume", "unmapView", "addReserved", "unlock">>)
    <3> DEFINE t == <<"consume", "unmapView", "addReserved", "unlock">>
    <3>1. t \in Seq(Steps) /\ t # <<>> /\ Head(t) = "consume"
          /\ Tail(t) = <<"unmapView", "addReserved", "unlock">>
      BY Members
    <3>2. s # <<>> /\ Head(s) = "consume" /\ Tail(s) \in AndMaps(<<"unmapView", "addReserved", "unlock">>)
      BY <2>4, <3>1, MapsNext
    <3>3. QED
      BY <1>4, <3>2 DEF LeftHolding
  <2>5. QED
    BY <1>4, <2>1, <2>2, <2>3, <2>4 DEF LeftHolding
<1>5. CASE r = "committed" /\ v = 0
  <2>1. s = <<"consume", "addReserved", "unlock">>
    BY <1>5 DEF LeftHolding
  <2>2. s # <<>> /\ Head(s) = "consume" /\ Tail(s) = <<"addReserved", "unlock">>
    BY <2>1
  <2>3. QED
    BY <1>5, <2>2 DEF LeftHolding, AndMaps
<1>6. QED
  BY <1>1, <1>2, <1>3, <1>4, <1>5

LEMMA FreeGoesOn ==
  ASSUME NEW r \in {"none", "reserved", "committed"}, NEW s \in LeftFree(r), s # <<>>
  PROVE  /\ Head(s) \in {"lock", "sync"}
         /\ Head(s) = "lock" => \A w \in {0, 1} : (w = 1 <=> r = "committed") => Tail(s) \in LeftHolding(r, w)
         /\ Head(s) = "sync" => Tail(s) \in LeftFree(r)
<1>1. CASE r = "reserved"
  <2>1. CASE s = Residency!MapReserved
    <3>1. Head(s) = "lock" /\ Tail(s) = <<"consume", "mapView", "addCommitted", "unlock", "sync">>
      BY <2>1 DEF Residency!MapReserved
    <3>2. QED
      BY <1>1, <3>1 DEF LeftHolding
  <2>2. CASE s = Residency!ReserveAgain
    <3>1. Head(s) = "lock" /\ Tail(s) = <<"consume", "addReserved", "unlock">>
      BY <2>2 DEF Residency!ReserveAgain
    <3>2. QED
      BY <1>1, <3>1 DEF LeftHolding
  <2>3. CASE \E t \in {Residency!MapReserved, Residency!ReserveAgain} : s = <<"sync">> \o t
    <3>1. PICK t \in {Residency!MapReserved, Residency!ReserveAgain} : s = <<"sync">> \o t
      BY <2>3
    <3>6. /\ Residency!MapReserved \in Seq(Steps) /\ Residency!ReserveAgain \in Seq(Steps)
          /\ <<"sync">> \in Seq(Steps)
      BY Members DEF Residency!MapReserved, Residency!ReserveAgain
    <3>2. t \in Seq(Steps) /\ <<"sync">> \in Seq(Steps)
      BY <3>1, <3>6
    <3>3. <<"sync">> # <<>> /\ Head(<<"sync">>) = "sync" /\ Tail(<<"sync">>) = <<>>
      OBVIOUS
    <3>4. Head(s) = "sync" /\ Tail(s) = t
      BY <3>1, <3>2, <3>3, Joined, JoinedToNone
    <3>5. QED
      BY <1>1, <3>1, <3>4 DEF LeftFree
  <2>4. QED
    BY <1>1, <2>1, <2>2, <2>3 DEF LeftFree
<1>2. CASE r = "committed"
  <2>1. CASE s = <<"sync">>
    <3>1. Head(s) = "sync" /\ Tail(s) = <<>>
      BY <2>1
    <3>2. QED
      BY <1>2, <3>1 DEF LeftFree
  <2>2. CASE s = Residency!Decommit \/ s = Residency!ReplaceRefused
    <3>1. Head(Residency!Decommit) = "sync" /\ Head(Residency!ReplaceRefused) = "sync"
      BY DEF Residency!Decommit, Residency!ReplaceRefused
    <3>2. QED
      BY <1>2, <2>2, <3>1 DEF LeftFree
  <2>3. CASE s = Tail(Residency!Decommit)
    <3>1. Head(s) = "lock" /\ Tail(s) = <<"unmapView", "consume", "addReserved", "unlock">>
      BY <2>3 DEF Residency!Decommit
    <3>2. QED
      BY <1>2, <3>1 DEF LeftHolding
  <2>4. CASE s = Tail(Residency!ReplaceRefused)
    <3>1. Head(s) = "lock" /\ Tail(s) = <<"consume", "addCommitted", "unlock", "sync">>
      BY <2>4 DEF Residency!ReplaceRefused
    <3>2. QED
      BY <1>2, <3>1 DEF LeftHolding
  <2>5. CASE s \in AndMaps(Residency!Replace)
    <3>1. Residency!Replace \in Seq(Steps) /\ Residency!Replace # <<>> /\ Head(Residency!Replace) = "sync"
      BY Members DEF Residency!Replace
    <3>2. Head(s) = "sync" /\ Tail(s) \in AndMaps(Tail(Residency!Replace))
      BY <2>5, <3>1, MapsNext
    <3>3. QED
      BY <1>2, <3>2 DEF LeftFree
  <2>6. CASE s \in AndMaps(Tail(Residency!Replace))
    <3>1. Tail(Residency!Replace) = <<"lock", "consume", "unmapView", "addReserved", "unlock">>
      BY DEF Residency!Replace
    <3> DEFINE t == <<"lock", "consume", "unmapView", "addReserved", "unlock">>
    <3>2. t \in Seq(Steps) /\ t # <<>> /\ Head(t) = "lock"
          /\ Tail(t) = <<"consume", "unmapView", "addReserved", "unlock">>
      BY Members
    <3>3. Head(s) = "lock" /\ Tail(s) \in AndMaps(<<"consume", "unmapView", "addReserved", "unlock">>)
      BY <2>6, <3>1, <3>2, MapsNext
    <3>4. QED
      BY <1>2, <3>3 DEF LeftHolding
  <2>7. QED
    BY <1>2, <2>1, <2>2, <2>3, <2>4, <2>5, <2>6 DEF LeftFree
<1>3. QED
  BY <1>1, <1>2 DEF LeftFree

LEMMA TakingGoesOn ==
  ASSUME NEW r \in {"none", "reserved", "committed"}, NEW v \in {0, 1}, NEW s \in LeftTaking(r, v)
  PROVE  /\ Head(s) \in {"mapView", "addCommitted", "unlock"}
         /\ Head(s) = "mapView" => Tail(s) \in LeftTaking(r, 1)
         /\ Head(s) = "addCommitted" => Tail(s) \in LeftTaking("committed", v)
         /\ Head(s) = "unlock" => Tail(s) \in LeftVacant(r, v) /\ r = "committed"
<1> DEFINE M == <<"mapView", "addCommitted", "unlock", "sync">>
           A == <<"addCommitted", "unlock", "sync">>
           U == <<"unlock", "sync">>
<1>1. /\ Head(M) = "mapView" /\ Tail(M) = A /\ Head(A) = "addCommitted" /\ Tail(A) = U
      /\ Head(U) = "unlock" /\ Tail(U) = <<"sync">>
  OBVIOUS
<1> HIDE DEF M, A, U
<1>2. /\ LeftTaking("none", 0) = {M} /\ LeftTaking("none", 1) = {A}
      /\ LeftTaking("committed", 1) = {U} /\ <<"sync">> \in LeftVacant("committed", 1)
  BY DEF LeftTaking, LeftVacant, M, A, U
<1>3. CASE r = "none" /\ v = 0
  BY <1>1, <1>2, <1>3
<1>4. CASE r = "none" /\ v = 1
  BY <1>1, <1>2, <1>4
<1>5. CASE r = "committed" /\ v = 1
  BY <1>1, <1>2, <1>5
<1>6. CASE r = "reserved" \/ (r = "committed" /\ v = 0)
  BY <1>6 DEF LeftTaking
<1>7. QED
  BY <1>3, <1>4, <1>5, <1>6

LEMMA VacantGoesOn ==
  ASSUME NEW r \in {"none", "reserved", "committed"}, NEW v \in {0, 1},
         NEW s \in LeftVacant(r, v), s # <<>>, v = 1 => r = "committed"
  PROVE  /\ Head(s) \in {"sync", "consume", "addReserved", "unmapView", "lock"}
         /\ Head(s) = "lock" => v = 0 /\ Tail(s) \in LeftHolding(r, v) \cap LeftTaking(r, v)
         /\ Head(s) = "sync" => Tail(s) \in LeftVacant(r, v)
         /\ Head(s) = "consume" => v = 0 /\ Tail(s) \in LeftVacant("none", v)
         /\ Head(s) = "addReserved" => v = 0 /\ Tail(s) \in LeftVacant("reserved", v)
         /\ Head(s) = "unmapView" => Tail(s) \in LeftVacant(r, 0)
<1>1. /\ Head(<<"sync", "consume">>) = "sync" /\ Tail(<<"sync", "consume">>) = <<"consume">>
      /\ Head(<<"consume">>) = "consume" /\ Tail(<<"consume">>) = <<>>
  OBVIOUS
<1>2. /\ Head(<<"sync", "addReserved">>) = "sync"
      /\ Tail(<<"sync", "addReserved">>) = <<"addReserved">>
      /\ Head(<<"addReserved">>) = "addReserved" /\ Tail(<<"addReserved">>) = <<>>
  OBVIOUS
<1>3. /\ Head(<<"sync", "unmapView", "consume">>) = "sync"
      /\ Tail(<<"sync", "unmapView", "consume">>) = <<"unmapView", "consume">>
      /\ Head(<<"unmapView", "consume">>) = "unmapView"
      /\ Tail(<<"unmapView", "consume">>) = <<"consume">>
      /\ Head(<<"sync">>) = "sync" /\ Tail(<<"sync">>) = <<>>
  OBVIOUS
<1>10. /\ Head(Residency!MapVacant) = "sync" /\ Head(Tail(Residency!MapVacant)) = "lock"
       /\ Tail(Tail(Residency!MapVacant)) = <<"mapView", "addCommitted", "unlock", "sync">>
  BY DEF Residency!MapVacant
<1>11. <<"mapView", "addCommitted", "unlock", "sync">> \in LeftHolding("none", 0) \cap LeftTaking("none", 0)
  BY DEF LeftHolding, LeftTaking
<1>9. /\ LeftVacant("reserved", v) = {<<"sync", "consume">>, <<"consume">>, <<>>}
      /\ LeftVacant("none", v) = {<<"sync", "addReserved">>, <<"addReserved">>, <<>>,
                                  Residency!MapVacant, Tail(Residency!MapVacant)}
      /\ LeftVacant("committed", 1) = {<<"sync", "unmapView", "consume">>, <<"unmapView", "consume">>,
                                       <<"sync">>, <<>>}
      /\ LeftVacant("committed", 0) = {<<"consume">>}
  BY DEF LeftVacant
<1>4. CASE r = "reserved"
  BY <1>1, <1>4, <1>9
<1>5. CASE r = "none"
  BY <1>2, <1>5, <1>9, <1>10, <1>11
<1>6. CASE r = "committed" /\ v = 1
  BY <1>3, <1>6, <1>9
<1>7. CASE r = "committed" /\ v = 0
  BY <1>1, <1>7, <1>9
<1>8. QED
  BY <1>4, <1>5, <1>6, <1>7

\* A page that no call changes.
Settled(r, v, o) ==
  /\ o = 1 => r # "none" /\ (v = 1 <=> r = "committed")
  /\ o = 0 => r = "none" /\ v = 0

ResidencyTyped ==
  /\ aRange \in [Aperture -> {"none", "reserved", "committed"}]
  /\ aView \subseteq Aperture /\ aOwned \subseteq Aperture /\ aSync \subseteq Guests
  /\ aMemory \in Guests \cup {NoOne} /\ aResidency \in {aMemory, NoOne, "reader"}
  /\ aRender \in {"idle", "locks", "ranges", "views", "unlocks"}
  /\ aFailed \in BOOLEAN /\ aVacant \in BOOLEAN
  /\ DOMAIN aCall = Guests

In(p, S) == IF p \in S THEN 1 ELSE 0
Is(x, y) == IF x = y THEN 1 ELSE 0

\* The guest that holds the mutex of memory operations is in the middle of a call,
\* the page of which is as far as the call; every other page is settled.
CallsOK ==
  /\ \A g \in Guests :
       IF g = aMemory
         THEN /\ aCall[g].page \in Aperture
              /\ aCall[g] = [steps |-> aCall[g].steps, page |-> aCall[g].page]
         ELSE aCall[g] = Residency!NoCall
  /\ \A g \in aSync : Residency!Does(g, "sync")
  /\ \A p \in Aperture :
       IF aMemory # NoOne /\ aCall[aMemory].page = p
         THEN Left(aCall[aMemory].steps, aRange[p], In(p, aView), Is(aResidency, aMemory),
                   In(p, aOwned))
         ELSE Settled(aRange[p], In(p, aView), In(p, aOwned))

\* While the reader is on its way a page that is not owned is remembered.
ReaderOK ==
  /\ aResidency = "reader" <=> aRender \in {"ranges", "views", "unlocks"}
  /\ aRender # "idle" => aOwned = Aperture \/ aVacant
  /\ aFailed => aVacant

ResidencyInv == ResidencyTyped /\ CallsOK /\ ReaderOK

LEMMA LeftGoesOn ==
  ASSUME NEW r \in {"none", "reserved", "committed"}, NEW v \in {0, 1}, NEW h \in {0, 1},
         NEW o \in {0, 1}, NEW s, Left(s, r, v, h, o), s # <<>>
  PROVE  /\ Head(s) = "lock" => Left(Tail(s), r, v, 1, o)
         /\ Head(s) = "unlock" => h = 1 /\ Left(Tail(s), r, v, 0, o)
         /\ Head(s) = "sync" => Left(Tail(s), r, v, h, o)
         /\ Head(s) = "consume" => Left(Tail(s), "none", v, h, o)
         /\ Head(s) = "addReserved" => Left(Tail(s), "reserved", v, h, o)
         /\ Head(s) = "addCommitted" => Left(Tail(s), "committed", v, h, o)
         /\ Head(s) = "mapView" => Left(Tail(s), r, 1, h, o)
         /\ Head(s) = "unmapView" => Left(Tail(s), r, 0, h, o)
<1>1. CASE h = 1 /\ o = 1
  BY <1>1, HeldGoesOn DEF Left
<1>5. CASE h = 1 /\ o = 0
  BY <1>5, HeldGoesOn, TakingGoesOn DEF Left
<1>2. CASE h = 0 /\ o = 1
  <2>1. /\ Head(s) \in {"lock", "sync"}
        /\ Head(s) = "lock" => \A w \in {0, 1} : (w = 1 <=> r = "committed") => Tail(s) \in LeftHolding(r, w)
        /\ Head(s) = "sync" => Tail(s) \in LeftFree(r)
    BY <1>2, FreeGoesOn DEF Left
  <2>2. (v = 1 <=> r = "committed") /\ (r = "reserved" => v = 0)
    BY <1>2 DEF Left
  <2>3. QED
    BY <1>2, <2>1, <2>2 DEF Left
<1>3. CASE h = 0 /\ o = 0
  BY <1>3, VacantGoesOn DEF Left
<1>4. QED
  BY <1>1, <1>2, <1>3, <1>5

LEMMA LeftEnds ==
  ASSUME NEW r \in {"none", "reserved", "committed"}, NEW v \in {0, 1}, NEW h \in {0, 1},
         NEW o \in {0, 1}, Left(<<>>, r, v, h, o)
  PROVE  h = 0 /\ Settled(r, v, IF r = "none" THEN o ELSE 1)
<1>1. h = 0
  BY HeldGoesOn DEF Left
<1>2. CASE o = 1
  BY <1>1, <1>2 DEF Left, LeftFree, Settled
<1>3. CASE o = 0
  <2>1. <<>> # <<"sync", "unmapView", "consume">> /\ <<>> # <<"unmapView", "consume">>
        /\ <<>> # <<"consume">>
    OBVIOUS
  <2>2. r = "committed" => v = 1
    BY <1>1, <1>3, <2>1 DEF Left, LeftVacant
  <2>3. QED
    BY <1>1, <1>3, <2>2 DEF Left, Settled
<1>4. QED
  BY <1>2, <1>3

LEMMA LastOfJoined ==
  ASSUME NEW S, NEW s \in Seq(S), NEW t \in Seq(S), t # <<>>
  PROVE  (s \o t)[Len(s \o t)] = t[Len(t)]
OBVIOUS

LEMMA LeftBegins ==
  ASSUME NEW r \in {"none", "reserved", "committed"}, NEW v \in {0, 1}, NEW o \in {0, 1},
         Settled(r, v, o), NEW s \in Residency!Calls(r)
  PROVE  Left(s, r, v, 0, IF Residency!GivesUp(s) THEN 0 ELSE o)
<1> DEFINE M == Residency!MapReserved
           R == Residency!ReserveAgain
<1>1. /\ M \in Seq(Steps) /\ M # <<>> /\ M[Len(M)] = "sync"
      /\ R \in Seq(Steps) /\ R # <<>> /\ R[Len(R)] = "unlock"
      /\ <<"sync">> \in Seq(Steps)
  BY Members DEF Residency!MapReserved, Residency!ReserveAgain
<1>6. \A t \in Seq(Steps) : t # <<>> /\ t \in {M, R} =>
        (<<"sync">> \o t)[Len(<<"sync">> \o t)] = t[Len(t)]
  BY <1>1, LastOfJoined
<1>2. CASE r = "reserved"
  <2>1. o = 1 /\ v = 0
    BY <1>2 DEF Settled
  <2>2. s \in {M, <<"sync">> \o M, R, <<"sync">> \o R, <<"sync", "consume">>}
    BY <1>2 DEF Residency!Calls
  <2>3. CASE s = <<"sync", "consume">>
    <3>1. Residency!GivesUp(s)
      BY <2>3 DEF Residency!GivesUp
    <3>2. QED
      BY <1>2, <2>1, <2>3, <3>1 DEF Left, LeftVacant
  <2>4. CASE s \in {M, <<"sync">> \o M, R, <<"sync">> \o R}
    <3>1. s[Len(s)] = "sync" \/ s[Len(s)] = "unlock"
      <4> HIDE DEF M, R
      <4>1. QED
        BY <1>1, <1>6, <2>4
    <3>2. ~Residency!GivesUp(s)
      BY <3>1 DEF Residency!GivesUp
    <3>3. QED
      BY <1>2, <2>1, <2>4, <3>2 DEF Left, LeftFree
  <2>5. QED
    BY <2>2, <2>3, <2>4
<1>3. CASE r = "committed"
  <2> DEFINE P == Residency!Replace
             D == Residency!Decommit
             Q == Residency!ReplaceRefused
  <2>1. o = 1 /\ v = 1
    BY <1>3 DEF Settled
  <2>2. s \in {D, P, P \o M, Q, <<"sync", "unmapView", "consume">>}
    BY <1>3 DEF Residency!Calls
  <2>3. CASE s = <<"sync", "unmapView", "consume">>
    <3>1. Residency!GivesUp(s)
      BY <2>3 DEF Residency!GivesUp
    <3>2. QED
      BY <1>3, <2>1, <2>3, <3>1 DEF Left, LeftVacant
  <2>4. CASE s \in {D, P, P \o M, Q}
    <3>1. P \in Seq(Steps) /\ P[Len(P)] = "unlock" /\ D[Len(D)] = "unlock" /\ Q[Len(Q)] = "sync"
      BY Members DEF Residency!Replace, Residency!Decommit, Residency!ReplaceRefused
    <3>2. s[Len(s)] = "sync" \/ s[Len(s)] = "unlock"
      <4>1. (P \o M)[Len(P \o M)] = M[Len(M)]
        BY <1>1, <3>1, LastOfJoined
      <4> HIDE DEF M, P, D, Q
      <4>2. QED
        BY <1>1, <2>4, <3>1, <4>1
    <3>3. ~Residency!GivesUp(s)
      BY <3>2 DEF Residency!GivesUp
    <3>4. QED
      BY <1>3, <2>1, <2>4, <3>3 DEF Left, LeftFree, AndMaps
  <2>5. QED
    BY <2>2, <2>3, <2>4
<1>4. CASE r = "none"
  <2>1. o = 0 /\ v = 0
    BY <1>4 DEF Settled
  <2>2. s \in {<<"sync", "addReserved">>, Residency!MapVacant}
    BY <1>4 DEF Residency!Calls
  <2>3. QED
    BY <1>4, <2>1, <2>2 DEF Left, LeftVacant
<1>5. QED
  BY <1>2, <1>3, <1>4

LEMMA ResidencyBegins == Residency!Init => ResidencyInv
<1> SUFFICES ASSUME Residency!Init PROVE ResidencyInv
  OBVIOUS
<1> USE DEF Residency!Init
<1>1. ResidencyTyped /\ ReaderOK
  BY DEF ResidencyTyped, ReaderOK
<1>2. \A p \in Aperture : Settled(aRange[p], In(p, aView), In(p, aOwned))
  BY DEF Settled, In
<1>3. CallsOK
  BY <1>2 DEF CallsOK
<1>4. QED
  BY <1>1, <1>3 DEF ResidencyInv


\* Who has steps left has the mutex.
LEMMA WhoCalls ==
  ASSUME ResidencyInv, NEW g \in Guests, NEW step, Residency!Does(g, step)
  PROVE  /\ g = aMemory /\ g # NoOne /\ aCall[g].page \in Aperture
         /\ aCall[g] = [steps |-> aCall[g].steps, page |-> aCall[g].page]
         /\ Left(aCall[g].steps, aRange[aCall[g].page], In(aCall[g].page, aView),
                 Is(aResidency, g), In(aCall[g].page, aOwned))
         /\ aRange[aCall[g].page] \in {"none", "reserved", "committed"}
         /\ aCall[g].steps # <<>> /\ Head(aCall[g].steps) = step
BY DEF ResidencyInv, ResidencyTyped, CallsOK, Residency!Does, Residency!NoCall

LEMMA Advances ==
  ASSUME ResidencyInv, NEW g \in Guests, NEW step, Residency!Does(g, step)
  PROVE  LET p == aCall[g].page
             s == Tail(aCall[g].steps)
         IN /\ step = "lock" => Left(s, aRange[p], In(p, aView), 1, In(p, aOwned))
            /\ step = "unlock" => aResidency = g /\ Left(s, aRange[p], In(p, aView), 0, In(p, aOwned))
            /\ step = "sync" => Left(s, aRange[p], In(p, aView), Is(aResidency, g), In(p, aOwned))
            /\ step = "consume" => Left(s, "none", In(p, aView), Is(aResidency, g), In(p, aOwned))
            /\ step = "addReserved" => Left(s, "reserved", In(p, aView), Is(aResidency, g), In(p, aOwned))
            /\ step = "addCommitted" => Left(s, "committed", In(p, aView), Is(aResidency, g), In(p, aOwned))
            /\ step = "mapView" => Left(s, aRange[p], 1, Is(aResidency, g), In(p, aOwned))
            /\ step = "unmapView" => Left(s, aRange[p], 0, Is(aResidency, g), In(p, aOwned))
<1> DEFINE p == aCall[g].page
           s == aCall[g].steps
           r == aRange[p]
           v == In(p, aView)
           h == Is(aResidency, g)
           o == In(p, aOwned)
<1>1. Left(s, r, v, h, o) /\ s # <<>> /\ Head(s) = step /\ r \in {"none", "reserved", "committed"}
  BY WhoCalls
<1>2. v \in {0, 1} /\ h \in {0, 1} /\ o \in {0, 1} /\ (h = 1 => aResidency = g)
  BY DEF In, Is
<1>3. /\ step = "lock" => Left(Tail(s), r, v, 1, o)
      /\ step = "unlock" => h = 1 /\ Left(Tail(s), r, v, 0, o)
      /\ step = "sync" => Left(Tail(s), r, v, h, o)
      /\ step = "consume" => Left(Tail(s), "none", v, h, o)
      /\ step = "addReserved" => Left(Tail(s), "reserved", v, h, o)
      /\ step = "addCommitted" => Left(Tail(s), "committed", v, h, o)
      /\ step = "mapView" => Left(Tail(s), r, 1, h, o)
      /\ step = "unmapView" => Left(Tail(s), r, 0, h, o)
  <2> HIDE DEF p, s, r, v, h, o
  <2>1. QED
    BY <1>1, <1>2, LeftGoesOn
<1>4. QED
  BY <1>2, <1>3

\* The call of g goes on by one step, and page and mutex with it.
LEMMA CallGoesOn ==
  ASSUME ResidencyInv, NEW g \in Guests, NEW step, Residency!Does(g, step),
         Residency!StepDone(g), aMemory' = aMemory, aOwned' = aOwned,
         aSync' \subseteq aSync, g \notin aSync',
         aRange' \in [Aperture -> {"none", "reserved", "committed"}], aView' \subseteq Aperture,
         \A p \in Aperture : p # aCall[g].page => aRange'[p] = aRange[p] /\ (p \in aView' <=> p \in aView),
         Left(Tail(aCall[g].steps), aRange'[aCall[g].page], In(aCall[g].page, aView'),
              Is(aResidency', g), In(aCall[g].page, aOwned))
  PROVE  CallsOK'
<1>1. /\ g = aMemory /\ g # NoOne /\ aCall[g].page \in Aperture
      /\ aCall[g] = [steps |-> aCall[g].steps, page |-> aCall[g].page]
  BY WhoCalls
<1>2. /\ aCall'[g] = [steps |-> Tail(aCall[g].steps), page |-> aCall[g].page]
      /\ \A o \in Guests : o # g => aCall'[o] = aCall[o]
      /\ DOMAIN aCall = Guests
  BY <1>1 DEF Residency!StepDone, ResidencyInv, ResidencyTyped
<1>3. /\ \A o \in Guests : IF o = aMemory'
                             THEN /\ aCall'[o].page \in Aperture
                                  /\ aCall'[o] = [steps |-> aCall'[o].steps, page |-> aCall'[o].page]
                             ELSE aCall'[o] = Residency!NoCall
  BY <1>1, <1>2 DEF ResidencyInv, CallsOK
<1>4. \A o \in aSync' : Residency!Does(o, "sync")'
  BY <1>2 DEF Residency!Does, ResidencyInv, CallsOK, ResidencyTyped
<1>5. ASSUME NEW p \in Aperture
      PROVE  IF aMemory' # NoOne /\ aCall'[aMemory'].page = p
               THEN Left(aCall'[aMemory'].steps, aRange'[p], In(p, aView'),
                         Is(aResidency', aMemory'), In(p, aOwned'))
               ELSE Settled(aRange'[p], In(p, aView'), In(p, aOwned'))
  <2>1. CASE p = aCall[g].page
    BY <1>1, <1>2, <2>1
  <2>2. CASE p # aCall[g].page
    <3>1. Settled(aRange[p], In(p, aView), In(p, aOwned))
      BY <1>1, <2>2 DEF ResidencyInv, CallsOK
    <3>2. aRange'[p] = aRange[p] /\ In(p, aView') = In(p, aView)
      BY <2>2 DEF In
    <3>3. QED
      BY <1>1, <1>2, <2>2, <3>1, <3>2
  <2>3. QED
    BY <2>1, <2>2
<1>6. QED
  BY <1>3, <1>4, <1>5 DEF CallsOK

LEMMA TakeKeeps ==
  ASSUME ResidencyInv, NEW g \in Guests,
         Residency!TakeResidency(g) \/ Residency!DropResidency(g) \/ Residency!ChangeLedger(g)
  PROVE  ResidencyInv'
<1> USE DEF ResidencyInv
<1>1. CASE Residency!TakeResidency(g)
  <2>1. Residency!Does(g, "lock") /\ Residency!StepDone(g) /\ aResidency' = g
        /\ UNCHANGED <<aRange, aView, aMemory, aSync, aRender, aFailed, aOwned, aVacant>>
        /\ aResidency = NoOne
    BY <1>1 DEF Residency!TakeResidency
  <2>2. /\ g = aMemory /\ g # NoOne /\ aCall[g].page \in Aperture
        /\ Left(Tail(aCall[g].steps), aRange[aCall[g].page], In(aCall[g].page, aView), 1,
                In(aCall[g].page, aOwned))
    BY <2>1, WhoCalls, Advances
  <2>3. g \notin aSync
    BY <2>1 DEF CallsOK, Residency!Does
  <2>4. CallsOK'
    BY <2>1, <2>2, <2>3, CallGoesOn DEF ResidencyTyped, Is
  <2>5. ResidencyTyped' /\ ReaderOK'
    BY <2>1, <2>2 DEF ResidencyTyped, ReaderOK, Residency!StepDone
  <2>6. QED
    BY <2>4, <2>5
<1>2. CASE Residency!DropResidency(g)
  <2>1. Residency!Does(g, "unlock") /\ Residency!StepDone(g) /\ aResidency' = NoOne
        /\ UNCHANGED <<aRange, aView, aMemory, aSync, aRender, aFailed, aOwned, aVacant>>
    BY <1>2 DEF Residency!DropResidency
  <2>2. /\ g = aMemory /\ g # NoOne /\ aCall[g].page \in Aperture /\ aResidency = g
        /\ Left(Tail(aCall[g].steps), aRange[aCall[g].page], In(aCall[g].page, aView), 0,
                In(aCall[g].page, aOwned))
    BY <2>1, WhoCalls, Advances
  <2>3. g \notin aSync
    BY <2>1 DEF CallsOK, Residency!Does
  <2>4. CallsOK'
    BY <2>1, <2>2, <2>3, CallGoesOn DEF ResidencyTyped, Is
  <2>5. ResidencyTyped' /\ ReaderOK'
    BY <2>1, <2>2 DEF ResidencyTyped, ReaderOK, Residency!StepDone
  <2>6. QED
    BY <2>4, <2>5
<1>3. CASE Residency!ChangeLedger(g)
  <2> DEFINE p == aCall[g].page
             To(r) == aRange' = [aRange EXCEPT ![p] = r]
  <2>1. /\ Residency!StepDone(g)
        /\ UNCHANGED <<aMemory, aResidency, aSync, aRender, aFailed, aOwned, aVacant>>
        /\ \/ Residency!Does(g, "consume") /\ To("none") /\ UNCHANGED aView
           \/ Residency!Does(g, "addReserved") /\ To("reserved") /\ UNCHANGED aView
           \/ Residency!Does(g, "addCommitted") /\ To("committed") /\ UNCHANGED aView
           \/ Residency!Does(g, "mapView") /\ aView' = aView \cup {p} /\ UNCHANGED aRange
           \/ Residency!Does(g, "unmapView") /\ aView' = aView \ {p} /\ UNCHANGED aRange
    BY <1>3 DEF Residency!ChangeLedger
  <2>2. PICK step \in {"consume", "addReserved", "addCommitted", "mapView", "unmapView"} :
          Residency!Does(g, step)
    BY <2>1
  <2>3. /\ g = aMemory /\ g # NoOne /\ p \in Aperture /\ Head(aCall[g].steps) = step
        /\ g \notin aSync
    BY <2>2, WhoCalls DEF CallsOK, Residency!Does
  <2>4. Left(Tail(aCall[g].steps), aRange'[p], In(p, aView'), Is(aResidency', g), In(p, aOwned))
    <3>1. CASE step = "consume"
      <4>1. aRange'[p] = "none" /\ aView' = aView /\ aResidency' = aResidency
        BY <2>1, <2>2, <2>3, <3>1 DEF ResidencyTyped, Residency!Does, In
      <4>2. Left(Tail(aCall[g].steps), "none", In(p, aView), Is(aResidency, g), In(p, aOwned))
        BY <2>2, <3>1, WhoCalls, Advances
      <4>3. QED
        BY <4>1, <4>2
    <3>2. CASE step = "addReserved"
      <4>1. aRange'[p] = "reserved" /\ aView' = aView /\ aResidency' = aResidency
        BY <2>1, <2>2, <2>3, <3>2 DEF ResidencyTyped, Residency!Does, In
      <4>2. Left(Tail(aCall[g].steps), "reserved", In(p, aView), Is(aResidency, g), In(p, aOwned))
        BY <2>2, <3>2, WhoCalls, Advances
      <4>3. QED
        BY <4>1, <4>2
    <3>3. CASE step = "addCommitted"
      <4>1. aRange'[p] = "committed" /\ aView' = aView /\ aResidency' = aResidency
        BY <2>1, <2>2, <2>3, <3>3 DEF ResidencyTyped, Residency!Does, In
      <4>2. Left(Tail(aCall[g].steps), "committed", In(p, aView), Is(aResidency, g), In(p, aOwned))
        BY <2>2, <3>3, WhoCalls, Advances
      <4>3. QED
        BY <4>1, <4>2
    <3>4. CASE step = "mapView"
      <4>1. aRange' = aRange /\ In(p, aView') = 1 /\ aResidency' = aResidency
        BY <2>1, <2>2, <2>3, <3>4 DEF ResidencyTyped, Residency!Does, In
      <4>2. Left(Tail(aCall[g].steps), aRange[p], 1, Is(aResidency, g), In(p, aOwned))
        BY <2>2, <3>4, WhoCalls, Advances
      <4>3. QED
        BY <4>1, <4>2
    <3>5. CASE step = "unmapView"
      <4>1. aRange' = aRange /\ In(p, aView') = 0 /\ aResidency' = aResidency
        BY <2>1, <2>2, <2>3, <3>5 DEF ResidencyTyped, Residency!Does, In
      <4>2. Left(Tail(aCall[g].steps), aRange[p], 0, Is(aResidency, g), In(p, aOwned))
        BY <2>2, <3>5, WhoCalls, Advances
      <4>3. QED
        BY <4>1, <4>2
    <3>6. QED
      BY <2>2, <3>1, <3>2, <3>3, <3>4, <3>5
  <2>5. /\ aRange' \in [Aperture -> {"none", "reserved", "committed"}] /\ aView' \subseteq Aperture
        /\ \A q \in Aperture : q # p => aRange'[q] = aRange[q] /\ (q \in aView' <=> q \in aView)
    BY <2>1, <2>3 DEF ResidencyTyped
  <2>6. CallsOK'
    BY <2>1, <2>2, <2>3, <2>4, <2>5, CallGoesOn
  <2>7. ResidencyTyped' /\ ReaderOK'
    BY <2>1, <2>5 DEF ResidencyTyped, ReaderOK, Residency!StepDone
  <2>8. QED
    BY <2>6, <2>7
<1>4. QED
  BY <1>1, <1>2, <1>3

LEMMA BeginCallKeeps ==
  ASSUME ResidencyInv, NEW g \in Guests, Residency!BeginCall(g)
  PROVE  ResidencyInv'
<1> USE DEF ResidencyInv
<1>1. PICK p \in Aperture : \E script \in Residency!Calls(aRange[p]) :
        /\ aCall' = [aCall EXCEPT ![g] = [steps |-> script, page |-> p]]
        /\ aOwned' = IF Residency!GivesUp(script) THEN aOwned \ {p} ELSE aOwned
        /\ aVacant' = (aVacant \/ Residency!GivesUp(script))
  BY DEF Residency!BeginCall
<1>2. PICK script \in Residency!Calls(aRange[p]) :
        /\ aCall' = [aCall EXCEPT ![g] = [steps |-> script, page |-> p]]
        /\ aOwned' = IF Residency!GivesUp(script) THEN aOwned \ {p} ELSE aOwned
        /\ aVacant' = (aVacant \/ Residency!GivesUp(script))
  BY <1>1
<1>3. /\ aMemory = NoOne /\ aMemory' = g /\ g # NoOne
      /\ UNCHANGED <<aRange, aView, aResidency, aSync, aRender, aFailed>>
  BY DEF Residency!BeginCall
<1>4. ResidencyTyped' /\ ReaderOK'
  BY <1>2, <1>3 DEF ResidencyTyped, ReaderOK
<1>5. aSync = {}
  <2>1. \A o \in Guests : aCall[o].steps = <<>>
    <3>1. ASSUME NEW o \in Guests PROVE aCall[o] = Residency!NoCall
      <4>1. o # aMemory
        BY <1>3
      <4>2. QED
        BY <4>1 DEF CallsOK
    <3>2. Residency!NoCall.steps = <<>>
      BY DEF Residency!NoCall
    <3>3. QED
      BY <3>1, <3>2
  <2>2. QED
    BY <2>1 DEF CallsOK, Residency!Does, ResidencyTyped
<1>6. /\ \A o \in Guests : IF o = aMemory'
                             THEN /\ aCall'[o].page \in Aperture
                                  /\ aCall'[o] = [steps |-> aCall'[o].steps, page |-> aCall'[o].page]
                             ELSE aCall'[o] = Residency!NoCall
      /\ aCall'[g].page = p /\ aCall'[g].steps = script
  BY <1>2, <1>3 DEF CallsOK, ResidencyTyped
<1>7. ASSUME NEW q \in Aperture
      PROVE  IF aMemory' # NoOne /\ aCall'[aMemory'].page = q
               THEN Left(aCall'[aMemory'].steps, aRange'[q], In(q, aView'),
                         Is(aResidency', aMemory'), In(q, aOwned'))
               ELSE Settled(aRange'[q], In(q, aView'), In(q, aOwned'))
  <2>1. Settled(aRange[q], In(q, aView), In(q, aOwned))
    BY <1>3 DEF CallsOK
  <2>2. CASE q = p
    <3>1. Left(script, aRange[q], In(q, aView), 0,
               IF Residency!GivesUp(script) THEN 0 ELSE In(q, aOwned))
      <4>1. /\ aRange[q] \in {"none", "reserved", "committed"}
            /\ In(q, aView) \in {0, 1} /\ In(q, aOwned) \in {0, 1}
        BY DEF ResidencyTyped, In
      <4>2. QED
        BY <1>2, <2>1, <2>2, <4>1, LeftBegins
    <3>2. Is(aResidency', aMemory') = 0
      BY <1>3 DEF ResidencyTyped, Is
    <3>3. In(q, aOwned') = IF Residency!GivesUp(script) THEN 0 ELSE In(q, aOwned)
      BY <1>2, <2>2 DEF In
    <3>4. QED
      BY <1>3, <1>6, <2>2, <3>1, <3>2, <3>3
  <2>3. CASE q # p
    <3>1. In(q, aOwned') = In(q, aOwned)
      BY <1>2, <2>3 DEF In
    <3>2. QED
      BY <1>3, <1>6, <2>1, <2>3, <3>1
  <2>4. QED
    BY <2>2, <2>3
<1>8. CallsOK'
  BY <1>3, <1>5, <1>6, <1>7 DEF CallsOK
<1>9. QED
  BY <1>4, <1>8

LEMMA EndCallKeeps ==
  ASSUME ResidencyInv, NEW g \in Guests, Residency!EndCall(g)
  PROVE  ResidencyInv'
<1> USE DEF ResidencyInv
<1> DEFINE p == aCall[g].page
<1>1. /\ aMemory = g /\ g # NoOne /\ aCall[g].steps = <<>> /\ p \in Aperture
      /\ aCall' = [aCall EXCEPT ![g] = Residency!NoCall]
      /\ aOwned' = IF aRange[p] = "none" THEN aOwned ELSE aOwned \cup {p}
      /\ aMemory' = NoOne
      /\ UNCHANGED <<aRange, aView, aResidency, aSync, aRender, aFailed, aVacant>>
  BY DEF Residency!EndCall, CallsOK
<1>2. /\ aRange[p] \in {"none", "reserved", "committed"} /\ In(p, aView) \in {0, 1}
      /\ In(p, aOwned) \in {0, 1} /\ Is(aResidency, g) \in {0, 1}
      /\ Left(<<>>, aRange[p], In(p, aView), Is(aResidency, g), In(p, aOwned))
  BY <1>1 DEF CallsOK, ResidencyTyped, In, Is
<1>3. aResidency # g /\ Settled(aRange[p], In(p, aView), IF aRange[p] = "none" THEN In(p, aOwned) ELSE 1)
  BY <1>2, LeftEnds DEF Is
<1>4. ResidencyTyped' /\ ReaderOK'
  BY <1>1, <1>3 DEF ResidencyTyped, ReaderOK
<1>5. aSync = {}
  BY <1>1 DEF CallsOK, Residency!Does, ResidencyTyped, Residency!NoCall
<1>6. \A o \in Guests : o # aMemory' /\ aCall'[o] = Residency!NoCall
  BY <1>1 DEF CallsOK, ResidencyTyped
<1>7. ASSUME NEW q \in Aperture
      PROVE  Settled(aRange'[q], In(q, aView'), In(q, aOwned'))
  <2>1. CASE q = p
    <3>1. In(q, aOwned') = IF aRange[p] = "none" THEN In(p, aOwned) ELSE 1
      BY <1>1, <2>1 DEF In
    <3>2. QED
      BY <1>1, <1>3, <2>1, <3>1
  <2>2. CASE q # p
    <3>1. Settled(aRange[q], In(q, aView), In(q, aOwned))
      BY <1>1, <2>2 DEF CallsOK
    <3>2. In(q, aOwned') = In(q, aOwned)
      BY <1>1, <2>2 DEF In
    <3>3. QED
      BY <1>1, <3>1, <3>2
  <2>3. QED
    BY <2>1, <2>2
<1>8. CallsOK'
  BY <1>1, <1>5, <1>6, <1>7 DEF CallsOK
<1>9. QED
  BY <1>4, <1>8

LEMMA SyncKeeps ==
  ASSUME ResidencyInv, (\E g \in Guests : Residency!SendSync(g)) \/ Residency!ServeSync
  PROVE  ResidencyInv'
<1> USE DEF ResidencyInv
<1>1. ASSUME NEW g \in Guests, Residency!SendSync(g) PROVE ResidencyInv'
  <2>1. /\ Residency!Does(g, "sync") /\ aSync' = aSync \cup {g}
        /\ UNCHANGED <<aRange, aView, aMemory, aResidency, aCall, aRender, aFailed, aOwned, aVacant>>
    BY <1>1 DEF Residency!SendSync
  <2>2. CallsOK'
    BY <2>1 DEF CallsOK, Residency!Does, Residency!NoCall
  <2>3. QED
    BY <2>1, <2>2 DEF ResidencyTyped, ReaderOK
<1>2. ASSUME NEW g \in aSync, aSync' = aSync \ {g}, Residency!StepDone(g),
             UNCHANGED <<aRange, aView, aMemory, aResidency, aRender, aFailed, aOwned, aVacant>>
      PROVE  ResidencyInv'
  <2>1. g \in Guests /\ Residency!Does(g, "sync")
    BY DEF CallsOK, ResidencyTyped
  <2>2. Left(Tail(aCall[g].steps), aRange[aCall[g].page], In(aCall[g].page, aView),
             Is(aResidency, g), In(aCall[g].page, aOwned))
    BY <2>1, Advances
  <2>3. CallsOK'
    BY <1>2, <2>1, <2>2, CallGoesOn DEF ResidencyTyped
  <2>4. QED
    BY <1>2, <2>3 DEF ResidencyTyped, ReaderOK, Residency!StepDone
<1>3. QED
  BY <1>1, <1>2 DEF Residency!ServeSync

\* What the reader finds while it has the mutex: a page without a range, or without
\* its view, is not owned.
LEMMA ReaderFinds ==
  ASSUME ResidencyInv, aResidency = "reader", NEW p \in Aperture,
         aRange[p] = "none" \/ (aRange[p] = "committed" /\ p \notin aView)
  PROVE  p \notin aOwned
<1> USE DEF ResidencyInv
<1>1. CASE aMemory # NoOne /\ aCall[aMemory].page = p
  <2>1. Left(aCall[aMemory].steps, aRange[p], In(p, aView), Is(aResidency, aMemory), In(p, aOwned))
    BY <1>1 DEF CallsOK
  <2>2. Is(aResidency, aMemory) = 0
    BY DEF ResidencyTyped, Is
  <2>3. In(p, aOwned) = 1 => aCall[aMemory].steps \in LeftFree(aRange[p])
                             /\ (In(p, aView) = 1 <=> aRange[p] = "committed")
    BY <2>1, <2>2 DEF Left
  <2>4. LeftFree("none") = {}
    BY DEF LeftFree
  <2>5. QED
    BY <2>3, <2>4 DEF In
<1>2. CASE ~(aMemory # NoOne /\ aCall[aMemory].page = p)
  <2>1. Settled(aRange[p], In(p, aView), In(p, aOwned))
    BY <1>2 DEF CallsOK
  <2>2. QED
    BY <2>1 DEF Settled, In
<1>3. QED
  BY <1>1, <1>2

LEMMA ReaderKeeps ==
  ASSUME ResidencyInv,
         \/ Residency!BeginRead \/ Residency!ReadLocks \/ Residency!ReadRanges
         \/ Residency!ReadViews \/ Residency!ReadEnds
  PROVE  ResidencyInv'
<1> USE DEF ResidencyInv
<1>1. /\ UNCHANGED <<aRange, aView, aMemory, aCall, aSync, aOwned>>
      /\ aResidency' \in {aResidency, "reader", NoOne}
      /\ (aMemory # NoOne => (aResidency' = aMemory <=> aResidency = aMemory))
  BY DEF Residency!BeginRead, Residency!ReadLocks, Residency!ReadRanges, Residency!ReadViews,
         Residency!ReadEnds, ResidencyTyped, ReaderOK
<1>2. CallsOK'
  <2>1. aMemory # NoOne => Is(aResidency', aMemory) = Is(aResidency, aMemory)
    BY <1>1 DEF Is
  <2>2. \A g \in aSync : Residency!Does(g, "sync")'
    BY <1>1 DEF CallsOK, Residency!Does
  <2>3. QED
    BY <1>1, <2>1, <2>2 DEF CallsOK
<1>3. ResidencyTyped' /\ ReaderOK'
  <2>1. CASE Residency!BeginRead \/ Residency!ReadLocks \/ Residency!ReadEnds
    <3>1. CASE Residency!BeginRead
      BY <3>1 DEF Residency!BeginRead, ResidencyTyped, ReaderOK
    <3>2. CASE Residency!ReadLocks
      BY <3>2 DEF Residency!ReadLocks, ResidencyTyped, ReaderOK
    <3>3. CASE Residency!ReadEnds
      BY <3>3 DEF Residency!ReadEnds, ResidencyTyped, ReaderOK
    <3>4. QED
      BY <2>1, <3>1, <3>2, <3>3
  <2>2. CASE Residency!ReadRanges
    <3>1. (\E p \in Aperture : aRange[p] = "none") => aOwned # Aperture
      BY <2>2, ReaderFinds DEF Residency!ReadRanges, ReaderOK
    <3>2. QED
      BY <2>2, <3>1 DEF Residency!ReadRanges, ResidencyTyped, ReaderOK
  <2>3. CASE Residency!ReadViews
    <3>1. (\E p \in Aperture : aRange[p] = "committed" /\ p \notin aView) => aOwned # Aperture
      BY <2>3, ReaderFinds DEF Residency!ReadViews, ReaderOK
    <3>2. QED
      BY <2>3, <3>1 DEF Residency!ReadViews, ResidencyTyped, ReaderOK
  <2>4. QED
    BY <2>1, <2>2, <2>3
<1>4. QED
  BY <1>2, <1>3

LEMMA ResidencyStep ==
  ASSUME ResidencyInv, Residency!Next \/ UNCHANGED residencyVars
  PROVE  ResidencyInv'
<1>1. CASE UNCHANGED residencyVars
  BY <1>1 DEF residencyVars, ResidencyInv, ResidencyTyped, CallsOK, ReaderOK, Residency!Does
<1>2. CASE Residency!Next
  BY <1>2, BeginCallKeeps, TakeKeeps, EndCallKeeps, SyncKeeps, ReaderKeeps
     DEF Residency!Next, Residency!GuestRuns, Residency!ReaderRuns
<1>3. QED
  BY <1>1, <1>2

\* "Before and after both operations the complete span is owned": a read of resident
\* memory fails only if a page of it was given up meanwhile.
THEOREM ReadsOfResidentMemorySucceed == MemorySpec => []ReadsSucceed
<1>1. MemoryInit => ResidencyInv
  BY ResidencyBegins DEF MemoryInit
<1>2. ResidencyInv /\ [MemoryNext]_memoryVars => ResidencyInv'
  <2> SUFFICES ASSUME ResidencyInv, [MemoryNext]_memoryVars PROVE ResidencyInv'
    OBVIOUS
  <2>1. Residency!Next \/ UNCHANGED residencyVars
    BY DEF MemoryNext, OfFence, OfResidency, OfReads, memoryVars
  <2>2. QED
    BY <2>1, ResidencyStep
<1>3. ResidencyInv => ReadsSucceed
  BY DEF ResidencyInv, ReaderOK, ReadsSucceed, Residency!ReadsSucceed
<1>4. QED
  BY <1>1, <1>2, <1>3, PTL DEF MemorySpec
-----------------------------------------------------------------------------
(***************************************************************************)
(* GuestReadback.  A page's bytes go from the GPU to a slot and from there *)
(* to the guest.  A slot that has a request either waits for its copy or   *)
(* holds the pages' newest versions; a guest thread that has claimed the   *)
(* copy is alone with it, and the request keeps its slot until it is       *)
(* written, unless it was detached before.                                 *)
(***************************************************************************)
CopyJobs == [kind : {"copy"}, request : Requests, slot : Slots, pages : SUBSET Buffers]
WriteJobs == [kind : {"write"}, page : Buffers, version : Nat]

Claimed == {"claims", "writes", "publishes"}
Referring == {"has", "waits", "done"} \cup Claimed

ReadsTyped ==
  /\ rNewest \in [Buffers -> Nat] /\ rDevice \in [Buffers -> Nat]
  /\ rMemory \in [Buffers -> Nat] /\ rGpuDirty \subseteq Buffers
  /\ rSlotOf \in [Slots -> Requests \cup {NoOne}]
  /\ rHeld \in [Slots -> [Buffers -> Nat]]
  /\ rQueue \in Seq(CopyJobs \cup WriteJobs) /\ rEngine \in Seq(CopyJobs)
  /\ DOMAIN rRequest = Requests

\* A request and a guest are records of these fields.
RequestOK(r) ==
  LET q == rRequest[r]
  IN /\ q = [slot |-> q.slot, pages |-> q.pages, versions |-> q.versions,
             state |-> q.state, copying |-> q.copying, copied |-> q.copied]
     /\ q.slot \in Slots \cup {NoOne} /\ q.pages \subseteq Buffers
     /\ q.versions \in [Buffers -> Nat]
     /\ q.state \in {"Pending", "Copying", "Detached"}
     /\ (q.copied \/ q.state = "Copying") => q.copying

\* A page's writes are queued in order, up to the newest.
QueueOK ==
  /\ \A p \in Buffers :
       /\ rDevice[p] <= rNewest[p]
       /\ rDevice[p] = rNewest[p] \/
            \E i \in DOMAIN rQueue : /\ rQueue[i].kind = "write" /\ rQueue[i].page = p
                                     /\ rQueue[i].version = rNewest[p]
  /\ \A i \in DOMAIN rQueue : rQueue[i].kind = "write" =>
       /\ rDevice[rQueue[i].page] < rQueue[i].version
       /\ rQueue[i].version <= rNewest[rQueue[i].page]
  /\ \A i, j \in DOMAIN rQueue :
       i < j /\ rQueue[i].kind = "write" /\ rQueue[j].kind = "write"
             /\ rQueue[i].page = rQueue[j].page
         => rQueue[i].version < rQueue[j].version

\* The copy of a slot's request is the last into the slot that the graphics queue has, ...
OnQueue(s, r) ==
  /\ \E k \in DOMAIN rQueue :
       /\ rQueue[k].kind = "copy" /\ rQueue[k].request = r /\ rQueue[k].slot = s
       /\ rQueue[k].pages = rRequest[r].pages
       /\ \A j \in DOMAIN rQueue : j > k =>
            /\ rQueue[j].kind = "copy" => rQueue[j].slot # s
            /\ rQueue[j].kind = "write" => rQueue[j].page \notin rRequest[r].pages
  /\ \A k \in DOMAIN rEngine : rEngine[k].slot # s

\* or the only one that the copy engine has, ...
OnEngine(s, r) ==
  \E k \in DOMAIN rEngine :
    /\ rEngine[k].kind = "copy" /\ rEngine[k].request = r /\ rEngine[k].slot = s
    /\ rEngine[k].pages = rRequest[r].pages
    /\ \A j \in DOMAIN rEngine : j # k => rEngine[j].slot # s

\* or it was made.
InSlotNow(s, r) ==
  /\ \A k \in DOMAIN rQueue : rQueue[k].kind = "copy" => rQueue[k].slot # s
  /\ \A k \in DOMAIN rEngine : rEngine[k].slot # s
  /\ \A p \in rRequest[r].pages : rHeld[s][p] = rRequest[r].versions[p]

Given(r) == \A p \in rRequest[r].pages : rMemory[p] = rNewest[p]

SlotOK(s) ==
  LET r == rSlotOf[s]
      q == rRequest[r]
  IN r # NoOne =>
       /\ q.slot = s /\ q.pages \subseteq rGpuDirty
       /\ \A p \in q.pages : q.versions[p] = rNewest[p]
       /\ q.state # "Detached"
       /\ OnQueue(s, r) \/ OnEngine(s, r) \/ InSlotNow(s, r)
       /\ q.state = "Copying" => InSlotNow(s, r)
       /\ q.copied => Given(r)

\* No two requests that have slots are for one page.
Disjoint ==
  \A s, t \in Slots : s # t /\ rSlotOf[s] # NoOne /\ rSlotOf[t] # NoOne =>
    rRequest[rSlotOf[s]].pages \cap rRequest[rSlotOf[t]].pages = {}

GuestOK(g) ==
  LET r == rGuest[g].request
      q == rRequest[r]
  IN /\ rGuest[g] = [at |-> rGuest[g].at, page |-> rGuest[g].page, request |-> r,
                     writes |-> rGuest[g].writes]
     /\ rGuest[g].at \in Referring =>
          /\ r \in Requests /\ q.slot \in Slots
          /\ q.state # "Detached" /\ ~q.copied => rSlotOf[q.slot] = r
     /\ rGuest[g].at \in Claimed => q.copying /\ ~q.copied
     /\ rGuest[g].at = "claims" => q.state # "Copying"
     /\ rGuest[g].at = "writes" => q.state = "Copying"
     /\ rGuest[g].at = "publishes" => q.state # "Pending" /\ (q.state = "Copying" => Given(r))

OneClaims ==
  \A g, h \in Guests : g # h /\ rGuest[g].at \in Claimed /\ rGuest[h].at \in Claimed =>
    rGuest[g].request # rGuest[h].request

\* A page that no request with a slot is for.
Alone(p) == \A s \in Slots : rSlotOf[s] # NoOne => p \notin rRequest[rSlotOf[s]].pages

\* The render thread makes a request for a page that is the GPU's and nobody else's.
RenderOK ==
  /\ rRender = [at |-> rRender.at, page |-> rRender.page, guest |-> rRender.guest,
                slot |-> rRender.slot]
  /\ rRender.at \in {"begins", "places"} =>
       /\ rRender.guest \in Guests /\ rGuest[rRender.guest].at = "served"
       /\ rGuest[rRender.guest].page \in rGpuDirty
       /\ Alone(rGuest[rRender.guest].page)
  /\ rRender.at = "places" => rRender.slot \in Slots /\ rSlotOf[rRender.slot] = NoOne
  /\ rRender.at \in {"writes", "drains"} => rRender.page \in Buffers

Earned == \A p \in Buffers : p \notin rGpuDirty => rMemory[p] = rNewest[p]

TablesOK ==
  /\ ReadsTyped /\ QueueOK /\ Disjoint /\ Earned
  /\ \A r \in Requests : RequestOK(r)
  /\ \A s \in Slots : SlotOK(s)

GuestsOK ==
  /\ DOMAIN rGuest = Guests
  /\ \A g \in Guests : GuestOK(g)
  /\ OneClaims

ReadsInv == TablesOK /\ GuestsOK /\ RenderOK

LEMMA NoneIsNothing == NoOne \notin Slots \cup Requests
  BY DEF MemoryAssumption, Readback!GuestReadbackAssumption

LEMMA TailOf ==
  ASSUME NEW S, NEW s \in Seq(S), s # <<>>
  PROVE  /\ Tail(s) \in Seq(S) /\ Head(s) = s[1] /\ 1 \in DOMAIN s /\ s[1] \in S
         /\ DOMAIN s = 1 .. Len(s) /\ Len(s) \in Nat /\ DOMAIN Tail(s) = 1 .. Len(s) - 1
         /\ \A i \in DOMAIN Tail(s) : i \in Nat /\ i + 1 \in DOMAIN s /\ Tail(s)[i] = s[i + 1]
         /\ \A i \in DOMAIN s : i # 1 => i - 1 \in DOMAIN Tail(s) /\ Tail(s)[i - 1] = s[i]
<1>1. Len(s) \in Nat /\ Len(s) >= 1 /\ DOMAIN s = 1 .. Len(s)
  OBVIOUS
<1>2. /\ Tail(s) \in Seq(S) /\ Len(Tail(s)) = Len(s) - 1
      /\ \A i \in 1 .. Len(s) - 1 : Tail(s)[i] = s[i + 1]
  OBVIOUS
<1>3. QED
  BY <1>1, <1>2

LEMMA AppendTo ==
  ASSUME NEW S, NEW s \in Seq(S), NEW x \in S
  PROVE  /\ Append(s, x) \in Seq(S) /\ Len(s) \in Nat
         /\ DOMAIN s = 1 .. Len(s) /\ DOMAIN Append(s, x) = 1 .. Len(s) + 1
         /\ Append(s, x)[Len(s) + 1] = x
         /\ \A i \in DOMAIN s : i \in DOMAIN Append(s, x) /\ Append(s, x)[i] = s[i]
         /\ \A i \in DOMAIN Append(s, x) : i \in DOMAIN s \/ i = Len(s) + 1
  OBVIOUS

LEMMA ReadsBegin == Readback!Init => ReadsInv
<1> SUFFICES ASSUME Readback!Init PROVE ReadsInv
  OBVIOUS
<1> USE NoneIsNothing DEF Readback!Init, Readback!Zero
<1>1. ReadsTyped
  BY DEF ReadsTyped
<1>2. QueueOK /\ Disjoint /\ Earned
  BY DEF QueueOK, Disjoint, Earned
<1>3. ASSUME NEW r \in Requests PROVE RequestOK(r)
  BY DEF RequestOK, Readback!NoRequest
<1>4. ASSUME NEW s \in Slots PROVE SlotOK(s)
  BY DEF SlotOK
<1>5. GuestsOK
  BY DEF GuestsOK, GuestOK, OneClaims, Readback!Idle, Referring, Claimed
<1>6. RenderOK
  BY DEF RenderOK, Readback!Free
<1>7. QED
  BY <1>1, <1>2, <1>3, <1>4, <1>5, <1>6 DEF ReadsInv, TablesOK

tables == <<rNewest, rDevice, rMemory, rGpuDirty, rSlotOf, rHeld, rRequest, rQueue, rEngine>>

LEMMA TablesStay ==
  ASSUME TablesOK, UNCHANGED tables
  PROVE  TablesOK'
<1> USE DEF tables, TablesOK
<1>1. ReadsTyped' /\ QueueOK' /\ Disjoint' /\ Earned'
  BY DEF ReadsTyped, QueueOK, Disjoint, Earned
<1>2. \A r \in Requests : RequestOK(r)'
  BY DEF RequestOK
<1>3. \A s \in Slots : SlotOK(s)'
  BY DEF SlotOK, OnQueue, OnEngine, InSlotNow, Given
<1>4. QED
  BY <1>1, <1>2, <1>3

LEMMA NoOver ==
  ASSUME ReadsTyped, NEW p
  PROVE  Readback!Over(p) = {} <=> Alone(p)
  BY DEF Readback!Over, Readback!Active, Readback!On, Alone

\* Requests that were written give their slots and pages back.
LEMMA FinishKeeps ==
  ASSUME TablesOK, NEW S, Readback!Finish(S),
         \A s \in S : s \in Readback!Active /\ Readback!On(s).copied,
         UNCHANGED <<rNewest, rDevice, rMemory, rHeld, rRequest, rQueue, rEngine>>
  PROVE  /\ TablesOK'
         /\ \A r \in Requests : rRequest[r].slot \in Slots /\ ~rRequest[r].copied
              /\ rSlotOf[rRequest[r].slot] = r => rSlotOf'[rRequest[r].slot] = r
         /\ \A p \in Buffers : Alone(p) => Alone(p)'
         /\ \A p \in rGpuDirty : Alone(p) => p \in rGpuDirty'
         /\ \A s \in Slots : rSlotOf'[s] = IF s \in S THEN NoOne ELSE rSlotOf[s]
         /\ rGpuDirty' \subseteq rGpuDirty
<1> USE NoneIsNothing DEF TablesOK
<1>1. /\ S \subseteq Slots
      /\ \A s \in S : rSlotOf[s] # NoOne /\ rSlotOf[s] \in Requests /\ rRequest[rSlotOf[s]].copied
  BY DEF Readback!Active, Readback!On, ReadsTyped
<1>2. /\ \A s \in Slots : rSlotOf'[s] = IF s \in S THEN NoOne ELSE rSlotOf[s]
      /\ rSlotOf' \in [Slots -> Requests \cup {NoOne}]
  BY DEF Readback!Finish, ReadsTyped
<1>3. \A p : p \in rGpuDirty' <=>
        p \in rGpuDirty /\ \A s \in S : p \notin rRequest[rSlotOf[s]].pages
  BY DEF Readback!Finish, Readback!On
<1>4. ReadsTyped' /\ QueueOK' /\ Disjoint'
  BY <1>2, <1>3 DEF ReadsTyped, QueueOK, Disjoint
<1>5. \A r \in Requests : RequestOK(r)'
  BY DEF RequestOK
<1>6. ASSUME NEW s \in Slots PROVE SlotOK(s)'
  <2>1. CASE s \in S
    BY <2>1, <1>2 DEF SlotOK
  <2>2. CASE s \notin S
    <3>1. rSlotOf'[s] = rSlotOf[s]
      BY <2>2, <1>2
    <3>2. rSlotOf[s] # NoOne => rRequest[rSlotOf[s]].pages \subseteq rGpuDirty'
      BY <2>2, <1>1, <1>3 DEF SlotOK, Disjoint
    <3>3. QED
      BY <3>1, <3>2 DEF SlotOK, OnQueue, OnEngine, InSlotNow, Given
  <2>3. QED
    BY <2>1, <2>2
<1>7. Earned'
  <2>1. ASSUME NEW s \in S, NEW p \in rRequest[rSlotOf[s]].pages PROVE rMemory[p] = rNewest[p]
    BY <1>1 DEF SlotOK, Given
  <2>2. QED
    BY <1>3, <2>1 DEF Earned
<1>8. TablesOK'
  BY <1>4, <1>5, <1>6, <1>7
<1>9. \A r \in Requests : rRequest[r].slot \in Slots /\ ~rRequest[r].copied
        /\ rSlotOf[rRequest[r].slot] = r => rSlotOf'[rRequest[r].slot] = r
  BY <1>1, <1>2
<1>10. /\ \A p \in Buffers : Alone(p) => Alone(p)'
       /\ \A p \in rGpuDirty : Alone(p) => p \in rGpuDirty'
  BY <1>1, <1>2, <1>3 DEF Alone
<1>11. QED
  BY <1>2, <1>3, <1>8, <1>9, <1>10

LEMMA Moved ==
  ASSUME GuestsOK, NEW g \in Guests, NEW where, Readback!Moves(g, where)
  PROVE  /\ DOMAIN rGuest' = Guests
         /\ rGuest'[g] = [at |-> where, page |-> rGuest[g].page, request |-> rGuest[g].request,
                          writes |-> rGuest[g].writes]
         /\ \A h \in Guests \ {g} : rGuest'[h] = rGuest[h]
<1> DEFINE x == rGuest[g]
<1>1. x = [at |-> x.at, page |-> x.page, request |-> x.request, writes |-> x.writes]
  BY DEF GuestsOK, GuestOK
<1>2. [x EXCEPT !.at = where] = [at |-> where, page |-> x.page, request |-> x.request,
                                 writes |-> x.writes]
  <2> HIDE DEF x
  <2>1. QED
    BY <1>1
<1>3. rGuest' = [rGuest EXCEPT ![g] = [x EXCEPT !.at = where]]
  BY DEF Readback!Moves
<1>4. QED
  BY <1>2, <1>3 DEF GuestsOK

\* A guest thread that does nothing, while requests keep what it relies on.
LEMMA GuestStays ==
  ASSUME NEW g \in Guests, GuestOK(g), rGuest'[g] = rGuest[g],
         UNCHANGED <<rRequest, rMemory, rNewest>>,
         \A r \in Requests : rRequest[r].slot \in Slots /\ ~rRequest[r].copied
           /\ rSlotOf[rRequest[r].slot] = r => rSlotOf'[rRequest[r].slot] = r
  PROVE  GuestOK(g)'
  BY DEF GuestOK, Given

\* A guest thread that has no copy of its own, before or after.
LEMMA OtherGuests ==
  ASSUME GuestsOK, NEW g \in Guests, DOMAIN rGuest' = Guests,
         \A h \in Guests \ {g} : rGuest'[h] = rGuest[h],
         UNCHANGED <<rRequest, rMemory, rNewest>>,
         \A r \in Requests : rRequest[r].slot \in Slots /\ ~rRequest[r].copied
           /\ rSlotOf[rRequest[r].slot] = r => rSlotOf'[rRequest[r].slot] = r,
         GuestOK(g)', rGuest'[g].at \in Claimed => rGuest[g].at \in Claimed
                                                /\ rGuest'[g].request = rGuest[g].request
  PROVE  GuestsOK'
<1>1. \A h \in Guests \ {g} : GuestOK(h)'
  BY GuestStays DEF GuestsOK
<1>2. OneClaims'
  BY DEF GuestsOK, OneClaims
<1>3. QED
  BY <1>1, <1>2 DEF GuestsOK

LEMMA AskKeeps ==
  ASSUME ReadsInv, NEW g \in Guests, NEW p \in Buffers, NEW writes,
         Readback!Ask(g, p, writes)
  PROVE  ReadsInv'
<1> USE DEF ReadsInv, Readback!Ask, Readback!versions, Readback!copies
<1>1. TablesOK'
  BY TablesStay DEF tables
<1>2. /\ DOMAIN rGuest' = Guests /\ rGuest[g].at = "idle"
      /\ rGuest'[g] = [at |-> "asked", page |-> p, request |-> NoOne, writes |-> writes]
      /\ \A h \in Guests \ {g} : rGuest'[h] = rGuest[h]
  BY DEF GuestsOK
<1>3. GuestOK(g)'
  BY <1>2 DEF GuestOK, Referring, Claimed
<1>4. GuestsOK'
  BY <1>2, <1>3, OtherGuests DEF Claimed
<1>5. RenderOK'
  BY <1>2 DEF RenderOK, Alone
<1>6. QED
  BY <1>1, <1>4, <1>5

LEMMA UseKeeps ==
  ASSUME ReadsInv, NEW p \in Buffers, NEW how \in {"writes", "drains"},
         Readback!Use(p, how)
  PROVE  ReadsInv'
<1> USE DEF ReadsInv, Readback!Use, Readback!versions, Readback!copies
<1>1. TablesOK'
  BY TablesStay DEF tables
<1>2. GuestsOK'
  BY DEF GuestsOK, GuestOK, OneClaims, Given
<1>3. rRender' = [at |-> how, page |-> p, guest |-> NoOne, slot |-> NoOne]
  BY DEF Readback!Free
<1>4. RenderOK'
  BY <1>3 DEF RenderOK
<1>5. QED
  BY <1>1, <1>2, <1>4

LEMMA UsedKeeps ==
  ASSUME ReadsInv, Readback!Used
  PROVE  ReadsInv'
<1> USE DEF ReadsInv, Readback!Used, Readback!versions, Readback!copies
<1>1. TablesOK'
  BY TablesStay DEF tables
<1>2. GuestsOK'
  BY DEF GuestsOK, GuestOK, OneClaims, Given
<1>3. RenderOK'
  BY DEF RenderOK, Readback!Free
<1>4. QED
  BY <1>1, <1>2, <1>3

LEMMA WaitsKeeps ==
  ASSUME ReadsInv, NEW g \in Guests, Readback!WaitsForCopy(g)
  PROVE  ReadsInv'
<1> USE DEF ReadsInv, Readback!WaitsForCopy, Readback!versions, Readback!copies
<1>1. TablesOK'
  BY TablesStay DEF tables
<1>2. /\ DOMAIN rGuest' = Guests /\ rGuest[g].at = "waits"
      /\ rGuest'[g] = [at |-> "done", page |-> rGuest[g].page, request |-> rGuest[g].request,
                       writes |-> rGuest[g].writes]
      /\ \A h \in Guests \ {g} : rGuest'[h] = rGuest[h]
  BY Moved
<1>3. GuestOK(g)
  BY DEF GuestsOK
<1>4. GuestOK(g)'
  BY <1>2, <1>3 DEF GuestOK, Referring, Claimed
<1>5. GuestsOK'
  BY <1>2, <1>4, OtherGuests DEF Claimed
<1>6. RenderOK'
  BY <1>2 DEF RenderOK, Alone
<1>7. QED
  BY <1>1, <1>5, <1>6

\* The render thread finishes requests while it does something else.
LEMMA FinishedKeeps ==
  ASSUME ReadsInv, NEW S, Readback!Finish(S),
         \A s \in S : s \in Readback!Active /\ Readback!On(s).copied,
         UNCHANGED <<rNewest, rDevice, rMemory, rHeld, rRequest, rQueue, rEngine, rGuest>>,
         \/ rRender' = rRender
         \/ /\ rRender.at = "begins"
            /\ \E s \in Slots : /\ rSlotOf'[s] = NoOne
                               /\ rRender' = [rRender EXCEPT !.at = "places", !.slot = s]
  PROVE  ReadsInv'
<1> USE DEF ReadsInv
<1>1. /\ TablesOK'
      /\ \A r \in Requests : rRequest[r].slot \in Slots /\ ~rRequest[r].copied
           /\ rSlotOf[rRequest[r].slot] = r => rSlotOf'[rRequest[r].slot] = r
      /\ \A p \in Buffers : Alone(p) => Alone(p)'
      /\ \A p \in rGpuDirty : Alone(p) => p \in rGpuDirty'
      /\ \A s \in Slots : rSlotOf'[s] = IF s \in S THEN NoOne ELSE rSlotOf[s]
  BY FinishKeeps
<1>2. GuestsOK'
  <2>1. ASSUME NEW g \in Guests PROVE GuestOK(g)'
    BY <1>1, GuestStays DEF GuestsOK
  <2>2. QED
    BY <2>1 DEF GuestsOK, OneClaims
<1>3. rGpuDirty \subseteq Buffers
  BY DEF TablesOK, ReadsTyped
<1>4. RenderOK'
  <2>1. CASE rRender' = rRender
    BY <1>1, <1>3, <2>1 DEF RenderOK
  <2>2. CASE rRender' # rRender
    <3>1. PICK s \in Slots : /\ rSlotOf'[s] = NoOne
                             /\ rRender' = [rRender EXCEPT !.at = "places", !.slot = s]
      BY <2>2
    <3>2. rRender.at = "begins"
      BY <2>2
    <3>3. rRender' = [at |-> "places", page |-> rRender.page, guest |-> rRender.guest, slot |-> s]
      BY <3>1 DEF RenderOK
    <3>4. QED
      BY <1>1, <1>3, <3>1, <3>2, <3>3 DEF RenderOK
  <2>3. QED
    BY <2>1, <2>2
<1>5. QED
  BY <1>1, <1>2, <1>4

LEMMA TakeSlotKeeps ==
  ASSUME ReadsInv, Readback!TakeSlot
  PROVE  ReadsInv'
<1> USE DEF Readback!TakeSlot, Readback!versions, Readback!copies
<1>1. PICK s \in Slots :
        /\ IF Readback!Allowed \subseteq Readback!Active
             THEN Readback!MayFinish(s) /\ Readback!Finish({s})
             ELSE s \notin Readback!Active /\ UNCHANGED <<rGpuDirty, rSlotOf>>
        /\ rRender' = [rRender EXCEPT !.at = "places", !.slot = s]
  BY DEF Readback!Allowed
<1>2. CASE Readback!Allowed \subseteq Readback!Active
  <2>1. Readback!Finish({s}) /\ s \in Readback!Active /\ Readback!On(s).copied
    BY <1>1, <1>2 DEF Readback!MayFinish
  <2>2. rSlotOf'[s] = NoOne
    BY <2>1 DEF Readback!Finish
  <2>3. QED
    BY <1>1, <2>1, <2>2, FinishedKeeps
<1>3. CASE ~(Readback!Allowed \subseteq Readback!Active)
  <2>1. Readback!Finish({})
    BY <1>1, <1>3 DEF Readback!Finish, ReadsInv, TablesOK, ReadsTyped
  <2>2. rSlotOf'[s] = NoOne
    BY <1>1, <1>3 DEF Readback!Active
  <2>3. QED
    BY <1>1, <2>1, <2>2, FinishedKeeps
<1>4. QED
  BY <1>2, <1>3

LEMMA DrainsKeep ==
  ASSUME ReadsInv, Readback!ReadDrains \/ Readback!UseFinishes
  PROVE  ReadsInv'
<1>1. PICK s \in Readback!Active : Readback!MayFinish(s) /\ Readback!Finish({s})
  BY DEF Readback!ReadDrains, Readback!UseFinishes, Readback!Over
<1>2. QED
  BY <1>1, FinishedKeeps DEF Readback!ReadDrains, Readback!UseFinishes, Readback!MayFinish,
     Readback!versions, Readback!copies

LEMMA ReadOnGpuKeeps ==
  ASSUME ReadsInv, Readback!ReadMemoryOnGpu
  PROVE  ReadsInv'
<1> USE NoneIsNothing DEF ReadsInv, Readback!ReadMemoryOnGpu, Readback!copies
<1>1. /\ \A s \in Slots : rSlotOf[s] = NoOne
      /\ \A p \in Buffers : rDevice[p] = rNewest[p]
  BY DEF Readback!Active, TablesOK, QueueOK
<1>2. TablesOK'
  <2>1. ReadsTyped' /\ QueueOK' /\ Disjoint'
    BY DEF TablesOK, ReadsTyped, QueueOK, Disjoint
  <2>2. Earned'
    BY <1>1 DEF TablesOK, Earned
  <2>3. QED
    BY <1>1, <2>1, <2>2 DEF TablesOK, RequestOK, SlotOK
<1>3. DOMAIN rGuest' = Guests /\ \A h \in Guests : rGuest'[h] \in {rGuest[h], Readback!Idle}
  BY DEF GuestsOK
<1>4. ASSUME NEW h \in Guests PROVE GuestOK(h)'
  <2>1. CASE rGuest'[h] = rGuest[h]
    BY <1>1, <2>1 DEF GuestsOK, GuestOK, Claimed, Referring
  <2>2. CASE rGuest'[h] = Readback!Idle
    <3>1. rGuest'[h] = [at |-> "idle", page |-> NoOne, request |-> NoOne, writes |-> FALSE]
      BY <2>2 DEF Readback!Idle
    <3> HIDE DEF Readback!ReadMemoryOnGpu
    <3>2. QED
      BY <3>1 DEF GuestOK, Claimed, Referring
  <2>3. QED
    BY <1>3, <2>1, <2>2
<1>5. OneClaims'
  BY <1>3 DEF GuestsOK, OneClaims, Readback!Idle, Claimed
<1>6. RenderOK'
  BY DEF RenderOK, Readback!Free
<1>7. QED
  BY <1>2, <1>3, <1>4, <1>5, <1>6 DEF GuestsOK

LEMMA BeginKeeps ==
  ASSUME ReadsInv, NEW g \in Guests, Readback!Begin(g)
  PROVE  ReadsInv'
<1> USE NoneIsNothing DEF ReadsInv
<1> DEFINE p == rGuest[g].page
           sharing == {s \in Readback!Over(p) : ~Readback!On(s).copied}
           finished == {s \in Readback!Active : /\ Readback!On(s).copied
                                                /\ \A t \in sharing : s < t}
<1>1. /\ rRender = Readback!Free /\ rGuest[g].at = "asked" /\ Readback!Finish(finished)
      /\ UNCHANGED <<rNewest, rDevice, rMemory, rHeld, rRequest, rQueue, rEngine>>
  BY DEF Readback!Begin, Readback!versions, Readback!copies
<1> DEFINE Begins(s) ==
             rRender' = [Readback!Free EXCEPT !.at = "begins", !.guest = g, !.slot = s]
<1>9. \/ \E s \in sharing :
           /\ rGuest' = [rGuest EXCEPT ![g].at = "has", ![g].request = rSlotOf[s]]
           /\ UNCHANGED rRender
      \/ rGuest' = [rGuest EXCEPT ![g] = Readback!Idle] /\ UNCHANGED rRender
      \/ sharing = {} /\ p \in rGpuDirty' /\ Readback!Moves(g, "served")
         /\ \E s \in Slots \cup {NoOne} : Begins(s)
      \/ Readback!Moves(g, "served")
         /\ rRender' = [Readback!Free EXCEPT !.at = "reads", !.guest = g]
  BY DEF Readback!Begin, Readback!Oldest, Readback!Allowed
<1> HIDE DEF Begins
<1>2. /\ TablesOK'
      /\ \A r \in Requests : rRequest[r].slot \in Slots /\ ~rRequest[r].copied
           /\ rSlotOf[rRequest[r].slot] = r => rSlotOf'[rRequest[r].slot] = r
      /\ \A s \in Slots : rSlotOf'[s] = IF s \in finished THEN NoOne ELSE rSlotOf[s]
  BY <1>1, FinishKeeps
<1>3. CASE \E s \in sharing :
             /\ rGuest' = [rGuest EXCEPT ![g].at = "has", ![g].request = rSlotOf[s]]
             /\ UNCHANGED rRender
  <2>1. PICK s \in sharing :
          /\ rGuest' = [rGuest EXCEPT ![g].at = "has", ![g].request = rSlotOf[s]]
          /\ UNCHANGED rRender
    BY <1>3
  <2>2. /\ s \in Slots /\ rSlotOf[s] \in Requests /\ ~rRequest[rSlotOf[s]].copied
        /\ rSlotOf'[s] = rSlotOf[s] /\ rRequest[rSlotOf[s]].slot = s
    BY <1>2 DEF Readback!Over, Readback!Active, Readback!On, TablesOK, ReadsTyped, SlotOK
  <2>3. /\ DOMAIN rGuest' = Guests /\ \A h \in Guests \ {g} : rGuest'[h] = rGuest[h]
        /\ rGuest'[g] = [at |-> "has", page |-> p, request |-> rSlotOf[s],
                         writes |-> rGuest[g].writes]
    <3>1. rGuest[g] = [at |-> rGuest[g].at, page |-> rGuest[g].page,
                       request |-> rGuest[g].request, writes |-> rGuest[g].writes]
      BY DEF GuestsOK, GuestOK
    <3>2. QED
      BY <2>1, <3>1 DEF GuestsOK
  <2>4. GuestOK(g)'
    BY <1>1, <2>2, <2>3 DEF GuestOK, Claimed, Referring
  <2>5. GuestsOK'
    BY <1>1, <1>2, <2>3, <2>4, OtherGuests DEF Claimed
  <2>6. RenderOK'
    BY <1>1, <2>1 DEF RenderOK, Readback!Free
  <2>7. QED
    BY <1>2, <2>5, <2>6
<1>4. CASE rGuest' = [rGuest EXCEPT ![g] = Readback!Idle] /\ UNCHANGED rRender
  <2>1. /\ DOMAIN rGuest' = Guests /\ \A h \in Guests \ {g} : rGuest'[h] = rGuest[h]
        /\ rGuest'[g] = Readback!Idle
    BY <1>4 DEF GuestsOK
  <2>2. GuestOK(g)' /\ rGuest'[g].at = "idle"
    BY <2>1 DEF GuestOK, Claimed, Referring, Readback!Idle
  <2>3. GuestsOK'
    BY <1>1, <1>2, <2>1, <2>2, OtherGuests DEF Claimed
  <2>4. RenderOK'
    BY <1>1, <1>4 DEF RenderOK, Readback!Free
  <2>5. QED
    BY <1>2, <2>3, <2>4
<1>5. ASSUME Readback!Moves(g, "served")
      PROVE  /\ GuestsOK' /\ rGuest'[g].at = "served" /\ rGuest'[g].page = p
  <2>1. /\ DOMAIN rGuest' = Guests /\ \A h \in Guests \ {g} : rGuest'[h] = rGuest[h]
        /\ rGuest'[g] = [at |-> "served", page |-> p, request |-> rGuest[g].request,
                         writes |-> rGuest[g].writes]
    BY <1>5, Moved
  <2>2. GuestOK(g)'
    BY <2>1 DEF GuestOK, Claimed, Referring
  <2>3. QED
    BY <1>1, <1>2, <2>1, <2>2, OtherGuests DEF Claimed
<1>6. CASE sharing = {} /\ p \in rGpuDirty' /\ Readback!Moves(g, "served")
           /\ \E s \in Slots \cup {NoOne} : Begins(s)
  <2>1. \A s \in Slots : rSlotOf'[s] # NoOne => p \notin rRequest'[rSlotOf'[s]].pages
    <3>1. ASSUME NEW s \in Slots, rSlotOf'[s] # NoOne PROVE p \notin rRequest'[rSlotOf'[s]].pages
      <4>1. rSlotOf'[s] = rSlotOf[s] /\ s \notin finished
        BY <1>2, <3>1
      <4>2. ~rRequest[rSlotOf[s]].copied
        BY <1>6, <3>1, <4>1 DEF Readback!Active, Readback!On
      <4>3. QED
        BY <1>1, <1>6, <3>1, <4>1, <4>2 DEF Readback!Over, Readback!Active, Readback!On
    <3>2. QED
      BY <3>1
  <2>2. \E s \in Slots \cup {NoOne} :
          rRender' = [at |-> "begins", page |-> NoOne, guest |-> g, slot |-> s]
    BY <1>6 DEF Begins, Readback!Free
  <2>3. PICK s \in Slots \cup {NoOne} :
          rRender' = [at |-> "begins", page |-> NoOne, guest |-> g, slot |-> s]
    BY <2>2
  <2>4. p \in rGpuDirty' /\ rGuest'[g].at = "served" /\ rGuest'[g].page = p
    BY <1>5, <1>6
  <2>5. RenderOK'
    BY <2>1, <2>3, <2>4 DEF RenderOK, Alone
  <2>6. QED
    BY <1>2, <1>5, <1>6, <2>5
<1>7. CASE Readback!Moves(g, "served")
           /\ rRender' = [Readback!Free EXCEPT !.at = "reads", !.guest = g]
  <2>1. rRender' = [at |-> "reads", page |-> NoOne, guest |-> g, slot |-> NoOne]
    BY <1>7 DEF Readback!Free
  <2>2. RenderOK'
    BY <2>1 DEF RenderOK
  <2>3. QED
    BY <1>2, <1>5, <1>7, <2>2
<1>8. QED
  BY <1>3, <1>4, <1>6, <1>7, <1>9

LEMMA EndKeeps ==
  ASSUME ReadsInv, NEW g \in Guests, Readback!End(g)
  PROVE  ReadsInv'
<1> USE NoneIsNothing DEF ReadsInv
<1> DEFINE mine == {t \in {rRequest[rGuest[g].request].slot} : rSlotOf[t] = rGuest[g].request}
<1>1. /\ rRender = Readback!Free /\ rGuest[g].at = "done" /\ Readback!Finish(mine)
      /\ \A t \in mine : Readback!MayFinish(t)
      /\ UNCHANGED <<rNewest, rDevice, rMemory, rHeld, rRequest, rQueue, rEngine>>
      /\ \/ /\ Readback!Moves(g, "served")
            /\ rRender' = [Readback!Free EXCEPT !.at = "reads", !.guest = g]
         \/ rGuest' = [rGuest EXCEPT ![g] = Readback!Idle] /\ UNCHANGED rRender
  BY DEF Readback!End, Readback!versions, Readback!copies
<1>2. /\ TablesOK'
      /\ \A r \in Requests : rRequest[r].slot \in Slots /\ ~rRequest[r].copied
           /\ rSlotOf[rRequest[r].slot] = r => rSlotOf'[rRequest[r].slot] = r
  BY <1>1, FinishKeeps DEF Readback!MayFinish
<1>3. /\ DOMAIN rGuest' = Guests /\ \A h \in Guests \ {g} : rGuest'[h] = rGuest[h]
      /\ GuestOK(g)' /\ rGuest'[g].at \notin Claimed
  <2>1. CASE Readback!Moves(g, "served")
    <3>1. /\ DOMAIN rGuest' = Guests /\ \A h \in Guests \ {g} : rGuest'[h] = rGuest[h]
          /\ rGuest'[g] = [at |-> "served", page |-> rGuest[g].page,
                           request |-> rGuest[g].request, writes |-> rGuest[g].writes]
      BY <2>1, Moved
    <3>2. QED
      BY <3>1 DEF GuestOK, Claimed, Referring
  <2>2. CASE rGuest' = [rGuest EXCEPT ![g] = Readback!Idle]
    <3>1. /\ DOMAIN rGuest' = Guests /\ \A h \in Guests \ {g} : rGuest'[h] = rGuest[h]
          /\ rGuest'[g] = Readback!Idle
      BY <2>2 DEF GuestsOK
    <3>2. QED
      BY <3>1 DEF GuestOK, Claimed, Referring, Readback!Idle
  <2>3. QED
    BY <1>1, <2>1, <2>2
<1>4. GuestsOK'
  BY <1>1, <1>2, <1>3, OtherGuests
<1>5. RenderOK'
  <2>1. rRender' \in {[at |-> "reads", page |-> NoOne, guest |-> g, slot |-> NoOne],
                      [at |-> "free", page |-> NoOne, guest |-> NoOne, slot |-> NoOne]}
    BY <1>1 DEF Readback!Free
  <2>2. QED
    BY <2>1 DEF RenderOK
<1>6. QED
  BY <1>2, <1>4, <1>5

LEMMA OneFieldChanges ==
  ASSUME NEW q, NEW v,
         q = [slot |-> q.slot, pages |-> q.pages, versions |-> q.versions, state |-> q.state,
              copying |-> q.copying, copied |-> q.copied]
  PROVE  /\ [q EXCEPT !.state = v]
              = [slot |-> q.slot, pages |-> q.pages, versions |-> q.versions, state |-> v,
                 copying |-> q.copying, copied |-> q.copied]
         /\ [q EXCEPT !.copying = v]
              = [slot |-> q.slot, pages |-> q.pages, versions |-> q.versions, state |-> q.state,
                 copying |-> v, copied |-> q.copied]
         /\ [q EXCEPT !.copied = v]
              = [slot |-> q.slot, pages |-> q.pages, versions |-> q.versions, state |-> q.state,
                 copying |-> q.copying, copied |-> v]
  OBVIOUS

\* A request goes on in the hands of one guest thread, or loses its slot.
LEMMA RequestGoesOn ==
  ASSUME TablesOK, NEW r \in Requests, NEW x,
         rRequest' = [rRequest EXCEPT ![r] = x],
         x = [slot |-> x.slot, pages |-> x.pages, versions |-> x.versions, state |-> x.state,
              copying |-> x.copying, copied |-> x.copied],
         x.slot = rRequest[r].slot, x.pages = rRequest[r].pages,
         x.versions = rRequest[r].versions, x.state \in {"Pending", "Copying", "Detached"},
         x.copied \/ x.state = "Copying" => x.copying,
         UNCHANGED <<rNewest, rDevice, rMemory, rGpuDirty, rHeld, rQueue, rEngine>>,
         rSlotOf' \in [Slots -> Requests \cup {NoOne}],
         \A s \in Slots : rSlotOf'[s] \in {rSlotOf[s], NoOne},
         \A s \in Slots : rSlotOf'[s] = r =>
           /\ x.state # "Detached"
           /\ x.state = "Copying" => InSlotNow(s, r)
           /\ x.copied => Given(r)
  PROVE  /\ TablesOK' /\ rRequest'[r] = x
         /\ \A o \in Requests : o # r => rRequest'[o] = rRequest[o]
         /\ \A o \in Requests : /\ rRequest'[o].slot = rRequest[o].slot
                                /\ rRequest'[o].pages = rRequest[o].pages
                                /\ rRequest'[o].versions = rRequest[o].versions
<1> USE NoneIsNothing DEF TablesOK
<1>1. /\ DOMAIN rRequest' = Requests /\ rRequest'[r] = x
      /\ \A o \in Requests : o # r => rRequest'[o] = rRequest[o]
      /\ \A o \in Requests : /\ rRequest'[o].slot = rRequest[o].slot
                             /\ rRequest'[o].pages = rRequest[o].pages
                             /\ rRequest'[o].versions = rRequest[o].versions
  BY DEF ReadsTyped
<1>2. ReadsTyped' /\ QueueOK' /\ Earned'
  BY <1>1 DEF ReadsTyped, QueueOK, Earned
<1>3. Disjoint'
  BY <1>1 DEF Disjoint, ReadsTyped
<1>4. ASSUME NEW o \in Requests PROVE RequestOK(o)'
  <2>1. CASE o = r
    BY <1>1, <2>1 DEF RequestOK
  <2>2. CASE o # r
    BY <1>1, <2>2 DEF RequestOK
  <2>3. QED
    BY <2>1, <2>2
<1>5. ASSUME NEW s \in Slots PROVE SlotOK(s)'
  <2>1. CASE rSlotOf'[s] = NoOne
    BY <2>1 DEF SlotOK
  <2>2. CASE rSlotOf'[s] # NoOne
    <3> DEFINE o == rSlotOf[s]
    <3>1. o \in Requests /\ rSlotOf'[s] = o /\ o # NoOne
      BY <2>2 DEF ReadsTyped
    <3>2. /\ OnQueue(s, o) => OnQueue(s, o)'
          /\ OnEngine(s, o) => OnEngine(s, o)'
          /\ InSlotNow(s, o) => InSlotNow(s, o)'
          /\ Given(o) => Given(o)'
      BY <1>1, <3>1 DEF OnQueue, OnEngine, InSlotNow, Given
    <3>3. QED
      BY <1>1, <3>1, <3>2 DEF SlotOK
  <2>3. QED
    BY <2>1, <2>2
<1>6. QED
  BY <1>1, <1>2, <1>3, <1>4, <1>5

\* Of the guest threads only one that has claimed its request changes it.
LEMMA GuestsGoOn ==
  ASSUME GuestsOK, NEW g \in Guests, NEW r \in Requests,
         DOMAIN rGuest' = Guests, \A h \in Guests \ {g} : rGuest'[h] = rGuest[h],
         rGuest'[g].request = r, GuestOK(g)', UNCHANGED <<rNewest, rMemory, rSlotOf>>,
         \A o \in Requests : o # r => rRequest'[o] = rRequest[o],
         \A o \in Requests : /\ rRequest'[o].slot = rRequest[o].slot
                             /\ rRequest'[o].pages = rRequest[o].pages,
         rRequest'[r].state # "Detached" /\ ~rRequest'[r].copied
           => rRequest[r].state # "Detached" /\ ~rRequest[r].copied,
         \A h \in Guests \ {g} : rGuest[h].at \in Claimed => rGuest[h].request # r
  PROVE  GuestsOK'
<1>1. ASSUME NEW h \in Guests \ {g} PROVE GuestOK(h)'
  <2>1. GuestOK(h)
    BY DEF GuestsOK
  <2>2. CASE rGuest[h].request = r
    BY <2>1, <2>2 DEF GuestOK, Referring, Claimed
  <2>3. CASE rGuest[h].request # r
    <3>1. rGuest[h].at \in Referring =>
            rRequest'[rGuest[h].request] = rRequest[rGuest[h].request]
      BY <2>1, <2>3 DEF GuestOK
    <3>2. QED
      BY <2>1, <2>3, <3>1 DEF GuestOK, Referring, Claimed, Given
  <2>4. QED
    BY <2>2, <2>3
<1>2. OneClaims'
  BY DEF GuestsOK, OneClaims
<1>3. QED
  BY <1>1, <1>2 DEF GuestsOK

\* The render thread is not in the way of guest threads that copy.
LEMMA RenderGoesOn ==
  ASSUME RenderOK, ReadsTyped, NEW g \in Guests, rGuest[g].at # "served",
         \A h \in Guests \ {g} : rGuest'[h] = rGuest[h],
         \A o \in Requests : rRequest'[o].pages = rRequest[o].pages,
         UNCHANGED <<rRender, rSlotOf, rGpuDirty>>
  PROVE  RenderOK'
<1>1. \A s \in Slots : rSlotOf[s] # NoOne => rSlotOf[s] \in Requests
  BY DEF ReadsTyped
<1>2. QED
  BY <1>1 DEF RenderOK, Alone

LEMMA ClaimKeepsReads ==
  ASSUME ReadsInv, NEW g \in Guests, Readback!Claim(g)
  PROVE  ReadsInv'
<1> USE DEF ReadsInv, Readback!versions, Readback!copies
<1> DEFINE r == rGuest[g].request
           q == rRequest[r]
<1>1. /\ rGuest[g].at = "has" /\ GuestOK(g) /\ r \in Requests
      /\ UNCHANGED <<rNewest, rDevice, rMemory, rGpuDirty, rSlotOf, rHeld, rQueue, rEngine, rRender>>
  BY DEF Readback!Claim, GuestsOK, GuestOK, Referring
<1>2. CASE q.copying
  <2>1. Readback!Moves(g, "waits") /\ UNCHANGED rRequest
    BY <1>2 DEF Readback!Claim, Readback!Mine
  <2>2. TablesOK'
    BY <1>1, <2>1, TablesStay DEF tables
  <2>3. /\ DOMAIN rGuest' = Guests /\ \A h \in Guests \ {g} : rGuest'[h] = rGuest[h]
        /\ rGuest'[g] = [at |-> "waits", page |-> rGuest[g].page, request |-> r,
                         writes |-> rGuest[g].writes]
    BY <2>1, Moved
  <2>4. GuestOK(g)'
    BY <1>1, <2>1, <2>3 DEF GuestOK, Referring, Claimed
  <2>5. GuestsOK'
    BY <1>1, <2>1, <2>3, <2>4, OtherGuests DEF Claimed
  <2>6. RenderOK'
    BY <1>1, <2>1, <2>3 DEF RenderOK, Alone
  <2>7. QED
    BY <2>2, <2>5, <2>6
<1>3. CASE ~q.copying
  <2> DEFINE x == [slot |-> q.slot, pages |-> q.pages, versions |-> q.versions,
                   state |-> q.state, copying |-> TRUE, copied |-> q.copied]
  <2>1. Readback!Moves(g, "claims") /\ rRequest' = [rRequest EXCEPT ![r].copying = TRUE]
    BY <1>3 DEF Readback!Claim, Readback!Mine
  <2>2. RequestOK(r) /\ ~q.copied /\ q.state # "Copying"
    BY <1>1, <1>3 DEF TablesOK, RequestOK
  <2>3. rRequest' = [rRequest EXCEPT ![r] = x]
    <3>1. [q EXCEPT !.copying = TRUE] = x
      BY <2>2, OneFieldChanges DEF RequestOK
    <3>2. QED
      BY <2>1, <3>1
  <2>4. /\ TablesOK' /\ rRequest'[r] = x
        /\ \A o \in Requests : o # r => rRequest'[o] = rRequest[o]
        /\ \A o \in Requests : /\ rRequest'[o].slot = rRequest[o].slot
                               /\ rRequest'[o].pages = rRequest[o].pages
    <3>1. /\ x.slot = q.slot /\ x.pages = q.pages /\ x.versions = q.versions
          /\ x.state = q.state /\ x.copying /\ x.copied = q.copied
          /\ x = [slot |-> x.slot, pages |-> x.pages, versions |-> x.versions,
                  state |-> x.state, copying |-> x.copying, copied |-> x.copied]
      OBVIOUS
    <3>2. q.state \in {"Pending", "Copying", "Detached"} /\ ~x.copied /\ x.state # "Copying"
      BY <2>2, <3>1 DEF RequestOK
    <3>3. \A s \in Slots : rSlotOf'[s] = r => q.state # "Detached"
      BY <1>1, NoneIsNothing DEF TablesOK, SlotOK
    <3> HIDE DEF x
    <3>4. /\ TablesOK /\ r \in Requests
          /\ x.slot = rRequest[r].slot /\ x.pages = rRequest[r].pages
          /\ x.versions = rRequest[r].versions /\ x.state \in {"Pending", "Copying", "Detached"}
          /\ (x.copied \/ x.state = "Copying") => x.copying
      BY <1>1, <3>1, <3>2
    <3>5. /\ rSlotOf' \in [Slots -> Requests \cup {NoOne}]
          /\ \A s \in Slots : rSlotOf'[s] \in {rSlotOf[s], NoOne}
      BY <1>1 DEF TablesOK, ReadsTyped
    <3>6. \A s \in Slots : rSlotOf'[s] = r =>
            /\ x.state # "Detached"
            /\ x.state = "Copying" => InSlotNow(s, r)
            /\ x.copied => Given(r)
      BY <3>1, <3>2, <3>3
    <3> HIDE DEF q, r, ReadsInv
    <3>7. UNCHANGED <<rNewest, rDevice, rMemory, rGpuDirty, rHeld, rQueue, rEngine>>
      BY <1>1
    <3>8. x = [slot |-> x.slot, pages |-> x.pages, versions |-> x.versions,
               state |-> x.state, copying |-> x.copying, copied |-> x.copied]
      BY <3>1
    <3>9. QED
      BY <2>3, <3>4, <3>5, <3>6, <3>7, <3>8, RequestGoesOn
  <2>5. /\ DOMAIN rGuest' = Guests /\ \A h \in Guests \ {g} : rGuest'[h] = rGuest[h]
        /\ rGuest'[g] = [at |-> "claims", page |-> rGuest[g].page, request |-> r,
                         writes |-> rGuest[g].writes]
    BY <2>1, Moved
  <2>6. GuestOK(g)'
    BY <1>1, <2>2, <2>4, <2>5 DEF GuestOK, Referring, Claimed
  <2>7. \A h \in Guests \ {g} : rGuest[h].at \in Claimed => rGuest[h].request # r
    BY <1>3 DEF GuestsOK, GuestOK
  <2>8. GuestsOK'
    BY <1>1, <2>2, <2>4, <2>5, <2>6, <2>7, GuestsGoOn
  <2>9. RenderOK'
    BY <1>1, <2>4, <2>5, RenderGoesOn DEF TablesOK
  <2>10. QED
    BY <2>4, <2>8, <2>9
<1>4. QED
  BY <1>2, <1>3

LEMMA MadeMeans ==
  ASSUME NEW r, Readback!Made(r)
  PROVE  /\ \A i \in DOMAIN rQueue : rQueue[i].kind = "copy" => rQueue[i].request # r
         /\ \A i \in DOMAIN rEngine : rEngine[i].kind = "copy" => rEngine[i].request # r
  BY DEF Readback!Made, Readback!Outstanding, Readback!Range

LEMMA StartsKeeps ==
  ASSUME ReadsInv, NEW g \in Guests, Readback!StartsCopying(g)
  PROVE  ReadsInv'
<1> USE DEF ReadsInv, Readback!versions, Readback!copies
<1> DEFINE r == rGuest[g].request
           q == rRequest[r]
<1>1. /\ rGuest[g].at = "claims" /\ GuestOK(g) /\ r \in Requests /\ Readback!Made(r)
      /\ q.copying /\ ~q.copied /\ q.state # "Copying" /\ RequestOK(r)
      /\ UNCHANGED <<rNewest, rDevice, rMemory, rGpuDirty, rSlotOf, rHeld, rQueue, rEngine, rRender>>
  BY DEF Readback!StartsCopying, GuestsOK, GuestOK, Referring, Claimed, TablesOK
<1>2. CASE q.state = "Pending"
  <2> DEFINE x == [slot |-> q.slot, pages |-> q.pages, versions |-> q.versions,
                   state |-> "Copying", copying |-> q.copying, copied |-> q.copied]
  <2>1. Readback!Moves(g, "writes") /\ rRequest' = [rRequest EXCEPT ![r].state = "Copying"]
    BY <1>2 DEF Readback!StartsCopying, Readback!Mine
  <2>2. rRequest' = [rRequest EXCEPT ![r] = x]
    <3>1. [q EXCEPT !.state = "Copying"] = x
      BY <1>1, OneFieldChanges DEF RequestOK
    <3>2. QED
      BY <2>1, <3>1
  <2>3. /\ TablesOK' /\ rRequest'[r] = x
        /\ \A o \in Requests : o # r => rRequest'[o] = rRequest[o]
        /\ \A o \in Requests : /\ rRequest'[o].slot = rRequest[o].slot
                               /\ rRequest'[o].pages = rRequest[o].pages
    <3>1. /\ x.slot = q.slot /\ x.pages = q.pages /\ x.versions = q.versions
          /\ x.state = "Copying" /\ x.copying = q.copying /\ x.copied = q.copied
          /\ x = [slot |-> x.slot, pages |-> x.pages, versions |-> x.versions,
                  state |-> x.state, copying |-> x.copying, copied |-> x.copied]
      OBVIOUS
    <3>2. \A s \in Slots : rSlotOf[s] = r => InSlotNow(s, r)
      <4>1. ASSUME NEW s \in Slots, rSlotOf[s] = r PROVE ~OnQueue(s, r) /\ ~OnEngine(s, r)
        BY <1>1, MadeMeans DEF OnQueue, OnEngine
      <4>2. QED
        BY <1>1, <4>1, NoneIsNothing DEF TablesOK, SlotOK
    <3> HIDE DEF x
    <3>3. /\ TablesOK /\ r \in Requests
          /\ x.slot = rRequest[r].slot /\ x.pages = rRequest[r].pages
          /\ x.versions = rRequest[r].versions /\ x.state \in {"Pending", "Copying", "Detached"}
          /\ (x.copied \/ x.state = "Copying") => x.copying
      BY <1>1, <3>1
    <3>4. /\ rSlotOf' \in [Slots -> Requests \cup {NoOne}]
          /\ \A s \in Slots : rSlotOf'[s] \in {rSlotOf[s], NoOne}
      BY <1>1 DEF TablesOK, ReadsTyped
    <3>5. \A s \in Slots : rSlotOf'[s] = r =>
            /\ x.state # "Detached"
            /\ x.state = "Copying" => InSlotNow(s, r)
            /\ x.copied => Given(r)
      BY <1>1, <3>1, <3>2
    <3> HIDE DEF q, r, ReadsInv
    <3>6. UNCHANGED <<rNewest, rDevice, rMemory, rGpuDirty, rHeld, rQueue, rEngine>>
      BY <1>1
    <3>7. x = [slot |-> x.slot, pages |-> x.pages, versions |-> x.versions,
               state |-> x.state, copying |-> x.copying, copied |-> x.copied]
      BY <3>1
    <3>8. QED
      BY <2>2, <3>3, <3>4, <3>5, <3>6, <3>7, RequestGoesOn
  <2>4. /\ DOMAIN rGuest' = Guests /\ \A h \in Guests \ {g} : rGuest'[h] = rGuest[h]
        /\ rGuest'[g] = [at |-> "writes", page |-> rGuest[g].page, request |-> r,
                         writes |-> rGuest[g].writes]
    BY <2>1, Moved
  <2>5. GuestOK(g)'
    BY <1>1, <1>2, <2>3, <2>4 DEF GuestOK, Referring, Claimed
  <2>6. \A h \in Guests \ {g} : rGuest[h].at \in Claimed => rGuest[h].request # r
    BY <1>1 DEF GuestsOK, OneClaims, Claimed
  <2>7. GuestsOK'
    BY <1>1, <1>2, <2>3, <2>4, <2>5, <2>6, GuestsGoOn
  <2>8. RenderOK'
    BY <1>1, <2>3, <2>4, RenderGoesOn DEF TablesOK
  <2>9. QED
    BY <2>3, <2>7, <2>8
<1>3. CASE q.state # "Pending"
  <2>1. Readback!Moves(g, "publishes") /\ UNCHANGED rRequest
    BY <1>3 DEF Readback!StartsCopying, Readback!Mine
  <2>2. TablesOK'
    BY <1>1, <2>1, TablesStay DEF tables
  <2>3. /\ DOMAIN rGuest' = Guests /\ \A h \in Guests \ {g} : rGuest'[h] = rGuest[h]
        /\ rGuest'[g] = [at |-> "publishes", page |-> rGuest[g].page, request |-> r,
                         writes |-> rGuest[g].writes]
    BY <2>1, Moved
  <2>4. GuestOK(g)'
    BY <1>1, <1>3, <2>1, <2>3 DEF GuestOK, Referring, Claimed
  <2>5. GuestsOK'
    BY <1>1, <2>1, <2>3, <2>4, OtherGuests DEF Claimed
  <2>6. RenderOK'
    BY <1>1, <2>1, <2>3 DEF RenderOK, Alone
  <2>7. QED
    BY <2>2, <2>5, <2>6
<1>4. QED
  BY <1>2, <1>3

LEMMA PublishesKeeps ==
  ASSUME ReadsInv, NEW g \in Guests, Readback!Publishes(g)
  PROVE  ReadsInv'
<1> USE DEF ReadsInv, Readback!versions, Readback!copies
<1> DEFINE r == rGuest[g].request
           q == rRequest[r]
           x == [slot |-> q.slot, pages |-> q.pages, versions |-> q.versions,
                 state |-> q.state, copying |-> q.copying, copied |-> TRUE]
<1>1. /\ rGuest[g].at = "publishes" /\ GuestOK(g) /\ r \in Requests
      /\ q.copying /\ ~q.copied /\ q.state # "Pending" /\ (q.state = "Copying" => Given(r))
      /\ RequestOK(r) /\ Readback!Moves(g, "done")
      /\ rRequest' = [rRequest EXCEPT ![r].copied = TRUE]
      /\ UNCHANGED <<rNewest, rDevice, rMemory, rGpuDirty, rSlotOf, rHeld, rQueue, rEngine, rRender>>
  BY DEF Readback!Publishes, GuestsOK, GuestOK, Referring, Claimed, TablesOK
<1>2. rRequest' = [rRequest EXCEPT ![r] = x]
  <2>1. [q EXCEPT !.copied = TRUE] = x
    BY <1>1, OneFieldChanges DEF RequestOK
  <2>2. QED
    BY <1>1, <2>1
<1>3. /\ TablesOK' /\ rRequest'[r] = x
      /\ \A o \in Requests : o # r => rRequest'[o] = rRequest[o]
      /\ \A o \in Requests : /\ rRequest'[o].slot = rRequest[o].slot
                             /\ rRequest'[o].pages = rRequest[o].pages
  <2>1. /\ x.slot = q.slot /\ x.pages = q.pages /\ x.versions = q.versions
        /\ x.state = q.state /\ x.copying = q.copying
        /\ x = [slot |-> x.slot, pages |-> x.pages, versions |-> x.versions,
                state |-> x.state, copying |-> x.copying, copied |-> x.copied]
    OBVIOUS
  <2>2. \A s \in Slots : rSlotOf[s] = r =>
          q.state # "Detached" /\ (q.state = "Copying" => InSlotNow(s, r)) /\ Given(r)
    <3>1. q.state \in {"Pending", "Copying", "Detached"}
      BY <1>1 DEF RequestOK
    <3>2. QED
      BY <1>1, <3>1, NoneIsNothing DEF TablesOK, SlotOK
  <2> HIDE DEF x
  <2>3. /\ TablesOK /\ r \in Requests
        /\ x.slot = rRequest[r].slot /\ x.pages = rRequest[r].pages
        /\ x.versions = rRequest[r].versions /\ x.state \in {"Pending", "Copying", "Detached"}
        /\ (x.copied \/ x.state = "Copying") => x.copying
    BY <1>1, <2>1 DEF RequestOK
  <2>4. /\ rSlotOf' \in [Slots -> Requests \cup {NoOne}]
        /\ \A s \in Slots : rSlotOf'[s] \in {rSlotOf[s], NoOne}
    BY <1>1 DEF TablesOK, ReadsTyped
  <2>5. \A s \in Slots : rSlotOf'[s] = r =>
          /\ x.state # "Detached"
          /\ x.state = "Copying" => InSlotNow(s, r)
          /\ x.copied => Given(r)
    BY <1>1, <2>1, <2>2
  <2>6. UNCHANGED <<rNewest, rDevice, rMemory, rGpuDirty, rHeld, rQueue, rEngine>>
    BY <1>1
  <2>7. x = [slot |-> x.slot, pages |-> x.pages, versions |-> x.versions,
             state |-> x.state, copying |-> x.copying, copied |-> x.copied]
    BY <2>1
  <2> HIDE DEF q, r, ReadsInv
  <2>8. QED
    BY <1>2, <2>3, <2>4, <2>5, <2>6, <2>7, RequestGoesOn
<1>4. /\ DOMAIN rGuest' = Guests /\ \A h \in Guests \ {g} : rGuest'[h] = rGuest[h]
      /\ rGuest'[g] = [at |-> "done", page |-> rGuest[g].page, request |-> r,
                       writes |-> rGuest[g].writes]
  BY <1>1, Moved
<1>5. GuestOK(g)'
  BY <1>1, <1>3, <1>4 DEF GuestOK, Referring, Claimed
<1>6. \A h \in Guests \ {g} : rGuest[h].at \in Claimed => rGuest[h].request # r
  BY <1>1 DEF GuestsOK, OneClaims, Claimed
<1>7. GuestsOK'
  BY <1>1, <1>3, <1>4, <1>5, <1>6, GuestsGoOn
<1>8. RenderOK'
  BY <1>1, <1>3, <1>4, RenderGoesOn DEF TablesOK
<1>9. QED
  BY <1>3, <1>7, <1>8

LEMMA DetachKeeps ==
  ASSUME ReadsInv, Readback!Detach
  PROVE  ReadsInv'
<1> USE DEF ReadsInv, Readback!versions, Readback!copies
<1>1. PICK s \in Readback!Over(rRender.page) :
        /\ ~Readback!On(s).copied /\ Readback!On(s).state = "Pending"
        /\ rRequest' = [rRequest EXCEPT ![rSlotOf[s]].state = "Detached"]
        /\ rSlotOf' = [rSlotOf EXCEPT ![s] = NoOne]
  BY DEF Readback!Detach
<1> DEFINE r == rSlotOf[s]
           q == rRequest[r]
           x == [slot |-> q.slot, pages |-> q.pages, versions |-> q.versions,
                 state |-> "Detached", copying |-> q.copying, copied |-> q.copied]
<1>2. /\ s \in Slots /\ r \in Requests /\ q.slot = s /\ RequestOK(r)
      /\ ~q.copied /\ q.state = "Pending"
      /\ UNCHANGED <<rNewest, rDevice, rMemory, rGpuDirty, rHeld, rQueue, rEngine, rGuest, rRender>>
  BY <1>1 DEF Readback!Detach, Readback!Over, Readback!Active, Readback!On, TablesOK, ReadsTyped,
              SlotOK
<1>3. rRequest' = [rRequest EXCEPT ![r] = x]
  <2>1. [q EXCEPT !.state = "Detached"] = x
    BY <1>2, OneFieldChanges DEF RequestOK
  <2>2. QED
    BY <1>1, <2>1
<1>4. /\ rSlotOf' \in [Slots -> Requests \cup {NoOne}]
      /\ \A t \in Slots : rSlotOf'[t] = IF t = s THEN NoOne ELSE rSlotOf[t]
      /\ \A t \in Slots : rSlotOf'[t] # r
  <2>1. \A t \in Slots : rSlotOf[t] = r => t = s
    BY <1>2, NoneIsNothing DEF TablesOK, SlotOK
  <2>2. QED
    BY <1>1, <1>2, <2>1, NoneIsNothing DEF TablesOK, ReadsTyped
<1>5. /\ TablesOK' /\ rRequest'[r] = x
      /\ \A o \in Requests : o # r => rRequest'[o] = rRequest[o]
      /\ \A o \in Requests : /\ rRequest'[o].slot = rRequest[o].slot
                             /\ rRequest'[o].pages = rRequest[o].pages
  <2>1. /\ x.slot = q.slot /\ x.pages = q.pages /\ x.versions = q.versions
        /\ x.state = "Detached" /\ x.copying = q.copying /\ x.copied = q.copied
        /\ x = [slot |-> x.slot, pages |-> x.pages, versions |-> x.versions,
                state |-> x.state, copying |-> x.copying, copied |-> x.copied]
    OBVIOUS
  <2> HIDE DEF x
  <2>2. /\ TablesOK /\ r \in Requests
        /\ x.slot = rRequest[r].slot /\ x.pages = rRequest[r].pages
        /\ x.versions = rRequest[r].versions /\ x.state \in {"Pending", "Copying", "Detached"}
        /\ (x.copied \/ x.state = "Copying") => x.copying
    BY <1>2, <2>1 DEF RequestOK
  <2>3. \A t \in Slots : rSlotOf'[t] \in {rSlotOf[t], NoOne}
    BY <1>4
  <2>4. \A t \in Slots : rSlotOf'[t] = r =>
          /\ x.state # "Detached"
          /\ x.state = "Copying" => InSlotNow(t, r)
          /\ x.copied => Given(r)
    BY <1>4
  <2>5. UNCHANGED <<rNewest, rDevice, rMemory, rGpuDirty, rHeld, rQueue, rEngine>>
    BY <1>2
  <2>6. rSlotOf' \in [Slots -> Requests \cup {NoOne}]
    BY <1>4
  <2>7. x = [slot |-> x.slot, pages |-> x.pages, versions |-> x.versions,
             state |-> x.state, copying |-> x.copying, copied |-> x.copied]
    BY <2>1
  <2> HIDE DEF q, r, ReadsInv
  <2>8. QED
    BY <1>3, <2>2, <2>3, <2>4, <2>5, <2>6, <2>7, RequestGoesOn
<1>6. GuestsOK'
  <2>1. ASSUME NEW h \in Guests PROVE GuestOK(h)'
    <3>1. GuestOK(h)
      BY DEF GuestsOK
    <3>2. CASE rGuest[h].request = r
      BY <1>2, <1>5, <3>1, <3>2 DEF GuestOK, Referring, Claimed
    <3>3. CASE rGuest[h].request # r
      <4>1. rGuest[h].at \in Referring =>
              rRequest'[rGuest[h].request] = rRequest[rGuest[h].request]
        BY <1>5, <3>1, <3>3 DEF GuestOK
      <4>2. QED
        BY <1>2, <1>4, <3>1, <3>3, <4>1 DEF GuestOK, Referring, Claimed, Given
    <3>4. QED
      BY <3>2, <3>3
  <2>2. QED
    BY <1>2, <2>1 DEF GuestsOK, OneClaims
<1>7. RenderOK'
  BY <1>2 DEF RenderOK, Readback!Detach
<1>8. QED
  BY <1>5, <1>6, <1>7

LEMMA WriteBackKeeps ==
  ASSUME ReadsInv, NEW g \in Guests, Readback!WriteBack(g)
  PROVE  ReadsInv'
<1> USE DEF ReadsInv, Readback!copies
<1> DEFINE r == rGuest[g].request
           q == rRequest[r]
<1>1. /\ rGuest[g].at = "writes" /\ GuestOK(g) /\ r \in Requests
      /\ q.copying /\ ~q.copied /\ q.state = "Copying" /\ q.slot \in Slots
      /\ rSlotOf[q.slot] = r /\ Readback!Moves(g, "publishes")
      /\ rMemory' = [p \in Buffers |-> IF p \in q.pages THEN rHeld[q.slot][p] ELSE rMemory[p]]
      /\ UNCHANGED <<rNewest, rDevice, rGpuDirty, rSlotOf, rHeld, rRequest, rQueue, rEngine, rRender>>
  BY DEF Readback!WriteBack, Readback!Mine, GuestsOK, GuestOK, Referring, Claimed
<1>2. \A p \in q.pages : rHeld[q.slot][p] = rNewest[p]
  BY <1>1, NoneIsNothing DEF TablesOK, SlotOK, InSlotNow
<1>3. /\ rMemory' \in [Buffers -> Nat]
      /\ \A p \in Buffers : rMemory'[p] = IF p \in q.pages THEN rNewest[p] ELSE rMemory[p]
  BY <1>1, <1>2 DEF TablesOK, ReadsTyped
<1>4. ASSUME NEW o \in Requests PROVE /\ Given(o) => Given(o)'
                                      /\ o = r => Given(o)'
  <2>1. rRequest[o].pages \subseteq Buffers
    BY DEF TablesOK, RequestOK
  <2>2. QED
    BY <1>1, <1>3, <2>1 DEF Given
<1>5. TablesOK'
  <2> DEFINE SameTables == UNCHANGED <<rNewest, rDevice, rGpuDirty, rSlotOf, rHeld,
                                       rRequest, rQueue, rEngine>>
  <2>1. SameTables
    BY <1>1
  <2>2. ReadsTyped' /\ QueueOK' /\ Disjoint'
    <3>1. ReadsTyped /\ QueueOK /\ Disjoint
      BY DEF TablesOK
    <3>2. ReadsTyped'
      BY <1>3, <2>1, <3>1 DEF ReadsTyped
    <3>3. QueueOK'
      BY <2>1, <3>1 DEF QueueOK
    <3>4. Disjoint'
      BY <2>1, <3>1 DEF Disjoint
    <3>5. QED
      BY <3>2, <3>3, <3>4
  <2>3. Earned'
    <3>1. Earned
      BY DEF TablesOK
    <3>2. ASSUME NEW p \in Buffers, p \notin rGpuDirty PROVE rMemory'[p] = rNewest[p]
      BY <1>3, <3>1, <3>2 DEF Earned
    <3>3. QED
      BY <2>1, <3>2 DEF Earned
  <2>4. \A o \in Requests : RequestOK(o)'
    BY <2>1 DEF TablesOK, RequestOK
  <2>5. ASSUME NEW s \in Slots PROVE SlotOK(s)'
    <3>1. (rSlotOf[s] # NoOne => rSlotOf[s] \in Requests) /\ SlotOK(s)
      BY DEF TablesOK, ReadsTyped
    <3>2. \A o \in Requests : Given(o) => Given(o)'
      BY <1>4
    <3>3. QED
      BY <2>1, <3>1, <3>2 DEF SlotOK, OnQueue, OnEngine, InSlotNow
  <2>6. QED
    BY <2>2, <2>3, <2>4, <2>5 DEF TablesOK
<1>6. /\ DOMAIN rGuest' = Guests /\ \A h \in Guests \ {g} : rGuest'[h] = rGuest[h]
      /\ rGuest'[g] = [at |-> "publishes", page |-> rGuest[g].page, request |-> r,
                       writes |-> rGuest[g].writes]
  BY <1>1, Moved
<1>7. GuestsOK'
  <2>1. GuestOK(g)'
    BY <1>1, <1>4, <1>6 DEF GuestOK, Referring, Claimed
  <2>2. ASSUME NEW h \in Guests \ {g} PROVE GuestOK(h)'
    <3>1. GuestOK(h) /\ rGuest'[h] = rGuest[h]
      BY <1>6 DEF GuestsOK
    <3>2. QED
      BY <1>1, <1>4, <3>1 DEF GuestOK, Referring, Claimed
  <2>3. OneClaims'
    BY <1>1, <1>6 DEF GuestsOK, OneClaims, Claimed
  <2>4. QED
    BY <1>6, <2>1, <2>2, <2>3 DEF GuestsOK
<1>8. RenderOK'
  BY <1>1, <1>6, RenderGoesOn DEF TablesOK
<1>9. QED
  BY <1>5, <1>7, <1>8

LEMMA RecordKeeps ==
  ASSUME ReadsInv, Readback!RecordWrite
  PROVE  ReadsInv'
<1> USE DEF ReadsInv
<1> DEFINE p == rRender.page
           w == [kind |-> "write", page |-> p, version |-> rNewest[p] + 1]
<1>1. /\ p \in Buffers /\ Alone(p)
      /\ rNewest' = [rNewest EXCEPT ![p] = @ + 1] /\ rGpuDirty' = rGpuDirty \cup {p}
      /\ rQueue' = Append(rQueue, w) /\ rRender' = Readback!Free
      /\ UNCHANGED <<rDevice, rMemory, rSlotOf, rHeld, rEngine, rRequest, rGuest>>
  BY NoOver DEF Readback!RecordWrite, RenderOK, TablesOK
<1>2. /\ rNewest' \in [Buffers -> Nat] /\ rNewest[p] \in Nat
      /\ \A o \in Buffers : rNewest'[o] = IF o = p THEN rNewest[p] + 1 ELSE rNewest[o]
      /\ w \in CopyJobs \cup WriteJobs /\ rQueue \in Seq(CopyJobs \cup WriteJobs)
  BY <1>1 DEF TablesOK, ReadsTyped, WriteJobs
<1> HIDE DEF p
<1>3. /\ rQueue' \in Seq(CopyJobs \cup WriteJobs) /\ Len(rQueue) \in Nat
      /\ DOMAIN rQueue = 1 .. Len(rQueue) /\ DOMAIN rQueue' = 1 .. Len(rQueue) + 1
      /\ rQueue'[Len(rQueue) + 1] = w
      /\ \A i \in DOMAIN rQueue : i \in DOMAIN rQueue' /\ rQueue'[i] = rQueue[i]
      /\ \A i \in DOMAIN rQueue' : i \in DOMAIN rQueue \/ i = Len(rQueue) + 1
  <2> HIDE DEF w
  <2>1. QED
    BY <1>1, <1>2, AppendTo
<1>4. w.kind = "write" /\ w.page = p /\ w.version = rNewest[p] + 1
  OBVIOUS
<1> HIDE DEF w
<1>5. \A i \in DOMAIN rQueue : rQueue[i].kind = "write" =>
        rQueue[i].page \in Buffers /\ rQueue[i].version \in Nat
  <2>1. \A i \in DOMAIN rQueue : rQueue[i] \in CopyJobs \cup WriteJobs
    BY <1>2
  <2>2. QED
    BY <2>1 DEF CopyJobs, WriteJobs
<1>6. QueueOK'
  <2>1. QueueOK /\ rDevice \in [Buffers -> Nat] /\ rNewest \in [Buffers -> Nat]
    BY DEF TablesOK, ReadsTyped
  <2>2. ASSUME NEW o \in Buffers
        PROVE  /\ rDevice'[o] <= rNewest'[o]
               /\ rDevice'[o] = rNewest'[o] \/
                    \E i \in DOMAIN rQueue' : /\ rQueue'[i].kind = "write" /\ rQueue'[i].page = o
                                              /\ rQueue'[i].version = rNewest'[o]
    <3>1. CASE o = p
      BY <1>1, <1>2, <1>3, <1>4, <2>1, <3>1 DEF QueueOK
    <3>2. CASE o # p
      BY <1>1, <1>2, <1>3, <2>1, <3>2 DEF QueueOK
    <3>3. QED
      BY <3>1, <3>2
  <2>3. ASSUME NEW i \in DOMAIN rQueue', rQueue'[i].kind = "write"
        PROVE  /\ rDevice'[rQueue'[i].page] < rQueue'[i].version
               /\ rQueue'[i].version <= rNewest'[rQueue'[i].page]
    <3>1. CASE i = Len(rQueue) + 1
      BY <1>1, <1>2, <1>3, <1>4, <2>1, <3>1 DEF QueueOK
    <3>2. CASE i \in DOMAIN rQueue
      BY <1>1, <1>2, <1>3, <1>5, <2>1, <2>3, <3>2 DEF QueueOK
    <3>3. QED
      BY <1>3, <3>1, <3>2
  <2>4. ASSUME NEW i \in DOMAIN rQueue', NEW j \in DOMAIN rQueue', i < j,
               rQueue'[i].kind = "write", rQueue'[j].kind = "write",
               rQueue'[i].page = rQueue'[j].page
        PROVE  rQueue'[i].version < rQueue'[j].version
    <3>1. i \in DOMAIN rQueue
      BY <1>3, <2>4
    <3>2. CASE j = Len(rQueue) + 1
      BY <1>1, <1>2, <1>3, <1>4, <1>5, <2>1, <2>4, <3>1, <3>2 DEF QueueOK
    <3>3. CASE j \in DOMAIN rQueue
      BY <1>3, <2>1, <2>4, <3>1, <3>3 DEF QueueOK
    <3>4. QED
      BY <1>3, <3>2, <3>3
  <2>5. QED
    BY <2>2, <2>3, <2>4 DEF QueueOK
<1>7. ASSUME NEW s \in Slots, rSlotOf[s] # NoOne PROVE p \notin rRequest[rSlotOf[s]].pages
  BY <1>1, <1>7 DEF Alone
<1>8. ASSUME NEW s \in Slots PROVE SlotOK(s)'
  <2> DEFINE r == rSlotOf[s]
  <2>1. CASE r = NoOne
    BY <1>1, <2>1 DEF SlotOK
  <2>2. CASE r # NoOne
    <3>1. SlotOK(s) /\ rRequest[r].pages \subseteq Buffers /\ p \notin rRequest[r].pages
      BY <1>7, <2>2 DEF TablesOK, RequestOK, ReadsTyped
    <3>2. OnQueue(s, r) => OnQueue(s, r)'
      BY <1>1, <1>3, <1>4, <3>1 DEF OnQueue
    <3>3. OnEngine(s, r) => OnEngine(s, r)'
      BY <1>1 DEF OnEngine
    <3>4. InSlotNow(s, r) => InSlotNow(s, r)'
      BY <1>1, <1>3, <1>4 DEF InSlotNow
    <3>5. Given(r) => Given(r)'
      BY <1>1, <1>2, <3>1 DEF Given
    <3>6. \A o \in rRequest[r].pages : rNewest'[o] = rNewest[o]
      BY <1>2, <3>1
    <3>7. QED
      BY <1>1, <2>2, <3>1, <3>2, <3>3, <3>4, <3>5, <3>6 DEF SlotOK
  <2>3. QED
    BY <2>1, <2>2
<1>9. TablesOK'
  <2>1. ReadsTyped' /\ Disjoint' /\ Earned'
    BY <1>1, <1>2, <1>3 DEF TablesOK, ReadsTyped, Disjoint, Earned
  <2>2. \A o \in Requests : RequestOK(o)'
    BY <1>1 DEF TablesOK, RequestOK
  <2>3. QED
    BY <1>6, <1>8, <2>1, <2>2 DEF TablesOK
<1>10. GuestsOK'
  <2>1. ASSUME NEW h \in Guests PROVE GuestOK(h)'
    <3> DEFINE r == rGuest[h].request
    <3>1. GuestOK(h)
      BY DEF GuestsOK
    <3>2. ASSUME rGuest[h].at = "publishes", rRequest[r].state = "Copying" PROVE Given(r)'
      <4>1. r \in Requests /\ rRequest[r].slot \in Slots /\ rSlotOf[rRequest[r].slot] = r
            /\ Given(r) /\ rRequest[r].pages \subseteq Buffers
        BY <3>1, <3>2 DEF GuestOK, Referring, Claimed, TablesOK, RequestOK
      <4>2. p \notin rRequest[r].pages
        BY <1>7, <4>1, NoneIsNothing
      <4>3. QED
        BY <1>1, <1>2, <4>1, <4>2 DEF Given
    <3>3. QED
      BY <1>1, <3>1, <3>2 DEF GuestOK
  <2>2. QED
    BY <1>1, <2>1 DEF GuestsOK, OneClaims
<1>11. RenderOK'
  BY <1>1 DEF RenderOK, Readback!Free
<1>12. QED
  BY <1>9, <1>10, <1>11

LEMMA GpuWritesKeep ==
  ASSUME ReadsInv, Readback!GpuWrites
  PROVE  ReadsInv'
<1> USE DEF ReadsInv
<1> DEFINE w == rQueue[1]
           p == w.page
<1>1. /\ rQueue # <<>> /\ Head(rQueue).kind = "write" /\ rQueue' = Tail(rQueue)
      /\ rDevice' = [rDevice EXCEPT ![Head(rQueue).page] = Head(rQueue).version]
      /\ UNCHANGED <<rNewest, rMemory, rGpuDirty, rSlotOf, rHeld, rEngine, rRequest, rGuest, rRender>>
  BY DEF Readback!GpuWrites
<1>2. /\ rQueue \in Seq(CopyJobs \cup WriteJobs) /\ QueueOK
      /\ rDevice \in [Buffers -> Nat] /\ rNewest \in [Buffers -> Nat]
  BY DEF TablesOK, ReadsTyped
<1>3. /\ rQueue' \in Seq(CopyJobs \cup WriteJobs) /\ Head(rQueue) = w /\ 1 \in DOMAIN rQueue
      /\ DOMAIN rQueue = 1 .. Len(rQueue) /\ Len(rQueue) \in Nat
      /\ DOMAIN rQueue' = 1 .. Len(rQueue) - 1
      /\ \A i \in DOMAIN rQueue' : i \in Nat /\ i + 1 \in DOMAIN rQueue
                                   /\ rQueue'[i] = rQueue[i + 1]
      /\ \A i \in DOMAIN rQueue : i # 1 => i - 1 \in DOMAIN rQueue' /\ rQueue'[i - 1] = rQueue[i]
  BY <1>1, <1>2, TailOf
<1>4. \A i \in DOMAIN rQueue : rQueue[i].kind = "write" =>
        rQueue[i].page \in Buffers /\ rQueue[i].version \in Nat
  <2>1. \A i \in DOMAIN rQueue : rQueue[i] \in CopyJobs \cup WriteJobs
    BY <1>2
  <2>2. QED
    BY <2>1 DEF CopyJobs, WriteJobs
<1>5. /\ p \in Buffers /\ w.version \in Nat /\ w.kind = "write"
      /\ rDevice' \in [Buffers -> Nat]
      /\ \A o \in Buffers : rDevice'[o] = IF o = p THEN w.version ELSE rDevice[o]
      /\ rDevice[p] < w.version /\ w.version <= rNewest[p]
  BY <1>1, <1>2, <1>3, <1>4 DEF QueueOK
<1> HIDE DEF p
<1>6. w.page = p
  BY DEF p
<1> HIDE DEF w
<1>7. QueueOK'
  <2>1. ASSUME NEW o \in Buffers
        PROVE  /\ rDevice'[o] <= rNewest'[o]
               /\ rDevice'[o] = rNewest'[o] \/
                    \E i \in DOMAIN rQueue' : /\ rQueue'[i].kind = "write" /\ rQueue'[i].page = o
                                              /\ rQueue'[i].version = rNewest'[o]
    <3>1. rDevice'[o] <= rNewest[o]
      BY <1>2, <1>5 DEF QueueOK
    <3>2. ASSUME rDevice'[o] # rNewest[o]
          PROVE  \E i \in DOMAIN rQueue' : /\ rQueue'[i].kind = "write" /\ rQueue'[i].page = o
                                           /\ rQueue'[i].version = rNewest[o]
      <4>1. rDevice[o] # rNewest[o]
        BY <1>2, <1>5, <3>2
      <4>2. PICK i \in DOMAIN rQueue : /\ rQueue[i].kind = "write" /\ rQueue[i].page = o
                                       /\ rQueue[i].version = rNewest[o]
        BY <1>2, <4>1 DEF QueueOK
      <4>3. i # 1
        BY <1>5, <1>6, <3>2, <4>2 DEF w
      <4>4. QED
        BY <1>3, <4>2, <4>3
    <3>3. QED
      BY <1>1, <3>1, <3>2
  <2>2. ASSUME NEW i \in DOMAIN rQueue', rQueue'[i].kind = "write"
        PROVE  /\ rDevice'[rQueue'[i].page] < rQueue'[i].version
               /\ rQueue'[i].version <= rNewest'[rQueue'[i].page]
    <3>1. /\ i \in Nat /\ i + 1 \in DOMAIN rQueue /\ rQueue'[i] = rQueue[i + 1]
          /\ rQueue[i + 1].kind = "write" /\ rQueue[i + 1].page \in Buffers
          /\ rDevice[rQueue[i + 1].page] < rQueue[i + 1].version
          /\ rQueue[i + 1].version <= rNewest[rQueue[i + 1].page]
      BY <1>2, <1>3, <1>4, <2>2 DEF QueueOK
    <3>2. 1 < i + 1 /\ (rQueue[i + 1].page = p => w.version < rQueue[i + 1].version)
      <4>1. 1 < i + 1
        BY <1>3, <3>1
      <4>2. QED
        BY <1>2, <1>3, <1>5, <1>6, <3>1, <4>1 DEF QueueOK, w
    <3>3. QED
      BY <1>1, <1>5, <3>1, <3>2
  <2>3. ASSUME NEW i \in DOMAIN rQueue', NEW j \in DOMAIN rQueue', i < j,
               rQueue'[i].kind = "write", rQueue'[j].kind = "write",
               rQueue'[i].page = rQueue'[j].page
        PROVE  rQueue'[i].version < rQueue'[j].version
    <3>1. i + 1 < j + 1
      BY <1>3, <2>3
    <3>2. QED
      BY <1>2, <1>3, <2>3, <3>1 DEF QueueOK
  <2>4. QED
    BY <2>1, <2>2, <2>3 DEF QueueOK
<1>8. ASSUME NEW s \in Slots PROVE SlotOK(s)'
  <2> DEFINE r == rSlotOf[s]
  <2>1. SlotOK(s)
    BY DEF TablesOK
  <2>2. ASSUME OnQueue(s, r) PROVE OnQueue(s, r)'
    <3>1. PICK k \in DOMAIN rQueue :
            /\ rQueue[k].kind = "copy" /\ rQueue[k].request = r /\ rQueue[k].slot = s
            /\ rQueue[k].pages = rRequest[r].pages
            /\ \A j \in DOMAIN rQueue : j > k =>
                 /\ rQueue[j].kind = "copy" => rQueue[j].slot # s
                 /\ rQueue[j].kind = "write" => rQueue[j].page \notin rRequest[r].pages
      BY <2>2 DEF OnQueue
    <3>2. k # 1 /\ k \in Nat
      BY <1>3, <1>5, <3>1 DEF w
    <3>3. /\ k - 1 \in DOMAIN rQueue' /\ rQueue'[k - 1] = rQueue[k]
          /\ \A j \in DOMAIN rQueue' : j > k - 1 => j + 1 > k
      BY <1>3, <3>1, <3>2
    <3>4. QED
      BY <1>1, <1>3, <2>2, <3>1, <3>3 DEF OnQueue
  <2>3. OnEngine(s, r) => OnEngine(s, r)'
    BY <1>1 DEF OnEngine
  <2>4. InSlotNow(s, r) => InSlotNow(s, r)'
    BY <1>1, <1>3 DEF InSlotNow
  <2>5. QED
    BY <1>1, <2>1, <2>2, <2>3, <2>4 DEF SlotOK, Given
<1>9. TablesOK'
  <2>1. ReadsTyped' /\ Disjoint' /\ Earned'
    BY <1>1, <1>3, <1>5 DEF TablesOK, ReadsTyped, Disjoint, Earned
  <2>2. \A o \in Requests : RequestOK(o)'
    BY <1>1 DEF TablesOK, RequestOK
  <2>3. QED
    BY <1>7, <1>8, <2>1, <2>2 DEF TablesOK
<1>10. GuestsOK' /\ RenderOK'
  BY <1>1 DEF GuestsOK, GuestOK, OneClaims, Given, RenderOK, Alone
<1>11. QED
  BY <1>9, <1>10

\* What a copy brings into its slot.
LEMMA CopyBrings ==
  ASSUME ReadsTyped, NEW c \in CopyJobs, Readback!Copied(c)
  PROVE  /\ rHeld' \in [Slots -> [Buffers -> Nat]]
         /\ \A s \in Slots : s # c.slot => rHeld'[s] = rHeld[s]
         /\ \A p \in c.pages : rHeld'[c.slot][p] = rDevice[p]
<1>1. c.slot \in Slots /\ c.pages \subseteq Buffers
  BY DEF CopyJobs
<1> DEFINE f == [p \in Buffers |-> IF p \in c.pages THEN rDevice[p] ELSE 0]
<1>2. f \in [Buffers -> Nat] /\ \A p \in c.pages : f[p] = rDevice[p]
  BY <1>1 DEF ReadsTyped
<1>3. rHeld' = [rHeld EXCEPT ![c.slot] = f]
  BY DEF Readback!Copied
<1> HIDE DEF f
<1>4. QED
  BY <1>1, <1>2, <1>3 DEF ReadsTyped

LEMMA GpuCopiesKeep ==
  ASSUME ReadsInv, Readback!GpuCopies
  PROVE  ReadsInv'
<1> USE DEF ReadsInv, Readback!versions
<1> DEFINE c == rQueue[1]
<1>1. /\ rQueue # <<>> /\ Head(rQueue).kind = "copy" /\ rQueue' = Tail(rQueue)
      /\ Readback!Copied(Head(rQueue))
      /\ UNCHANGED <<rNewest, rDevice, rMemory, rGpuDirty, rSlotOf, rEngine, rRequest, rGuest, rRender>>
  BY DEF Readback!GpuCopies
<1>2. rQueue \in Seq(CopyJobs \cup WriteJobs) /\ QueueOK /\ ReadsTyped
  BY DEF TablesOK, ReadsTyped
<1>3. /\ rQueue' \in Seq(CopyJobs \cup WriteJobs) /\ Head(rQueue) = c /\ 1 \in DOMAIN rQueue
      /\ c \in CopyJobs \cup WriteJobs
      /\ DOMAIN rQueue = 1 .. Len(rQueue) /\ Len(rQueue) \in Nat
      /\ DOMAIN rQueue' = 1 .. Len(rQueue) - 1
      /\ \A i \in DOMAIN rQueue' : i \in Nat /\ i + 1 \in DOMAIN rQueue
                                   /\ rQueue'[i] = rQueue[i + 1]
      /\ \A i \in DOMAIN rQueue : i # 1 => i - 1 \in DOMAIN rQueue' /\ rQueue'[i - 1] = rQueue[i]
  BY <1>1, <1>2, TailOf
<1>4. c \in CopyJobs /\ c.kind = "copy" /\ Readback!Copied(c)
  BY <1>1, <1>3 DEF WriteJobs
<1>5. /\ rHeld' \in [Slots -> [Buffers -> Nat]]
      /\ \A s \in Slots : s # c.slot => rHeld'[s] = rHeld[s]
      /\ \A p \in c.pages : rHeld'[c.slot][p] = rDevice[p]
  BY <1>2, <1>4, CopyBrings
<1>6. c = rQueue[1]
  OBVIOUS
<1> HIDE DEF c
<1>7. QueueOK'
  <2>1. ASSUME NEW o \in Buffers
        PROVE  /\ rDevice'[o] <= rNewest'[o]
               /\ rDevice'[o] = rNewest'[o] \/
                    \E i \in DOMAIN rQueue' : /\ rQueue'[i].kind = "write" /\ rQueue'[i].page = o
                                              /\ rQueue'[i].version = rNewest'[o]
    <3>1. ASSUME rDevice[o] # rNewest[o]
          PROVE  \E i \in DOMAIN rQueue' : /\ rQueue'[i].kind = "write" /\ rQueue'[i].page = o
                                           /\ rQueue'[i].version = rNewest[o]
      <4>1. PICK i \in DOMAIN rQueue : /\ rQueue[i].kind = "write" /\ rQueue[i].page = o
                                       /\ rQueue[i].version = rNewest[o]
        BY <1>2, <3>1 DEF QueueOK
      <4>2. i # 1
        BY <1>4, <1>6, <4>1
      <4>3. QED
        BY <1>3, <4>1, <4>2
    <3>2. QED
      BY <1>1, <1>2, <3>1 DEF QueueOK
  <2>2. ASSUME NEW i \in DOMAIN rQueue', rQueue'[i].kind = "write"
        PROVE  /\ rDevice'[rQueue'[i].page] < rQueue'[i].version
               /\ rQueue'[i].version <= rNewest'[rQueue'[i].page]
    BY <1>1, <1>2, <1>3, <2>2 DEF QueueOK
  <2>3. ASSUME NEW i \in DOMAIN rQueue', NEW j \in DOMAIN rQueue', i < j,
               rQueue'[i].kind = "write", rQueue'[j].kind = "write",
               rQueue'[i].page = rQueue'[j].page
        PROVE  rQueue'[i].version < rQueue'[j].version
    <3>1. i + 1 < j + 1
      BY <1>3, <2>3
    <3>2. QED
      BY <1>2, <1>3, <2>3, <3>1 DEF QueueOK
  <2>4. QED
    BY <2>1, <2>2, <2>3 DEF QueueOK
<1>8. ASSUME NEW s \in Slots PROVE SlotOK(s)'
  <2> DEFINE r == rSlotOf[s]
  <2>1. SlotOK(s) /\ (r # NoOne => rRequest[r].pages \subseteq Buffers)
    BY DEF TablesOK, RequestOK, ReadsTyped
  <2>2. ASSUME r # NoOne, OnQueue(s, r) PROVE OnQueue(s, r)' \/ InSlotNow(s, r)'
    <3>1. PICK k \in DOMAIN rQueue :
            /\ rQueue[k].kind = "copy" /\ rQueue[k].request = r /\ rQueue[k].slot = s
            /\ rQueue[k].pages = rRequest[r].pages
            /\ \A j \in DOMAIN rQueue : j > k =>
                 /\ rQueue[j].kind = "copy" => rQueue[j].slot # s
                 /\ rQueue[j].kind = "write" => rQueue[j].page \notin rRequest[r].pages
      BY <2>2 DEF OnQueue
    <3>2. \A j \in DOMAIN rEngine : rEngine[j].slot # s
      BY <2>2 DEF OnQueue
    <3>3. CASE k = 1
      <4>1. c.slot = s /\ c.pages = rRequest[r].pages
        BY <1>6, <3>1, <3>3
      <4>2. \A j \in DOMAIN rQueue' : j + 1 \in DOMAIN rQueue /\ j + 1 > 1
                                      /\ rQueue'[j] = rQueue[j + 1]
        BY <1>3
      <4>3. \A j \in DOMAIN rQueue' : rQueue'[j].kind = "copy" => rQueue'[j].slot # s
        BY <3>1, <3>3, <4>2
      <4>4. ASSUME NEW p \in rRequest[r].pages PROVE rDevice[p] = rNewest[p]
        <5>1. p \in Buffers
          BY <2>1, <2>2
        <5>2. ASSUME NEW i \in DOMAIN rQueue, rQueue[i].kind = "write", rQueue[i].page = p
              PROVE  FALSE
          <6>1. i # 1
            BY <1>4, <1>6, <5>2
          <6>2. i > 1
            BY <1>3, <6>1
          <6>3. QED
            BY <3>1, <3>3, <5>2, <6>2
        <5>3. QED
          BY <1>2, <5>1, <5>2 DEF QueueOK
      <4>5. \A p \in rRequest[r].pages : rHeld'[s][p] = rRequest[r].versions[p]
        BY <1>5, <2>1, <2>2, <4>1, <4>4 DEF SlotOK
      <4>6. QED
        BY <1>1, <3>2, <4>3, <4>5 DEF InSlotNow
    <3>4. CASE k # 1
      <4>1. /\ k - 1 \in DOMAIN rQueue' /\ rQueue'[k - 1] = rQueue[k]
            /\ \A j \in DOMAIN rQueue' : j > k - 1 => j + 1 > k
        BY <1>3, <3>1, <3>4
      <4>2. QED
        BY <1>1, <1>3, <3>1, <3>2, <4>1 DEF OnQueue
    <3>5. QED
      BY <3>3, <3>4
  <2>3. OnEngine(s, r) => OnEngine(s, r)'
    BY <1>1 DEF OnEngine
  <2>4. InSlotNow(s, r) => InSlotNow(s, r)'
    <3>1. InSlotNow(s, r) => c.slot # s
      BY <1>3, <1>4, <1>6 DEF InSlotNow
    <3>2. InSlotNow(s, r) => rHeld'[s] = rHeld[s]
      BY <1>5, <3>1
    <3>3. \A j \in DOMAIN rQueue' : \E i \in DOMAIN rQueue : rQueue'[j] = rQueue[i]
      BY <1>3
    <3>4. QED
      BY <1>1, <3>2, <3>3 DEF InSlotNow
  <2>5. QED
    BY <1>1, <2>1, <2>2, <2>3, <2>4 DEF SlotOK, Given
<1>9. TablesOK'
  <2>1. ReadsTyped' /\ Disjoint' /\ Earned'
    BY <1>1, <1>3, <1>5 DEF TablesOK, ReadsTyped, Disjoint, Earned
  <2>2. \A o \in Requests : RequestOK(o)'
    BY <1>1 DEF TablesOK, RequestOK
  <2>3. QED
    BY <1>7, <1>8, <2>1, <2>2 DEF TablesOK
<1>10. GuestsOK' /\ RenderOK'
  BY <1>1 DEF GuestsOK, GuestOK, OneClaims, Given, RenderOK, Alone
<1>11. QED
  BY <1>9, <1>10

LEMMA EngineCopiesKeep ==
  ASSUME ReadsInv, Readback!EngineCopies
  PROVE  ReadsInv'
<1> USE DEF ReadsInv, Readback!versions
<1> DEFINE c == rEngine[1]
<1>1. /\ rEngine # <<>> /\ rEngine' = Tail(rEngine) /\ Readback!Copied(Head(rEngine))
      /\ \A p \in Head(rEngine).pages :
           rDevice[p] >= rRequest[Head(rEngine).request].versions[p]
      /\ \A i \in DOMAIN rQueue : rQueue[i].kind = "copy" => rQueue[i].slot # Head(rEngine).slot
      /\ UNCHANGED <<rNewest, rDevice, rMemory, rGpuDirty, rSlotOf, rQueue, rRequest, rGuest, rRender>>
  BY DEF Readback!EngineCopies, Readback!Range
<1>2. rEngine \in Seq(CopyJobs) /\ QueueOK /\ ReadsTyped
  BY DEF TablesOK, ReadsTyped
<1>3. /\ rEngine' \in Seq(CopyJobs) /\ Head(rEngine) = c /\ 1 \in DOMAIN rEngine
      /\ c \in CopyJobs
      /\ DOMAIN rEngine = 1 .. Len(rEngine) /\ Len(rEngine) \in Nat
      /\ DOMAIN rEngine' = 1 .. Len(rEngine) - 1
      /\ \A i \in DOMAIN rEngine' : i \in Nat /\ i + 1 \in DOMAIN rEngine
                                    /\ rEngine'[i] = rEngine[i + 1]
      /\ \A i \in DOMAIN rEngine :
           i # 1 => i - 1 \in DOMAIN rEngine' /\ rEngine'[i - 1] = rEngine[i]
  BY <1>1, <1>2, TailOf
<1>4. /\ rHeld' \in [Slots -> [Buffers -> Nat]]
      /\ \A s \in Slots : s # c.slot => rHeld'[s] = rHeld[s]
      /\ \A p \in c.pages : rHeld'[c.slot][p] = rDevice[p]
  BY <1>1, <1>2, <1>3, CopyBrings
<1>5. c = rEngine[1]
  OBVIOUS
<1> HIDE DEF c
<1>6. QueueOK'
  BY <1>1, <1>2 DEF QueueOK
<1>7. ASSUME NEW s \in Slots PROVE SlotOK(s)'
  <2> DEFINE r == rSlotOf[s]
  <2>1. /\ SlotOK(s)
        /\ r # NoOne => /\ rRequest[r].pages \subseteq Buffers
                        /\ rRequest[r].versions \in [Buffers -> Nat]
    BY DEF TablesOK, RequestOK, ReadsTyped
  <2>2. ASSUME r # NoOne, OnEngine(s, r) PROVE OnEngine(s, r)' \/ InSlotNow(s, r)'
    <3>1. PICK k \in DOMAIN rEngine :
            /\ rEngine[k].kind = "copy" /\ rEngine[k].request = r /\ rEngine[k].slot = s
            /\ rEngine[k].pages = rRequest[r].pages
            /\ \A j \in DOMAIN rEngine : j # k => rEngine[j].slot # s
      BY <2>2 DEF OnEngine
    <3>2. CASE k = 1
      <4>1. c.slot = s /\ c.pages = rRequest[r].pages /\ c.request = r
        BY <1>5, <3>1, <3>2
      <4>2. \A j \in DOMAIN rEngine' : rEngine'[j].slot # s
        <5>1. \A j \in DOMAIN rEngine' : j + 1 \in DOMAIN rEngine /\ j + 1 # 1
                                         /\ rEngine'[j] = rEngine[j + 1]
          BY <1>3
        <5>2. QED
          BY <3>1, <3>2, <5>1
      <4>3. ASSUME NEW p \in rRequest[r].pages PROVE rHeld'[s][p] = rRequest[r].versions[p]
        <5>1. p \in Buffers /\ rRequest[r].versions[p] = rNewest[p]
          BY <2>1, <2>2 DEF SlotOK
        <5>2. rDevice[p] >= rRequest[r].versions[p] /\ rDevice[p] <= rNewest[p]
          BY <1>1, <1>2, <1>3, <4>1, <5>1 DEF QueueOK
        <5>3. rDevice[p] = rNewest[p]
          BY <1>2, <5>1, <5>2 DEF ReadsTyped
        <5>4. QED
          BY <1>4, <4>1, <5>1, <5>3
      <4>4. QED
        BY <1>1, <1>3, <4>1, <4>2, <4>3 DEF InSlotNow
    <3>3. CASE k # 1
      <4>1. /\ k - 1 \in DOMAIN rEngine' /\ rEngine'[k - 1] = rEngine[k]
            /\ \A j \in DOMAIN rEngine' : j # k - 1 => j + 1 # k
        BY <1>3, <3>1, <3>3
      <4>2. QED
        BY <1>1, <1>3, <3>1, <4>1 DEF OnEngine
    <3>4. QED
      BY <3>2, <3>3
  <2>3. OnQueue(s, r) => OnQueue(s, r)'
    BY <1>1, <1>3 DEF OnQueue
  <2>4. InSlotNow(s, r) => InSlotNow(s, r)'
    <3>1. InSlotNow(s, r) => c.slot # s
      BY <1>3, <1>5 DEF InSlotNow
    <3>2. QED
      BY <1>1, <1>3, <1>4, <3>1 DEF InSlotNow
  <2>5. QED
    BY <1>1, <2>1, <2>2, <2>3, <2>4 DEF SlotOK, Given
<1>8. TablesOK'
  <2>1. ReadsTyped' /\ Disjoint' /\ Earned'
    BY <1>1, <1>3, <1>4 DEF TablesOK, ReadsTyped, Disjoint, Earned
  <2>2. \A o \in Requests : RequestOK(o)'
    BY <1>1 DEF TablesOK, RequestOK
  <2>3. QED
    BY <1>6, <1>7, <2>1, <2>2 DEF TablesOK
<1>9. GuestsOK' /\ RenderOK'
  BY <1>1 DEF GuestsOK, GuestOK, OneClaims, Given, RenderOK, Alone
<1>10. QED
  BY <1>8, <1>9
\* The request of a new slot, field by field.
LEMMA FreshRequest ==
  ASSUME NEW s, NEW w, NEW v
  PROVE  [Readback!NoRequest EXCEPT !.slot = s, !.pages = w, !.versions = v]
           = [slot |-> s, pages |-> w, versions |-> v,
              state |-> "Pending", copying |-> FALSE, copied |-> FALSE]
<1> DEFINE n == Readback!NoRequest
           Fields == {"slot", "pages", "versions", "state", "copying", "copied"}
           Changed(f) == IF f = "slot" THEN s ELSE IF f = "pages" THEN w
                         ELSE IF f = "versions" THEN v ELSE n[f]
<1>1. n = [slot |-> n.slot, pages |-> n.pages, versions |-> n.versions, state |-> n.state,
           copying |-> n.copying, copied |-> n.copied]
  BY DEF Readback!NoRequest
<1>2. n.state = "Pending" /\ n.copying = FALSE /\ n.copied = FALSE
  BY DEF Readback!NoRequest
<1> HIDE DEF n
<1>3. n = [f \in Fields |-> n[f]]
  BY <1>1
<1>4. [n EXCEPT !.slot = s, !.pages = w, !.versions = v] = [f \in Fields |-> Changed(f)]
  BY <1>3
<1>5. [slot |-> s, pages |-> w, versions |-> v, state |-> n.state,
       copying |-> n.copying, copied |-> n.copied] = [f \in Fields |-> Changed(f)]
  OBVIOUS
<1>6. [n EXCEPT !.slot = s, !.pages = w, !.versions = v]
        = [slot |-> s, pages |-> w, versions |-> v,
           state |-> "Pending", copying |-> FALSE, copied |-> FALSE]
  <2> HIDE DEF Changed, Fields
  <2>1. QED
    BY <1>2, <1>4, <1>5
<1>7. QED
  BY <1>6 DEF n


\* A new request takes pages that no request is for and a slot that no copy of the
\* copy engine is for.
LEMMA PlacePicks ==
  ASSUME ReadsInv, Readback!Place
  PROVE  \E g \in Guests, s \in Slots, r \in Requests, window \in SUBSET Buffers :
           /\ rSlotOf[s] = NoOne /\ \A i \in DOMAIN rEngine : rEngine[i].slot # s
           /\ \A t \in Slots : rSlotOf[t] # r
           /\ \A h \in Guests : rGuest[h].request # r
           /\ window \subseteq rGpuDirty /\ \A p \in window : Alone(p)
           /\ rSlotOf' = [rSlotOf EXCEPT ![s] = r]
           /\ rGuest' = [rGuest EXCEPT ![g].at = "has", ![g].request = r]
           /\ rRequest' = [rRequest EXCEPT ![r] =
                [slot |-> s, pages |-> window,
                 versions |-> [p \in Buffers |-> IF p \in window THEN rNewest[p] ELSE 0],
                 state |-> "Pending", copying |-> FALSE, copied |-> FALSE]]
           /\ \E c \in {[kind |-> "copy", request |-> r, slot |-> s, pages |-> window]} :
                \/ rEngine' = Append(rEngine, c) /\ UNCHANGED rQueue
                \/ rQueue' = Append(rQueue, c) /\ UNCHANGED rEngine
<1> USE DEF ReadsInv, Readback!versions
<1> DEFINE g == rRender.guest
           s == rRender.slot
           r == CHOOSE q \in Readback!Unused : TRUE
           available == rGpuDirty \ UNION {Readback!On(t).pages : t \in Readback!Active}
<1>1. /\ rRender.at = "places" /\ Readback!SlotIsFree(s) /\ r \in Readback!Unused
      /\ rSlotOf' = [rSlotOf EXCEPT ![s] = r]
      /\ rGuest' = [rGuest EXCEPT ![g].at = "has", ![g].request = r]
  BY DEF Readback!Place
<1>2. PICK window \in {available, {rGuest[g].page}} :
        LET c == [kind |-> "copy", request |-> r, slot |-> s, pages |-> window]
        IN /\ rRequest' = [rRequest EXCEPT ![r] =
                [Readback!NoRequest EXCEPT !.slot = s, !.pages = window,
                   !.versions = [p \in Buffers |-> IF p \in window THEN rNewest[p] ELSE 0]]]
           /\ \/ rEngine' = Append(rEngine, c) /\ UNCHANGED rQueue
              \/ rQueue' = Append(rQueue, c) /\ UNCHANGED rEngine
  BY DEF Readback!Place
<1>3. /\ r \in Requests /\ \A t \in Slots : rSlotOf[t] # r
      /\ \A h \in Guests : rGuest[h].request # r
  BY <1>1 DEF Readback!Unused
<1>4. /\ g \in Guests /\ s \in Slots /\ rSlotOf[s] = NoOne
      /\ rGuest[g].page \in rGpuDirty /\ Alone(rGuest[g].page)
      /\ \A i \in DOMAIN rEngine : rEngine[i].slot # s
  BY <1>1 DEF RenderOK, Readback!SlotIsFree, Readback!Range
<1>5. window \subseteq rGpuDirty /\ window \subseteq Buffers /\ \A p \in window : Alone(p)
  BY <1>2, <1>4 DEF TablesOK, ReadsTyped, Alone, Readback!On, Readback!Active
<1> DEFINE v == [p \in Buffers |-> IF p \in window THEN rNewest[p] ELSE 0]
<1>6. rRequest' = [rRequest EXCEPT ![r] =
        [slot |-> s, pages |-> window, versions |-> v,
         state |-> "Pending", copying |-> FALSE, copied |-> FALSE]]
  <2>1. /\ [Readback!NoRequest EXCEPT !.slot = s, !.pages = window, !.versions = v]
              = [slot |-> s, pages |-> window, versions |-> v,
                 state |-> "Pending", copying |-> FALSE, copied |-> FALSE]
    <3> HIDE DEF v, g, s, r, available
    <3>1. QED
      BY FreshRequest
  <2>2. rRequest' = [rRequest EXCEPT ![r] =
          [Readback!NoRequest EXCEPT !.slot = s, !.pages = window, !.versions = v]]
    BY <1>2
  <2>3. QED
    BY <2>1, <2>2
<1>7. \E c \in {[kind |-> "copy", request |-> r, slot |-> s, pages |-> window]} :
        \/ rEngine' = Append(rEngine, c) /\ UNCHANGED rQueue
        \/ rQueue' = Append(rQueue, c) /\ UNCHANGED rEngine
  BY <1>2
<1> HIDE DEF g, s, r, available
<1>8. QED
  BY <1>1, <1>3, <1>4, <1>5, <1>6, <1>7

LEMMA PlaceKeeps ==
  ASSUME ReadsInv, Readback!Place
  PROVE  ReadsInv'
<1> USE DEF ReadsInv, Readback!versions
<1>1. /\ UNCHANGED <<rNewest, rDevice, rMemory, rGpuDirty, rHeld>>
      /\ rRender' = Readback!Free
  BY DEF Readback!Place
<1>2. PICK g \in Guests, s \in Slots, r \in Requests, window \in SUBSET Buffers :
        /\ rSlotOf[s] = NoOne /\ \A i \in DOMAIN rEngine : rEngine[i].slot # s
        /\ \A t \in Slots : rSlotOf[t] # r
        /\ \A h \in Guests : rGuest[h].request # r
        /\ window \subseteq rGpuDirty /\ \A p \in window : Alone(p)
        /\ rSlotOf' = [rSlotOf EXCEPT ![s] = r]
        /\ rGuest' = [rGuest EXCEPT ![g].at = "has", ![g].request = r]
        /\ rRequest' = [rRequest EXCEPT ![r] =
             [slot |-> s, pages |-> window,
              versions |-> [p \in Buffers |-> IF p \in window THEN rNewest[p] ELSE 0],
              state |-> "Pending", copying |-> FALSE, copied |-> FALSE]]
        /\ \E c \in {[kind |-> "copy", request |-> r, slot |-> s, pages |-> window]} :
             \/ rEngine' = Append(rEngine, c) /\ UNCHANGED rQueue
             \/ rQueue' = Append(rQueue, c) /\ UNCHANGED rEngine
  BY PlacePicks
<1>3. PICK c \in {[kind |-> "copy", request |-> r, slot |-> s, pages |-> window]} :
        \/ rEngine' = Append(rEngine, c) /\ UNCHANGED rQueue
        \/ rQueue' = Append(rQueue, c) /\ UNCHANGED rEngine
  BY <1>2
<1>4. c \in CopyJobs /\ c.kind = "copy" /\ c.request = r /\ c.slot = s /\ c.pages = window
  BY <1>3 DEF CopyJobs
<1> DEFINE x == [slot |-> s, pages |-> window,
                 versions |-> [p \in Buffers |-> IF p \in window THEN rNewest[p] ELSE 0],
                 state |-> "Pending", copying |-> FALSE, copied |-> FALSE]
<1>5. /\ x.slot = s /\ x.pages = window /\ x.state = "Pending" /\ ~x.copying /\ ~x.copied
      /\ x.versions \in [Buffers -> Nat] /\ \A p \in window : x.versions[p] = rNewest[p]
      /\ x = [slot |-> x.slot, pages |-> x.pages, versions |-> x.versions, state |-> x.state,
              copying |-> x.copying, copied |-> x.copied]
  BY DEF TablesOK, ReadsTyped
<1>6. rRequest' = [rRequest EXCEPT ![r] = x]
  BY <1>2
<1> HIDE DEF x
<1>7. /\ DOMAIN rRequest' = Requests /\ rRequest'[r] = x
      /\ \A o \in Requests : o # r => rRequest'[o] = rRequest[o]
      /\ rSlotOf' \in [Slots -> Requests \cup {NoOne}]
      /\ rSlotOf'[s] = r /\ \A t \in Slots : t # s => rSlotOf'[t] = rSlotOf[t]
  BY <1>2, <1>6 DEF TablesOK, ReadsTyped
<1>8. /\ rQueue \in Seq(CopyJobs \cup WriteJobs) /\ rEngine \in Seq(CopyJobs)
      /\ c \in CopyJobs \cup WriteJobs
  BY <1>4 DEF TablesOK, ReadsTyped
<1>9. /\ rQueue' \in Seq(CopyJobs \cup WriteJobs) /\ rEngine' \in Seq(CopyJobs)
      /\ \A i \in DOMAIN rQueue : i \in DOMAIN rQueue' /\ rQueue'[i] = rQueue[i]
      /\ \A i \in DOMAIN rEngine : i \in DOMAIN rEngine' /\ rEngine'[i] = rEngine[i]
      /\ \A i \in DOMAIN rQueue' : i \in DOMAIN rQueue \/ rQueue'[i] = c
      /\ \A i \in DOMAIN rEngine' : i \in DOMAIN rEngine \/ rEngine'[i] = c
  <2>1. CASE rEngine' = Append(rEngine, c) /\ UNCHANGED rQueue
    BY <1>4, <1>8, <2>1, AppendTo
  <2>2. CASE rQueue' = Append(rQueue, c) /\ UNCHANGED rEngine
    BY <1>8, <2>2, AppendTo
  <2>3. QED
    BY <1>3, <2>1, <2>2
<1>10. QueueOK'
  BY <1>1, <1>4, <1>9 DEF TablesOK, QueueOK
<1>11. OnQueue(s, r)' \/ OnEngine(s, r)'
  <2>1. CASE rEngine' = Append(rEngine, c) /\ UNCHANGED rQueue
    <3>1. /\ DOMAIN rEngine' = 1 .. Len(rEngine) + 1 /\ Len(rEngine) \in Nat
          /\ rEngine'[Len(rEngine) + 1] = c
          /\ \A i \in DOMAIN rEngine' : i # Len(rEngine) + 1 =>
               i \in DOMAIN rEngine /\ rEngine'[i] = rEngine[i]
      BY <1>4, <1>8, <2>1, AppendTo
    <3>2. \A i \in DOMAIN rEngine' : i # Len(rEngine) + 1 => rEngine'[i].slot # s
      BY <1>2, <3>1
    <3>3. Len(rEngine) + 1 \in DOMAIN rEngine'
      BY <3>1
    <3>4. QED
      BY <1>4, <1>5, <1>7, <3>1, <3>2, <3>3 DEF OnEngine
  <2>2. CASE rQueue' = Append(rQueue, c) /\ UNCHANGED rEngine
    <3>1. /\ DOMAIN rQueue' = 1 .. Len(rQueue) + 1 /\ Len(rQueue) \in Nat
          /\ rQueue'[Len(rQueue) + 1] = c
      BY <1>8, <2>2, AppendTo
    <3>2. Len(rQueue) + 1 \in DOMAIN rQueue' /\ \A j \in DOMAIN rQueue' : ~(j > Len(rQueue) + 1)
      BY <3>1
    <3>3. \A k \in DOMAIN rEngine' : rEngine'[k].slot # s
      BY <1>2, <2>2
    <3>4. rRequest'[r].pages = window
      BY <1>5, <1>7
    <3>5. \E k \in DOMAIN rQueue' :
             /\ rQueue'[k].kind = "copy" /\ rQueue'[k].request = r /\ rQueue'[k].slot = s
             /\ rQueue'[k].pages = rRequest'[r].pages
             /\ \A j \in DOMAIN rQueue' : j > k =>
                  /\ rQueue'[j].kind = "copy" => rQueue'[j].slot # s
                  /\ rQueue'[j].kind = "write" => rQueue'[j].page \notin rRequest'[r].pages
      <4>1. \A j \in DOMAIN rQueue' : j > Len(rQueue) + 1 =>
              /\ rQueue'[j].kind = "copy" => rQueue'[j].slot # s
              /\ rQueue'[j].kind = "write" => rQueue'[j].page \notin rRequest'[r].pages
        BY <3>2
      <4>2. QED
        BY <1>4, <3>1, <3>2, <3>4, <4>1
    <3>6. QED
      BY <3>3, <3>5 DEF OnQueue
  <2>3. QED
    BY <1>3, <2>1, <2>2
<1>12. SlotOK(s)'
  BY <1>1, <1>2, <1>5, <1>7, <1>11 DEF SlotOK
<1>13. ASSUME NEW t \in Slots, t # s PROVE SlotOK(t)'
  <2> DEFINE o == rSlotOf[t]
  <2>1. CASE o = NoOne
    BY <1>7, <1>13, <2>1 DEF SlotOK
  <2>2. CASE o # NoOne
    <3>1. /\ o \in Requests /\ o # r /\ rSlotOf'[t] = o /\ rRequest'[o] = rRequest[o]
          /\ SlotOK(t)
      BY <1>2, <1>7, <1>13, <2>2 DEF TablesOK, ReadsTyped
    <3>2. OnQueue(t, o) => OnQueue(t, o)'
      <4>1. SUFFICES ASSUME OnQueue(t, o)
                     PROVE  /\ \E k \in DOMAIN rQueue' :
                                 /\ rQueue'[k].kind = "copy" /\ rQueue'[k].request = o
                                 /\ rQueue'[k].slot = t
                                 /\ rQueue'[k].pages = rRequest[o].pages
                                 /\ \A j \in DOMAIN rQueue' : j > k =>
                                      /\ rQueue'[j].kind = "copy" => rQueue'[j].slot # t
                                      /\ rQueue'[j].kind = "write" =>
                                           rQueue'[j].page \notin rRequest[o].pages
                            /\ \A k \in DOMAIN rEngine' : rEngine'[k].slot # t
        BY <3>1 DEF OnQueue
      <4>2. QED
        BY <1>4, <1>9, <1>13, <4>1 DEF OnQueue
    <3>3. OnEngine(t, o) => OnEngine(t, o)'
      BY <1>4, <1>9, <1>13, <3>1 DEF OnEngine
    <3>4. InSlotNow(t, o) => InSlotNow(t, o)'
      BY <1>1, <1>4, <1>9, <1>13, <3>1 DEF InSlotNow
    <3>5. QED
      BY <1>1, <2>2, <3>1, <3>2, <3>3, <3>4 DEF SlotOK, Given
  <2>3. QED
    BY <2>1, <2>2
<1>14. TablesOK'
  <2>1. ReadsTyped' /\ Earned'
    BY <1>1, <1>7, <1>9 DEF TablesOK, ReadsTyped, Earned
  <2>2. Disjoint'
    <3>1. \A t \in Slots : t # s /\ rSlotOf[t] # NoOne =>
            /\ rSlotOf'[t] = rSlotOf[t] /\ rRequest'[rSlotOf[t]] = rRequest[rSlotOf[t]]
            /\ rRequest[rSlotOf[t]].pages \cap window = {}
      BY <1>2, <1>7 DEF TablesOK, ReadsTyped, Alone
    <3>2. QED
      BY <1>5, <1>7, <3>1 DEF TablesOK, Disjoint
  <2>3. ASSUME NEW o \in Requests PROVE RequestOK(o)'
    <3>1. CASE o = r
      BY <1>5, <1>7, <3>1 DEF RequestOK
    <3>2. CASE o # r
      BY <1>7, <3>2 DEF TablesOK, RequestOK
    <3>3. QED
      BY <3>1, <3>2
  <2>4. QED
    BY <1>10, <1>12, <1>13, <2>1, <2>2, <2>3 DEF TablesOK
<1>15. /\ DOMAIN rGuest' = Guests /\ \A h \in Guests \ {g} : rGuest'[h] = rGuest[h]
       /\ rGuest'[g] = [at |-> "has", page |-> rGuest[g].page, request |-> r,
                        writes |-> rGuest[g].writes]
  <2>1. rGuest[g] = [at |-> rGuest[g].at, page |-> rGuest[g].page,
                     request |-> rGuest[g].request, writes |-> rGuest[g].writes]
    BY DEF GuestsOK, GuestOK
  <2>2. QED
    BY <1>2, <2>1 DEF GuestsOK
<1>16. GuestsOK'
  <2>1. GuestOK(g)'
    BY <1>5, <1>7, <1>15 DEF GuestOK, Referring, Claimed
  <2>2. ASSUME NEW h \in Guests \ {g} PROVE GuestOK(h)'
    <3>1. GuestOK(h) /\ rGuest[h].request # r
      BY <1>2 DEF GuestsOK
    <3>2. rGuest[h].at \in Referring =>
            /\ rGuest[h].request \in Requests
            /\ rRequest'[rGuest[h].request] = rRequest[rGuest[h].request]
            /\ rSlotOf[rRequest[rGuest[h].request].slot] = rGuest[h].request
                 => rSlotOf'[rRequest[rGuest[h].request].slot] = rGuest[h].request
      BY <1>2, <1>7, <3>1, NoneIsNothing DEF GuestOK
    <3>3. QED
      BY <1>1, <1>15, <3>1, <3>2 DEF GuestOK, Referring, Claimed, Given
  <2>3. OneClaims'
    BY <1>15 DEF GuestsOK, OneClaims, Claimed
  <2>4. QED
    BY <1>15, <2>1, <2>2, <2>3 DEF GuestsOK
<1>17. RenderOK'
  BY <1>1 DEF RenderOK, Readback!Free
<1>18. QED
  BY <1>14, <1>16, <1>17

LEMMA ReadsStep ==
  ASSUME ReadsInv, Readback!Next \/ UNCHANGED readVars
  PROVE  ReadsInv'
<1>1. CASE UNCHANGED readVars
  <2>1. TablesOK'
    BY <1>1, TablesStay DEF tables, readVars, ReadsInv
  <2>2. GuestsOK' /\ RenderOK'
    BY <1>1 DEF readVars, ReadsInv, GuestsOK, GuestOK, OneClaims, Given, RenderOK, Alone
  <2>3. QED
    BY <2>1, <2>2 DEF ReadsInv
<1>2. CASE Readback!GpuRuns \/ Readback!RenderRuns
  BY <1>2, GpuWritesKeep, GpuCopiesKeep, EngineCopiesKeep, TakeSlotKeeps, PlaceKeeps,
     DrainsKeep, ReadOnGpuKeeps, DetachKeeps, UsedKeeps, RecordKeeps
     DEF Readback!GpuRuns, Readback!RenderRuns
<1>3. ASSUME NEW g \in Guests, Readback!GuestRuns(g) \/ Readback!Command(g)
      PROVE  ReadsInv'
  BY <1>3, ClaimKeepsReads, WaitsKeeps, StartsKeeps, WriteBackKeeps, PublishesKeeps,
     BeginKeeps, EndKeeps DEF Readback!GuestRuns, Readback!Command
<1>4. ASSUME NEW g \in Guests, NEW p \in Buffers, NEW writes \in BOOLEAN,
             Readback!Ask(g, p, writes)
      PROVE  ReadsInv'
  BY <1>4, AskKeeps
<1>5. ASSUME NEW p \in Buffers, Readback!Use(p, "drains") \/ Readback!Use(p, "writes")
      PROVE  ReadsInv'
  BY <1>5, UseKeeps
<1>6. QED
  BY <1>1, <1>2, <1>3, <1>4, <1>5 DEF Readback!Next

\* What a guest thread reads of memory the GPU wrote is the last write to it, and its
\* request's slot is nobody else's until it has read it.
THEOREM GuestsReadTheLastWrite == MemorySpec => []ReadsAreSound
<1>1. MemoryInit => ReadsInv
  BY ReadsBegin DEF MemoryInit
<1>2. ReadsInv /\ [MemoryNext]_memoryVars => ReadsInv'
  <2> SUFFICES ASSUME ReadsInv, [MemoryNext]_memoryVars PROVE ReadsInv'
    OBVIOUS
  <2>1. Readback!Next \/ UNCHANGED readVars
    BY DEF MemoryNext, OfFence, OfResidency, OfReads, memoryVars
  <2>2. QED
    BY <2>1, ReadsStep
<1>3. ReadsInv => ReadsAreSound
  <2> SUFFICES ASSUME ReadsInv PROVE ReadsAreSound
    OBVIOUS
  <2>1. Readback!OwnershipIsEarned
    BY DEF ReadsInv, TablesOK, Earned, Readback!OwnershipIsEarned
  <2>2. ASSUME NEW g \in Guests, rGuest[g].at = "writes"
        PROVE  \A p \in Readback!Mine(g).pages :
                 rHeld[Readback!Mine(g).slot][p] = Readback!Mine(g).versions[p]
    <3> DEFINE r == rGuest[g].request
    <3>1. /\ r \in Requests /\ rRequest[r].slot \in Slots /\ rRequest[r].state = "Copying"
          /\ rSlotOf[rRequest[r].slot] = r
      BY <2>2 DEF ReadsInv, GuestsOK, GuestOK, Referring, Claimed
    <3>2. InSlotNow(rRequest[r].slot, r)
      BY <3>1, NoneIsNothing DEF ReadsInv, TablesOK, SlotOK
    <3>3. QED
      BY <3>2 DEF InSlotNow, Readback!Mine
  <2>3. QED
    BY <2>1, <2>2 DEF ReadsAreSound, Readback!ReadsAreSound, Readback!CopiesAreTheirs
<1>4. QED
  BY <1>1, <1>2, <1>3, PTL DEF MemorySpec
=============================================================================
