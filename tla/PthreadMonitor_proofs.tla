------------------------ MODULE PthreadMonitor_proofs ------------------------
(***************************************************************************)
(* Proofs about PthreadMonitor, for any threads and any greatest count of  *)
(* a recursive mutex: locks are kept across condition waits, a wakeup is   *)
(* given to one waiter, and mutex and condition implement a monitor.       *)
(***************************************************************************)
EXTENDS PthreadMonitor, TLAPS

NoRepeats == \A i, j \in DOMAIN waiters : waiters[i] = waiters[j] => i = j

\* CondRemoveWaiter takes one thread off the list and leaves the others there.
LEMMA RemovesOne ==
  ASSUME waiters \in Seq(Threads), NoRepeats, NEW t, Removes(t)
  PROVE  /\ waiters' \in Seq(Threads) /\ NoRepeats'
         /\ Listed' = Listed \ {t}
<1>0. Len(waiters) \in Nat /\ DOMAIN waiters = 1..Len(waiters)
  OBVIOUS
<1>1. CASE t \notin Listed
  <2>1. waiters' = waiters
    BY <1>1 DEF Removes
  <2>2. QED
    BY <1>1, <2>1 DEF NoRepeats, Listed
<1>2. CASE t \in Listed
  <2> DEFINE at == CHOOSE i \in DOMAIN waiters : waiters[i] = t
  <2>1. at \in 1..Len(waiters) /\ waiters[at] = t
    BY <1>0, <1>2 DEF Listed
  <2>2. waiters' = [i \in 1..(Len(waiters) - 1) |-> waiters[IF i < at THEN i ELSE i + 1]]
    BY <1>2 DEF Removes
  <2> HIDE DEF at
  <2>3. /\ waiters' \in Seq(Threads) /\ Len(waiters') = Len(waiters) - 1
        /\ DOMAIN waiters' = 1..(Len(waiters) - 1)
        /\ \A i \in 1..(Len(waiters) - 1) :
             waiters'[i] = waiters[IF i < at THEN i ELSE i + 1]
    <3>1. \A i \in 1..(Len(waiters) - 1) : waiters[IF i < at THEN i ELSE i + 1] \in Threads
      BY <1>0, <2>1
    <3>2. Len(waiters) - 1 \in Nat
      BY <1>0, <2>1
    <3> DEFINE e(i) == waiters[IF i < at THEN i ELSE i + 1]
    <3> HIDE DEF e
    <3>3. waiters' = [i \in 1..(Len(waiters) - 1) |-> e(i)]
      BY <2>2 DEF e
    <3>4. waiters' \in Seq(Threads) /\ Len(waiters') = Len(waiters) - 1
      BY <3>1, <3>2, <3>3 DEF e
    <3>5. QED
      BY <3>3, <3>4 DEF e
  <2>4. NoRepeats'
    <3>1. ASSUME NEW i \in 1..(Len(waiters) - 1), NEW j \in 1..(Len(waiters) - 1),
                 waiters'[i] = waiters'[j]
          PROVE  i = j
      <4>1. (IF i < at THEN i ELSE i + 1) = (IF j < at THEN j ELSE j + 1)
        <5> DEFINE k(x) == IF x < at THEN x ELSE x + 1
        <5>1. k(i) \in 1..Len(waiters) /\ k(j) \in 1..Len(waiters)
          BY <1>0, <2>1
        <5>2. waiters[k(i)] = waiters[k(j)]
          BY <2>3, <3>1
        <5> HIDE DEF k
        <5>3. k(i) = k(j)
          BY <1>0, <5>1, <5>2 DEF NoRepeats
        <5>4. QED
          BY <5>3 DEF k
      <4>2. QED
        BY <1>0, <2>1, <4>1
    <3>2. QED
      BY <2>3, <3>1 DEF NoRepeats
  <2>5. ASSUME NEW u \in Listed, u # t
        PROVE  u \in Listed'
    <3>1. PICK i \in 1..Len(waiters) : waiters[i] = u
      BY <1>0 DEF Listed
    <3>2. (IF i < at THEN i ELSE i - 1) \in 1..(Len(waiters) - 1)
      BY <1>0, <2>1, <2>5, <3>1
    <3>3. waiters'[IF i < at THEN i ELSE i - 1] = u
      BY <1>0, <2>1, <2>3, <2>5, <3>1
    <3>4. QED
      BY <2>3, <3>2, <3>3 DEF Listed
  <2>6. ASSUME NEW u \in Listed'
        PROVE  u \in Listed /\ u # t
    <3>1. PICK i \in 1..(Len(waiters) - 1) : waiters'[i] = u
      BY <2>3 DEF Listed
    <3>2. QED
      BY <1>0, <2>1, <2>3, <3>1 DEF Listed, NoRepeats
  <2>7. QED
    BY <2>3, <2>4, <2>5, <2>6
<1>3. QED
  BY <1>1, <1>2

\* One waiter more, at the end.
LEMMA AppendsOne ==
  ASSUME waiters \in Seq(Threads), NoRepeats, NEW t \in Threads, t \notin Listed,
         waiters' = Append(waiters, t)
  PROVE  /\ waiters' \in Seq(Threads) /\ NoRepeats'
         /\ Listed' = Listed \cup {t}
<1>1. /\ waiters' \in Seq(Threads) /\ Len(waiters) \in Nat
      /\ DOMAIN waiters = 1..Len(waiters) /\ DOMAIN waiters' = 1..(Len(waiters) + 1)
      /\ waiters'[Len(waiters) + 1] = t
      /\ \A i \in 1..Len(waiters) : waiters'[i] = waiters[i]
  OBVIOUS
<1>2. \A i \in 1..Len(waiters) : waiters[i] # t
  BY <1>1 DEF Listed
<1>3. NoRepeats'
  BY <1>1, <1>2 DEF NoRepeats
<1>4. Listed' = Listed \cup {t}
  BY <1>1 DEF Listed
<1>5. QED
  BY <1>1, <1>3, <1>4

LEMMA InitHolds == ASSUME PthreadMonitorAssumption, Init PROVE IInv
<1>1. TypeOK
  BY DEF PthreadMonitorAssumption, Init, TypeOK, Locations
<1>2. HoldsAreKept
  BY DEF PthreadMonitorAssumption, Init, HoldsAreKept, DepthIsKept
<1>3. ReadyIsUnlisted
  BY DEF Init, ReadyIsUnlisted, Listed
<1>4. QED
  BY <1>1, <1>2, <1>3 DEF IInv

\* What is true of a thread's locks does not depend on the other threads but
\* through the owner and the count.
LEMMA OthersKeep ==
  ASSUME NEW t \in Threads, NEW u \in Threads, u # t, TypeOK, DepthIsKept(u),
         depth'[u] = depth[u], pc'[u] = pc[u], recurse'[u] = recurse[u],
         (owner # u /\ owner' # u) \/ (owner' = owner /\ count' = count)
  PROVE  DepthIsKept(u)'
<1>1. CASE pc[u] \in {"idle", "locking"}
  BY <1>1 DEF DepthIsKept
<1>2. CASE pc[u] \in {"waiting", "relocking"}
  BY <1>2 DEF DepthIsKept
<1>3. CASE pc[u] = "recounting"
  BY <1>3 DEF DepthIsKept
<1>4. QED
  BY <1>1, <1>2, <1>3 DEF TypeOK, Locations

\* The mutex's own calls do not touch the condition.
LEMMA MutexKeeps ==
  ASSUME PthreadMonitorAssumption, IInv, NEW t \in Threads, Mutex(t)
  PROVE  IInv'
<1>0. /\ TypeOK /\ HoldsAreKept /\ ReadyIsUnlisted
      /\ \A u \in Threads : DepthIsKept(u)
      /\ DepthIsKept(t)
  BY DEF IInv, HoldsAreKept
<1>c. NoOne \notin Threads /\ CountMax \in Nat \ {0}
  BY DEF PthreadMonitorAssumption
<1>1. CASE LockTakes(t) \/ LockGets(t)
  <2>1. /\ owner = NoOne /\ owner' = t /\ count' = 1 /\ type' = type
        /\ waiters' = waiters /\ moved' = moved
        /\ pc[t] \in {"idle", "locking"} /\ pc' = [pc EXCEPT ![t] = "idle"]
        /\ timed' \in [Threads -> BOOLEAN]
        /\ recurse' = recurse /\ outcome' = outcome
        /\ depth' = [depth EXCEPT ![t] = 1]
    BY <1>0, <1>c, <1>1 DEF LockTakes, LockGets, Take, Goes, cond, TypeOK
  <2>2. TypeOK'
    BY <1>0, <1>c, <2>1 DEF TypeOK, Locations
  <2>3. HoldsAreKept'
    <3>1. \A u \in Threads : DepthIsKept(u)'
      <4>1. DepthIsKept(t)'
        BY <1>0, <1>c, <2>1 DEF DepthIsKept, TypeOK
      <4>2. ASSUME NEW u \in Threads, u # t
            PROVE  DepthIsKept(u)'
        <5>1. depth'[u] = depth[u] /\ pc'[u] = pc[u] /\ recurse'[u] = recurse[u]
          BY <1>0, <1>c, <2>1, <4>2 DEF TypeOK
        <5>2. (owner # u /\ owner' # u) \/ (owner' = owner /\ count' = count)
          BY <1>c, <2>1, <4>2
        <5>3. QED
          BY <1>0, <4>2, <5>1, <5>2, OthersKeep
      <4>3. QED
        BY <4>1, <4>2
    <3>2. QED
      BY <1>0, <1>c, <2>1, <3>1 DEF HoldsAreKept, TypeOK
  <2>4. ReadyIsUnlisted'
    BY <1>0, <1>c, <2>1 DEF ReadyIsUnlisted, Listed, TypeOK
  <2>5. QED
    BY <2>2, <2>3, <2>4 DEF IInv
<1>2. CASE LockAgain(t) \/ Unlock(t)
  <2>1. /\ owner = t /\ pc[t] = "idle" /\ type' = type
        /\ \/ owner' = t /\ count' \in {count - 1, count + 1} /\ count' \in 1..CountMax
              /\ type = "recursive" /\ depth' = [depth EXCEPT ![t] = count']
           \/ owner' = NoOne /\ count' = 0 /\ depth' = [depth EXCEPT ![t] = 0]
        /\ UNCHANGED <<waiters, moved, pc, timed, recurse, outcome>>
    <3>1. /\ count \in Nat /\ count # 0 /\ count <= CountMax /\ owner = t
          /\ type \in {"recursive", "other"} /\ depth \in [Threads -> 0..CountMax]
      BY <1>0, <1>c, <1>2 DEF TypeOK, HoldsAreKept, LockAgain, Unlock
    <3>2. depth[t] = count
      BY <1>0, <1>c, <1>2 DEF DepthIsKept, LockAgain, Unlock
    <3>3. type = "other" => count = 1
      BY <1>0, <1>c, <3>1 DEF HoldsAreKept
    <3>4. CASE LockAgain(t)
      BY <1>c, <3>1, <3>2, <3>4 DEF LockAgain, cond
    <3>5. CASE Unlock(t)
      <4>1. /\ depth' = [depth EXCEPT ![t] = depth[t] - 1] /\ type' = type
            /\ UNCHANGED <<waiters, moved, pc, timed, recurse, outcome>> /\ pc[t] = "idle"
        BY <3>5 DEF Unlock, cond
      <4>2. CASE type = "recursive" /\ count > 1
        BY <1>c, <3>1, <3>2, <3>5, <4>1, <4>2 DEF Unlock
      <4>3. CASE count = 1
        BY <3>1, <3>2, <3>5, <4>1, <4>3 DEF Unlock
      <4>4. QED
        BY <3>1, <3>3, <4>2, <4>3
    <3>6. QED
      BY <1>2, <3>4, <3>5
  <2>2. TypeOK'
    <3>1. /\ type' \in {"recursive", "other"} /\ waiters' \in Seq(Threads) /\ moved' \subseteq Threads
          /\ pc' \in [Threads -> Locations] /\ timed' \in [Threads -> BOOLEAN]
          /\ recurse' \in [Threads -> 0..CountMax]
          /\ outcome' \in [Threads -> {"Ok", "TimedOut"}]
      BY <1>0, <2>1 DEF TypeOK
    <3>2. owner' \in Threads \cup {NoOne} /\ count' \in 0..CountMax
      BY <1>c, <2>1
    <3>3. depth \in [Threads -> 0..CountMax]
      BY <1>0 DEF TypeOK
    <3>4. depth' = [depth EXCEPT ![t] = count']
      BY <2>1
    <3>5. depth' \in [Threads -> 0..CountMax]
      BY <3>2, <3>3, <3>4
    <3>6. QED
      BY <3>1, <3>2, <3>5 DEF TypeOK
  <2>3. HoldsAreKept'
    <3>1. \A u \in Threads : DepthIsKept(u)'
      <4>1. DepthIsKept(t)'
        BY <1>0, <1>c, <2>1 DEF DepthIsKept, TypeOK
      <4>2. ASSUME NEW u \in Threads, u # t
            PROVE  DepthIsKept(u)'
        <5>1. depth'[u] = depth[u] /\ pc'[u] = pc[u] /\ recurse'[u] = recurse[u]
          BY <1>0, <1>c, <2>1, <4>2 DEF TypeOK
        <5>2. (owner # u /\ owner' # u) \/ (owner' = owner /\ count' = count)
          BY <1>c, <2>1, <4>2
        <5>3. QED
          BY <1>0, <4>2, <5>1, <5>2, OthersKeep
      <4>3. QED
        BY <4>1, <4>2
    <3>2. QED
      BY <1>0, <1>c, <2>1, <3>1 DEF HoldsAreKept, TypeOK
  <2>4. ReadyIsUnlisted'
    BY <1>0, <1>c, <2>1 DEF ReadyIsUnlisted, Listed
  <2>5. QED
    BY <2>2, <2>3, <2>4 DEF IInv
<1>3. CASE LockTimesOut(t) \/ \E hasTimeout \in BOOLEAN : LockBlocks(t, hasTimeout)
  <2>1. PICK where \in {"idle", "locking"} :
          /\ pc[t] \in {"idle", "locking"} /\ pc' = [pc EXCEPT ![t] = where]
          /\ owner # t \/ pc[t] = "locking"
          /\ timed' \in [Threads -> BOOLEAN]
          /\ UNCHANGED <<type, owner, count, waiters, moved, recurse, outcome, depth>>
    BY <1>0, <1>c, <1>3 DEF LockTimesOut, LockBlocks, Goes, mutex, cond, TypeOK
  <2>2. TypeOK'
    BY <1>0, <1>c, <2>1 DEF TypeOK, Locations
  <2>3. HoldsAreKept'
    <3>1. \A u \in Threads : DepthIsKept(u)'
      <4>1. DepthIsKept(t)'
        BY <1>0, <1>c, <2>1 DEF DepthIsKept, TypeOK
      <4>2. ASSUME NEW u \in Threads, u # t
            PROVE  DepthIsKept(u)'
        <5>1. depth'[u] = depth[u] /\ pc'[u] = pc[u] /\ recurse'[u] = recurse[u]
          BY <1>0, <1>c, <2>1, <4>2 DEF TypeOK
        <5>2. (owner # u /\ owner' # u) \/ (owner' = owner /\ count' = count)
          BY <1>c, <2>1, <4>2
        <5>3. QED
          BY <1>0, <4>2, <5>1, <5>2, OthersKeep
      <4>3. QED
        BY <4>1, <4>2
    <3>2. owner # t
      BY <1>0, <1>c, <2>1 DEF HoldsAreKept, TypeOK
    <3>3. QED
      BY <1>0, <1>c, <2>1, <3>1, <3>2 DEF HoldsAreKept, TypeOK
  <2>4. ReadyIsUnlisted'
    BY <1>0, <1>c, <2>1 DEF ReadyIsUnlisted, Listed, TypeOK
  <2>5. QED
    BY <2>2, <2>3, <2>4 DEF IInv
<1>4. QED
  BY <1>1, <1>2, <1>3 DEF Mutex

\* So do the calls on the condition, and the way back to the mutex.
LEMMA CondKeeps ==
  ASSUME PthreadMonitorAssumption, IInv, NEW t \in Threads,
         \/ \E hasTimeout \in BOOLEAN : CondWaitBegins(t, hasTimeout)
         \/ CondWaitZero(t) \/ CondWaitEnds(t) \/ Relocks(t) \/ Recounts(t)
  PROVE  IInv'
<1>0. /\ TypeOK /\ HoldsAreKept /\ ReadyIsUnlisted
      /\ \A u \in Threads : DepthIsKept(u)
      /\ DepthIsKept(t) /\ NoRepeats /\ waiters \in Seq(Threads)
  BY DEF IInv, HoldsAreKept, ReadyIsUnlisted, NoRepeats, TypeOK
<1>c. NoOne \notin Threads /\ CountMax \in Nat \ {0}
  BY DEF PthreadMonitorAssumption
<1>1. CASE CondWaitZero(t) \/ \E hasTimeout \in BOOLEAN : CondWaitBegins(t, hasTimeout)
  <2>1. PICK where \in {"waiting", "relocking"} :
          /\ owner = t /\ pc[t] = "idle" /\ pc' = [pc EXCEPT ![t] = where]
          /\ recurse' = [recurse EXCEPT ![t] = count]
          /\ owner' = NoOne /\ count' = 0 /\ type' = type /\ depth' = depth
          /\ moved' = moved /\ timed' \in [Threads -> BOOLEAN]
          /\ outcome' \in [Threads -> {"Ok", "TimedOut"}]
          /\ \/ where = "relocking" /\ waiters' = waiters
             \/ where = "waiting" /\ waiters' = Append(waiters, t)
    <3>1. CASE CondWaitZero(t)
      BY <1>0, <1>c, <3>1 DEF CondWaitZero, GivesUp, Goes, cond, TypeOK
    <3>2. ASSUME NEW hasTimeout \in BOOLEAN, CondWaitBegins(t, hasTimeout)
          PROVE  /\ owner = t /\ pc[t] = "idle" /\ pc' = [pc EXCEPT ![t] = "waiting"]
                 /\ recurse' = [recurse EXCEPT ![t] = count]
                 /\ owner' = NoOne /\ count' = 0 /\ type' = type /\ depth' = depth
                 /\ moved' = moved /\ timed' \in [Threads -> BOOLEAN]
                 /\ outcome' \in [Threads -> {"Ok", "TimedOut"}]
                 /\ waiters' = Append(waiters, t)
      BY <1>0, <1>c, <3>2 DEF CondWaitBegins, GivesUp, Goes, TypeOK
    <3>3. QED
      BY <1>1, <3>1, <3>2
  <2>2. t \notin Listed /\ t \notin moved
    BY <1>0, <1>c, <2>1 DEF ReadyIsUnlisted
  <2>3. /\ waiters' \in Seq(Threads) /\ NoRepeats'
        /\ Listed' = IF where = "waiting" THEN Listed \cup {t} ELSE Listed
    <3>1. CASE where = "waiting"
      BY <1>0, <1>c, <2>1, <2>2, <3>1, AppendsOne
    <3>2. CASE where = "relocking"
      BY <1>0, <1>c, <2>1, <3>2 DEF NoRepeats, Listed
    <3>3. QED
      BY <3>1, <3>2
  <2>4. TypeOK'
    BY <1>0, <1>c, <2>1, <2>3 DEF TypeOK, Locations
  <2>5. HoldsAreKept'
    <3>1. \A u \in Threads : DepthIsKept(u)'
      <4>1. DepthIsKept(t)'
        <5>1. depth[t] = count /\ count > 0
          BY <1>0, <1>c, <2>1 DEF DepthIsKept, TypeOK, HoldsAreKept
        <5>2. recurse'[t] = count /\ pc'[t] = where /\ owner' # t /\ depth' = depth
          BY <1>0, <1>c, <2>1 DEF TypeOK
        <5>3. QED
          BY <5>1, <5>2 DEF DepthIsKept
      <4>2. ASSUME NEW u \in Threads, u # t
            PROVE  DepthIsKept(u)'
        <5>1. depth'[u] = depth[u] /\ pc'[u] = pc[u] /\ recurse'[u] = recurse[u]
          BY <1>0, <1>c, <2>1, <4>2 DEF TypeOK
        <5>2. (owner # u /\ owner' # u) \/ (owner' = owner /\ count' = count)
          BY <1>c, <2>1, <4>2
        <5>3. QED
          BY <1>0, <4>2, <5>1, <5>2, OthersKeep
      <4>3. QED
        BY <4>1, <4>2
    <3>2. QED
      BY <1>0, <1>c, <2>1, <3>1 DEF HoldsAreKept, TypeOK
  <2>6. ReadyIsUnlisted'
    <3>1. \A u \in Threads : pc'[u] = "waiting" <=> u \in Listed' \/ u \in moved'
      BY <1>0, <1>c, <2>1, <2>2, <2>3 DEF ReadyIsUnlisted, TypeOK
    <3>2. QED
      BY <1>0, <1>c, <2>1, <2>2, <2>3, <3>1 DEF ReadyIsUnlisted, NoRepeats
  <2>7. QED
    BY <2>4, <2>5, <2>6 DEF IInv
<1>2. CASE CondWaitEnds(t)
  <2>1. /\ pc[t] = "waiting" /\ pc' = [pc EXCEPT ![t] = "relocking"]
        /\ moved' = moved \ {t} /\ timed' \in [Threads -> BOOLEAN]
        /\ outcome' \in [Threads -> {"Ok", "TimedOut"}]
        /\ UNCHANGED <<type, owner, count, recurse, depth>>
    BY <1>0, <1>c, <1>2 DEF CondWaitEnds, Goes, mutex, TypeOK
  <2>2. waiters' \in Seq(Threads) /\ NoRepeats' /\ Listed' = Listed \ {t}
    BY <1>0, <1>c, <1>2, RemovesOne DEF CondWaitEnds
  <2>3. TypeOK'
    BY <1>0, <1>c, <2>1, <2>2 DEF TypeOK, Locations
  <2>4. HoldsAreKept'
    <3>1. \A u \in Threads : DepthIsKept(u)'
      <4>1. DepthIsKept(t)'
        BY <1>0, <1>c, <2>1 DEF DepthIsKept, TypeOK
      <4>2. ASSUME NEW u \in Threads, u # t
            PROVE  DepthIsKept(u)'
        <5>1. depth'[u] = depth[u] /\ pc'[u] = pc[u] /\ recurse'[u] = recurse[u]
          BY <1>0, <1>c, <2>1, <4>2 DEF TypeOK
        <5>2. QED
          BY <1>0, <1>c, <2>1, <4>2, <5>1, OthersKeep
      <4>3. QED
        BY <4>1, <4>2
    <3>2. owner # t
      BY <1>0, <1>c, <2>1 DEF HoldsAreKept, TypeOK
    <3>3. QED
      BY <1>0, <1>c, <2>1, <3>1, <3>2 DEF HoldsAreKept, TypeOK
  <2>5. ReadyIsUnlisted'
    <3>1. \A u \in Threads : pc'[u] = "waiting" <=> u \in Listed' \/ u \in moved'
      BY <1>0, <1>c, <2>1, <2>2 DEF ReadyIsUnlisted, TypeOK
    <3>2. QED
      BY <1>0, <1>c, <2>1, <2>2, <3>1 DEF ReadyIsUnlisted, NoRepeats
  <2>6. QED
    BY <2>3, <2>4, <2>5 DEF IInv
<1>3. CASE Relocks(t) \/ Recounts(t)
  <2>1. PICK where \in {"recounting", "idle"} :
          /\ pc' = [pc EXCEPT ![t] = where] /\ owner' = t
          /\ \/ where = "recounting" /\ pc[t] = "relocking" /\ owner = NoOne /\ count' = 1
                /\ recurse' = recurse
             \/ where = "idle" /\ pc[t] = "recounting" /\ owner = t /\ count' = recurse[t]
                /\ recurse' = [recurse EXCEPT ![t] = 0]
          /\ recurse[t] \in 1..CountMax /\ depth[t] = recurse[t]
          /\ UNCHANGED <<type, waiters, moved, timed, outcome, depth>>
    <3>1. /\ pc[t] = "relocking" => recurse[t] > 0 /\ depth[t] = recurse[t]
          /\ pc[t] = "recounting" => owner = t /\ recurse[t] > 0 /\ depth[t] = recurse[t]
          /\ recurse[t] \in 0..CountMax
      BY <1>0 DEF DepthIsKept, TypeOK
    <3>2. CASE Relocks(t)
      BY <1>0, <1>c, <3>1, <3>2 DEF Relocks, Take, Goes, cond
    <3>3. CASE Recounts(t)
      BY <1>0, <1>c, <3>1, <3>3 DEF Recounts, Goes, cond
    <3>4. QED
      BY <1>3, <3>2, <3>3
  <2>2. TypeOK'
    <3>1. /\ owner' \in Threads \cup {NoOne} /\ count' \in 0..CountMax
          /\ pc' \in [Threads -> Locations] /\ recurse' \in [Threads -> 0..CountMax]
      <4>1. owner' \in Threads \cup {NoOne} /\ pc' \in [Threads -> Locations]
        BY <1>0, <2>1 DEF TypeOK, Locations
      <4>2. count' \in 0..CountMax
        BY <1>c, <2>1
      <4>3. recurse' \in [Threads -> 0..CountMax]
        <5>1. recurse' = recurse \/ recurse' = [recurse EXCEPT ![t] = 0]
          BY <2>1
        <5>2. recurse \in [Threads -> 0..CountMax] /\ 0 \in 0..CountMax
          BY <1>0, <1>c DEF TypeOK
        <5>3. QED
          BY <5>1, <5>2
      <4>4. QED
        BY <4>1, <4>2, <4>3
    <3>2. QED
      BY <1>0, <2>1, <3>1 DEF TypeOK
  <2>3. HoldsAreKept'
    <3>1. \A u \in Threads : DepthIsKept(u)'
      <4>1. DepthIsKept(t)'
        BY <1>0, <1>c, <2>1 DEF DepthIsKept, TypeOK
      <4>2. ASSUME NEW u \in Threads, u # t
            PROVE  DepthIsKept(u)'
        <5>1. depth'[u] = depth[u] /\ pc'[u] = pc[u] /\ recurse'[u] = recurse[u]
          BY <1>0, <1>c, <2>1, <4>2 DEF TypeOK
        <5>2. (owner # u /\ owner' # u) \/ (owner' = owner /\ count' = count)
          BY <1>c, <2>1, <4>2
        <5>3. QED
          BY <1>0, <4>2, <5>1, <5>2, OthersKeep
      <4>3. QED
        BY <4>1, <4>2
    <3>2. count' # 0 /\ owner' # NoOne /\ pc'[owner'] \in {"idle", "recounting"}
      BY <1>0, <1>c, <2>1 DEF TypeOK
    <3>3. ASSUME type = "other"
          PROVE  count' < 2 /\ \A u \in Threads : recurse'[u] < 2
      <4>1. /\ \A u \in Threads : recurse[u] < 2
            /\ recurse' = recurse \/ recurse' = [recurse EXCEPT ![t] = 0]
            /\ count' = 1 \/ count' = recurse[t]
        BY <1>0, <2>1, <3>3 DEF HoldsAreKept
      <4>2. recurse \in [Threads -> 0..CountMax]
        BY <1>0 DEF TypeOK
      <4>3. QED
        BY <4>1, <4>2
    <3>4. QED
      BY <2>1, <3>1, <3>2, <3>3 DEF HoldsAreKept
  <2>4. ReadyIsUnlisted'
    <3>1. \A u \in Threads : pc'[u] = "waiting" <=> pc[u] = "waiting"
      BY <1>0, <1>c, <2>1 DEF TypeOK
    <3>2. QED
      BY <1>0, <1>c, <2>1, <3>1 DEF ReadyIsUnlisted, Listed
  <2>5. QED
    BY <2>2, <2>3, <2>4 DEF IInv
<1>4. QED
  BY <1>1, <1>2, <1>3

\* A signal moves one thread from the list to the ready ones, a broadcast all.
LEMMA WakesKeep ==
  ASSUME PthreadMonitorAssumption, IInv,
         Broadcast \/ \E t \in Threads : CondWakeWaiter(t)
  PROVE  IInv'
<1>0. /\ TypeOK /\ HoldsAreKept /\ ReadyIsUnlisted
      /\ NoRepeats /\ waiters \in Seq(Threads) /\ Listed \subseteq Threads
  BY DEF IInv, ReadyIsUnlisted, NoRepeats, TypeOK, Listed
<1>1. /\ waiters' \in Seq(Threads) /\ NoRepeats' /\ Listed' \subseteq Listed
      /\ moved' = moved \cup (Listed \ Listed')
      /\ UNCHANGED <<type, owner, count, pc, timed, recurse, outcome, depth>>
  <2>1. CASE Broadcast
    <3>1. /\ waiters' = <<>> /\ moved' = moved \cup Listed
          /\ UNCHANGED <<type, owner, count, pc, timed, recurse, outcome, depth>>
      BY <2>1 DEF Broadcast, mutex
    <3>2. Listed' = {}
      BY <3>1 DEF Listed
    <3>3. QED
      BY <3>1, <3>2 DEF NoRepeats
  <2>2. CASE \E t \in Threads : CondWakeWaiter(t)
    <3>1. PICK t \in Threads : CondWakeWaiter(t)
      BY <2>2
    <3>2. /\ t \in Listed /\ Removes(t) /\ moved' = moved \cup {t}
          /\ UNCHANGED <<type, owner, count, pc, timed, recurse, outcome, depth>>
      BY <3>1 DEF CondWakeWaiter, mutex
    <3>3. waiters' \in Seq(Threads) /\ NoRepeats' /\ Listed' = Listed \ {t}
      BY <1>0, <3>2, RemovesOne
    <3>4. QED
      BY <3>2, <3>3
  <2>3. QED
    BY <2>1, <2>2
<1>2. TypeOK'
  BY <1>0, <1>1 DEF TypeOK
<1>3. HoldsAreKept'
  BY <1>0, <1>1 DEF HoldsAreKept, DepthIsKept
<1>4. ReadyIsUnlisted'
  BY <1>0, <1>1 DEF ReadyIsUnlisted, NoRepeats
<1>5. QED
  BY <1>2, <1>3, <1>4 DEF IInv

LEMMA SignalWakesOne ==
  ASSUME IInv, Signal PROVE \E t \in Threads : CondWakeWaiter(t)
<1>1. waiters \in Seq(Threads)
  BY DEF IInv, TypeOK
<1>2. waiters # <<>> /\ CondWakeWaiter(Head(waiters))
  BY DEF Signal
<1>3. Head(waiters) \in Threads
  BY <1>1, <1>2
<1>4. QED
  BY <1>2, <1>3

LEMMA StepKeeps == ASSUME PthreadMonitorAssumption, IInv, [Next]_vars PROVE IInv'
<1>1. CASE UNCHANGED vars
  <2>0. TypeOK /\ HoldsAreKept /\ ReadyIsUnlisted
    BY DEF IInv
  <2>1. TypeOK'
    BY <1>1, <2>0 DEF vars, mutex, cond, TypeOK
  <2>2. HoldsAreKept'
    BY <1>1, <2>0 DEF vars, mutex, cond, HoldsAreKept, DepthIsKept
  <2>3. ReadyIsUnlisted'
    BY <1>1, <2>0 DEF vars, mutex, cond, ReadyIsUnlisted, Listed
  <2>4. QED
    BY <2>1, <2>2, <2>3 DEF IInv
<1>2. CASE Signal \/ Broadcast
  <2>1. Signal => \E t \in Threads : CondWakeWaiter(t)
    BY SignalWakesOne
  <2>2. QED
    BY <1>2, <2>1, WakesKeep
<1>3. ASSUME NEW t \in Threads, Mutex(t) \/ Cond(t) \/ Polls(t)
      PROVE  IInv'
  <2>1. CASE Mutex(t)
    BY <2>1, MutexKeeps
  <2>2. CASE Cond(t)
    BY <2>2, CondKeeps, WakesKeep DEF Cond, Signalto
  <2>3. CASE Polls(t)
    BY <1>1, <2>3 DEF Polls
  <2>4. QED
    BY <1>3, <2>1, <2>2, <2>3
<1>4. QED
  BY <1>1, <1>2, <1>3 DEF Next

\* The invariant is inductive: the count of the mutex and the number that each
\* sleeper has saved are what the threads believe, and no thread is on the list
\* that has a wakeup already (src/kernel/pthread.cpp).
THEOREM LocksAreKept == ASSUME PthreadMonitorAssumption PROVE Spec => []IInv
<1>1. Init => IInv
  BY InitHolds
<1>2. IInv /\ [Next]_vars => IInv'
  BY StepKeeps
<1>3. QED
  BY <1>1, <1>2, PTL DEF Spec

(***************************************************************************)
(* Mutex and condition implement Monitor.                                  *)
(***************************************************************************)

LEMMA MutexImplements ==
  ASSUME PthreadMonitorAssumption, IInv, NEW t \in Threads, Mutex(t)
  PROVE  UNCHANGED Abstract!vars \/ Abstract!Enter(t) \/ Abstract!Reenter(t) \/ Abstract!Leave(t)
<1>0. /\ TypeOK /\ HoldsAreKept /\ ReadyIsUnlisted /\ DepthIsKept(t)
      /\ depth \in [Threads -> 0..CountMax] /\ NoOne \notin Threads
  BY DEF IInv, HoldsAreKept, TypeOK, PthreadMonitorAssumption
<1>1. CASE LockTakes(t) \/ LockGets(t)
  <2>1. /\ owner = NoOne /\ owner' = t /\ pc[t] \in {"idle", "locking"}
        /\ depth' = [depth EXCEPT ![t] = 1]
        /\ UNCHANGED <<waiters, moved, outcome>>
    BY <1>1 DEF LockTakes, LockGets, Take, cond
  <2>2. t \notin Listed /\ t \notin moved
    BY <1>0, <2>1 DEF ReadyIsUnlisted
  <2>3. depth[t] = 0
    BY <1>0, <2>1 DEF DepthIsKept
  <2>4. QED
    BY <2>1, <2>2, <2>3 DEF Abstract!Enter, Listed
<1>2. CASE LockAgain(t)
  BY <1>2 DEF LockAgain, cond, Abstract!Reenter
<1>3. CASE Unlock(t)
  <2>1. /\ owner = t /\ pc[t] = "idle" /\ depth' = [depth EXCEPT ![t] = @ - 1]
        /\ UNCHANGED <<waiters, moved, outcome>>
    BY <1>3 DEF Unlock, cond
  <2>2. depth[t] = count /\ count \in Nat /\ count # 0 /\ type \in {"recursive", "other"}
    BY <1>0, <2>1 DEF DepthIsKept, TypeOK, HoldsAreKept
  <2>3. type = "other" => count = 1
    BY <1>0, <2>2 DEF HoldsAreKept
  <2>4. owner' = IF count = 1 THEN NoOne ELSE t
    BY <1>3, <2>1, <2>2, <2>3 DEF Unlock
  <2>5. QED
    BY <2>1, <2>2, <2>4 DEF Abstract!Leave
<1>4. CASE LockTimesOut(t) \/ \E hasTimeout \in BOOLEAN : LockBlocks(t, hasTimeout)
  BY <1>4 DEF LockTimesOut, LockBlocks, mutex, cond, Abstract!vars
<1>5. QED
  BY <1>1, <1>2, <1>3, <1>4 DEF Mutex

\* CondWakeWaiter wakes the thread it is given.
LEMMA NamedImplements ==
  ASSUME NEW t \in Threads, CondWakeWaiter(t)
  PROVE  Abstract!WakeNamed(t)
<1>1. waiters' = Abstract!Without(t)
  BY DEF CondWakeWaiter, Removes, Abstract!Without
<1>2. \E i \in DOMAIN waiters : waiters[i] = t
  BY DEF CondWakeWaiter, Listed
<1>3. QED
  BY <1>1, <1>2 DEF CondWakeWaiter, mutex, Abstract!WakeNamed

LEMMA CondImplements ==
  ASSUME PthreadMonitorAssumption, IInv, NEW t \in Threads, Cond(t)
  PROVE  \/ UNCHANGED Abstract!vars \/ Abstract!Enter(t) \/ Abstract!Sleep(t) \/ Abstract!Yield(t)
         \/ Abstract!WakeNamed(t) \/ Abstract!Awake(t) \/ Abstract!TimesOut(t)
<1>0. /\ TypeOK /\ HoldsAreKept /\ ReadyIsUnlisted /\ DepthIsKept(t)
      /\ NoOne \notin Threads
  BY DEF IInv, HoldsAreKept, PthreadMonitorAssumption
<1>1. CASE \E hasTimeout \in BOOLEAN : CondWaitBegins(t, hasTimeout)
  BY <1>1 DEF CondWaitBegins, GivesUp, Abstract!Sleep
<1>2. CASE CondWaitZero(t)
  BY <1>2 DEF CondWaitZero, GivesUp, cond, Abstract!Yield
<1>3. CASE CondWaitEnds(t)
  <2>1. /\ pc[t] = "waiting" /\ Removes(t) /\ moved' = moved \ {t}
        /\ outcome' = [outcome EXCEPT ![t] = IF t \in moved THEN "Ok" ELSE "TimedOut"]
        /\ UNCHANGED <<owner, depth>>
    BY <1>3 DEF CondWaitEnds, mutex
  <2>2. t \notin moved <=> t \in Listed
    BY <1>0, <2>1 DEF ReadyIsUnlisted
  <2>3. CASE t \in moved
    BY <2>1, <2>2, <2>3 DEF Removes, Abstract!Awake
  <2>4. CASE t \notin moved
    <3>1. waiters' = Abstract!Without(t)
      BY <2>1, <2>2, <2>4 DEF Removes, Abstract!Without
    <3>2. \E i \in DOMAIN waiters : waiters[i] = t
      BY <2>2, <2>4 DEF Listed
    <3>3. QED
      BY <2>1, <2>4, <3>1, <3>2 DEF Abstract!TimesOut
  <2>5. QED
    BY <2>3, <2>4
<1>4. CASE Relocks(t)
  <2>1. /\ owner = NoOne /\ owner' = t /\ pc[t] = "relocking"
        /\ UNCHANGED <<waiters, moved, outcome, depth>>
    BY <1>4 DEF Relocks, Take, cond
  <2>2. t \notin Listed /\ t \notin moved
    BY <1>0, <2>1 DEF ReadyIsUnlisted
  <2>3. depth[t] > 0
    BY <1>0, <2>1 DEF DepthIsKept
  <2>4. QED
    BY <2>1, <2>2, <2>3 DEF Abstract!Enter, Listed
<1>5. CASE Recounts(t)
  BY <1>5 DEF Recounts, cond, Abstract!vars
<1>6. CASE Signalto(t)
  BY <1>6, NamedImplements DEF Signalto
<1>7. QED
  BY <1>1, <1>2, <1>3, <1>4, <1>5, <1>6 DEF Cond

LEMMA StepImplements ==
  ASSUME PthreadMonitorAssumption, IInv, [Next]_vars
  PROVE  [Abstract!Next]_(Abstract!vars)
<1>1. CASE UNCHANGED vars
  BY <1>1 DEF vars, mutex, cond, Abstract!vars
<1>2. CASE Signal
  <2>1. PICK t \in Threads : CondWakeWaiter(t)
    BY <1>2, SignalWakesOne
  <2>2. QED
    BY <2>1, NamedImplements DEF Abstract!Next
<1>3. CASE Broadcast
  <2>1. /\ waiters # <<>> /\ waiters' = <<>>
        /\ moved' = moved \cup {waiters[i] : i \in DOMAIN waiters}
        /\ UNCHANGED <<owner, depth, outcome>>
    BY <1>3 DEF Broadcast, mutex, Listed
  <2>2. Abstract!WakeAll
    BY <2>1 DEF Abstract!WakeAll
  <2>3. QED
    BY <2>2 DEF Abstract!Next
<1>4. ASSUME NEW t \in Threads, Mutex(t) \/ Cond(t) \/ Polls(t)
      PROVE  [Abstract!Next]_(Abstract!vars)
  BY <1>1, <1>4, MutexImplements, CondImplements DEF Polls, Abstract!Next
<1>5. QED
  BY <1>1, <1>2, <1>3, <1>4 DEF Next

LEMMA InitImplements == Init => Abstract!Init
  BY DEF Init, Abstract!Init

\* A guest mutex and a condition of it, with their sleepers that poll, their list
\* and their two kinds of counters, are a monitor: one holder, holds returned in
\* full after a wait, each wakeup to one waiter, Ok exactly for who was woken.
THEOREM MutexAndConditionAreMonitor ==
  ASSUME PthreadMonitorAssumption PROVE Spec => ImplementsMonitor
<1>1. Init => Abstract!Init
  BY InitImplements
<1>2. IInv /\ [Next]_vars => [Abstract!Next]_(Abstract!vars)
  BY StepImplements
<1>3. QED
  BY <1>1, <1>2, LocksAreKept, PTL DEF Spec, ImplementsMonitor, Abstract!Spec
=============================================================================
