-------------------------- MODULE KernelWaits_proofs -------------------------
(***************************************************************************)
(* Proofs about what threads of the guest wait for: a word of memory       *)
(* (SyncOnAddress), a read-write lock (PthreadRwlock), a POSIX semaphore   *)
(* (PosixSem), the bits of an event flag (EventFlag) and the events of a   *)
(* queue (EventQueue), for any finite set of threads, and for each other,  *)
(* to join (PthreadThreads), for any set of threads.                       *)
(***************************************************************************)
EXTENDS SyncOnAddress, FiniteSetTheorems, SequenceTheorems, TLAPS

CONSTANTS MaxReads, ValueMax, Records, MaxLives,
          FlagBits, FlagWaits, FlagChanges, FlagPatterns,
          UserEvents, QueuedEvents, TimerEvents, EventNums, MaxTriggers, MaxOthers

VARIABLES
  writer, readers, waitingWriters, lockPc, lockTimed,
  open, units, sleepers, record, semPc, semTimed,
  free, detached, almostDone, stack, hostThread, life, guest, reaper, bad, slipped,
  flagStatus, flagSingle, flagBits, flagWaiting, flagPc, flagCall, flagResult,
  registered, closed, events, waiter, triggers, others, sent, got

Rwlock == INSTANCE PthreadRwlock WITH NoOne <- None, pc <- lockPc, timed <- lockTimed

Posix == INSTANCE PosixSem WITH
  Guests <- Threads, count <- units, waiters <- sleepers, pc <- semPc, timed <- semTimed

Threading == INSTANCE PthreadThreads WITH Guests <- Threads, host <- hostThread

Flag == INSTANCE EventFlag WITH
  Bits <- FlagBits, WaitArgs <- FlagWaits, ModifyArgs <- FlagChanges,
  InitPatterns <- FlagPatterns,
  status <- flagStatus, single <- flagSingle, bits <- flagBits, waiting <- flagWaiting,
  pc <- flagPc, call <- flagCall, result <- flagResult

Events == INSTANCE EventQueue WITH
  Waiters <- Threads, User <- UserEvents, Queued <- QueuedEvents, Timers <- TimerEvents,
  Nums <- EventNums

(***************************************************************************)
(* Words of guest memory: what is true of who waits on one.                *)
(***************************************************************************)

Members(s) == {s[i] : i \in DOMAIN s}
NoRepeats(s) == \A i, j \in DOMAIN s : s[i] = s[j] => i = j

\* A thread runs the code of its host only.
HostInv ==
  /\ platform \in {"futex", "portable"}
  /\ pc \in [Threads -> Locations] /\ timed \in [Threads -> BOOLEAN]
  /\ outcome \in [Threads -> {"Ok", "TimedOut"}]
  /\ \A t \in Threads :
       /\ platform = "futex" => pc[t] \notin {"waiting", "sweeping"}
       /\ platform = "portable" => pc[t] \in {"idle", "waiting", "sweeping"}

\* The futex's queue has who sleeps on it, once.
QueueInv ==
  /\ queue \in Seq(Threads) /\ NoRepeats(queue)
  /\ \A t \in Threads : pc[t] = "parked" <=> t \in Members(queue)

\* Who waits is listed once, by the entry it holds, which is the registered one;
\* and who is owed a wake has it already.
RegistryInv ==
  /\ registry \in Entries \cup {None}
  /\ waiters \in [Entries -> Seq(Threads)] /\ entry \in [Threads -> Entries \cup {None}]
  /\ \A e \in Entries :
       NoRepeats(waiters[e]) /\ \A t \in Members(waiters[e]) : pc[t] = "waiting" /\ entry[t] = e
  /\ \A t \in Threads :
       /\ pc[t] = "waiting" =>
            registry = entry[t] /\ entry[t] \in Entries /\ t \in Members(waiters[entry[t]])
       /\ pc[t] = "sweeping" => entry[t] \in Entries
  /\ requested \subseteq {t \in Threads : pc[t] = "waiting"}
  /\ platform = "portable" => owed \subseteq requested

IInv == HostInv /\ QueueInv /\ RegistryInv

-----------------------------------------------------------------------------
\* Lists.

LEMMA WithoutOne ==
  ASSUME NEW S, NEW s \in Seq(S), NoRepeats(s), NEW t
  PROVE  /\ Without(s, t) \in Seq(S) /\ NoRepeats(Without(s, t))
         /\ Members(Without(s, t)) = Members(s) \ {t}
<1>0. Len(s) \in Nat /\ DOMAIN s = 1..Len(s)
  OBVIOUS
<1>1. CASE \A i \in DOMAIN s : s[i] # t
  <2>1. Without(s, t) = s /\ t \notin Members(s)
    BY <1>1 DEF Without, Members
  <2>2. QED
    BY <2>1
<1>2. CASE ~ \A i \in DOMAIN s : s[i] # t
  <2> DEFINE at == CHOOSE i \in DOMAIN s : s[i] = t
             from(i) == IF i < at THEN i ELSE i + 1
             r == Without(s, t)
  <2>1. at \in 1..Len(s) /\ s[at] = t
    BY <1>0, <1>2
  <2>2. r = [i \in 1..(Len(s) - 1) |-> s[from(i)]]
    BY <1>2 DEF Without
  <2> HIDE DEF at, r
  <2>3. \A i \in 1..(Len(s) - 1) : from(i) \in 1..Len(s) /\ from(i) # at
    BY <1>0, <2>1
  <2>4. \A i, j \in 1..(Len(s) - 1) : from(i) = from(j) => i = j
    BY <1>0, <2>1
  <2>5. \A i \in 1..Len(s) : i # at => \E j \in 1..(Len(s) - 1) : from(j) = i
    <3> SUFFICES ASSUME NEW i \in 1..Len(s), i # at
                 PROVE  \E j \in 1..(Len(s) - 1) : from(j) = i
      OBVIOUS
    <3>1. CASE i < at
      BY <1>0, <2>1, <3>1
    <3>2. CASE i > at
      <4>1. i - 1 \in 1..(Len(s) - 1) /\ from(i - 1) = i
        BY <1>0, <2>1, <3>2
      <4>2. QED
        BY <4>1
    <3>3. QED
      BY <1>0, <2>1, <3>1, <3>2
  <2> HIDE DEF from
  <2>6. /\ DOMAIN r = 1..(Len(s) - 1) /\ \A i \in 1..(Len(s) - 1) : r[i] = s[from(i)]
        /\ r \in Seq(S)
    <3>1. Len(s) - 1 \in Nat /\ \A i \in 1..(Len(s) - 1) : s[from(i)] \in S
      BY <1>0, <2>1, <2>3
    <3> DEFINE e(i) == s[from(i)]
    <3> HIDE DEF e
    <3>2. r = [i \in 1..(Len(s) - 1) |-> e(i)]
      BY <2>2 DEF e
    <3>3. r \in Seq(S)
      BY <3>1, <3>2 DEF e
    <3>4. QED
      BY <3>2, <3>3 DEF e
  <2>7. NoRepeats(r)
    BY <1>0, <2>3, <2>4, <2>6 DEF NoRepeats
  <2>8. Members(r) = Members(s) \ {t}
    <3>1. ASSUME NEW u \in Members(r) PROVE u \in Members(s) \ {t}
      <4>1. PICK i \in 1..(Len(s) - 1) : u = s[from(i)]
        BY <2>6 DEF Members
      <4>2. QED
        BY <1>0, <2>1, <2>3, <4>1 DEF Members, NoRepeats
    <3>2. ASSUME NEW u \in Members(s) \ {t} PROVE u \in Members(r)
      <4>1. PICK i \in 1..Len(s) : u = s[i]
        BY <1>0 DEF Members
      <4>2. i # at
        BY <2>1, <3>2, <4>1
      <4>3. PICK j \in 1..(Len(s) - 1) : from(j) = i
        BY <2>5, <4>2
      <4>4. QED
        BY <2>6, <4>1, <4>3 DEF Members
    <3>3. QED
      BY <3>1, <3>2
  <2>9. QED
    BY <2>6, <2>7, <2>8 DEF r
<1>3. QED
  BY <1>1, <1>2

LEMMA AppendOne ==
  ASSUME NEW S, NEW s \in Seq(S), NoRepeats(s), NEW t \in S, t \notin Members(s)
  PROVE  /\ Append(s, t) \in Seq(S) /\ NoRepeats(Append(s, t))
         /\ Members(Append(s, t)) = Members(s) \cup {t}
<1> DEFINE r == Append(s, t)
<1>1. /\ r \in Seq(S) /\ Len(s) \in Nat /\ DOMAIN s = 1..Len(s) /\ DOMAIN r = 1..(Len(s) + 1)
      /\ r[Len(s) + 1] = t /\ \A i \in 1..Len(s) : r[i] = s[i]
  OBVIOUS
<1> HIDE DEF r
<1>2. \A i \in 1..Len(s) : s[i] # t
  BY <1>1 DEF Members
<1>3. NoRepeats(r)
  BY <1>1, <1>2 DEF NoRepeats
<1>4. Members(r) = Members(s) \cup {t}
  BY <1>1 DEF Members
<1>5. QED
  BY <1>1, <1>3, <1>4 DEF r

LEMMA SuffixOf ==
  ASSUME NEW S, NEW s \in Seq(S), NoRepeats(s), NEW k \in 0..Len(s)
  PROVE  /\ SubSeq(s, k + 1, Len(s)) \in Seq(S) /\ NoRepeats(SubSeq(s, k + 1, Len(s)))
         /\ Members(SubSeq(s, k + 1, Len(s))) = Members(s) \ {s[i] : i \in 1..k}
<1> DEFINE r == SubSeq(s, k + 1, Len(s))
<1>1. /\ r \in Seq(S) /\ Len(s) \in Nat /\ DOMAIN s = 1..Len(s) /\ DOMAIN r = 1..(Len(s) - k)
      /\ \A i \in 1..(Len(s) - k) : r[i] = s[i + k]
  <2>1. Len(s) \in Nat /\ DOMAIN s = 1..Len(s) /\ k \in Nat /\ k <= Len(s)
    OBVIOUS
  <2>2. k + 1 \in Int /\ Len(s) \in Int /\ \A i \in (k + 1)..Len(s) : s[i] \in S
    BY <2>1
  <2>3. /\ r \in Seq(S) /\ Len(r) = IF k + 1 <= Len(s) THEN Len(s) - (k + 1) + 1 ELSE 0
        /\ \A i \in 1..(Len(s) - (k + 1) + 1) : r[i] = s[(k + 1) + i - 1]
    BY <2>2, SubSeqProperties
  <2> HIDE DEF r
  <2>4. DOMAIN r = 1..Len(r)
    BY <2>3
  <2>5. Len(r) = Len(s) - k
    <3>1. CASE k = Len(s)
      BY <2>1, <2>3, <3>1
    <3>2. CASE k < Len(s)
      <4>1. k + 1 <= Len(s) /\ Len(s) - (k + 1) + 1 = Len(s) - k
        BY <2>1, <3>2
      <4>2. Len(r) = Len(s) - (k + 1) + 1
        BY <2>3, <4>1
      <4>3. QED
        BY <4>1, <4>2
    <3>3. k = Len(s) \/ k < Len(s)
      <4>1. k \in Int /\ Len(s) \in Int /\ k <= Len(s)
        BY <2>1
      <4>2. QED
        BY ONLY <4>1
    <3>4. QED
      BY <3>1, <3>2, <3>3
  <2>6. ASSUME NEW i \in 1..(Len(s) - k) PROVE r[i] = s[i + k]
    <3>1. i \in 1..(Len(s) - (k + 1) + 1) /\ (k + 1) + i - 1 = i + k
      BY <2>1
    <3>2. QED
      BY <2>3, <3>1
  <2>7. QED
    BY <2>1, <2>3, <2>4, <2>5, <2>6
<1> HIDE DEF r
<1>2. NoRepeats(r)
  <2>1. ASSUME NEW i \in 1..(Len(s) - k), NEW j \in 1..(Len(s) - k), r[i] = r[j]
        PROVE  i = j
    <3>1. i + k \in DOMAIN s /\ j + k \in DOMAIN s /\ s[i + k] = s[j + k]
      BY <1>1, <2>1
    <3>2. i + k = j + k
      BY <3>1 DEF NoRepeats
    <3>3. QED
      BY <3>2
  <2>2. QED
    BY <1>1, <2>1 DEF NoRepeats
<1>3. ASSUME NEW u \in Members(r) PROVE u \in Members(s) /\ u \notin {s[i] : i \in 1..k}
  <2>1. PICK j \in 1..(Len(s) - k) : u = s[j + k]
    BY <1>1, <1>3 DEF Members
  <2>2. j + k \in 1..Len(s) /\ j + k > k
    BY <1>1
  <2>3. ASSUME NEW i \in 1..k PROVE s[i] # u
    <3>1. i \in DOMAIN s /\ j + k \in DOMAIN s /\ i # j + k
      BY <1>1, <2>2
    <3>2. QED
      BY <2>1, <3>1 DEF NoRepeats
  <2>4. QED
    BY <1>1, <2>1, <2>2, <2>3 DEF Members
<1>4. ASSUME NEW u \in Members(s), u \notin {s[i] : i \in 1..k} PROVE u \in Members(r)
  <2>1. PICK j \in 1..Len(s) : u = s[j]
    BY <1>1 DEF Members
  <2>2. j > k
    BY <1>4, <2>1
  <2>3. j - k \in 1..(Len(s) - k) /\ r[j - k] = u
    BY <1>1, <2>1, <2>2
  <2>4. QED
    BY <1>1, <2>3 DEF Members
<1>5. Members(r) = Members(s) \ {s[i] : i \in 1..k}
  BY <1>3, <1>4
<1>6. QED
  BY <1>1, <1>2, <1>5 DEF r

-----------------------------------------------------------------------------
\* The futex.

\* Nobody is in the registry of a host with a futex.
LEMMA FutexIsAlone ==
  ASSUME IInv, platform = "futex"
  PROVE  requested = {} /\ \A e \in Entries : Members(waiters[e]) = {}
BY DEF IInv, HostInv, RegistryInv, Members

\* A step of the futex that sees to its queue.
LEMMA FutexSuffices ==
  ASSUME IInv, platform = "futex",
         UNCHANGED <<platform, registry, waiters, requested, entry>>,
         pc' \in [Threads -> Locations], timed' \in [Threads -> BOOLEAN],
         outcome' \in [Threads -> {"Ok", "TimedOut"}],
         \A t \in Threads : pc'[t] \notin {"waiting", "sweeping"},
         QueueInv'
  PROVE  IInv'
<1>1. HostInv'
  BY DEF IInv, HostInv
<1>2. RegistryInv'
  <2>1. requested = {} /\ \A e \in Entries : Members(waiters[e]) = {}
    BY FutexIsAlone
  <2>2. \A e \in Entries : Members(waiters[e])' = {}
    BY <2>1 DEF Members
  <2>3. platform # "portable"
    OBVIOUS
  <2>4. \A e \in Entries : NoRepeats(waiters[e])'
    BY DEF IInv, RegistryInv, NoRepeats
  <2>5. QED
    BY <2>1, <2>2, <2>3, <2>4 DEF IInv, RegistryInv
<1>3. QED
  BY <1>1, <1>2 DEF IInv

LEMMA FutexKeeps ==
  ASSUME IInv, NEW t \in Threads,
         \/ \E v \in Values, hasTimeout \in BOOLEAN : FutexChecks(t, v, hasTimeout)
         \/ FutexParks(t) \/ FutexSliceEnds(t) \/ FutexSleepsAgain(t) \/ FutexReturns(t)
  PROVE  IInv'
<1>0. /\ pc \in [Threads -> Locations] /\ timed \in [Threads -> BOOLEAN]
      /\ outcome \in [Threads -> {"Ok", "TimedOut"}] /\ platform \in {"futex", "portable"}
      /\ queue \in Seq(Threads) /\ NoRepeats(queue)
      /\ \A u \in Threads : pc[u] = "parked" <=> u \in Members(queue)
  BY DEF IInv, HostInv, QueueInv
<1>1. platform = "futex"
  BY <1>0 DEF IInv, HostInv, FutexChecks, FutexParks, FutexSliceEnds, FutexSleepsAgain, FutexReturns
<1>2. \A u \in Threads : pc[u] \notin {"waiting", "sweeping"}
  BY <1>1 DEF IInv, HostInv
<1>3. ASSUME NEW v \in Values, NEW hasTimeout \in BOOLEAN, FutexChecks(t, v, hasTimeout)
      PROVE  IInv'
  <2>1. /\ pc[t] = "idle" /\ pc' = [pc EXCEPT ![t] = "checked"]
        /\ timed' \in [Threads -> BOOLEAN]
        /\ UNCHANGED <<platform, queue, registry, waiters, requested, entry, outcome>>
    BY <1>0, <1>3 DEF FutexChecks, Goes, Calls, host
  <2>2. QueueInv'
    BY <1>0, <2>1 DEF QueueInv, Members, NoRepeats
  <2>3. QED
    BY <1>0, <1>1, <1>2, <2>1, <2>2, FutexSuffices DEF Locations
<1>4. CASE FutexParks(t)
  <2>1. /\ pc[t] = "checked" /\ pc' = [pc EXCEPT ![t] = "parked"] /\ queue' = Append(queue, t)
        /\ UNCHANGED <<platform, registry, waiters, requested, entry, outcome, timed>>
    BY <1>4 DEF FutexParks, Goes, local
  <2>2. t \notin Members(queue)
    BY <1>0, <2>1
  <2>3. queue' \in Seq(Threads) /\ NoRepeats(queue') /\ Members(queue') = Members(queue) \cup {t}
    BY <1>0, <2>1, <2>2, AppendOne
  <2>4. \A u \in Threads : pc'[u] = "parked" <=> u \in Members(queue')
    BY <1>0, <2>1, <2>3
  <2>5. QueueInv'
    BY <2>3, <2>4 DEF QueueInv, Members, NoRepeats
  <2>6. QED
    BY <1>0, <1>1, <1>2, <2>1, <2>5, FutexSuffices DEF Locations
<1>5. CASE FutexSliceEnds(t)
  <2>1. /\ pc[t] = "parked" /\ pc' = [pc EXCEPT ![t] = "polling"] /\ queue' = Without(queue, t)
        /\ UNCHANGED <<platform, registry, waiters, requested, entry, outcome, timed>>
    BY <1>5 DEF FutexSliceEnds, Goes, local
  <2>2. queue' \in Seq(Threads) /\ NoRepeats(queue') /\ Members(queue') = Members(queue) \ {t}
    BY <1>0, <2>1, WithoutOne
  <2>3. \A u \in Threads : pc'[u] = "parked" <=> u \in Members(queue')
    BY <1>0, <2>1, <2>2
  <2>4. QueueInv'
    BY <2>2, <2>3 DEF QueueInv, Members, NoRepeats
  <2>5. QED
    BY <1>0, <1>1, <1>2, <2>1, <2>4, FutexSuffices DEF Locations
<1>6. CASE FutexSleepsAgain(t) \/ FutexReturns(t)
  <2>1. /\ pc[t] \in {"checked", "polling"}
        /\ pc' = [pc EXCEPT ![t] = "checked"] \/ pc' = [pc EXCEPT ![t] = "idle"]
        /\ outcome' \in [Threads -> {"Ok", "TimedOut"}] /\ timed' \in [Threads -> BOOLEAN]
        /\ UNCHANGED <<platform, queue, registry, waiters, requested, entry>>
    BY <1>0, <1>6 DEF FutexSleepsAgain, FutexReturns, Goes, Answers, host, local
  <2>2. \A u \in Threads : pc'[u] = "parked" <=> u \in Members(queue)
    BY <1>0, <2>1
  <2>3. QueueInv'
    BY <1>0, <2>1, <2>2 DEF QueueInv, Members, NoRepeats
  <2>4. QED
    BY <1>0, <1>1, <1>2, <2>1, <2>3, FutexSuffices DEF Locations
<1>7. QED
  BY <1>3, <1>4, <1>5, <1>6

LEMMA WakeLinuxKeeps ==
  ASSUME IInv, NEW n \in Nat, WakeLinux(n) PROVE IInv'
<1> DEFINE k == IF n < Len(queue) THEN n ELSE Len(queue)
           woken == {queue[i] : i \in 1..k}
<1>0. /\ pc \in [Threads -> Locations] /\ timed \in [Threads -> BOOLEAN]
      /\ outcome \in [Threads -> {"Ok", "TimedOut"}]
      /\ queue \in Seq(Threads) /\ NoRepeats(queue)
      /\ \A u \in Threads : pc[u] = "parked" <=> u \in Members(queue)
  BY DEF IInv, HostInv, QueueInv
<1>1. k \in 0..Len(queue)
  BY <1>0
<1>2. /\ platform = "futex" /\ queue' = SubSeq(queue, k + 1, Len(queue))
      /\ pc' = [t \in Threads |-> IF t \in woken THEN "idle" ELSE pc[t]]
      /\ outcome' = [t \in Threads |-> IF t \in woken THEN "Ok" ELSE outcome[t]]
      /\ timed' = [t \in Threads |-> timed[t] /\ t \notin woken]
      /\ UNCHANGED <<platform, registry, waiters, requested, entry>>
  BY DEF WakeLinux
<1> HIDE DEF k
<1>3. queue' \in Seq(Threads) /\ NoRepeats(queue') /\ Members(queue') = Members(queue) \ woken
  BY <1>0, <1>1, <1>2, SuffixOf
<1> HIDE DEF woken
<1>4. \A u \in Threads : pc'[u] = "parked" <=> u \in Members(queue')
  BY <1>0, <1>2, <1>3
<1>5. QueueInv'
  BY <1>3, <1>4 DEF QueueInv, Members, NoRepeats
<1>6. /\ pc' \in [Threads -> Locations] /\ \A u \in Threads : pc'[u] \notin {"waiting", "sweeping"}
      /\ outcome' \in [Threads -> {"Ok", "TimedOut"}]
  BY <1>0, <1>2 DEF IInv, HostInv, Locations
<1>7. timed' \in [Threads -> BOOLEAN]
  BY <1>0, <1>2
<1>8. QED
  BY <1>2, <1>5, <1>6, <1>7, FutexSuffices

-----------------------------------------------------------------------------
\* The registry.

\* There are more entries than threads to hold one.
LEMMA NewEntryIsFree ==
  ASSUME SyncOnAddressAssumption, IInv
  PROVE  NewEntry \in Entries /\ \A t \in Threads : entry[t] # NewEntry
<1>1. \E e \in Entries : \A t \in Threads : entry[t] # e
  <2> SUFFICES ASSUME \A e \in Entries : \E t \in Threads : entry[t] = e PROVE FALSE
    OBVIOUS
  <2> DEFINE held == {entry[t] : t \in Threads}
             f == [t \in Threads |-> entry[t]]
  <2>1. f \in Surjection(Threads, held)
    BY DEF Surjection
  <2>2. IsFiniteSet(Threads) /\ IsFiniteSet(Entries) /\ Cardinality(Entries) > Cardinality(Threads)
    BY DEF SyncOnAddressAssumption
  <2>3. IsFiniteSet(held) /\ Cardinality(held) <= Cardinality(Threads)
    BY <2>1, <2>2, FS_Surjection
  <2>4. Entries \in SUBSET held
    OBVIOUS
  <2> HIDE DEF held
  <2>5. Cardinality(Entries) <= Cardinality(held)
    BY <2>3, <2>4, FS_Subset
  <2>6. Cardinality(Entries) \in Nat /\ Cardinality(held) \in Nat /\ Cardinality(Threads) \in Nat
    BY <2>2, <2>3, FS_CardinalityType
  <2>7. QED
    BY <2>2, <2>3, <2>5, <2>6
<1>2. QED
  BY <1>1 DEF NewEntry

\* Whoever comes joins those who wait.
LEMMA RegisteredServes ==
  ASSUME SyncOnAddressAssumption, IInv
  PROVE  /\ Registered \in Entries
         /\ \A t \in Threads : pc[t] = "waiting" => entry[t] = Registered
<1>1. NewEntry \in Entries
  BY NewEntryIsFree
<1>2. QED
  BY <1>1 DEF Registered, IInv, RegistryInv, SyncOnAddressAssumption

LEMMA PortableSuffices ==
  ASSUME IInv, platform = "portable", UNCHANGED <<platform, queue>>,
         timed' \in [Threads -> BOOLEAN], outcome' \in [Threads -> {"Ok", "TimedOut"}],
         pc' \in [Threads -> {"idle", "waiting", "sweeping"}], RegistryInv'
  PROVE  IInv'
<1>1. HostInv'
  BY DEF IInv, HostInv, Locations
<1>2. QueueInv'
  <2>1. Members(queue) = {} /\ Members(queue') = {}
    BY DEF IInv, HostInv, QueueInv, Members
  <2>2. \A t \in Threads : pc'[t] # "parked"
    OBVIOUS
  <2>3. QED
    BY <2>1, <2>2 DEF IInv, QueueInv, NoRepeats
<1>3. QED
  BY <1>1, <1>2 DEF IInv

LEMMA PortableTypes ==
  ASSUME IInv, platform = "portable"
  PROVE  /\ pc \in [Threads -> {"idle", "waiting", "sweeping"}]
         /\ timed \in [Threads -> BOOLEAN] /\ outcome \in [Threads -> {"Ok", "TimedOut"}]
         /\ registry \in Entries \cup {None}
         /\ waiters \in [Entries -> Seq(Threads)] /\ entry \in [Threads -> Entries \cup {None}]
         /\ requested \subseteq {t \in Threads : pc[t] = "waiting"} /\ owed \subseteq requested
BY DEF IInv, HostInv, RegistryInv

LEMMA PortableWaitsKeeps ==
  ASSUME SyncOnAddressAssumption, IInv, NEW t \in Threads, NEW v \in Values,
         NEW hasTimeout \in BOOLEAN, PortableWaits(t, v, hasTimeout)
  PROVE  IInv'
<1> DEFINE r == Registered
<1>0. /\ platform = "portable" /\ pc[t] = "idle" /\ registry' = r
      /\ waiters' = [waiters EXCEPT ![r] = Append(@, t)] /\ entry' = [entry EXCEPT ![t] = r]
      /\ timed' = [timed EXCEPT ![t] = hasTimeout] /\ pc' = [pc EXCEPT ![t] = "waiting"]
      /\ UNCHANGED <<platform, queue, requested, outcome, owed>>
  BY DEF PortableWaits, Calls, Goes
<1>1. r \in Entries /\ \A u \in Threads : pc[u] = "waiting" => entry[u] = r
  BY RegisteredServes
<1> HIDE DEF r
<1>2. t \notin Members(waiters[r])
  BY <1>0, <1>1 DEF IInv, RegistryInv
<1>3. /\ waiters[r] \in Seq(Threads) /\ NoRepeats(waiters[r])
      /\ waiters'[r] = Append(waiters[r], t) /\ \A e \in Entries : e # r => waiters'[e] = waiters[e]
  BY <1>0, <1>1 DEF IInv, RegistryInv
<1>4. /\ waiters'[r] \in Seq(Threads) /\ NoRepeats(waiters'[r])
      /\ Members(waiters'[r]) = Members(waiters[r]) \cup {t}
  BY <1>2, <1>3, AppendOne
<1>5. waiters' \in [Entries -> Seq(Threads)]
  BY <1>0, <1>1, <1>3, <1>4, PortableTypes
<1>6. ASSUME NEW e \in Entries
      PROVE  /\ NoRepeats(waiters'[e])
             /\ \A u \in Members(waiters'[e]) : pc'[u] = "waiting" /\ entry'[u] = e
  <2>1. /\ NoRepeats(waiters[e]) /\ waiters[e] \in Seq(Threads)
        /\ \A u \in Members(waiters[e]) : u \in Threads /\ pc[u] = "waiting" /\ entry[u] = e
    BY DEF IInv, RegistryInv, Members
  <2>2. QED
    BY <1>0, <1>1, <1>3, <1>4, <2>1, PortableTypes
<1>7. ASSUME NEW u \in Threads
      PROVE  /\ pc'[u] = "waiting" =>
                  registry' = entry'[u] /\ entry'[u] \in Entries /\ u \in Members(waiters'[entry'[u]])
             /\ pc'[u] = "sweeping" => entry'[u] \in Entries
  <2>1. CASE u = t
    BY <1>0, <1>1, <1>4, <2>1, PortableTypes
  <2>2. CASE u # t
    <3>1. pc'[u] = pc[u] /\ entry'[u] = entry[u]
      BY <1>0, <2>2, PortableTypes
    <3>2. pc[u] = "waiting" => u \in Members(waiters[r])
      BY <1>1 DEF IInv, RegistryInv
    <3>3. QED
      BY <1>0, <1>1, <1>4, <3>1, <3>2 DEF IInv, RegistryInv
  <2>3. QED
    BY <2>1, <2>2
<1>8. RegistryInv'
  <2>1. registry' \in Entries \cup {None} /\ entry' \in [Threads -> Entries \cup {None}]
    BY <1>0, <1>1, PortableTypes
  <2>2. requested' \subseteq {u \in Threads : pc'[u] = "waiting"} /\ owed' \subseteq requested'
    BY <1>0, PortableTypes
  <2>3. QED
    BY <1>5, <1>6, <1>7, <2>1, <2>2 DEF RegistryInv, Members, NoRepeats
<1>9. QED
  BY <1>0, <1>8, PortableTypes, PortableSuffices

\* Who finds another value holds the entry at most, and nobody waits by another.
LEMMA PortablePassesKeeps ==
  ASSUME SyncOnAddressAssumption, IInv, NEW t \in Threads, PortablePasses(t) PROVE IInv'
<1>0. /\ platform = "portable" /\ pc[t] = "idle" /\ registry' = Registered
      /\ UNCHANGED <<platform, queue, waiters, requested, timed, outcome, owed>>
      /\ \/ pc' = [pc EXCEPT ![t] = "sweeping"] /\ entry' = [entry EXCEPT ![t] = Registered]
         \/ UNCHANGED <<pc, entry>>
  BY DEF PortablePasses, Goes
<1>1. Registered \in Entries /\ \A u \in Threads : pc[u] = "waiting" => entry[u] = Registered
  BY RegisteredServes
<1>2. \A u \in Threads : /\ pc'[u] = "waiting" <=> pc[u] = "waiting"
                         /\ pc[u] = "waiting" => entry'[u] = entry[u]
                         /\ pc'[u] = "sweeping" => entry'[u] \in Entries
  BY <1>0, <1>1, PortableTypes DEF IInv, RegistryInv
<1>3. RegistryInv'
  <2>1. \A e \in Entries : \A u \in Members(waiters[e]) : u \in Threads
    BY PortableTypes, <1>0 DEF Members
  <2>2. \A e \in Entries : NoRepeats(waiters'[e])
           /\ \A u \in Members(waiters'[e]) : pc'[u] = "waiting" /\ entry'[u] = e
    BY <1>0, <1>2, <2>1 DEF IInv, RegistryInv
  <2>3. \A u \in Threads : pc'[u] = "waiting" =>
           registry' = entry'[u] /\ entry'[u] \in Entries /\ u \in Members(waiters'[entry'[u]])
    BY <1>0, <1>1, <1>2 DEF IInv, RegistryInv
  <2>4. registry' \in Entries \cup {None} /\ entry' \in [Threads -> Entries \cup {None}]
    BY <1>0, <1>1, PortableTypes
  <2>5. requested' \subseteq {u \in Threads : pc'[u] = "waiting"} /\ owed' \subseteq requested'
    BY <1>0, <1>2, PortableTypes
  <2>6. waiters' \in [Entries -> Seq(Threads)]
    BY <1>0, PortableTypes
  <2>7. QED
    BY <1>2, <2>2, <2>3, <2>4, <2>5, <2>6 DEF RegistryInv, Members, NoRepeats
<1>4. pc' \in [Threads -> {"idle", "waiting", "sweeping"}]
  BY <1>0, PortableTypes
<1>5. QED
  BY <1>0, <1>3, <1>4, PortableTypes, PortableSuffices

\* Who leaves takes its wake with it; the others stay listed.
LEMMA PortableLeavesKeeps ==
  ASSUME SyncOnAddressAssumption, IInv, NEW t \in Threads, PortableLeaves(t) PROVE IInv'
<1> DEFINE e0 == entry[t]
           left == Without(waiters[e0], t)
<1>0. /\ pc[t] = "waiting" /\ waiters' = [waiters EXCEPT ![e0] = left]
      /\ timed' = [timed EXCEPT ![t] = FALSE] /\ owed' = owed \ {t}
      /\ requested' = requested \ {t} /\ UNCHANGED <<platform, queue, registry>>
      /\ \/ pc' = [pc EXCEPT ![t] = "sweeping"] /\ UNCHANGED entry
         \/ pc' = [pc EXCEPT ![t] = "idle"] /\ entry' = [entry EXCEPT ![t] = None]
  BY DEF PortableLeaves, Answers, Goes
<1>1. platform = "portable"
  BY <1>0 DEF IInv, HostInv
<1>2. outcome' \in [Threads -> {"Ok", "TimedOut"}]
  BY <1>1, PortableTypes DEF PortableLeaves, Answers
<1>3. registry = e0 /\ e0 \in Entries
  BY <1>0 DEF IInv, RegistryInv
<1>4. waiters[e0] \in Seq(Threads) /\ NoRepeats(waiters[e0])
  BY <1>3 DEF IInv, RegistryInv
<1>5. left \in Seq(Threads) /\ NoRepeats(left) /\ Members(left) = Members(waiters[e0]) \ {t}
  BY <1>4, WithoutOne
<1> HIDE DEF left, e0
<1>6. waiters'[e0] = left /\ \A e \in Entries : e # e0 => waiters'[e] = waiters[e]
  BY <1>0, <1>1, <1>3, PortableTypes
<1>7. \A u \in Threads : u # t => pc'[u] = pc[u] /\ entry'[u] = entry[u]
  BY <1>0, <1>1, PortableTypes
<1>8. ASSUME NEW e \in Entries
      PROVE  /\ NoRepeats(waiters'[e])
             /\ \A u \in Members(waiters'[e]) : pc'[u] = "waiting" /\ entry'[u] = e
  <2>1. /\ NoRepeats(waiters[e]) /\ waiters[e] \in Seq(Threads)
        /\ \A u \in Members(waiters[e]) : u \in Threads /\ pc[u] = "waiting" /\ entry[u] = e
    BY DEF IInv, RegistryInv, Members
  <2>2. NoRepeats(waiters'[e]) /\ Members(waiters'[e]) \subseteq Members(waiters[e]) \ {t}
    <3>1. CASE e = e0
      BY <1>5, <1>6, <3>1
    <3>2. CASE e # e0
      BY <1>6, <2>1, <3>2 DEF e0
    <3>3. QED
      BY <3>1, <3>2
  <2>3. QED
    BY <1>7, <2>1, <2>2
<1>9. ASSUME NEW u \in Threads
      PROVE  /\ pc'[u] = "waiting" =>
                  registry' = entry'[u] /\ entry'[u] \in Entries /\ u \in Members(waiters'[entry'[u]])
             /\ pc'[u] = "sweeping" => entry'[u] \in Entries
  <2>1. CASE u = t
    <3>1. pc'[t] # "waiting" /\ (pc'[t] = "sweeping" => entry'[t] = e0)
      BY <1>0, <1>1, PortableTypes DEF e0
    <3>2. QED
      BY <1>3, <2>1, <3>1
  <2>2. CASE u # t
    <3>1. pc[u] = "waiting" => registry = entry[u] /\ entry[u] = e0 /\ u \in Members(waiters[e0])
      BY <1>3 DEF IInv, RegistryInv
    <3>2. QED
      BY <1>0, <1>3, <1>5, <1>6, <1>7, <2>2, <3>1 DEF IInv, RegistryInv
  <2>3. QED
    BY <2>1, <2>2
<1>10. RegistryInv'
  <2>1. /\ registry' \in Entries \cup {None} /\ entry' \in [Threads -> Entries \cup {None}]
        /\ waiters' \in [Entries -> Seq(Threads)]
    BY <1>0, <1>1, <1>3, <1>5, PortableTypes
  <2>2. requested' \subseteq {u \in Threads : pc'[u] = "waiting"} /\ owed' \subseteq requested'
    BY <1>0, <1>1, <1>7, PortableTypes
  <2>3. QED
    BY <1>8, <1>9, <2>1, <2>2 DEF RegistryInv, Members, NoRepeats
<1>11. pc' \in [Threads -> {"idle", "waiting", "sweeping"}] /\ timed' \in [Threads -> BOOLEAN]
  BY <1>0, <1>1, PortableTypes
<1>12. QED
  BY <1>0, <1>1, <1>2, <1>10, <1>11, PortableSuffices

\* An entry is dropped only if nobody is listed in it, so nobody waits by it.
LEMMA PortableSweepsKeeps ==
  ASSUME SyncOnAddressAssumption, IInv, NEW t \in Threads, PortableSweeps(t) PROVE IInv'
<1>0. /\ pc[t] = "sweeping" /\ pc' = [pc EXCEPT ![t] = "idle"] /\ entry' = [entry EXCEPT ![t] = None]
      /\ registry' = IF registry = entry[t] /\ waiters[entry[t]] = <<>> THEN None ELSE registry
      /\ UNCHANGED <<platform, queue, waiters, requested, timed, outcome, owed>>
  BY DEF PortableSweeps, Goes
<1>1. platform = "portable"
  BY <1>0 DEF IInv, HostInv
<1>2. \A u \in Threads : /\ pc'[u] = "waiting" <=> pc[u] = "waiting"
                         /\ u # t => pc'[u] = pc[u] /\ entry'[u] = entry[u]
  BY <1>0, <1>1, PortableTypes
<1>3. ASSUME NEW u \in Threads, pc[u] = "waiting" PROVE registry' = registry
  <2>1. registry = entry[u] /\ u \in Members(waiters[entry[u]])
    BY <1>3 DEF IInv, RegistryInv
  <2>2. waiters[registry] # <<>>
    BY <2>1 DEF Members
  <2>3. QED
    BY <1>0, <2>2
<1>4. RegistryInv'
  <2>1. \A e \in Entries : \A u \in Members(waiters[e]) : u \in Threads
    BY PortableTypes, <1>1 DEF Members
  <2>2. \A e \in Entries : NoRepeats(waiters'[e])
           /\ \A u \in Members(waiters'[e]) : pc'[u] = "waiting" /\ entry'[u] = e
    BY <1>0, <1>2, <2>1 DEF IInv, RegistryInv
  <2>3. ASSUME NEW u \in Threads
        PROVE  /\ pc'[u] = "waiting" =>
                    registry' = entry'[u] /\ entry'[u] \in Entries /\ u \in Members(waiters'[entry'[u]])
               /\ pc'[u] = "sweeping" => entry'[u] \in Entries
    <3>1. CASE u = t
      BY <1>0, <1>1, <3>1, PortableTypes
    <3>2. CASE u # t
      BY <1>0, <1>2, <1>3, <3>2 DEF IInv, RegistryInv
    <3>3. QED
      BY <3>1, <3>2
  <2>4. registry' \in Entries \cup {None} /\ entry' \in [Threads -> Entries \cup {None}]
    BY <1>0, <1>1, PortableTypes
  <2>5. requested' \subseteq {u \in Threads : pc'[u] = "waiting"} /\ owed' \subseteq requested'
    BY <1>0, <1>1, <1>2, PortableTypes
  <2>6. waiters' \in [Entries -> Seq(Threads)]
    BY <1>0, <1>1, PortableTypes
  <2>7. QED
    BY <2>2, <2>3, <2>4, <2>5, <2>6 DEF RegistryInv, Members, NoRepeats
<1>5. pc' \in [Threads -> {"idle", "waiting", "sweeping"}]
  BY <1>0, <1>1, PortableTypes
<1>6. QED
  BY <1>0, <1>1, <1>4, <1>5, PortableTypes, PortableSuffices

\* As many wakes as there are waiters reach all of them.
LEMMA WakeReachesAll ==
  ASSUME SyncOnAddressAssumption, IInv, NEW n \in Nat, WakePortable(n),
         n >= Cardinality(Asleep), NEW t \in Asleep
  PROVE  t \in requested'
<1> DEFINE list == IF registry = None THEN <<>> ELSE waiters[registry]
           fresh == {i \in DOMAIN list : list[i] \notin requested}
<1>0. /\ platform = "portable"
      /\ requested' = requested \cup
           {list[i] : i \in {j \in fresh : Cardinality({k \in fresh : k < j}) < n}}
  BY DEF WakePortable
<1>1. \A u \in Asleep : u \in Threads /\ pc[u] = "waiting"
  BY <1>0, PortableTypes DEF Asleep
<1>2. /\ pc[t] = "waiting" /\ registry \in Entries /\ t \in Members(waiters[registry])
      /\ waiters[registry] \in Seq(Threads) /\ NoRepeats(waiters[registry])
      /\ \A u \in Members(waiters[registry]) : pc[u] = "waiting"
  BY <1>1 DEF IInv, RegistryInv
<1>3. list = waiters[registry]
  BY <1>2 DEF SyncOnAddressAssumption
<1>4. /\ list \in Seq(Threads) /\ NoRepeats(list) /\ DOMAIN list \subseteq Nat
      /\ \A i \in DOMAIN list : list[i] \in Asleep
  <2>1. list \in Seq(Threads) /\ NoRepeats(list) /\ \A u \in Members(list) : pc[u] = "waiting"
    BY <1>2, <1>3
  <2> HIDE DEF list
  <2>2. DOMAIN list = 1..Len(list) /\ \A i \in DOMAIN list : list[i] \in Threads
    BY <2>1
  <2>3. QED
    BY <2>1, <2>2 DEF Asleep, Members
<1>5. PICK j \in DOMAIN list : list[j] = t
  BY <1>2, <1>3 DEF Members
<1> HIDE DEF list
<1>6. CASE t \in requested
  BY <1>0, <1>6
<1>7. CASE t \notin requested
  <2> DEFINE before == {k \in fresh : k < j}
             f == [k \in before |-> list[k]]
  <2>1. j \in fresh
    BY <1>5, <1>7
  <2>2. f \in Injection(before, Asleep \ {t})
    <3>1. \A k \in before : k \in DOMAIN list /\ k # j
      BY <1>4
    <3>2. \A k \in before : list[k] \in Asleep \ {t}
      BY <1>4, <1>5, <3>1 DEF NoRepeats
    <3>3. \A a, b \in before : f[a] = f[b] => a = b
      BY <1>4, <3>1 DEF NoRepeats
    <3>4. QED
      BY <3>2, <3>3 DEF Injection, IsInjective
  <2>3. IsFiniteSet(Asleep)
    BY FS_Subset DEF Asleep, SyncOnAddressAssumption
  <2>4. /\ IsFiniteSet(Asleep \ {t}) /\ Cardinality(Asleep \ {t}) = Cardinality(Asleep) - 1
    BY <2>3, FS_RemoveElement
  <2> HIDE DEF before
  <2>5. IsFiniteSet(before) /\ Cardinality(before) <= Cardinality(Asleep \ {t})
    BY <2>2, <2>4, FS_Injection
  <2>6. Cardinality(before) \in Nat /\ Cardinality(Asleep) \in Nat
    BY <2>3, <2>5, FS_CardinalityType
  <2>7. Cardinality(before) < n
    BY <2>4, <2>5, <2>6
  <2>8. QED
    BY <1>0, <1>5, <2>1, <2>7 DEF before
<1>8. QED
  BY <1>6, <1>7

LEMMA WakePortableKeeps ==
  ASSUME SyncOnAddressAssumption, IInv, NEW n \in Nat, WakePortable(n) PROVE IInv'
<1>0. /\ platform = "portable" /\ owed' = Owes(n)
      /\ UNCHANGED <<platform, queue, registry, waiters, pc, entry, timed, outcome>>
  BY DEF WakePortable, local
<1>1. requested \subseteq requested'
  BY DEF WakePortable
<1>2. requested' \subseteq {t \in Threads : pc[t] = "waiting"}
  <2> DEFINE list == IF registry = None THEN <<>> ELSE waiters[registry]
  <2>1. \A i \in DOMAIN list : list[i] \in {t \in Threads : pc[t] = "waiting"}
    <3>1. CASE registry = None
      BY <3>1
    <3>2. CASE registry # None
      <4>1. registry \in Entries /\ list = waiters[registry]
        BY <1>0, <3>2, PortableTypes
      <4>2. waiters[registry] \in Seq(Threads)
        BY <1>0, <4>1, PortableTypes
      <4>3. QED
        BY <4>1, <4>2 DEF IInv, RegistryInv, Members
    <3>3. QED
      BY <3>1, <3>2
  <2>2. \A u \in requested' : u \in requested \/ \E i \in DOMAIN list : u = list[i]
    BY DEF WakePortable
  <2> HIDE DEF list
  <2>3. QED
    BY <1>0, <2>1, <2>2, PortableTypes
<1>3. owed' \subseteq requested'
  <2>1. CASE n >= Cardinality(Asleep)
    <3>1. owed' = owed \cup Asleep /\ Asleep \subseteq requested'
      BY <1>0, <2>1, WakeReachesAll DEF Owes
    <3>2. QED
      BY <1>0, <1>1, <3>1, PortableTypes
  <2>2. CASE ~ (n >= Cardinality(Asleep))
    BY <1>0, <1>1, <2>2, PortableTypes DEF Owes
  <2>3. QED
    BY <2>1, <2>2
<1>4. RegistryInv'
  BY <1>0, <1>2, <1>3 DEF IInv, RegistryInv, Members, NoRepeats
<1>5. QED
  BY <1>0, <1>4, PortableTypes, PortableSuffices

-----------------------------------------------------------------------------

LEMMA InitHolds == ASSUME SyncOnAddressAssumption, Init PROVE IInv
<1>1. Members(<<>>) = {} /\ NoRepeats(<<>>)
  BY DEF Members, NoRepeats
<1>2. HostInv
  BY DEF Init, HostInv, Locations, SyncOnAddressAssumption
<1>3. QueueInv
  BY <1>1 DEF Init, QueueInv
<1>4. RegistryInv
  BY <1>1 DEF Init, RegistryInv
<1>5. QED
  BY <1>2, <1>3, <1>4 DEF IInv

LEMMA UnchangedKeeps == ASSUME IInv, UNCHANGED vars PROVE IInv'
<1>1. HostInv'
  BY DEF vars, local, IInv, HostInv
<1>2. QueueInv'
  BY DEF vars, host, IInv, QueueInv, Members, NoRepeats
<1>3. RegistryInv'
  BY DEF vars, host, local, IInv, RegistryInv, Members, NoRepeats
<1>4. QED
  BY <1>1, <1>2, <1>3 DEF IInv

LEMMA StepKeeps ==
  ASSUME SyncOnAddressAssumption, IInv, [Next]_vars PROVE IInv'
<1>1. CASE UNCHANGED vars
  BY <1>1, UnchangedKeeps
<1>2. ASSUME NEW v \in Values, Store(v) PROVE IInv'
  <2>1. UNCHANGED <<platform, host, pc, local, outcome, owed>>
    BY <1>2 DEF Store
  <2>2. HostInv'
    BY <2>1 DEF local, IInv, HostInv
  <2>3. QueueInv'
    BY <2>1 DEF host, IInv, QueueInv, Members, NoRepeats
  <2>4. RegistryInv'
    BY <2>1 DEF host, local, IInv, RegistryInv, Members, NoRepeats
  <2>5. QED
    BY <2>2, <2>3, <2>4 DEF IInv
<1>3. ASSUME NEW n \in Counts, Wake(n) PROVE IInv'
  BY <1>3, WakeLinuxKeeps, WakePortableKeeps DEF Wake, SyncOnAddressAssumption
<1>4. ASSUME NEW t \in Threads,
             \/ \E v \in Values, hasTimeout \in BOOLEAN :
                  FutexChecks(t, v, hasTimeout) \/ PortableWaits(t, v, hasTimeout)
             \/ FutexParks(t) \/ FutexSliceEnds(t) \/ FutexSleepsAgain(t) \/ FutexReturns(t)
             \/ PortablePasses(t) \/ PortableLeaves(t) \/ PortableSweeps(t) \/ Polls(t)
      PROVE  IInv'
  <2>1. CASE Polls(t)
    BY <2>1, UnchangedKeeps DEF Polls
  <2>2. QED
    BY <1>4, <2>1, FutexKeeps, PortableWaitsKeeps, PortablePassesKeeps, PortableLeavesKeeps,
       PortableSweepsKeeps
<1>5. QED
  BY <1>1, <1>2, <1>3, <1>4 DEF Next

LEMMA IInvHolds == ASSUME SyncOnAddressAssumption PROVE Spec => []IInv
<1>1. Init => IInv
  BY InitHolds
<1>2. IInv /\ [Next]_vars => IInv'
  BY StepKeeps
<1>3. QED
  BY <1>1, <1>2, PTL DEF Spec

LEMMA Reachable == IInv => WaitersAreReachable
BY DEF IInv, HostInv, QueueInv, RegistryInv, WaitersAreReachable, Members

\* Who waits for a word is where a wake looks: in the futex's queue, or in the
\* entry the registry has for the address, whatever entries were dropped and
\* made again (src/kernel/syncOnAddress.cpp).
THEOREM EveryWaiterIsReachable ==
  ASSUME SyncOnAddressAssumption PROVE Spec => []WaitersAreReachable
BY IInvHolds, Reachable, PTL

LEMMA WakesAreKept ==
  ASSUME SyncOnAddressAssumption, IInv, [Next]_vars PROVE KeepsWakes("portable")
<1> SUFFICES ASSUME platform = "portable", NEW t \in owed \ owed' PROVE outcome'[t] = "Ok"
  BY DEF KeepsWakes
<1>0. t \in requested /\ t \in Threads /\ owed' # owed
  BY PortableTypes
<1>1. \A n \in Counts : ~ Wake(n)
  BY DEF Wake, WakePortable, WakeLinux, Owes
<1>2. PICK u \in Threads : PortableLeaves(u)
  <2>1. \A u \in Threads : pc[u] \in {"idle", "waiting", "sweeping"}
    BY PortableTypes
  <2>2. \A u \in Threads : ~ FutexReturns(u)
    BY <2>1 DEF FutexReturns
  <2>3. QED
    BY <1>0, <1>1, <2>2 DEF Next, vars, Store, FutexChecks, PortableWaits, FutexParks, FutexSliceEnds,
         FutexSleepsAgain, PortablePasses, PortableSweeps, Polls
<1>3. t = u /\ Answers(t, "Ok")
  BY <1>0, <1>2 DEF PortableLeaves, Answers
<1>4. QED
  BY <1>0, <1>3, PortableTypes DEF Answers

\* A waiter that a wake for everybody found answers Ok, not a timeout, on hosts
\* without a futex: its wake stays with it until it leaves.
THEOREM PortableWakesAreKept ==
  ASSUME SyncOnAddressAssumption PROVE Spec => PortableKeepsWakes
<1>1. IInv /\ [Next]_vars => [KeepsWakes("portable")]_vars
  BY WakesAreKept
<1>2. QED
  BY <1>1, IInvHolds, PTL DEF Spec, PortableKeepsWakes

(***************************************************************************)
(* The read-write lock.                                                    *)
(***************************************************************************)

\* An instance has its own name for what it takes from FiniteSets.
LEMMA RwlockCounts ==
  ASSUME NEW S
  PROVE  Rwlock!Cardinality(S) = Cardinality(S) /\ Rwlock!IsFiniteSet(S) = IsFiniteSet(S)
BY DEF Rwlock!Cardinality, Cardinality, Rwlock!IsFiniteSet, IsFiniteSet

LEMMA RwlockInitHolds == ASSUME Rwlock!PthreadRwlockAssumption PROVE Rwlock!Init => Rwlock!TypeOK
<1> SUFFICES ASSUME Rwlock!Init PROVE Rwlock!TypeOK
  OBVIOUS
<1>1. Rwlock!Writing = {} /\ Rwlock!Readers = {}
  BY DEF Rwlock!Init, Rwlock!Writing, Rwlock!Readers
<1>2. Rwlock!Cardinality(Rwlock!Writing) = 0
  BY RwlockCounts, <1>1, FS_EmptySet
<1>3. QED
  BY <1>1, <1>2 DEF Rwlock!Init, Rwlock!TypeOK, Rwlock!PthreadRwlockAssumption

\* A thread that starts or stops waiting to write changes the count by one.
LEMMA OneMore ==
  ASSUME IsFiniteSet(Threads), NEW S \in SUBSET Threads, NEW t \in Threads
  PROVE  /\ Rwlock!Cardinality(S) \in Nat
         /\ t \notin S => Rwlock!Cardinality(S \cup {t}) = Rwlock!Cardinality(S) + 1
         /\ t \in S => Rwlock!Cardinality(S \ {t}) = Rwlock!Cardinality(S) - 1
<1>1. Rwlock!IsFiniteSet(S)
  BY RwlockCounts, FS_Subset
<1>2. QED
  BY RwlockCounts, <1>1, FS_CardinalityType, FS_AddElement, FS_RemoveElement

\* Readers come and go: who writes, and who waits to, stays the same.
LEMMA ReadersKeep ==
  ASSUME Rwlock!PthreadRwlockAssumption, Rwlock!TypeOK, NEW t \in Threads,
         Rwlock!ReadLocks(t) \/ Rwlock!ReadTimesOut(t) \/ (\E hasTimeout \in BOOLEAN : Rwlock!ReadBlocks(t, hasTimeout))
  PROVE  Rwlock!TypeOK'
<1>1. CASE Rwlock!ReadLocks(t)
  <2>1. Rwlock!Writing' = Rwlock!Writing /\ Rwlock!Readers' = Rwlock!Readers \cup {t} /\ t \notin Rwlock!Writing
    BY <1>1 DEF Rwlock!ReadLocks, Rwlock!Leaves, Rwlock!Writing, Rwlock!Readers, Rwlock!TypeOK, Rwlock!PthreadRwlockAssumption
  <2>2. readers' \in [Threads -> 0..MaxReads]
    BY <1>1 DEF Rwlock!ReadLocks, Rwlock!TypeOK, Rwlock!PthreadRwlockAssumption
  <2>3. writer = None \/ writer = t
    BY <1>1 DEF Rwlock!ReadLocks, Rwlock!MayRead
  <2>4. QED
    BY <1>1, <2>1, <2>2, <2>3 DEF Rwlock!ReadLocks, Rwlock!Leaves, Rwlock!TypeOK, Rwlock!PthreadRwlockAssumption
<1>2. CASE Rwlock!ReadTimesOut(t)
  <2>1. Rwlock!Writing' = Rwlock!Writing /\ Rwlock!Readers' = Rwlock!Readers
    BY <1>2 DEF Rwlock!ReadTimesOut, Rwlock!Leaves, Rwlock!Writing, Rwlock!Readers, Rwlock!TypeOK
  <2>2. QED
    BY <1>2, <2>1 DEF Rwlock!ReadTimesOut, Rwlock!Leaves, Rwlock!TypeOK
<1>3. ASSUME NEW hasTimeout \in BOOLEAN, Rwlock!ReadBlocks(t, hasTimeout) PROVE Rwlock!TypeOK'
  <2>1. Rwlock!Writing' = Rwlock!Writing /\ Rwlock!Readers' = Rwlock!Readers
    BY <1>3 DEF Rwlock!ReadBlocks, Rwlock!Sleeps, Rwlock!Writing, Rwlock!Readers, Rwlock!TypeOK
  <2>2. writer # t
    BY <1>3 DEF Rwlock!ReadBlocks, Rwlock!MayRead
  <2>3. QED
    BY <1>3, <2>1, <2>2 DEF Rwlock!ReadBlocks, Rwlock!Sleeps, Rwlock!TypeOK
<1>4. QED
  BY <1>1, <1>2, <1>3

\* A writer registers and, in or out, unregisters.
LEMMA WritersKeep ==
  ASSUME Rwlock!PthreadRwlockAssumption, IsFiniteSet(Threads), Rwlock!TypeOK, NEW t \in Threads,
         Rwlock!WriteLocks(t) \/ Rwlock!WriteTimesOut(t) \/ (\E hasTimeout \in BOOLEAN : Rwlock!WriteBlocks(t, hasTimeout))
  PROVE  Rwlock!TypeOK'
<1>0. Rwlock!Writing \in SUBSET Threads
  BY DEF Rwlock!Writing
<1>1. CASE Rwlock!WriteLocks(t)
  <2>1. Rwlock!Writing' = Rwlock!Writing \ {t} /\ Rwlock!Readers' = Rwlock!Readers /\ Rwlock!Readers = {}
    BY <1>1 DEF Rwlock!WriteLocks, Rwlock!Leaves, Rwlock!Writing, Rwlock!Readers, Rwlock!Free, Rwlock!TypeOK
  <2>2. waitingWriters' = Rwlock!Cardinality(Rwlock!Writing')
    <3>1. CASE lockPc[t] = "writing"
      <4>1. t \in Rwlock!Writing /\ waitingWriters' = waitingWriters - 1
        BY <1>1, <3>1 DEF Rwlock!WriteLocks, Rwlock!Writing
      <4>2. QED
        BY <1>0, <2>1, <4>1, OneMore DEF Rwlock!TypeOK
    <3>2. CASE lockPc[t] # "writing"
      <4>1. Rwlock!Writing' = Rwlock!Writing
        BY <2>1, <3>2 DEF Rwlock!Writing
      <4>2. waitingWriters' = waitingWriters - 0
        BY <1>1, <3>2 DEF Rwlock!WriteLocks
      <4>3. Rwlock!Cardinality(Rwlock!Writing) \in Nat
        BY <1>0, OneMore
      <4>4. QED
        BY <4>1, <4>2, <4>3 DEF Rwlock!TypeOK
    <3>3. QED
      BY <3>1, <3>2
  <2>3. QED
    BY <1>1, <2>1, <2>2 DEF Rwlock!WriteLocks, Rwlock!Leaves, Rwlock!TypeOK
<1>2. CASE Rwlock!WriteTimesOut(t)
  <2>1. Rwlock!Writing' = Rwlock!Writing \ {t} /\ t \in Rwlock!Writing /\ Rwlock!Readers' = Rwlock!Readers
    BY <1>2 DEF Rwlock!WriteTimesOut, Rwlock!Leaves, Rwlock!Writing, Rwlock!Readers, Rwlock!TypeOK
  <2>2. waitingWriters' = Rwlock!Cardinality(Rwlock!Writing')
    BY <1>0, <1>2, <2>1, OneMore DEF Rwlock!WriteTimesOut, Rwlock!TypeOK
  <2>3. QED
    BY <1>2, <2>1, <2>2 DEF Rwlock!WriteTimesOut, Rwlock!Leaves, Rwlock!TypeOK
<1>3. ASSUME NEW hasTimeout \in BOOLEAN, Rwlock!WriteBlocks(t, hasTimeout) PROVE Rwlock!TypeOK'
  <2>1. Rwlock!Writing' = Rwlock!Writing \cup {t} /\ t \notin Rwlock!Writing /\ t \notin Rwlock!Readers /\ Rwlock!Readers' = Rwlock!Readers
    BY <1>3 DEF Rwlock!WriteBlocks, Rwlock!Sleeps, Rwlock!Writing, Rwlock!Readers, Rwlock!TypeOK
  <2>2. waitingWriters' = Rwlock!Cardinality(Rwlock!Writing')
    BY <1>0, <1>3, <2>1, OneMore DEF Rwlock!WriteBlocks, Rwlock!TypeOK
  <2>3. writer # t
    BY <1>3 DEF Rwlock!WriteBlocks
  <2>4. QED
    BY <1>3, <2>1, <2>2, <2>3 DEF Rwlock!WriteBlocks, Rwlock!Sleeps, Rwlock!TypeOK
<1>4. QED
  BY <1>1, <1>2, <1>3

LEMMA UnlockKeeps ==
  ASSUME Rwlock!PthreadRwlockAssumption, Rwlock!TypeOK, NEW t \in Threads, Rwlock!Unlock(t) PROVE Rwlock!TypeOK'
<1>1. Rwlock!Writing' = Rwlock!Writing /\ Rwlock!Readers' \subseteq Rwlock!Readers
  BY DEF Rwlock!Unlock, Rwlock!Writing, Rwlock!Readers, Rwlock!TypeOK
<1>2. readers' \in [Threads -> 0..MaxReads]
  <2>1. readers[t] \in 0..MaxReads /\ (t \in Rwlock!Readers => readers[t] > 0)
    BY DEF Rwlock!TypeOK, Rwlock!Readers
  <2>2. QED
    BY <2>1 DEF Rwlock!Unlock, Rwlock!TypeOK, Rwlock!PthreadRwlockAssumption
<1>3. writer' \in {writer, None}
  BY DEF Rwlock!Unlock
<1>4. QED
  BY <1>1, <1>2, <1>3 DEF Rwlock!Unlock, Rwlock!TypeOK

LEMMA RwlockStepKeeps ==
  ASSUME Rwlock!PthreadRwlockAssumption, IsFiniteSet(Threads),
         Rwlock!TypeOK, [Rwlock!Next]_(Rwlock!vars)
  PROVE  Rwlock!TypeOK'
<1>1. CASE UNCHANGED Rwlock!vars
  BY <1>1 DEF Rwlock!vars, Rwlock!TypeOK, Rwlock!Readers, Rwlock!Writing
<1>2. CASE Rwlock!Next
  <2>1. PICK t \in Threads :
          \/ Rwlock!ReadLocks(t) \/ Rwlock!ReadTimesOut(t)
          \/ Rwlock!WriteLocks(t) \/ Rwlock!WriteTimesOut(t)
          \/ \E hasTimeout \in BOOLEAN :
               Rwlock!ReadBlocks(t, hasTimeout) \/ Rwlock!WriteBlocks(t, hasTimeout)
          \/ Rwlock!Unlock(t) \/ Rwlock!Polls(t)
    BY <1>2 DEF Rwlock!Next
  <2>2. CASE Rwlock!Polls(t)
    BY <1>1, <2>2 DEF Rwlock!Polls
  <2>3. QED
    BY <2>1, <2>2, RwlockCounts, ReadersKeep, WritersKeep, UnlockKeeps
<1>3. QED
  BY <1>1, <1>2

\* A writer shares the lock with no other thread, and as many writers are
\* registered as wait (RwlockLockCooperative, src/kernel/pthread.cpp).
THEOREM WritersAreAlone ==
  ASSUME Rwlock!PthreadRwlockAssumption, IsFiniteSet(Threads)
  PROVE  Rwlock!Spec => []Rwlock!TypeOK
<1>1. Rwlock!Init => Rwlock!TypeOK
  BY RwlockInitHolds
<1>2. Rwlock!TypeOK /\ [Rwlock!Next]_(Rwlock!vars) => Rwlock!TypeOK'
  BY RwlockStepKeeps
<1>3. QED
  BY <1>1, <1>2, PTL DEF Rwlock!Spec

(***************************************************************************)
(* The POSIX semaphore.                                                    *)
(***************************************************************************)

LEMMA PosixCounts ==
  ASSUME NEW S
  PROVE  Posix!Cardinality(S) = Cardinality(S) /\ Posix!IsFiniteSet(S) = IsFiniteSet(S)
BY DEF Posix!Cardinality, Cardinality, Posix!IsFiniteSet, IsFiniteSet

PosixInside == Posix!Asleep \cup Posix!Awake

PosixIInv ==
  /\ open \in BOOLEAN /\ units \in Nat /\ sleepers \in Nat
  /\ semPc \in [Threads -> {"idle", "asleep", "awake"}]
  /\ Posix!PosixSemInv

LEMMA OneMoreOrLess ==
  ASSUME Posix!IsFiniteSet(Threads), NEW S \in SUBSET Threads, NEW t \in Threads
  PROVE  /\ Posix!Cardinality(S) \in Nat /\ (Posix!Cardinality(S) = 0 <=> S = {})
         /\ t \notin S => Posix!Cardinality(S \cup {t}) = Posix!Cardinality(S) + 1
         /\ t \in S => Posix!Cardinality(S \ {t}) = Posix!Cardinality(S) - 1
<1>1. Posix!IsFiniteSet(S)
  BY PosixCounts, FS_Subset
<1>2. QED
  BY PosixCounts, <1>1, FS_CardinalityType, FS_EmptySet, FS_AddElement, FS_RemoveElement

LEMMA NobodyCounts == Posix!Cardinality({}) = 0
BY PosixCounts, FS_EmptySet

\* The record is right after SyncGuest if the number of waiters is.
LEMMA PosixSynced ==
  ASSUME Posix!PosixSemAssumption, Posix!SyncGuest, sleepers' = Posix!Cardinality(PosixInside')
  PROVE  record' = [count |-> units', hasWaiters |-> PosixInside' # {}]
<1>1. Posix!IsFiniteSet(PosixInside')
  <2>1. PosixInside' \in SUBSET Threads
    BY DEF PosixInside, Posix!Asleep, Posix!Awake
  <2>2. QED
    BY PosixCounts, <2>1, FS_Subset DEF Posix!PosixSemAssumption
<1>2. sleepers' \in Nat /\ (sleepers' = 0 <=> PosixInside' = {})
  BY PosixCounts, <1>1, FS_CardinalityType, FS_EmptySet
<1>3. (sleepers' > 0) = (PosixInside' # {})
  BY <1>2
<1>4. QED
  BY <1>3 DEF Posix!SyncGuest

\* What SyncGuest sees to aside, the rest of the invariant suffices.
LEMMA PosixEnough ==
  ASSUME Posix!PosixSemAssumption, Posix!SyncGuest, sleepers' = Posix!Cardinality(PosixInside'),
         Posix!Asleep' = {} \/ units' <= Posix!Cardinality(Posix!Awake')
  PROVE  Posix!PosixSemInv'
BY PosixSynced DEF Posix!PosixSemInv, PosixInside

\* Nobody waits for an object that is initialised or destroyed.
LEMMA PosixFreshKeeps ==
  ASSUME Posix!PosixSemAssumption, PosixIInv,
         Posix!SemDestroy \/ \E value \in 0 .. ValueMax : Posix!SemInit(value)
  PROVE  PosixIInv'
<1>0. /\ Posix!Asleep \cup Posix!Awake = {} /\ UNCHANGED semPc
      /\ units' \in Nat /\ sleepers' = 0 /\ open' \in BOOLEAN /\ Posix!SyncGuest
  <2>1. CASE Posix!SemDestroy
    BY <2>1 DEF Posix!SemDestroy
  <2>2. ASSUME NEW value \in 0 .. ValueMax, Posix!SemInit(value)
        PROVE  /\ Posix!Asleep \cup Posix!Awake = {} /\ UNCHANGED semPc
               /\ units' \in Nat /\ sleepers' = 0 /\ open' \in BOOLEAN /\ Posix!SyncGuest
    BY <2>2 DEF Posix!SemInit, Posix!PosixSemAssumption
  <2>3. QED
    BY <2>1, <2>2
<1>1. PosixInside' = {} /\ Posix!Asleep' = {}
  BY <1>0 DEF PosixInside, Posix!Asleep, Posix!Awake
<1>2. Posix!PosixSemInv'
  BY <1>0, <1>1, PosixEnough, NobodyCounts
<1>3. QED
  BY <1>0, <1>2 DEF PosixIInv

\* A unit more, and if somebody sleeps one thread more that will look.
LEMMA PostKeeps == ASSUME Posix!PosixSemAssumption, PosixIInv, Posix!Post PROVE PosixIInv'
<1>0. /\ units \in Nat /\ units' = units + 1 /\ Posix!SyncGuest /\ UNCHANGED <<open, sleepers>>
      /\ Posix!Awake \in SUBSET Threads /\ Posix!IsFiniteSet(Threads)
  BY DEF PosixIInv, Posix!Post, Posix!Awake, Posix!PosixSemAssumption
<1>1. CASE Posix!Asleep = {}
  <2>1. UNCHANGED semPc
    BY <1>1 DEF Posix!Post
  <2>2. PosixInside' = PosixInside /\ Posix!Asleep' = {}
    BY <1>1, <2>1 DEF PosixInside, Posix!Asleep, Posix!Awake
  <2>3. Posix!PosixSemInv'
    BY <1>0, <2>2, PosixEnough DEF PosixIInv, Posix!PosixSemInv, PosixInside
  <2>4. QED
    BY <1>0, <2>1, <2>3 DEF PosixIInv
<1>2. CASE Posix!Asleep # {}
  <2>1. PICK t \in Posix!Asleep : semPc' = [semPc EXCEPT ![t] = "awake"]
    BY <1>2 DEF Posix!Post
  <2>2. t \in Threads /\ t \notin Posix!Awake /\ Posix!Awake' = Posix!Awake \cup {t} /\ PosixInside' = PosixInside
    BY <2>1 DEF PosixIInv, PosixInside, Posix!Asleep, Posix!Awake
  <2>3. units <= Posix!Cardinality(Posix!Awake)
    BY <1>2 DEF PosixIInv, Posix!PosixSemInv
  <2>4. Posix!Cardinality(Posix!Awake) \in Nat /\ Posix!Cardinality(Posix!Awake') = Posix!Cardinality(Posix!Awake) + 1
    BY <1>0, <2>2, OneMoreOrLess
  <2>5. units' <= Posix!Cardinality(Posix!Awake')
    BY <1>0, <2>3, <2>4
  <2>6. Posix!PosixSemInv'
    BY <1>0, <2>2, <2>5, PosixEnough DEF PosixIInv, Posix!PosixSemInv, PosixInside
  <2>7. semPc' \in [Threads -> {"idle", "asleep", "awake"}]
    BY <2>1, <2>2 DEF PosixIInv
  <2>8. QED
    BY <1>0, <2>6, <2>7 DEF PosixIInv
<1>3. QED
  BY <1>1, <1>2

\* A unit is taken past the waiters.
LEMMA TakeKeeps == ASSUME Posix!PosixSemAssumption, PosixIInv, Posix!Take PROVE PosixIInv'
<1>1. /\ units' \in Nat /\ units' <= units /\ Posix!SyncGuest /\ UNCHANGED <<open, sleepers, semPc>>
      /\ Posix!Awake' = Posix!Awake /\ Posix!Asleep' = Posix!Asleep
  BY DEF PosixIInv, Posix!Take, Posix!Awake, Posix!Asleep
<1>2. Posix!Cardinality(Posix!Awake) \in Nat
  <2>1. Posix!IsFiniteSet(Posix!Awake)
    BY PosixCounts, FS_Subset DEF Posix!Awake, Posix!PosixSemAssumption
  <2>2. QED
    BY PosixCounts, <2>1, FS_CardinalityType
<1>3. Posix!PosixSemInv'
  BY <1>1, <1>2, PosixEnough DEF PosixIInv, Posix!PosixSemInv, PosixInside
<1>4. QED
  BY <1>1, <1>3 DEF PosixIInv

LEMMA PosixWaitKeeps == ASSUME Posix!PosixSemAssumption, PosixIInv, NEW t \in Threads, Posix!Wait(t) PROVE PosixIInv'
<1>1. /\ units = 0 /\ units' = 0 /\ sleepers' = sleepers + 1 /\ sleepers \in Nat
      /\ Posix!SyncGuest /\ UNCHANGED open /\ PosixInside \in SUBSET Threads
      /\ t \notin PosixInside /\ PosixInside' = PosixInside \cup {t} /\ Posix!Awake' = Posix!Awake /\ Posix!Awake \in SUBSET Threads
  BY DEF PosixIInv, Posix!Wait, PosixInside, Posix!Awake, Posix!Asleep
<1>2. sleepers' = Posix!Cardinality(PosixInside') /\ units' <= Posix!Cardinality(Posix!Awake')
  <2>1. Posix!IsFiniteSet(Threads) /\ sleepers = Posix!Cardinality(PosixInside)
    BY DEF PosixIInv, Posix!PosixSemInv, PosixInside, Posix!PosixSemAssumption
  <2>2. Posix!Cardinality(PosixInside \cup {t}) = Posix!Cardinality(PosixInside) + 1 /\ Posix!Cardinality(Posix!Awake) \in Nat
    BY <1>1, <2>1, OneMoreOrLess
  <2>3. QED
    BY <1>1, <2>1, <2>2
<1>3. Posix!PosixSemInv'
  BY <1>1, <1>2, PosixEnough
<1>4. QED
  BY <1>1, <1>3 DEF PosixIInv, Posix!Wait

\* A sleeper that wakes may only be one more that looks.
LEMMA PosixWakesKeeps == ASSUME Posix!PosixSemAssumption, PosixIInv, NEW t \in Threads, Posix!Wakes(t) PROVE PosixIInv'
<1>1. /\ t \notin Posix!Awake /\ Posix!Awake' = Posix!Awake \cup {t} /\ PosixInside' = PosixInside
      /\ Posix!Awake \in SUBSET Threads /\ units \in Nat
      /\ t \in Posix!Asleep /\ UNCHANGED <<open, units, sleepers, record>>
  BY DEF PosixIInv, Posix!Wakes, PosixInside, Posix!Awake, Posix!Asleep
<1>2. units <= Posix!Cardinality(Posix!Awake) /\ Posix!Cardinality(Posix!Awake) \in Nat
      /\ Posix!Cardinality(Posix!Awake') = Posix!Cardinality(Posix!Awake) + 1
  BY <1>1, OneMoreOrLess DEF PosixIInv, Posix!PosixSemInv, Posix!PosixSemAssumption
<1>3. units' <= Posix!Cardinality(Posix!Awake')
  BY <1>1, <1>2
<1>4. Posix!PosixSemInv'
  BY <1>1, <1>3 DEF PosixIInv, Posix!PosixSemInv, PosixInside
<1>5. QED
  BY <1>1, <1>4 DEF PosixIInv, Posix!Wakes

\* A waiter that looks takes a unit, or there is none.
LEMMA PosixLooksKeep ==
  ASSUME Posix!PosixSemAssumption, PosixIInv, NEW t \in Threads,
         Posix!WaitTakes(t) \/ Posix!WaitTimesOut(t) \/ Posix!SleepsAgain(t)
  PROVE  PosixIInv'
<1>0. /\ t \in Posix!Awake /\ Posix!Awake \in SUBSET Threads /\ PosixInside \in SUBSET Threads /\ t \in PosixInside
      /\ units \in Nat /\ sleepers \in Nat /\ sleepers = Posix!Cardinality(PosixInside)
      /\ Posix!Asleep = {} \/ units <= Posix!Cardinality(Posix!Awake)
      /\ Posix!SyncGuest /\ UNCHANGED open /\ Posix!Awake' = Posix!Awake \ {t}
  BY DEF PosixIInv, Posix!PosixSemInv, Posix!WaitTakes, Posix!WaitTimesOut, Posix!SleepsAgain, Posix!Leaves, PosixInside, Posix!Awake, Posix!Asleep
<1>1. /\ Posix!Cardinality(Posix!Awake) \in Nat /\ Posix!Cardinality(Posix!Awake') = Posix!Cardinality(Posix!Awake) - 1
      /\ Posix!Cardinality(Posix!Awake') \in Nat
      /\ Posix!Cardinality(PosixInside) \in Nat /\ Posix!Cardinality(PosixInside \ {t}) = Posix!Cardinality(PosixInside) - 1
      /\ Posix!Cardinality(PosixInside \ {t}) \in Nat
  <2>1. Posix!Awake \ {t} \in SUBSET Threads /\ PosixInside \ {t} \in SUBSET Threads
    BY <1>0
  <2>2. QED
    BY <1>0, <2>1, OneMoreOrLess DEF Posix!PosixSemAssumption
<1>2. CASE Posix!WaitTakes(t) \/ Posix!WaitTimesOut(t)
  <2>0. sleepers' = sleepers - 1 /\ semPc' = [semPc EXCEPT ![t] = "idle"] /\ semPc[t] = "awake"
    BY <1>2 DEF Posix!WaitTakes, Posix!WaitTimesOut, Posix!Leaves
  <2>1. PosixInside' = PosixInside \ {t} /\ Posix!Asleep' = Posix!Asleep
    BY <2>0 DEF PosixIInv, PosixInside, Posix!Awake, Posix!Asleep
  <2>2. (units > 0 /\ units' = units - 1) \/ (units = 0 /\ units' = 0)
    BY <1>2 DEF Posix!WaitTakes, Posix!WaitTimesOut
  <2>3. sleepers' = Posix!Cardinality(PosixInside') /\ sleepers' \in Nat
    BY <1>0, <1>1, <2>0, <2>1
  <2>4. Posix!Asleep' = {} \/ units' <= Posix!Cardinality(Posix!Awake')
    BY <1>0, <1>1, <2>1, <2>2
  <2>5. Posix!PosixSemInv'
    BY <1>0, <2>3, <2>4, PosixEnough
  <2>6. semPc' \in [Threads -> {"idle", "asleep", "awake"}] /\ units' \in Nat
    BY <1>0, <2>0, <2>2 DEF PosixIInv
  <2>7. QED
    BY <1>0, <2>3, <2>5, <2>6 DEF PosixIInv
<1>3. CASE Posix!SleepsAgain(t)
  <2>1. PosixInside' = PosixInside /\ units' = 0 /\ UNCHANGED sleepers
    BY <1>3 DEF PosixIInv, Posix!SleepsAgain, PosixInside, Posix!Awake, Posix!Asleep
  <2>2. Posix!PosixSemInv'
    BY <1>0, <1>1, <2>1, PosixEnough
  <2>3. semPc' \in [Threads -> {"idle", "asleep", "awake"}]
    BY <1>3 DEF PosixIInv, Posix!SleepsAgain
  <2>4. QED
    BY <1>0, <2>1, <2>2, <2>3 DEF PosixIInv
<1>4. QED
  BY <1>2, <1>3

LEMMA PosixInitHolds == ASSUME Posix!PosixSemAssumption PROVE Posix!Init => PosixIInv
<1> SUFFICES ASSUME Posix!Init PROVE PosixIInv
  OBVIOUS
<1>1. Posix!Asleep = {} /\ Posix!Awake = {}
  BY DEF Posix!Init, Posix!Asleep, Posix!Awake
<1>2. sleepers = Posix!Cardinality(Posix!Asleep \cup Posix!Awake)
  BY <1>1, NobodyCounts DEF Posix!Init
<1>3. record = [count |-> units, hasWaiters |-> Posix!Asleep \cup Posix!Awake # {}]
  BY <1>1 DEF Posix!Init
<1>4. semPc \in [Threads -> {"idle", "asleep", "awake"}]
  BY DEF Posix!Init
<1>5. Posix!PosixSemInv
  BY <1>1, <1>2, <1>3 DEF Posix!PosixSemInv
<1>6. QED
  BY <1>4, <1>5 DEF Posix!Init, PosixIInv

LEMMA PosixStepKeeps ==
  ASSUME Posix!PosixSemAssumption, PosixIInv, [Posix!Next]_(Posix!vars) PROVE PosixIInv'
<1>1. CASE UNCHANGED Posix!vars
  <2>1. Posix!Asleep' = Posix!Asleep /\ Posix!Awake' = Posix!Awake
    BY <1>1 DEF Posix!vars, Posix!Asleep, Posix!Awake
  <2>2. Posix!PosixSemInv'
    BY <1>1, <2>1 DEF Posix!vars, PosixIInv, Posix!PosixSemInv
  <2>3. QED
    BY <1>1, <2>2 DEF Posix!vars, PosixIInv
<1>2. CASE Posix!Next
  BY <1>2, PosixFreshKeeps, PostKeeps, TakeKeeps, PosixWaitKeeps, PosixWakesKeeps,
     PosixLooksKeep DEF Posix!Next
<1>3. QED
  BY <1>1, <1>2

\* As long as somebody sleeps every unit has a waiter on its way to it, and
\* the record the guest sees is the object (PosixSemPrivate,
\* src/kernel/semaphore.cpp).
THEOREM NoUnitIsStranded ==
  ASSUME Posix!PosixSemAssumption PROVE Posix!Spec => []Posix!PosixSemInv
<1>1. Posix!Init => PosixIInv
  BY PosixInitHolds
<1>2. PosixIInv /\ [Posix!Next]_(Posix!vars) => PosixIInv'
  BY PosixStepKeeps
<1>3. PosixIInv => Posix!PosixSemInv
  BY DEF PosixIInv
<1>4. QED
  BY <1>1, <1>2, <1>3, PTL DEF Posix!Spec

(***************************************************************************)
(* The records of threads.                                                 *)
(***************************************************************************)

Stages == {"idle", "maps", "clears", "marks", "starts", "holds", "frees", "gives"}
Hosts == {"none", "runs", "ends", "ended", "joined"}
Scans == {"sleeps", "looks", "sees", "tests", "joins", "frees", "gives"}

RecordsTyped ==
  /\ free \in [Records -> BOOLEAN] /\ detached \in [Records -> BOOLEAN]
  /\ almostDone \in [Records -> BOOLEAN] /\ stack \in [Records -> BOOLEAN]
  /\ hostThread \in [Records -> Hosts] /\ life \in [Records -> Nat]

GuestsTyped ==
  /\ guest \in [Threads -> [at : Stages, record : Records \cup {None}, life : Nat,
                           detached : BOOLEAN]]
  /\ \A g \in Threads : guest[g].at = "idle" <=> guest[g].record = None

ReaperTyped ==
  /\ reaper \in [at : Scans, record : Records \cup {None}]
  /\ reaper.at = "sleeps" <=> reaper.record = None

\* The reaper has made up its mind about a record.
Reaps(r) == reaper.record = r /\ reaper.at \in {"tests", "joins", "frees", "gives"}
Held(r) == \E g \in Threads : guest[g].record = r
Live(r) == stack[r] /\ hostThread[r] \in {"runs", "ends", "ended"}
Unborn(r) == hostThread[r] \in {"none", "joined"} /\ ~almostDone[r]

\* What a guest thread that has a record may rely on, ...
HolderInv(g, r) ==
  /\ ~free[r] /\ guest[g].life = life[r] /\ ~Reaps(r)
  /\ guest[g].at = "maps" => ~stack[r] /\ Unborn(r)
  /\ guest[g].at \in {"clears", "marks", "starts"} => stack[r] /\ Unborn(r)
  /\ guest[g].at = "starts" => detached[r] = guest[g].detached
  /\ guest[g].at = "holds" => Live(r) /\ ~detached[r]
  /\ guest[g].at \in {"frees", "gives"} => hostThread[r] = "joined" /\ ~detached[r]
  /\ guest[g].at = "gives" => ~stack[r] /\ ~almostDone[r]

\* ... and the reaper, from where it has seen that the thread is done.
ReapedInv(r) ==
  /\ ~free[r]
  /\ reaper.at \in {"tests", "joins"} => Live(r) /\ hostThread[r] # "runs"
  /\ reaper.at \in {"frees", "gives"} => hostThread[r] = "joined"
  /\ reaper.at = "gives" => ~stack[r] /\ ~almostDone[r]

\* A record is free, or one thread has it, or the reaper, or its own thread runs
\* detached.
RecordInv(r) ==
  /\ \A g, h \in Threads : guest[g].record = r /\ guest[h].record = r => g = h
  /\ \A g \in Threads : guest[g].record = r => HolderInv(g, r)
  /\ Reaps(r) => ReapedInv(r)
  /\ free[r] => ~stack[r] /\ Unborn(r)
  /\ ~free[r] /\ ~Held(r) => detached[r] /\ (Live(r) \/ Reaps(r))
  /\ hostThread[r] = "runs" => ~almostDone[r]
  /\ reaper.record = r /\ reaper.at = "sees" => detached[r]

ThreadsIInv ==
  /\ RecordsTyped /\ GuestsTyped /\ ReaperTyped
  /\ slipped = {} => ~bad /\ \A r \in Records : RecordInv(r)

LEMMA GoesOn ==
  ASSUME GuestsTyped, NEW g \in Threads, NEW where \in Stages \ {"idle"},
         guest[g].at # "idle", Threading!Goes(g, where)
  PROVE  /\ GuestsTyped'
         /\ guest'[g] = [guest[g] EXCEPT !.at = where]
         /\ guest'[g].at = where /\ guest'[g].record = guest[g].record
         /\ guest'[g].life = guest[g].life /\ guest'[g].detached = guest[g].detached
         /\ guest[g].record \in Records
         /\ \A h \in Threads : h # g => guest'[h] = guest[h]
<1>1. guest' = [guest EXCEPT ![g] = [guest[g] EXCEPT !.at = where]]
  BY DEF Threading!Goes
<1>2. guest[g] \in [at : Stages, record : Records \cup {None}, life : Nat, detached : BOOLEAN]
  BY DEF GuestsTyped
<1>3. guest'[g] = [guest[g] EXCEPT !.at = where] /\ \A h \in Threads : h # g => guest'[h] = guest[h]
  BY <1>1 DEF GuestsTyped
<1>4. guest'[g] \in [at : Stages, record : Records \cup {None}, life : Nat, detached : BOOLEAN]
  BY <1>2, <1>3
<1>5. guest[g].record \in Records
  BY <1>2 DEF GuestsTyped
<1>6. guest'[g].at = where /\ guest'[g].record = guest[g].record
      /\ guest'[g].life = guest[g].life /\ guest'[g].detached = guest[g].detached
  BY <1>2, <1>3
<1>7. GuestsTyped'
  <2>1. \A h \in Threads : guest'[h].at = "idle" <=> guest'[h].record = None
    BY <1>3, <1>5, <1>6 DEF GuestsTyped
  <2>2. guest' \in [Threads -> [at : Stages, record : Records \cup {None}, life : Nat,
                               detached : BOOLEAN]]
    BY <1>1, <1>3, <1>4 DEF GuestsTyped
  <2>3. QED
    BY <2>1, <2>2 DEF GuestsTyped
<1>8. QED
  BY <1>3, <1>5, <1>6, <1>7

LEMMA GoesHome ==
  ASSUME GuestsTyped, NEW g \in Threads, Threading!Returns(g)
  PROVE  /\ GuestsTyped'
         /\ guest'[g].at = "idle" /\ guest'[g].record = None
         /\ \A h \in Threads : h # g => guest'[h] = guest[h]
<1>1. Threading!Idle \in [at : Stages, record : Records \cup {None}, life : Nat, detached : BOOLEAN]
      /\ Threading!Idle.at = "idle" /\ Threading!Idle.record = None
  BY DEF Threading!Idle, Stages
<1>2. guest'[g] = Threading!Idle /\ \A h \in Threads : h # g => guest'[h] = guest[h]
  BY DEF Threading!Returns, GuestsTyped
<1>3. guest' \in [Threads -> [at : Stages, record : Records \cup {None}, life : Nat,
                             detached : BOOLEAN]]
  BY <1>1 DEF Threading!Returns, GuestsTyped
<1>4. \A h \in Threads : guest'[h].at = "idle" <=> guest'[h].record = None
  BY <1>1, <1>2 DEF GuestsTyped
<1>5. QED
  BY <1>1, <1>2, <1>3, <1>4 DEF GuestsTyped

\* A record whose flags stay, and to which nobody comes or goes.
LEMMA Frame ==
  ASSUME NEW r \in Records, RecordInv(r),
         free'[r] = free[r], detached'[r] = detached[r], almostDone'[r] = almostDone[r],
         stack'[r] = stack[r], hostThread'[r] = hostThread[r], life'[r] = life[r],
         \A g \in Threads :
           guest'[g] = guest[g] \/ (guest[g].record # r /\ guest'[g].record # r),
         \/ reaper' = reaper
         \/ /\ ~Reaps(r) /\ ~Reaps(r)'
            /\ reaper'.record = r /\ reaper'.at = "sees" => detached[r]
  PROVE  RecordInv(r)'
<1>1. /\ Live(r)' <=> Live(r)
      /\ Unborn(r)' <=> Unborn(r)
      /\ Reaps(r)' <=> Reaps(r)
      /\ Reaps(r) => reaper' = reaper
      /\ \A g \in Threads : guest'[g].record = r <=> guest[g].record = r
      /\ \A g \in Threads : guest'[g].record = r => guest'[g] = guest[g]
  BY DEF Live, Unborn, Reaps
<1>2. Held(r)' <=> Held(r)
  BY <1>1 DEF Held
<1>3. \A g \in Threads : guest'[g].record = r => HolderInv(g, r)'
  <2> SUFFICES ASSUME NEW g \in Threads, guest'[g].record = r PROVE HolderInv(g, r)'
    OBVIOUS
  <2>1. HolderInv(g, r) /\ guest'[g] = guest[g]
    BY <1>1 DEF RecordInv
  <2>2. QED
    BY <1>1, <2>1 DEF HolderInv
<1>4. Reaps(r)' => ReapedInv(r)'
  BY <1>1 DEF RecordInv, ReapedInv
<1>5. \A g, h \in Threads : guest'[g].record = r /\ guest'[h].record = r => g = h
  BY <1>1 DEF RecordInv
<1>6. QED
  BY <1>1, <1>2, <1>3, <1>4, <1>5 DEF RecordInv

\* A record in the hands of a guest thread, and in nobody's but its own thread's.
LEMMA HasHolder ==
  ASSUME NEW r \in Records, NEW g \in Threads, guest'[g].record = r,
         \A h \in Threads \ {g} : guest'[h].record # r,
         HolderInv(g, r)', hostThread'[r] = "runs" => ~almostDone'[r],
         reaper'.record = r /\ reaper'.at = "sees" => detached'[r]
  PROVE  RecordInv(r)'
BY DEF RecordInv, HolderInv, Held

LEMMA HasNoHolder ==
  ASSUME NEW r \in Records, \A h \in Threads : guest'[h].record # r, ~Reaps(r)',
         (free[r] /\ ~stack[r] /\ Unborn(r))' \/ (~free[r] /\ detached[r] /\ Live(r))',
         hostThread'[r] = "runs" => ~almostDone'[r],
         reaper'.record = r /\ reaper'.at = "sees" => detached'[r]
  PROVE  RecordInv(r)'
BY DEF RecordInv

\* The other guest threads do not have the record that one of them has.
LEMMA OthersHave ==
  ASSUME ThreadsIInv, slipped = {}, NEW g \in Threads, guest[g].at # "idle"
  PROVE  /\ guest[g].record \in Records
         /\ RecordInv(guest[g].record) /\ HolderInv(g, guest[g].record)
         /\ \A h \in Threads \ {g} : guest[h].record # guest[g].record
<1>1. guest[g].record \in Records
  BY DEF ThreadsIInv, GuestsTyped
<1>2. RecordInv(guest[g].record)
  BY <1>1 DEF ThreadsIInv
<1>3. QED
  BY <1>1, <1>2 DEF RecordInv

\* What a guest thread does to its record does not concern another one.
LEMMA OthersKeep ==
  ASSUME ThreadsIInv, slipped = {}, NEW g \in Threads, NEW q \in Records,
         guest[g].record # q, guest'[g].record # q,
         \A h \in Threads : h # g => guest'[h] = guest[h],
         free'[q] = free[q], detached'[q] = detached[q], almostDone'[q] = almostDone[q],
         stack'[q] = stack[q], hostThread'[q] = hostThread[q], life'[q] = life[q], reaper' = reaper
  PROVE  RecordInv(q)'
<1>1. RecordInv(q)
  BY DEF ThreadsIInv
<1>2. \A h \in Threads : guest'[h] = guest[h] \/ (guest[h].record # q /\ guest'[h].record # q)
  OBVIOUS
<1>3. QED
  BY <1>1, <1>2, Frame

LEMMA ThreadTakeKeeps ==
  ASSUME Threading!ThreadsAssumption, ThreadsIInv, NEW g \in Threads, NEW wantsDetached \in BOOLEAN,
         Threading!Take(g, wantsDetached)
  PROVE  ThreadsIInv'
<1>1. PICK r \in Records :
        /\ free[r] /\ free' = [free EXCEPT ![r] = FALSE]
        /\ life' = [life EXCEPT ![r] = @ + 1]
        /\ guest' = [guest EXCEPT ![g] = [at |-> "maps", record |-> r, life |-> life[r] + 1,
                                          detached |-> wantsDetached]]
  BY DEF Threading!Take
<1>2. /\ guest[g] = Threading!Idle /\ reaper = Threading!Sleeps
      /\ UNCHANGED <<detached, almostDone, stack, hostThread, reaper, bad, slipped>>
  BY DEF Threading!Take
<1>3. RecordsTyped' /\ ReaperTyped'
  BY <1>1, <1>2 DEF ThreadsIInv, RecordsTyped, ReaperTyped
<1>4. /\ guest'[g] = [at |-> "maps", record |-> r, life |-> life[r] + 1, detached |-> wantsDetached]
      /\ \A h \in Threads : h # g => guest'[h] = guest[h]
  BY <1>1 DEF ThreadsIInv, GuestsTyped
<1>5. GuestsTyped'
  <2>1. guest'[g] \in [at : Stages, record : Records \cup {None}, life : Nat, detached : BOOLEAN]
    BY <1>4 DEF ThreadsIInv, RecordsTyped, Stages
  <2>2. guest' \in [Threads -> [at : Stages, record : Records \cup {None}, life : Nat,
                               detached : BOOLEAN]]
    BY <1>1, <1>4, <2>1 DEF ThreadsIInv, GuestsTyped
  <2>3. \A h \in Threads : guest'[h].at = "idle" <=> guest'[h].record = None
    BY <1>4 DEF ThreadsIInv, GuestsTyped, Threading!ThreadsAssumption
  <2>4. QED
    BY <2>2, <2>3 DEF GuestsTyped
<1>6. ASSUME slipped' = {} PROVE ~bad' /\ \A q \in Records : RecordInv(q)'
  <2>0. slipped = {} /\ ~bad /\ ~bad'
    BY <1>2, <1>6 DEF ThreadsIInv
  <2>1. RecordInv(r)
    BY <2>0 DEF ThreadsIInv
  <2>2. \A h \in Threads : guest[h].record # r
    BY <1>1, <2>1 DEF RecordInv, HolderInv
  <2>3. RecordInv(r)'
    <3>1. HolderInv(g, r)'
      BY <1>1, <1>2, <1>4, <2>1 DEF RecordInv, HolderInv, Unborn, Reaps, Threading!Sleeps, ThreadsIInv, RecordsTyped
    <3>2. \A h \in Threads \ {g} : guest'[h].record # r
      BY <1>4, <2>2
    <3>3. hostThread'[r] = "runs" => ~almostDone'[r]
      BY <1>2, <2>1 DEF RecordInv
    <3>4. ~ (reaper'.record = r /\ reaper'.at = "sees")
      BY <1>2 DEF Threading!Sleeps
    <3>5. guest'[g].record = r
      BY <1>4
    <3>6. QED
      BY <3>1, <3>2, <3>3, <3>4, <3>5, HasHolder
  <2>4. ASSUME NEW q \in Records, q # r PROVE RecordInv(q)'
    <3>1. guest[g].record # q /\ guest'[g].record # q
      BY <1>2, <1>4, <2>4 DEF Threading!Idle, Threading!ThreadsAssumption
    <3>2. free'[q] = free[q] /\ life'[q] = life[q]
      BY <1>1, <2>4 DEF ThreadsIInv, RecordsTyped
    <3>3. QED
      BY <1>2, <1>4, <2>0, <3>1, <3>2, OthersKeep
  <2>5. QED
    BY <2>0, <2>3, <2>4
<1>7. QED
  BY <1>3, <1>5, <1>6 DEF ThreadsIInv

Same(q) ==
  /\ free'[q] = free[q] /\ detached'[q] = detached[q] /\ almostDone'[q] = almostDone[q]
  /\ stack'[q] = stack[q] /\ hostThread'[q] = hostThread[q] /\ life'[q] = life[q]

\* A guest thread's step is right if it is for the record the thread has.
LEMMA StepOfHolder ==
  ASSUME Threading!ThreadsAssumption, ThreadsIInv, NEW g \in Threads, guest[g].at # "idle",
         Threading!Returns(g) \/ \E where \in Stages \ {"idle"} : Threading!Goes(g, where),
         NEW r, r = guest[g].record,
         RecordsTyped', reaper' = reaper, slipped \subseteq slipped',
         \A q \in Records \ {r} : Same(q),
         slipped = {} /\ slipped' = {} => ~bad' /\ RecordInv(r)'
  PROVE  ThreadsIInv'
<1>1. GuestsTyped' /\ \A h \in Threads : h # g => guest'[h] = guest[h]
  BY GoesOn, GoesHome DEF ThreadsIInv
<1>2. guest'[g].record \in {None, r}
  BY GoesOn, GoesHome DEF ThreadsIInv
<1>3. ReaperTyped'
  BY DEF ThreadsIInv, ReaperTyped
<1>4. ASSUME slipped' = {}, NEW q \in Records, q # r PROVE RecordInv(q)'
  <2>1. guest[g].record # q /\ guest'[g].record # q
    BY <1>2, <1>4 DEF Threading!ThreadsAssumption
  <2>2. slipped = {} /\ Same(q)
    BY <1>4
  <2>3. QED
    BY <1>1, <2>1, <2>2, OthersKeep DEF Same
<1>5. QED
  BY <1>1, <1>3, <1>4 DEF ThreadsIInv

\* Where a thread goes on with its record, what it may rely on suffices.
LEMMA StaysWithHolder ==
  ASSUME Threading!ThreadsAssumption, ThreadsIInv, slipped = {}, NEW g \in Threads, guest[g].at # "idle",
         NEW where \in Stages \ {"idle"}, Threading!Goes(g, where), reaper' = reaper,
         NEW r, r = guest[g].record,
         HolderInv(g, r)', hostThread'[r] = "runs" => ~almostDone'[r],
         reaper.record = r /\ reaper.at = "sees" => detached'[r]
  PROVE  RecordInv(r)'
<1>1. r \in Records /\ \A h \in Threads \ {g} : guest[h].record # r
  BY OthersHave
<1>2. guest'[g].record = r /\ \A h \in Threads : h # g => guest'[h] = guest[h]
  BY GoesOn DEF ThreadsIInv
<1>3. QED
  BY <1>1, <1>2, HasHolder

LEMMA LeavesRecord ==
  ASSUME Threading!ThreadsAssumption, ThreadsIInv, slipped = {}, NEW g \in Threads, guest[g].at # "idle",
         Threading!Returns(g), reaper' = reaper, NEW r, r = guest[g].record,
         (free[r] /\ ~stack[r] /\ Unborn(r))' \/ (~free[r] /\ detached[r] /\ Live(r))',
         hostThread'[r] = "runs" => ~almostDone'[r],
         reaper.record = r /\ reaper.at = "sees" => detached'[r]
  PROVE  RecordInv(r)'
<1>1. /\ r \in Records /\ HolderInv(g, r)
      /\ \A h \in Threads \ {g} : guest[h].record # r
  BY OthersHave
<1>2. \A h \in Threads : guest'[h].record # r
  BY <1>1, GoesHome DEF ThreadsIInv, Threading!ThreadsAssumption
<1>3. ~Reaps(r)'
  BY <1>1 DEF HolderInv, Reaps
<1>4. QED
  BY <1>1, <1>2, <1>3, HasNoHolder

LEMMA MapStackKeeps ==
  ASSUME Threading!ThreadsAssumption, ThreadsIInv, NEW g \in Threads, Threading!MapStack(g) PROVE ThreadsIInv'
<1> PICK r : r = guest[g].record
  OBVIOUS
<1>0. /\ guest[g].at = "maps"
      /\ UNCHANGED <<detached, almostDone, hostThread, life, reaper, bad, slipped>>
      /\ \/ stack' = [stack EXCEPT ![r] = TRUE] /\ Threading!Goes(g, "clears") /\ UNCHANGED free
         \/ free' = [free EXCEPT ![r] = TRUE] /\ Threading!Returns(g) /\ UNCHANGED stack
  BY DEF Threading!MapStack
<1>1. RecordsTyped' /\ \A q \in Records \ {r} : Same(q)
  BY <1>0 DEF ThreadsIInv, RecordsTyped, Same
<1>2. ASSUME slipped = {} PROVE ~bad' /\ RecordInv(r)'
  <2>0. r \in Records /\ RecordInv(r) /\ HolderInv(g, r) /\ ~bad
    BY <1>0, <1>2, OthersHave DEF ThreadsIInv
  <2>1. CASE stack' = [stack EXCEPT ![r] = TRUE] /\ Threading!Goes(g, "clears") /\ UNCHANGED free
    <3>0. guest'[g].at = "clears" /\ guest'[g].life = guest[g].life
      BY <1>0, <2>1, GoesOn DEF ThreadsIInv, Stages
    <3>1. HolderInv(g, r)'
      BY <1>0, <2>0, <2>1, <3>0 DEF HolderInv, Unborn, Reaps, ThreadsIInv, RecordsTyped
    <3>2. QED
      BY <1>0, <1>2, <2>0, <2>1, <3>1, StaysWithHolder DEF RecordInv, Stages
  <2>2. CASE free' = [free EXCEPT ![r] = TRUE] /\ Threading!Returns(g) /\ UNCHANGED stack
    <3>1. (free[r] /\ ~stack[r] /\ Unborn(r))'
      BY <1>0, <2>0, <2>2 DEF HolderInv, Unborn, ThreadsIInv, RecordsTyped
    <3>2. QED
      BY <1>0, <1>2, <2>0, <2>2, <3>1, LeavesRecord DEF RecordInv
  <2>3. QED
    BY <1>0, <2>1, <2>2
<1>3. QED
  BY <1>0, <1>1, <1>2, StepOfHolder DEF Stages

LEMMA ClearDoneKeeps ==
  ASSUME Threading!ThreadsAssumption, ThreadsIInv, NEW g \in Threads, Threading!ClearDone(g) PROVE ThreadsIInv'
<1> PICK r : r = guest[g].record
  OBVIOUS
<1>0. /\ guest[g].at = "clears" /\ almostDone' = [almostDone EXCEPT ![r] = FALSE]
      /\ Threading!Goes(g, "marks")
      /\ UNCHANGED <<free, detached, stack, hostThread, life, reaper, bad, slipped>>
  BY DEF Threading!ClearDone
<1>1. RecordsTyped' /\ \A q \in Records \ {r} : Same(q)
  BY <1>0 DEF ThreadsIInv, RecordsTyped, Same
<1>2. ASSUME slipped = {} PROVE ~bad' /\ RecordInv(r)'
  <2>0. r \in Records /\ RecordInv(r) /\ HolderInv(g, r) /\ ~bad
    BY <1>0, <1>2, OthersHave DEF ThreadsIInv
  <2>4. guest'[g].at = "marks" /\ guest'[g].life = guest[g].life
    BY <1>0, GoesOn DEF ThreadsIInv, Stages
  <2>1. HolderInv(g, r)'
    BY <1>0, <2>0, <2>4 DEF HolderInv, Unborn, Reaps, ThreadsIInv, RecordsTyped
  <2>2. ~almostDone'[r]
    BY <1>0, <2>0 DEF ThreadsIInv, RecordsTyped
  <2>3. QED
    BY <1>0, <1>2, <2>0, <2>1, <2>2, StaysWithHolder DEF RecordInv, Stages
<1>3. QED
  BY <1>0, <1>1, <1>2, StepOfHolder DEF Stages

\* A record is marked while the reaper does not look at it, or it has slipped.
LEMMA SetDetachedKeeps ==
  ASSUME Threading!ThreadsAssumption, ThreadsIInv, NEW g \in Threads, Threading!SetDetached(g) PROVE ThreadsIInv'
<1> PICK r : r = guest[g].record
  OBVIOUS
<1>0. /\ guest[g].at = "marks" /\ detached' = [detached EXCEPT ![r] = guest[g].detached]
      /\ slipped' = IF reaper.record = r /\ reaper.at # "looks" THEN slipped \cup {r} ELSE slipped
      /\ Threading!Goes(g, "starts")
      /\ UNCHANGED <<free, almostDone, stack, hostThread, life, reaper, bad>>
  BY DEF Threading!SetDetached
<1>1. RecordsTyped' /\ \A q \in Records \ {r} : Same(q)
  <2>1. guest[g].detached \in BOOLEAN
    BY DEF ThreadsIInv, GuestsTyped
  <2>2. QED
    BY <1>0, <2>1 DEF ThreadsIInv, RecordsTyped, Same
<1>2. ASSUME slipped = {}, slipped' = {} PROVE ~bad' /\ RecordInv(r)'
  <2>0. r \in Records /\ RecordInv(r) /\ HolderInv(g, r) /\ ~bad
    BY <1>0, <1>2, OthersHave DEF ThreadsIInv
  <2>4. guest'[g].at = "starts" /\ guest'[g].life = guest[g].life /\ guest'[g].detached = guest[g].detached
    BY <1>0, GoesOn DEF ThreadsIInv, Stages
  <2>1. HolderInv(g, r)'
    BY <1>0, <2>0, <2>4 DEF HolderInv, Unborn, Reaps, ThreadsIInv, RecordsTyped
  <2>2. ~ (reaper.record = r /\ reaper.at = "sees")
    BY <1>0, <1>2
  <2>3. QED
    BY <1>0, <1>2, <2>0, <2>1, <2>2, StaysWithHolder DEF RecordInv, Stages
<1>3. QED
  BY <1>0, <1>1, <1>2, StepOfHolder DEF Stages

LEMMA StartKeeps ==
  ASSUME Threading!ThreadsAssumption, ThreadsIInv, NEW g \in Threads, Threading!Start(g) PROVE ThreadsIInv'
<1> PICK r : r = guest[g].record
  OBVIOUS
<1>0. /\ guest[g].at = "starts"
      /\ \/ /\ hostThread' = [hostThread EXCEPT ![r] = "runs"] /\ UNCHANGED <<free, stack>>
            /\ ~guest[g].detached /\ Threading!Goes(g, "holds")
         \/ /\ hostThread' = [hostThread EXCEPT ![r] = "runs"] /\ UNCHANGED <<free, stack>>
            /\ guest[g].detached /\ Threading!Returns(g)
         \/ /\ stack' = [stack EXCEPT ![r] = FALSE] /\ free' = [free EXCEPT ![r] = TRUE]
            /\ Threading!Returns(g) /\ UNCHANGED hostThread
      /\ UNCHANGED <<detached, almostDone, life, reaper, bad, slipped>>
  BY DEF Threading!Start
<1>1. RecordsTyped' /\ \A q \in Records \ {r} : Same(q)
  BY <1>0 DEF ThreadsIInv, RecordsTyped, Same, Hosts
<1>2. ASSUME slipped = {} PROVE ~bad' /\ RecordInv(r)'
  <2>0. r \in Records /\ RecordInv(r) /\ HolderInv(g, r) /\ ~bad
    BY <1>0, <1>2, OthersHave DEF ThreadsIInv
  <2>1. CASE /\ hostThread' = [hostThread EXCEPT ![r] = "runs"] /\ UNCHANGED <<free, stack>>
             /\ ~guest[g].detached /\ Threading!Goes(g, "holds")
    <3>0. Threading!Goes(g, "holds")
      BY <2>1
    <3>4. guest'[g].at = "holds" /\ guest'[g].life = guest[g].life
      BY <3>0, <1>0, GoesOn DEF ThreadsIInv, Stages
    <3>1. HolderInv(g, r)'
      BY <1>0, <2>0, <2>1, <3>4 DEF HolderInv, Unborn, Live, Reaps, ThreadsIInv, RecordsTyped
    <3>2. hostThread'[r] = "runs" => ~almostDone'[r]
      BY <1>0, <2>0 DEF HolderInv, Unborn
    <3>3. QED
      BY <1>0, <1>2, <2>0, <3>0, <3>1, <3>2, StaysWithHolder DEF RecordInv, Stages
  <2>2. CASE /\ hostThread' = [hostThread EXCEPT ![r] = "runs"] /\ UNCHANGED <<free, stack>>
             /\ guest[g].detached /\ Threading!Returns(g)
    <3>0. Threading!Returns(g)
      BY <2>2
    <3>1. (~free[r] /\ detached[r] /\ Live(r))' /\ ~almostDone'[r]
      BY <1>0, <2>0, <2>2 DEF HolderInv, Unborn, Live, ThreadsIInv, RecordsTyped
    <3>2. QED
      BY <1>0, <1>2, <2>0, <3>0, <3>1, LeavesRecord DEF RecordInv
  <2>3. CASE /\ stack' = [stack EXCEPT ![r] = FALSE] /\ free' = [free EXCEPT ![r] = TRUE]
             /\ Threading!Returns(g) /\ UNCHANGED hostThread
    <3>1. (free[r] /\ ~stack[r] /\ Unborn(r))'
      BY <1>0, <2>0, <2>3 DEF HolderInv, Unborn, ThreadsIInv, RecordsTyped
    <3>2. QED
      BY <1>0, <1>2, <2>0, <2>3, <3>1, LeavesRecord DEF RecordInv
  <2>4. QED
    BY <1>0, <2>1, <2>2, <2>3
<1>3. QED
  BY <1>0, <1>1, <1>2, StepOfHolder DEF Stages

LEMMA JoinKeeps ==
  ASSUME Threading!ThreadsAssumption, ThreadsIInv, NEW g \in Threads, Threading!Join(g) PROVE ThreadsIInv'
<1> PICK r : r = guest[g].record
  OBVIOUS
<1>0. /\ guest[g].at = "holds" /\ Threading!HostJoins(r, guest[g].life) /\ Threading!Goes(g, "frees")
      /\ UNCHANGED <<free, detached, almostDone, stack, life, reaper, slipped>>
  BY DEF Threading!Join, Threading!flags
<1>1. RecordsTyped' /\ \A q \in Records \ {r} : Same(q)
  BY <1>0 DEF ThreadsIInv, RecordsTyped, Same, Threading!HostJoins, Hosts
<1>2. ASSUME slipped = {} PROVE ~bad' /\ RecordInv(r)'
  <2>0. r \in Records /\ RecordInv(r) /\ HolderInv(g, r) /\ ~bad
    BY <1>0, <1>2, OthersHave DEF ThreadsIInv
  <2>1. hostThread' = [hostThread EXCEPT ![r] = "joined"] /\ ~bad'
    BY <1>0, <2>0 DEF HolderInv, Live, Threading!HostJoins
  <2>2. guest'[g].at = "frees" /\ guest'[g].life = guest[g].life
    BY <1>0, GoesOn DEF ThreadsIInv, Stages
  <2>3. HolderInv(g, r)' /\ hostThread'[r] # "runs"
    BY <1>0, <2>0, <2>1, <2>2 DEF HolderInv, Live, Reaps, ThreadsIInv, RecordsTyped
  <2>4. QED
    BY <1>0, <1>2, <2>0, <2>1, <2>3, StaysWithHolder DEF RecordInv, Stages
<1>3. QED
  BY <1>0, <1>1, <1>2, StepOfHolder DEF Stages

LEMMA JoinFreesStackKeeps ==
  ASSUME Threading!ThreadsAssumption, ThreadsIInv, NEW g \in Threads, Threading!JoinFreesStack(g) PROVE ThreadsIInv'
<1> PICK r : r = guest[g].record
  OBVIOUS
<1>0. /\ guest[g].at = "frees" /\ Threading!FreesStack(r) /\ Threading!Goes(g, "gives")
      /\ UNCHANGED <<free, detached, hostThread, life, reaper, bad, slipped>>
  BY DEF Threading!JoinFreesStack
<1>1. RecordsTyped' /\ \A q \in Records \ {r} : Same(q)
  BY <1>0 DEF ThreadsIInv, RecordsTyped, Same, Threading!FreesStack
<1>2. ASSUME slipped = {} PROVE ~bad' /\ RecordInv(r)'
  <2>0. r \in Records /\ RecordInv(r) /\ HolderInv(g, r) /\ ~bad
    BY <1>0, <1>2, OthersHave DEF ThreadsIInv
  <2>1. ~stack'[r] /\ ~almostDone'[r]
    BY <1>0, <2>0 DEF Threading!FreesStack, ThreadsIInv, RecordsTyped
  <2>2. guest'[g].at = "gives" /\ guest'[g].life = guest[g].life
    BY <1>0, GoesOn DEF ThreadsIInv, Stages
  <2>3. HolderInv(g, r)'
    BY <1>0, <2>0, <2>1, <2>2 DEF HolderInv, Reaps
  <2>4. QED
    BY <1>0, <1>2, <2>0, <2>1, <2>3, StaysWithHolder DEF RecordInv, Stages
<1>3. QED
  BY <1>0, <1>1, <1>2, StepOfHolder DEF Stages

LEMMA JoinReturnsKeeps ==
  ASSUME Threading!ThreadsAssumption, ThreadsIInv, NEW g \in Threads, Threading!JoinReturns(g) PROVE ThreadsIInv'
<1> PICK r : r = guest[g].record
  OBVIOUS
<1>0. /\ guest[g].at = "gives" /\ free' = [free EXCEPT ![r] = TRUE] /\ Threading!Returns(g)
      /\ UNCHANGED <<detached, almostDone, stack, hostThread, life, reaper, bad, slipped>>
  BY DEF Threading!JoinReturns
<1>1. RecordsTyped' /\ \A q \in Records \ {r} : Same(q)
  BY <1>0 DEF ThreadsIInv, RecordsTyped, Same
<1>2. ASSUME slipped = {} PROVE ~bad' /\ RecordInv(r)'
  <2>0. r \in Records /\ RecordInv(r) /\ HolderInv(g, r) /\ ~bad
    BY <1>0, <1>2, OthersHave DEF ThreadsIInv
  <2>1. (free[r] /\ ~stack[r] /\ Unborn(r))'
    BY <1>0, <2>0 DEF HolderInv, Unborn, ThreadsIInv, RecordsTyped
  <2>2. QED
    BY <1>0, <1>2, <2>0, <2>1, LeavesRecord DEF RecordInv
<1>3. QED
  BY <1>0, <1>1, <1>2, StepOfHolder

LEMMA DetachKeeps ==
  ASSUME Threading!ThreadsAssumption, ThreadsIInv, NEW g \in Threads, Threading!Detach(g) PROVE ThreadsIInv'
<1> PICK r : r = guest[g].record
  OBVIOUS
<1>0. /\ guest[g].at = "holds" /\ detached' = [detached EXCEPT ![r] = TRUE] /\ Threading!Returns(g)
      /\ UNCHANGED <<free, almostDone, stack, hostThread, life, reaper, bad, slipped>>
  BY DEF Threading!Detach
<1>1. RecordsTyped' /\ \A q \in Records \ {r} : Same(q)
  BY <1>0 DEF ThreadsIInv, RecordsTyped, Same
<1>2. ASSUME slipped = {} PROVE ~bad' /\ RecordInv(r)'
  <2>0. r \in Records /\ RecordInv(r) /\ HolderInv(g, r) /\ ~bad
    BY <1>0, <1>2, OthersHave DEF ThreadsIInv
  <2>1. (~free[r] /\ detached[r] /\ Live(r))'
    BY <1>0, <2>0 DEF HolderInv, Live, ThreadsIInv, RecordsTyped
  <2>2. QED
    BY <1>0, <1>2, <2>0, <2>1, LeavesRecord DEF RecordInv
<1>3. QED
  BY <1>0, <1>1, <1>2, StepOfHolder

\* A thread of a record ends; nothing else of it changes.
LEMMA ThreadEnds ==
  ASSUME Threading!ThreadsAssumption, ThreadsIInv, NEW r \in Records, Threading!Cleanup(r) \/ Threading!Exit(r) PROVE ThreadsIInv'
<1>0. UNCHANGED <<free, detached, stack, life, guest, reaper, bad, slipped>>
  BY DEF Threading!Cleanup, Threading!Exit, Threading!flags
<1>1. RecordsTyped' /\ \A q \in Records \ {r} : Same(q)
  BY <1>0 DEF Threading!Cleanup, Threading!Exit, Threading!flags, ThreadsIInv, RecordsTyped, Same, Hosts
<1>2. GuestsTyped' /\ ReaperTyped'
  BY <1>0 DEF ThreadsIInv, GuestsTyped, ReaperTyped
<1>3. ASSUME slipped = {}, NEW q \in Records, q # r PROVE RecordInv(q)'
  <2>1. RecordInv(q) /\ Same(q)
    BY <1>1, <1>3 DEF ThreadsIInv
  <2>2. QED
    BY <1>0, <2>1, Frame DEF Same
<1>4. ASSUME slipped = {} PROVE RecordInv(r)'
  <2>1. RecordInv(r)
    BY <1>4 DEF ThreadsIInv
  <2>2. /\ hostThread[r] \in {"runs", "ends"} /\ hostThread'[r] \in {"ends", "ended"}
    BY DEF Threading!Cleanup, Threading!Exit, ThreadsIInv, RecordsTyped
  <2>3. ASSUME NEW g \in Threads, guest[g].record = r PROVE HolderInv(g, r)'
    <3>1. HolderInv(g, r)
      BY <2>1, <2>3 DEF RecordInv
    <3>2. guest[g].at = "holds"
      <4>1. guest[g].at \in Stages \ {"idle"}
        BY <2>3 DEF ThreadsIInv, GuestsTyped, Threading!ThreadsAssumption
      <4>2. QED
        BY <2>2, <3>1, <4>1 DEF HolderInv, Unborn, Stages
    <3>3. QED
      BY <1>0, <2>2, <3>1, <3>2 DEF HolderInv, Live, Reaps
  <2>4. ~free[r] /\ hostThread'[r] # "runs"
    BY <2>1, <2>2 DEF RecordInv, Unborn
  <2>5. Reaps(r) => ReapedInv(r)'
    BY <1>0, <2>1, <2>2 DEF RecordInv, ReapedInv, Reaps, Live
  <2>6. ~Held(r) => detached[r] /\ (Live(r)' \/ Reaps(r))
    BY <1>0, <2>1, <2>2, <2>4 DEF RecordInv, Live
  <2>7. (Held(r)' <=> Held(r)) /\ (Reaps(r)' <=> Reaps(r))
    BY <1>0 DEF Held, Reaps
  <2>8. QED
    BY <1>0, <2>1, <2>3, <2>4, <2>5, <2>6, <2>7 DEF RecordInv
<1>5. QED
  BY <1>0, <1>1, <1>2, <1>3, <1>4 DEF ThreadsIInv

LEMMA PassesOn ==
  ASSUME Threading!ThreadsAssumption, ReaperTyped, reaper.at # "sleeps", Threading!Passes
  PROVE  ReaperTyped' /\ reaper'.at \in {"looks", "sleeps"} /\ reaper.record \in Records
<1>1. reaper.record \in Records
  BY DEF ReaperTyped
<1>2. reaper' = Threading!Sleeps \/ \E q \in Records : reaper' = [at |-> "looks", record |-> q]
  BY DEF Threading!Passes, Threading!Looks
<1>3. QED
  BY <1>1, <1>2 DEF ReaperTyped, Threading!Sleeps, Scans, Threading!ThreadsAssumption

LEMMA GoesAlong ==
  ASSUME Threading!ThreadsAssumption, ReaperTyped, reaper.at # "sleeps",
         NEW where \in Scans \ {"sleeps"}, reaper' = [reaper EXCEPT !.at = where]
  PROVE  /\ ReaperTyped' /\ reaper'.at = where /\ reaper'.record = reaper.record
         /\ reaper.record \in Records
BY DEF ReaperTyped

\* The reaper looks around: nothing but its own place changes.
LEMMA LookingKeeps ==
  ASSUME Threading!ThreadsAssumption, ThreadsIInv, ReaperTyped',
         UNCHANGED <<Threading!flags, stack, hostThread, life, guest, bad, slipped>>,
         slipped = {} => \A r \in Records :
           RecordInv(r) => \/ /\ ~Reaps(r) /\ ~Reaps(r)'
                              /\ reaper'.record = r /\ reaper'.at = "sees" => detached[r]
                           \/ RecordInv(r)'
  PROVE  ThreadsIInv'
<1>1. RecordsTyped' /\ GuestsTyped'
  BY DEF Threading!flags, ThreadsIInv, RecordsTyped, GuestsTyped
<1>2. ASSUME slipped = {}, NEW r \in Records PROVE RecordInv(r)'
  <2>1. RecordInv(r)
    BY <1>2 DEF ThreadsIInv
  <2>2. CASE /\ ~Reaps(r) /\ ~Reaps(r)'
             /\ reaper'.record = r /\ reaper'.at = "sees" => detached[r]
    BY <2>1, <2>2, Frame DEF Threading!flags
  <2>3. QED
    BY <1>2, <2>1, <2>2
<1>3. QED
  BY <1>1, <1>2 DEF ThreadsIInv

LEMMA ScansKeeps == ASSUME Threading!ThreadsAssumption, ThreadsIInv, Threading!ReaperScans PROVE ThreadsIInv'
<1>1. /\ reaper = Threading!Sleeps /\ reaper' = [at |-> "looks", record |-> 1]
      /\ UNCHANGED <<Threading!flags, stack, hostThread, life, guest, bad, slipped>>
  BY DEF Threading!ReaperScans, Threading!Looks
<1>2. ReaperTyped'
  BY <1>1 DEF ReaperTyped, Scans, Threading!ThreadsAssumption
<1>3. \A r \in Records : ~Reaps(r) /\ ~Reaps(r)' /\ reaper'.at # "sees"
  BY <1>1 DEF Reaps, Threading!Sleeps
<1>4. QED
  BY <1>1, <1>2, <1>3, LookingKeeps

\* The reaper passes a record it does not care for.
LEMMA PassingKeeps ==
  ASSUME Threading!ThreadsAssumption, ThreadsIInv, reaper.at \in {"looks", "sees", "tests"}, Threading!Passes,
         UNCHANGED <<Threading!flags, stack, hostThread, life, guest, bad, slipped>>,
         reaper.at = "tests" => free[reaper.record]
  PROVE  ThreadsIInv'
<1>1. ReaperTyped' /\ reaper'.at \in {"looks", "sleeps"} /\ reaper.record \in Records
  BY PassesOn DEF ThreadsIInv
<1>2. ASSUME NEW r \in Records, RecordInv(r) PROVE ~Reaps(r)
  BY <1>2 DEF RecordInv, ReapedInv, Reaps
<1>3. \A r \in Records : ~Reaps(r)'
  BY <1>1 DEF Reaps
<1>4. QED
  BY <1>1, <1>2, <1>3, LookingKeeps

\* Detached and done: the reaper alone has the record.
LEMMA SeesKeeps ==
  ASSUME Threading!ThreadsAssumption, ThreadsIInv, reaper.at = "sees", Threading!Done(reaper.record),
         reaper' = [reaper EXCEPT !.at = "tests"],
         UNCHANGED <<Threading!flags, stack, hostThread, life, guest, bad, slipped>>
  PROVE  ThreadsIInv'
<1> PICK r : r = reaper.record
  OBVIOUS
<1>1. ReaperTyped' /\ reaper'.at = "tests" /\ reaper'.record = r /\ r \in Records
  BY GoesAlong DEF ThreadsIInv, Scans
<1>2. ASSUME RecordInv(r) PROVE RecordInv(r)'
  <2>1. detached[r] /\ almostDone[r] /\ ~Reaps(r)
    BY <1>2 DEF RecordInv, Threading!Done, Reaps
  <2>2. ~free[r] /\ hostThread[r] # "runs" /\ ~Unborn(r)
    BY <1>2, <2>1 DEF RecordInv, Unborn
  <2>3. \A g \in Threads : guest[g].record # r
    <3>1. \A g \in Threads : guest[g].record = r => HolderInv(g, r) /\ guest[g].at \in Stages \ {"idle"}
      BY <1>1, <1>2 DEF RecordInv, ThreadsIInv, GuestsTyped, Threading!ThreadsAssumption
    <3>2. QED
      BY <2>1, <2>2, <3>1 DEF HolderInv, Stages
  <2>4. Live(r)
    BY <1>2, <2>1, <2>2, <2>3 DEF RecordInv, Held
  <2>5. ReapedInv(r)' /\ Live(r)' /\ ~Held(r)'
    BY <1>1, <2>2, <2>3, <2>4 DEF ReapedInv, Live, Held, Threading!flags
  <2>6. QED
    BY <1>1, <2>1, <2>2, <2>3, <2>5 DEF RecordInv, Threading!flags
<1>3. ASSUME NEW q \in Records, q # r PROVE ~Reaps(q) /\ ~Reaps(q)' /\ reaper'.record # q
  BY <1>1, <1>3 DEF Reaps
<1>4. QED
  BY <1>1, <1>2, <1>3, LookingKeeps

\* From one of its steps to the next the reaper keeps the record.
LEMMA TestsKeeps ==
  ASSUME Threading!ThreadsAssumption, ThreadsIInv, reaper.at = "tests",
         reaper' = [reaper EXCEPT !.at = "joins"],
         UNCHANGED <<Threading!flags, stack, hostThread, life, guest, bad, slipped>>
  PROVE  ThreadsIInv'
<1> PICK r : r = reaper.record
  OBVIOUS
<1>1. ReaperTyped' /\ reaper'.at = "joins" /\ reaper'.record = r /\ r \in Records
  BY GoesAlong DEF ThreadsIInv, Scans
<1>2. ASSUME RecordInv(r) PROVE RecordInv(r)'
  <2>1. Reaps(r) /\ Reaps(r)' /\ ReapedInv(r)
    BY <1>1, <1>2 DEF RecordInv, Reaps
  <2>2. ReapedInv(r)' /\ Live(r)' /\ ~Unborn(r)'
    BY <1>1, <2>1 DEF ReapedInv, Live, Unborn, Threading!flags
  <2>3. \A g \in Threads : guest[g].record # r
    BY <1>2, <2>1 DEF RecordInv, HolderInv
  <2>4. detached[r] /\ ~free[r] /\ hostThread[r] # "runs"
    BY <1>2, <2>1, <2>3 DEF RecordInv, ReapedInv, Held, Reaps
  <2>5. QED
    BY <1>1, <2>1, <2>2, <2>3, <2>4 DEF RecordInv, Threading!flags
<1>3. ASSUME NEW q \in Records, q # r PROVE ~Reaps(q) /\ ~Reaps(q)' /\ reaper'.record # q
  BY <1>1, <1>3 DEF Reaps
<1>4. QED
  BY <1>1, <1>2, <1>3, LookingKeeps

LEMMA ReadsKeeps == ASSUME Threading!ThreadsAssumption, ThreadsIInv, Threading!ReaperReads PROVE ThreadsIInv'
<1> PICK r : r = reaper.record
  OBVIOUS
<1>0. /\ UNCHANGED <<Threading!flags, stack, hostThread, life, guest, bad, slipped>>
      /\ \/ reaper.at = "looks" /\ detached[r] /\ reaper' = [reaper EXCEPT !.at = "sees"]
         \/ reaper.at = "sees" /\ Threading!Done(r) /\ reaper' = [reaper EXCEPT !.at = "tests"]
         \/ reaper.at = "tests" /\ reaper' = [reaper EXCEPT !.at = "joins"]
         \/ reaper.at \in {"looks", "sees"} /\ Threading!Passes
         \/ reaper.at = "tests" /\ free[r] /\ Threading!Passes
  BY DEF Threading!ReaperReads, Threading!Loads
<1>1. CASE reaper.at = "looks" /\ detached[r] /\ reaper' = [reaper EXCEPT !.at = "sees"]
  <2>1. ReaperTyped' /\ reaper'.at = "sees" /\ reaper'.record = r
    BY <1>1, GoesAlong DEF ThreadsIInv, Scans
  <2>2. \A q \in Records : ~Reaps(q) /\ ~Reaps(q)'
    BY <1>1, <2>1 DEF Reaps
  <2>3. QED
    BY <1>0, <1>1, <2>1, <2>2, LookingKeeps
<1>2. QED
  BY <1>0, <1>1, SeesKeeps, TestsKeeps, PassingKeeps

\* What the reaper does to the record it has does not concern another one.
LEMMA StepOfReaper ==
  ASSUME Threading!ThreadsAssumption, ThreadsIInv, NEW r, r = reaper.record,
         RecordsTyped', ReaperTyped', UNCHANGED <<guest, slipped>>,
         reaper.at \in {"joins", "frees", "gives"}, reaper'.at # "sees",
         \A q \in Records \ {r} : Same(q) /\ ~Reaps(q)',
         slipped = {} => ~bad' /\ RecordInv(r)'
  PROVE  ThreadsIInv'
<1>1. GuestsTyped'
  BY DEF ThreadsIInv, GuestsTyped
<1>2. ASSUME slipped = {}, NEW q \in Records, q # r PROVE RecordInv(q)'
  <2>1. RecordInv(q) /\ Same(q) /\ ~Reaps(q) /\ ~Reaps(q)'
    BY <1>2 DEF ThreadsIInv, Reaps
  <2>2. QED
    BY <2>1, Frame DEF Same
<1>3. QED
  BY <1>1, <1>2 DEF ThreadsIInv

\* The record the reaper has is nobody else's.
LEMMA ReaperHas ==
  ASSUME ThreadsIInv, slipped = {}, NEW r, r = reaper.record,
         reaper.at \in {"joins", "frees", "gives"}
  PROVE  /\ r \in Records /\ RecordInv(r) /\ ReapedInv(r) /\ ~bad
         /\ detached[r] /\ ~free[r] /\ \A g \in Threads : guest[g].record # r
<1>1. r \in Records
  BY DEF ThreadsIInv, ReaperTyped
<1>2. RecordInv(r) /\ Reaps(r) /\ ~bad
  <2>1. ~bad /\ \A q \in Records : RecordInv(q)
    BY DEF ThreadsIInv
  <2>2. QED
    BY <1>1, <2>1 DEF Reaps
<1>3. ReapedInv(r) /\ \A g \in Threads : guest[g].record # r
  BY <1>2 DEF RecordInv, HolderInv
<1>4. detached[r] /\ ~free[r]
  BY <1>2, <1>3 DEF RecordInv, ReapedInv, Held
<1>5. QED
  BY <1>1, <1>2, <1>3, <1>4

LEMMA JoinsKeeps == ASSUME Threading!ThreadsAssumption, ThreadsIInv, Threading!ReaperJoins PROVE ThreadsIInv'
<1> PICK r : r = reaper.record
  OBVIOUS
<1>0. /\ reaper.at = "joins" /\ Threading!HostJoins(r, life[r])
      /\ reaper' = [reaper EXCEPT !.at = "frees"]
      /\ UNCHANGED <<free, detached, almostDone, stack, life, guest, slipped>>
  BY DEF Threading!ReaperJoins, Threading!flags
<1>1. RecordsTyped' /\ \A q \in Records \ {r} : Same(q)
  BY <1>0 DEF ThreadsIInv, RecordsTyped, Same, Threading!HostJoins, Hosts
<1>2. ReaperTyped' /\ reaper'.at = "frees" /\ reaper'.record = r
  BY <1>0, GoesAlong DEF ThreadsIInv, Scans
<1>3. ASSUME slipped = {} PROVE ~bad' /\ RecordInv(r)'
  <2>1. /\ r \in Records /\ RecordInv(r) /\ ReapedInv(r) /\ ~bad
        /\ detached[r] /\ ~free[r] /\ \A g \in Threads : guest[g].record # r
    BY <1>0, <1>3, ReaperHas
  <2>2. hostThread' = [hostThread EXCEPT ![r] = "joined"] /\ ~bad'
    BY <1>0, <2>1 DEF ReapedInv, Live, Threading!HostJoins
  <2>3. hostThread'[r] = "joined"
    BY <2>1, <2>2 DEF ThreadsIInv, RecordsTyped
  <2>4. ReapedInv(r)' /\ Reaps(r)'
    BY <1>0, <1>2, <2>1, <2>3 DEF ReapedInv, Reaps
  <2>5. QED
    BY <1>0, <1>2, <2>1, <2>2, <2>3, <2>4 DEF RecordInv
<1>4. \A q \in Records \ {r} : ~Reaps(q)'
  BY <1>2 DEF Reaps
<1>5. QED
  BY <1>0, <1>1, <1>2, <1>3, <1>4, StepOfReaper

LEMMA ReaperFreesStackKeeps ==
  ASSUME Threading!ThreadsAssumption, ThreadsIInv, Threading!ReaperFreesStack PROVE ThreadsIInv'
<1> PICK r : r = reaper.record
  OBVIOUS
<1>0. /\ reaper.at = "frees" /\ Threading!FreesStack(r)
      /\ reaper' = [reaper EXCEPT !.at = "gives"]
      /\ UNCHANGED <<free, detached, hostThread, life, guest, bad, slipped>>
  BY DEF Threading!ReaperFreesStack
<1>1. RecordsTyped' /\ \A q \in Records \ {r} : Same(q)
  BY <1>0 DEF ThreadsIInv, RecordsTyped, Same, Threading!FreesStack
<1>2. ReaperTyped' /\ reaper'.at = "gives" /\ reaper'.record = r
  BY <1>0, GoesAlong DEF ThreadsIInv, Scans
<1>3. ASSUME slipped = {} PROVE ~bad' /\ RecordInv(r)'
  <2>1. /\ r \in Records /\ RecordInv(r) /\ ReapedInv(r) /\ ~bad
        /\ detached[r] /\ ~free[r] /\ \A g \in Threads : guest[g].record # r
    BY <1>0, <1>3, ReaperHas
  <2>2. ~stack'[r] /\ ~almostDone'[r]
    BY <1>0, <2>1 DEF Threading!FreesStack, ThreadsIInv, RecordsTyped
  <2>3. ReapedInv(r)' /\ Reaps(r)'
    BY <1>0, <1>2, <2>1, <2>2 DEF ReapedInv, Reaps
  <2>4. QED
    BY <1>0, <1>2, <2>1, <2>2, <2>3 DEF RecordInv
<1>4. \A q \in Records \ {r} : ~Reaps(q)'
  BY <1>2 DEF Reaps
<1>5. QED
  BY <1>0, <1>1, <1>2, <1>3, <1>4, StepOfReaper

LEMMA GivesKeeps == ASSUME Threading!ThreadsAssumption, ThreadsIInv, Threading!ReaperGives PROVE ThreadsIInv'
<1> PICK r : r = reaper.record
  OBVIOUS
<1>0. /\ reaper.at = "gives" /\ free' = [free EXCEPT ![r] = TRUE] /\ Threading!Passes
      /\ UNCHANGED <<detached, almostDone, stack, hostThread, life, guest, bad, slipped>>
  BY DEF Threading!ReaperGives
<1>1. RecordsTyped' /\ \A q \in Records \ {r} : Same(q)
  BY <1>0 DEF ThreadsIInv, RecordsTyped, Same
<1>2. ReaperTyped' /\ reaper'.at \in {"looks", "sleeps"}
  BY <1>0, PassesOn DEF ThreadsIInv
<1>3. \A q : ~Reaps(q)'
  BY <1>2 DEF Reaps
<1>4. ASSUME slipped = {} PROVE ~bad' /\ RecordInv(r)'
  <2>1. /\ r \in Records /\ RecordInv(r) /\ ReapedInv(r) /\ ~bad
        /\ \A g \in Threads : guest[g].record # r
    BY <1>0, <1>4, ReaperHas
  <2>2. (free[r] /\ ~stack[r] /\ Unborn(r))'
    BY <1>0, <2>1 DEF ReapedInv, Unborn, ThreadsIInv, RecordsTyped
  <2>3. QED
    BY <1>0, <1>2, <1>3, <2>1, <2>2, HasNoHolder DEF RecordInv
<1>5. QED
  BY <1>0, <1>1, <1>2, <1>3, <1>4, StepOfReaper

LEMMA ThreadsInitHolds == ASSUME Threading!ThreadsAssumption, Threading!Init PROVE ThreadsIInv
<1>1. RecordsTyped
  BY DEF Threading!Init, RecordsTyped, Hosts
<1>2. GuestsTyped
  <2>1. Threading!Idle \in [at : Stages, record : Records \cup {None}, life : Nat, detached : BOOLEAN]
    BY DEF Threading!Idle, Stages
  <2>2. QED
    BY <2>1 DEF Threading!Init, GuestsTyped, Threading!Idle
<1>3. ReaperTyped
  BY DEF Threading!Init, ReaperTyped, Threading!Sleeps, Scans
<1>4. ASSUME NEW r \in Records PROVE RecordInv(r)
  <2>1. (\A g \in Threads : guest[g].record # r) /\ ~Reaps(r)
    BY DEF Threading!Init, Threading!Idle, Threading!Sleeps, Reaps, Threading!ThreadsAssumption
  <2>2. free[r] /\ ~stack[r] /\ Unborn(r) /\ ~Held(r) /\ hostThread[r] # "runs"
    BY <2>1 DEF Threading!Init, Unborn, Held
  <2>3. ~ (reaper.record = r /\ reaper.at = "sees")
    BY DEF Threading!Init, Threading!Sleeps
  <2>4. QED
    BY <2>1, <2>2, <2>3 DEF RecordInv
<1>5. QED
  BY <1>1, <1>2, <1>3, <1>4 DEF Threading!Init, ThreadsIInv

LEMMA ThreadsStepKeeps == ASSUME Threading!ThreadsAssumption, ThreadsIInv, [Threading!Next]_(Threading!vars) PROVE ThreadsIInv'
<1>1. CASE UNCHANGED Threading!vars
  <2>1. ReaperTyped' /\ UNCHANGED <<Threading!flags, stack, hostThread, life, guest, reaper, bad, slipped>>
    BY <1>1 DEF Threading!vars, ThreadsIInv, ReaperTyped
  <2>2. \A r \in Records : RecordInv(r) => RecordInv(r)'
    BY <2>1, Frame DEF Threading!flags
  <2>3. QED
    BY <2>1, <2>2, LookingKeeps
<1>2. CASE Threading!Reaper
  BY <1>2, ScansKeeps, ReadsKeeps, JoinsKeeps, ReaperFreesStackKeeps, GivesKeeps DEF Threading!Reaper
<1>3. CASE \E r \in Records : Threading!Cleanup(r) \/ Threading!Exit(r)
  BY <1>3, ThreadEnds
<1>4. ASSUME NEW g \in Threads,
             \/ \E wantsDetached \in BOOLEAN : Threading!Take(g, wantsDetached)
             \/ Threading!MapStack(g) \/ Threading!ClearDone(g) \/ Threading!SetDetached(g) \/ Threading!Start(g)
             \/ Threading!Join(g) \/ Threading!JoinFreesStack(g) \/ Threading!JoinReturns(g) \/ Threading!Detach(g)
      PROVE  ThreadsIInv'
  BY <1>4, ThreadTakeKeeps, MapStackKeeps, ClearDoneKeeps, SetDetachedKeeps, StartKeeps, JoinKeeps,
     JoinFreesStackKeeps, JoinReturnsKeeps, DetachKeeps
<1>5. QED
  BY <1>1, <1>2, <1>3, <1>4 DEF Threading!Next

LEMMA OneUser == ASSUME Threading!ThreadsAssumption, ThreadsIInv PROVE Threading!ThreadsInv
<1>1. reaper.at \in Scans
  BY DEF ThreadsIInv, ReaperTyped
<1>2. ASSUME slipped = {}, NEW r \in Records
      PROVE  /\ hostThread[r] \in {"runs", "ends"} => stack[r] /\ ~free[r]
             /\ free[r] => ~stack[r] /\ Threading!Users(r) = {}
             /\ \A u, v \in Threading!Users(r) : u = v
  <2>1. RecordInv(r)
    BY <1>2 DEF ThreadsIInv
  <2>2. \A u \in Threading!Users(r) : (u \in Threads /\ guest[u].record = r) \/ (Reaps(r) /\ u = None)
    BY DEF Threading!Users, Reaps
  <2>3. \A g \in Threads : guest[g].record = r => HolderInv(g, r)
    BY <2>1 DEF RecordInv
  <2>4. \A u, v \in Threading!Users(r) : u = v
    BY <2>1, <2>2, <2>3 DEF RecordInv, HolderInv
  <2>5. free[r] => Threading!Users(r) = {}
    BY <2>1, <2>2, <2>3 DEF RecordInv, HolderInv, ReapedInv
  <2>6. ASSUME hostThread[r] \in {"runs", "ends"} PROVE stack[r] /\ ~free[r]
    <3>1. ~free[r] /\ ~Unborn(r)
      BY <2>1, <2>6 DEF RecordInv, Unborn
    <3>2. CASE Held(r)
      <4>1. PICK g \in Threads : guest[g].record = r
        BY <3>2 DEF Held
      <4>2. guest[g].at \in Stages \ {"idle"}
        BY <4>1, <1>2 DEF ThreadsIInv, GuestsTyped, Threading!ThreadsAssumption
      <4>3. QED
        BY <2>3, <2>6, <3>1, <4>1, <4>2 DEF HolderInv, Live, Stages
    <3>3. CASE ~Held(r)
      BY <2>1, <2>6, <3>1, <3>3 DEF RecordInv, ReapedInv, Live, Reaps
    <3>4. QED
      BY <3>1, <3>2, <3>3
  <2>7. QED
    BY <2>1, <2>4, <2>5, <2>6 DEF RecordInv
<1>3. QED
  BY <1>1, <1>2 DEF ThreadsIInv, Threading!ThreadsInv, Scans

\* As long as no record is filled in between two looks of the reaper, a record is
\* free, or one thread or the reaper has it, a thread that runs has its stack,
\* and each is joined once (PthreadCreate, PthreadJoin, FreeDetachedThreads in
\* src/kernel/pthread.cpp).
THEOREM RecordsHaveOneUser == ASSUME Threading!ThreadsAssumption PROVE Threading!Spec => []Threading!ThreadsInv
<1>1. Threading!Init => ThreadsIInv
  BY ThreadsInitHolds
<1>2. ThreadsIInv /\ [Threading!Next]_(Threading!vars) => ThreadsIInv'
  BY ThreadsStepKeeps
<1>3. ThreadsIInv => Threading!ThreadsInv
  BY OneUser
<1>4. QED
  BY <1>1, <1>2, <1>3, PTL DEF Threading!Spec

(***************************************************************************)
(* The event flag: the number of waiters that Cancel and the destructor    *)
(* wait for is right, nobody sleeps through a Set, and a Cancel is total.  *)
(***************************************************************************)

\* A thread that waits has the arguments of a Wait; a flag nobody has created
\* has no waiters.
FlagIInv ==
  /\ Flag!FlagInv
  /\ \A t \in Flag!Waiters : flagCall[t] \in FlagWaits
  /\ flagStatus = "Freed" => flagWaiting = 0

LEMMA FlagCardinality == ASSUME NEW S PROVE Flag!Cardinality(S) = Cardinality(S)
BY DEF Flag!Cardinality, Cardinality

LEMMA FlagCounts ==
  ASSUME IsFiniteSet(Threads), NEW S \in SUBSET Threads, NEW t \in Threads
  PROVE  /\ Flag!Cardinality(S) \in Nat /\ (Flag!Cardinality(S) = 0 <=> S = {})
         /\ t \notin S => Flag!Cardinality(S \cup {t}) = Flag!Cardinality(S) + 1
         /\ t \in S => Flag!Cardinality(S \ {t}) = Flag!Cardinality(S) - 1
<1>1. IsFiniteSet(S)
  BY FS_Subset
<1>2. QED
  BY <1>1, FlagCardinality, FS_CardinalityType, FS_EmptySet, FS_AddElement, FS_RemoveElement

\* While a thread waits the count is positive, so the flag is there.
LEMMA WaitersHaveFlag ==
  ASSUME IsFiniteSet(Threads), FlagIInv, NEW t \in Flag!Waiters
  PROVE  flagStatus # "Freed" /\ flagWaiting \in Nat /\ flagWaiting > 0
<1>1. Flag!Waiters \in SUBSET Threads /\ t \in Threads
  BY DEF Flag!Waiters
<1>2. Flag!Cardinality(Flag!Waiters) \in Nat /\ Flag!Cardinality(Flag!Waiters) # 0
  BY <1>1, FlagCounts
<1>3. flagWaiting = Flag!Cardinality(Flag!Waiters)
  BY DEF FlagIInv, Flag!FlagInv, Flag!TypeOK
<1>4. QED
  BY <1>2, <1>3 DEF FlagIInv

LEMMA NobodyWaits ==
  ASSUME IsFiniteSet(Threads), FlagIInv, flagWaiting = 0 PROVE Flag!Waiters = {}
BY WaitersHaveFlag

\* Fewer bits satisfy nobody else.
LEMMA FewerBits ==
  ASSUME flagBits' \subseteq flagBits, NEW c, Flag!Satisfied(c)' PROVE Flag!Satisfied(c)
BY DEF Flag!Satisfied

LEMMA ConsumesBits ==
  ASSUME NEW c \in Flag!WaitCalls, Flag!Consume(c) PROVE flagBits' \subseteq flagBits
BY DEF Flag!Consume, Flag!WaitCalls

-----------------------------------------------------------------------------
\* What a step has to see to: the count, the waiters' arguments, that a flag is
\* freed with no waiters, and that who sleeps afterwards slept before, with no
\* more bits to see, or is not satisfied.
LEMMA FlagSuffices ==
  ASSUME FlagIInv,
         flagWaiting' = Flag!Cardinality(Flag!Waiters'),
         flagBits' \subseteq FlagBits, flagSingle' \in BOOLEAN,
         flagStatus' \in {"Set", "Canceled", "Deleted", "Freed"},
         flagStatus' = "Freed" => flagWaiting' = 0,
         flagPc' \in [Threads -> Flag!Locations], flagResult' \in [Threads -> Flag!Results],
         flagCall' \in [Threads -> FlagWaits \cup FlagChanges \cup {Flag!NoCall}],
         \A t \in Flag!Waiters' : flagCall'[t] \in FlagWaits,
         \A t \in Threads : flagPc'[t] = "parked" =>
            \/ flagPc[t] = "parked" /\ flagCall'[t] = flagCall[t] /\ flagBits' \subseteq flagBits
            \/ ~Flag!Satisfied(flagCall[t])'
  PROVE  FlagIInv'
<1>1. Flag!TypeOK'
  BY DEF Flag!TypeOK
<1>2. Flag!ParkedIsUnsatisfied'
  <2> SUFFICES ASSUME NEW t \in Threads, flagPc'[t] = "parked", Flag!Satisfied(flagCall[t])' PROVE FALSE
    BY DEF Flag!ParkedIsUnsatisfied
  <2>1. flagPc[t] = "parked" /\ flagCall'[t] = flagCall[t] /\ flagBits' \subseteq flagBits
    OBVIOUS
  <2>2. Flag!Satisfied(flagCall[t])
    BY <2>1 DEF Flag!Satisfied
  <2>3. QED
    BY <2>1, <2>2 DEF FlagIInv, Flag!FlagInv, Flag!ParkedIsUnsatisfied
<1>3. QED
  BY <1>1, <1>2 DEF FlagIInv, Flag!FlagInv

LEMMA FlagInitHolds ==
  ASSUME Flag!EventFlagAssumption, IsFiniteSet(Threads) PROVE Flag!Init => FlagIInv
<1> SUFFICES ASSUME Flag!Init PROVE FlagIInv
  OBVIOUS
<1>1. Flag!Waiters = {}
  BY DEF Flag!Init, Flag!Waiters
<1>2. Flag!Cardinality(Flag!Waiters) = 0
  BY <1>1, FlagCardinality, FS_EmptySet
<1>3. Flag!TypeOK
  BY <1>2 DEF Flag!Init, Flag!TypeOK, Flag!Locations, Flag!Results
<1>4. Flag!ParkedIsUnsatisfied
  BY DEF Flag!Init, Flag!ParkedIsUnsatisfied
<1>5. QED
  BY <1>1, <1>3, <1>4 DEF Flag!Init, FlagIInv, Flag!FlagInv

\* Creation, and calls of Wait that return at once.
LEMMA FlagImmediateKeeps ==
  ASSUME Flag!EventFlagAssumption, IsFiniteSet(Threads), FlagIInv, NEW t \in Threads,
         \/ \E one \in BOOLEAN, pattern \in FlagPatterns : Flag!Create(t, one, pattern)
         \/ Flag!WaitDenied(t)
         \/ \E c \in FlagWaits : Flag!WaitPasses(t, c) \/ Flag!PollFails(t, c)
  PROVE  FlagIInv'
<1>0. Flag!TypeOK /\ flagPc[t] = "idle" /\ \A u \in Flag!Waiters : flagCall[u] \in FlagWaits
  BY DEF FlagIInv, Flag!FlagInv, Flag!Create, Flag!WaitDenied, Flag!WaitPasses, Flag!PollFails, Flag!Enters
<1>1. ASSUME NEW one \in BOOLEAN, NEW pattern \in FlagPatterns, Flag!Create(t, one, pattern)
      PROVE  FlagIInv'
  <2>1. Flag!Waiters = {} /\ Flag!Waiters' = Flag!Waiters
    BY <1>1, NobodyWaits DEF Flag!Create, FlagIInv, Flag!Waiters
  <2>2. \A u \in Threads : flagPc'[u] # "parked"
    BY <1>1, <2>1 DEF Flag!Create, Flag!Waiters
  <2>3. flagBits' \subseteq FlagBits /\ flagWaiting' = Flag!Cardinality(Flag!Waiters')
    BY <1>0, <1>1, <2>1 DEF Flag!Create, Flag!EventFlagAssumption, Flag!Patterns, Flag!TypeOK
  <2>4. QED
    BY <1>0, <1>1, <2>1, <2>2, <2>3, FlagSuffices DEF Flag!Create, Flag!TypeOK
<1>2. ASSUME Flag!WaitDenied(t) \/ \E c \in FlagWaits : Flag!WaitPasses(t, c) \/ Flag!PollFails(t, c)
      PROVE  FlagIInv'
  <2>1. /\ flagBits' \subseteq flagBits /\ UNCHANGED <<flagStatus, flagSingle, flagWaiting>>
        /\ \E r \in Flag!Results : Flag!Returns(t, r)
    <3>1. CASE Flag!WaitDenied(t)
      BY <3>1 DEF Flag!WaitDenied, Flag!Results
    <3>2. ASSUME NEW c \in FlagWaits, Flag!WaitPasses(t, c)
          PROVE  /\ flagBits' \subseteq flagBits /\ UNCHANGED <<flagStatus, flagSingle, flagWaiting>>
                 /\ \E r \in Flag!Results : Flag!Returns(t, r)
      <4>1. c \in Flag!WaitCalls
        BY DEF Flag!EventFlagAssumption
      <4>2. QED
        BY <3>2, <4>1, ConsumesBits DEF Flag!WaitPasses, Flag!Results
    <3>3. ASSUME NEW c \in FlagWaits, Flag!PollFails(t, c)
          PROVE  /\ flagBits' \subseteq flagBits /\ UNCHANGED <<flagStatus, flagSingle, flagWaiting>>
                 /\ \E r \in Flag!Results : Flag!Returns(t, r)
      BY <3>3 DEF Flag!PollFails, Flag!Results
    <3>4. QED
      BY <1>2, <3>1, <3>2, <3>3
  <2>2. /\ flagPc' = [flagPc EXCEPT ![t] = "idle"] /\ flagCall' = [flagCall EXCEPT ![t] = Flag!NoCall]
        /\ flagResult' \in [Threads -> Flag!Results]
    BY <1>0, <2>1 DEF Flag!Returns, Flag!TypeOK
  <2>3. Flag!Waiters' = Flag!Waiters /\ t \notin Flag!Waiters
    BY <1>0, <2>2 DEF Flag!Waiters, Flag!TypeOK
  <2>4. /\ flagPc' \in [Threads -> Flag!Locations]
        /\ flagCall' \in [Threads -> FlagWaits \cup FlagChanges \cup {Flag!NoCall}]
    BY <1>0, <2>2 DEF Flag!TypeOK, Flag!Locations
  <2>5. \A u \in Threads : flagPc'[u] = "parked" => flagPc[u] = "parked" /\ flagCall'[u] = flagCall[u]
    BY <1>0, <2>2 DEF Flag!TypeOK
  <2>6. \A u \in Flag!Waiters' : flagCall'[u] \in FlagWaits
    BY <1>0, <2>2, <2>3 DEF Flag!TypeOK, Flag!Waiters
  <2>7. flagStatus' = "Freed" => flagWaiting' = 0
    BY <2>1 DEF FlagIInv
  <2>8. flagWaiting' = Flag!Cardinality(Flag!Waiters') /\ flagBits' \subseteq FlagBits
    BY <1>0, <2>1, <2>3 DEF Flag!TypeOK
  <2>9. QED
    BY <1>0, <2>1, <2>2, <2>4, <2>5, <2>6, <2>7, <2>8, FlagSuffices DEF Flag!TypeOK
<1>3. QED
  BY <1>1, <1>2

\* A waiter goes to sleep, unsatisfied.
LEMMA FlagParksKeep ==
  ASSUME Flag!EventFlagAssumption, IsFiniteSet(Threads), FlagIInv, NEW t \in Threads,
         NEW c \in FlagWaits, Flag!WaitParks(t, c)
  PROVE  FlagIInv'
<1>0. Flag!TypeOK /\ flagPc[t] = "idle" /\ ~Flag!Satisfied(c) /\ \A u \in Flag!Waiters : flagCall[u] \in FlagWaits
  BY DEF FlagIInv, Flag!FlagInv, Flag!WaitParks, Flag!Enters
<1>1. /\ flagWaiting' = flagWaiting + 1 /\ flagCall' = [flagCall EXCEPT ![t] = c]
      /\ flagPc' = [flagPc EXCEPT ![t] = "parked"] /\ UNCHANGED <<flagStatus, flagSingle, flagBits, flagResult>>
      /\ flagStatus # "Freed"
  BY DEF Flag!WaitParks, Flag!Enters
<1>2. t \notin Flag!Waiters /\ Flag!Waiters' = Flag!Waiters \cup {t} /\ Flag!Waiters \in SUBSET Threads
  BY <1>0, <1>1 DEF Flag!TypeOK, Flag!Waiters
<1>3. flagWaiting' = Flag!Cardinality(Flag!Waiters')
  BY <1>0, <1>1, <1>2, FlagCounts DEF Flag!TypeOK
<1>4. flagPc' \in [Threads -> Flag!Locations] /\ flagCall' \in [Threads -> FlagWaits \cup FlagChanges \cup {Flag!NoCall}]
  BY <1>0, <1>1 DEF Flag!TypeOK, Flag!Locations
<1>5. \A u \in Flag!Waiters' : flagCall'[u] \in FlagWaits
  BY <1>0, <1>1, <1>2 DEF Flag!TypeOK
<1>6. ASSUME NEW u \in Threads, flagPc'[u] = "parked"
      PROVE  (flagPc[u] = "parked" /\ flagCall'[u] = flagCall[u] /\ flagBits' \subseteq flagBits) \/ ~Flag!Satisfied(flagCall[u])'
  <2>1. CASE u = t
    <3>1. flagCall'[u] = c
      BY <1>0, <1>1, <2>1 DEF Flag!TypeOK
    <3>2. QED
      BY <1>0, <1>1, <3>1 DEF Flag!Satisfied
  <2>2. CASE u # t
    BY <1>0, <1>1, <1>6, <2>2 DEF Flag!TypeOK
  <2>3. QED
    BY <2>1, <2>2
<1>7. QED
  BY <1>0, <1>1, <1>3, <1>4, <1>5, <1>6, FlagSuffices DEF Flag!TypeOK

\* A waiter wakes, or looks again and goes back to sleep.
LEMMA FlagSleepersKeep ==
  ASSUME Flag!EventFlagAssumption, IsFiniteSet(Threads), FlagIInv, NEW t \in Threads,
         Flag!Wakes(t) \/ Flag!WaitSleepsAgain(t)
  PROVE  FlagIInv'
<1>0. /\ Flag!TypeOK /\ \A u \in Flag!Waiters : flagCall[u] \in FlagWaits
      /\ UNCHANGED <<flagStatus, flagSingle, flagBits, flagWaiting, flagCall, flagResult>>
      /\ flagStatus = "Freed" => flagWaiting = 0
  BY DEF FlagIInv, Flag!FlagInv, Flag!Wakes, Flag!WaitSleepsAgain
<1>1. PICK place \in {"parked", "awake"} :
        /\ flagPc' = [flagPc EXCEPT ![t] = place] /\ t \in Flag!Waiters
        /\ place = "parked" => ~Flag!Satisfied(flagCall[t])
  BY DEF Flag!Wakes, Flag!WaitSleepsAgain, Flag!Waiters
<1>2. Flag!Waiters' = Flag!Waiters
  BY <1>0, <1>1 DEF Flag!TypeOK, Flag!Waiters
<1>3. flagPc' \in [Threads -> Flag!Locations]
  BY <1>0, <1>1 DEF Flag!TypeOK, Flag!Locations
<1>4. ASSUME NEW u \in Threads, flagPc'[u] = "parked"
      PROVE  (flagPc[u] = "parked" /\ flagCall'[u] = flagCall[u] /\ flagBits' \subseteq flagBits) \/ ~Flag!Satisfied(flagCall[u])'
  <2>1. CASE u = t
    <3>1. ~Flag!Satisfied(flagCall[u])
      BY <1>0, <1>1, <1>4, <2>1 DEF Flag!TypeOK
    <3>2. QED
      BY <1>0, <3>1 DEF Flag!Satisfied
  <2>2. CASE u # t
    BY <1>0, <1>1, <1>4, <2>2 DEF Flag!TypeOK
  <2>3. QED
    BY <2>1, <2>2
<1>5. QED
  BY <1>0, <1>2, <1>3, <1>4, FlagSuffices DEF Flag!TypeOK

\* Every way out of Wait is counted.
LEMMA FlagLeavesKeep ==
  ASSUME Flag!EventFlagAssumption, IsFiniteSet(Threads), FlagIInv, NEW t \in Threads,
         Flag!WaitLeaves(t) \/ Flag!WaitSucceeds(t) \/ Flag!WaitTimesOut(t)
  PROVE  FlagIInv'
<1>0. /\ Flag!TypeOK /\ \A u \in Flag!Waiters : flagCall[u] \in FlagWaits
      /\ t \in Flag!Waiters /\ flagWaiting' = flagWaiting - 1 /\ UNCHANGED <<flagStatus, flagSingle>>
  BY DEF FlagIInv, Flag!FlagInv, Flag!WaitLeaves, Flag!WaitSucceeds, Flag!WaitTimesOut, Flag!Waiters
<1>1. flagStatus # "Freed"
  BY <1>0, WaitersHaveFlag
<1>2. flagBits' \subseteq flagBits
  <2>1. flagCall[t] \in Flag!WaitCalls
    BY <1>0 DEF Flag!EventFlagAssumption
  <2>2. QED
    BY <2>1, ConsumesBits DEF Flag!WaitLeaves, Flag!WaitSucceeds, Flag!WaitTimesOut
<1>3. \E r \in Flag!Results : Flag!Returns(t, r)
  BY <1>0, <1>1 DEF Flag!WaitLeaves, Flag!WaitSucceeds, Flag!WaitTimesOut, Flag!Results, Flag!TypeOK
<1>4. /\ flagPc' = [flagPc EXCEPT ![t] = "idle"] /\ flagCall' = [flagCall EXCEPT ![t] = Flag!NoCall]
      /\ flagResult' \in [Threads -> Flag!Results]
  BY <1>0, <1>3 DEF Flag!Returns, Flag!TypeOK
<1>5. Flag!Waiters' = Flag!Waiters \ {t} /\ Flag!Waiters \in SUBSET Threads
  BY <1>0, <1>4 DEF Flag!Waiters, Flag!TypeOK
<1>6. flagWaiting' = Flag!Cardinality(Flag!Waiters')
  BY <1>0, <1>5, FlagCounts DEF Flag!TypeOK
<1>7. /\ flagPc' \in [Threads -> Flag!Locations]
      /\ flagCall' \in [Threads -> FlagWaits \cup FlagChanges \cup {Flag!NoCall}]
  BY <1>0, <1>4 DEF Flag!TypeOK, Flag!Locations
<1>8. \A u \in Flag!Waiters' : flagCall'[u] \in FlagWaits
  BY <1>0, <1>4, <1>5 DEF Flag!TypeOK
<1>9. \A u \in Threads : flagPc'[u] = "parked" => flagPc[u] = "parked" /\ flagCall'[u] = flagCall[u]
  BY <1>0, <1>4 DEF Flag!TypeOK
<1>10. flagBits' \subseteq FlagBits
  BY <1>0, <1>2 DEF Flag!TypeOK
<1>11. QED
  BY <1>0, <1>1, <1>2, <1>4, <1>6, <1>7, <1>8, <1>9, <1>10, FlagSuffices DEF Flag!TypeOK

-----------------------------------------------------------------------------
\* A thread that modifies does not wait, before or after, and its arguments are
\* those of a modifying call.
LEMMA FlagModifyKeeps ==
  ASSUME Flag!EventFlagAssumption, IsFiniteSet(Threads), FlagIInv, NEW t \in Threads,
         NEW c \in FlagChanges, Flag!Blocks(t, c) \/ Flag!Modify(t, c)
  PROVE  FlagIInv'
<1>0. /\ Flag!TypeOK /\ (\A u \in Flag!Waiters : flagCall[u] \in FlagWaits)
      /\ c.bits \subseteq FlagBits
  BY DEF FlagIInv, Flag!FlagInv, Flag!EventFlagAssumption, Flag!ModifyCalls, Flag!Patterns
<1>1. /\ flagPc[t] \in {"idle", "blocked"} /\ flagStatus # "Freed" /\ flagStatus' # "Freed"
      /\ flagStatus' \in {flagStatus, "Canceled", "Deleted"}
      /\ UNCHANGED <<flagSingle, flagWaiting, flagResult>>
  BY DEF Flag!Blocks, Flag!Modify, Flag!Set, Flag!Clear, Flag!CancelBegins, Flag!DeleteBegins, Flag!Ready, Flag!Enters
<1>2. flagCall' = [flagCall EXCEPT ![t] = Flag!NoCall] \/ flagCall' = [flagCall EXCEPT ![t] = c]
  BY DEF Flag!Blocks, Flag!Modify, Flag!Set, Flag!Clear, Flag!CancelBegins, Flag!DeleteBegins, Flag!Done
<1>3. PICK place \in {"idle", "blocked", "cancel", "delete"} :
        \/ flagPc' = [flagPc EXCEPT ![t] = place] /\ flagBits' \subseteq flagBits
        \/ flagPc' = [Flag!Awakened EXCEPT ![t] = place] /\ flagBits' \subseteq FlagBits
  <2>1. CASE Flag!Blocks(t, c)
    BY <2>1 DEF Flag!Blocks
  <2>2. CASE Flag!Set(t, c)
    BY <1>0, <2>2 DEF Flag!Set, Flag!TypeOK
  <2>3. CASE Flag!Clear(t, c)
    BY <2>3 DEF Flag!Clear
  <2>4. CASE Flag!CancelBegins(t, c)
    BY <1>0, <2>4 DEF Flag!CancelBegins
  <2>5. CASE Flag!DeleteBegins(t, c)
    BY <1>0, <2>5 DEF Flag!DeleteBegins, Flag!TypeOK
  <2>6. QED
    BY <2>1, <2>2, <2>3, <2>4, <2>5 DEF Flag!Modify
<1>4. flagPc' \in [Threads -> Flag!Locations]
  BY <1>0, <1>3 DEF Flag!TypeOK, Flag!Locations, Flag!Awakened
<1>5. flagCall' \in [Threads -> FlagWaits \cup FlagChanges \cup {Flag!NoCall}]
  BY <1>0, <1>2 DEF Flag!TypeOK
<1>6. Flag!Waiters' = Flag!Waiters /\ t \notin Flag!Waiters
  BY <1>0, <1>1, <1>3 DEF Flag!TypeOK, Flag!Waiters, Flag!Awakened
<1>7. \A u \in Flag!Waiters' : flagCall'[u] \in FlagWaits
  BY <1>0, <1>2, <1>6 DEF Flag!TypeOK, Flag!Waiters
<1>8. ASSUME NEW u \in Threads, flagPc'[u] = "parked"
      PROVE  flagPc[u] = "parked" /\ flagCall'[u] = flagCall[u] /\ flagBits' \subseteq flagBits
  <2>1. u # t
    BY <1>0, <1>3, <1>8 DEF Flag!TypeOK, Flag!Awakened
  <2>2. flagPc' = [flagPc EXCEPT ![t] = place] /\ flagBits' \subseteq flagBits
    BY <1>0, <1>3, <1>8, <2>1 DEF Flag!TypeOK, Flag!Awakened
  <2>3. QED
    BY <1>0, <1>2, <1>8, <2>1, <2>2 DEF Flag!TypeOK
<1>9. flagBits' \subseteq FlagBits
  BY <1>0, <1>3 DEF Flag!TypeOK
<1>10. flagWaiting' = Flag!Cardinality(Flag!Waiters') /\ flagStatus' \in {"Set", "Canceled", "Deleted"}
  BY <1>0, <1>1, <1>6 DEF Flag!TypeOK
<1>11. QED
  BY <1>0, <1>1, <1>4, <1>5, <1>7, <1>8, <1>9, <1>10, FlagSuffices DEF Flag!TypeOK

LEMMA FlagEndsKeep ==
  ASSUME Flag!EventFlagAssumption, IsFiniteSet(Threads), FlagIInv, NEW t \in Threads,
         Flag!CancelEnds(t) \/ Flag!DeleteEnds(t)
  PROVE  FlagIInv'
<1>0. /\ Flag!TypeOK /\ flagWaiting = 0 /\ UNCHANGED <<flagSingle, flagBits, flagWaiting, flagCall, flagResult>>
      /\ flagPc' = [flagPc EXCEPT ![t] = "idle"] /\ flagStatus' \in {"Set", "Freed"}
  BY DEF FlagIInv, Flag!FlagInv, Flag!CancelEnds, Flag!DeleteEnds
<1>1. Flag!Waiters = {}
  BY <1>0, NobodyWaits
<1>2. Flag!Waiters' = {} /\ \A u \in Threads : flagPc'[u] # "parked"
  BY <1>0, <1>1 DEF Flag!Waiters, Flag!TypeOK
<1>3. flagWaiting' = Flag!Cardinality(Flag!Waiters')
  BY <1>0, <1>1, <1>2 DEF Flag!TypeOK
<1>4. flagPc' \in [Threads -> Flag!Locations]
  BY <1>0 DEF Flag!TypeOK, Flag!Locations
<1>5. QED
  BY <1>0, <1>2, <1>3, <1>4, FlagSuffices DEF Flag!TypeOK

LEMMA FlagStepKeeps ==
  ASSUME Flag!EventFlagAssumption, IsFiniteSet(Threads), FlagIInv, [Flag!Next]_(Flag!vars) PROVE FlagIInv'
<1>1. CASE UNCHANGED Flag!vars
  <2>1. Flag!Waiters' = Flag!Waiters
    BY <1>1 DEF Flag!vars, Flag!Waiters
  <2>2. Flag!TypeOK /\ (\A t \in Flag!Waiters : flagCall[t] \in FlagWaits) /\ (flagStatus = "Freed" => flagWaiting = 0)
    BY DEF FlagIInv, Flag!FlagInv
  <2>3. QED
    BY <1>1, <2>1, <2>2, FlagSuffices DEF Flag!vars, Flag!TypeOK
<1>2. ASSUME NEW t \in Threads,
             Flag!Calls(t) \/ Flag!Wakes(t) \/ Flag!Relocks(t) \/ Flag!CancelEnds(t) \/ Flag!DeleteEnds(t)
      PROVE  FlagIInv'
  <2>1. CASE Flag!Calls(t)
    BY <2>1, FlagImmediateKeeps, FlagParksKeep, FlagModifyKeeps DEF Flag!Calls
  <2>2. CASE Flag!Wakes(t) \/ Flag!Relocks(t)
    BY <2>2, FlagSleepersKeep, FlagLeavesKeep DEF Flag!Relocks
  <2>3. QED
    BY <1>2, <2>1, <2>2, FlagEndsKeep
<1>3. QED
  BY <1>1, <1>2 DEF Flag!Next

LEMMA FlagIInvHolds ==
  ASSUME Flag!EventFlagAssumption, IsFiniteSet(Threads) PROVE Flag!Spec => []FlagIInv
<1>1. Flag!Init => FlagIInv
  BY FlagInitHolds
<1>2. FlagIInv /\ [Flag!Next]_(Flag!vars) => FlagIInv'
  BY FlagStepKeeps
<1>3. QED
  BY <1>1, <1>2, PTL DEF Flag!Spec

\* m_waiting_threads counts the waiters on every way out of Wait, and no
\* sleeper's condition holds (KernelEventFlagPrivate, src/kernel/eventFlag.cpp).
THEOREM NobodySleepsThroughSet ==
  ASSUME Flag!EventFlagAssumption, IsFiniteSet(Threads) PROVE Flag!Spec => []Flag!FlagInv
<1>1. FlagIInv => Flag!FlagInv
  BY DEF FlagIInv
<1>2. QED
  BY <1>1, FlagIInvHolds, PTL

LEMMA FlagStepIsTotal ==
  ASSUME Flag!EventFlagAssumption, IsFiniteSet(Threads), FlagIInv, Flag!Next
  PROVE  Flag!CancelIsExclusive /\ Flag!CancelLeavesNobody
<1> SUFFICES ASSUME NEW t \in Threads,
                    Flag!Calls(t) \/ Flag!Wakes(t) \/ Flag!Relocks(t) \/ Flag!CancelEnds(t) \/ Flag!DeleteEnds(t)
             PROVE  Flag!CancelIsExclusive /\ Flag!CancelLeavesNobody
  BY DEF Flag!Next
<1>0. Flag!TypeOK /\ \A u \in Flag!Waiters : flagCall[u] \in FlagWaits
  BY DEF FlagIInv, Flag!FlagInv
<1>1. CASE \E one \in BOOLEAN, pattern \in FlagPatterns : Flag!Create(t, one, pattern)
  BY <1>1 DEF Flag!Create, Flag!CancelIsExclusive, Flag!CancelLeavesNobody
<1>2. ASSUME NEW c \in FlagWaits, Flag!WaitDenied(t) \/ Flag!WaitPasses(t, c) \/ Flag!PollFails(t, c)
      PROVE  Flag!CancelIsExclusive /\ Flag!CancelLeavesNobody
  <2>1. UNCHANGED flagStatus /\ flagBits' \subseteq flagBits /\ flagPc' = [flagPc EXCEPT ![t] = "idle"] /\ flagPc[t] = "idle"
    <3>1. c \in Flag!WaitCalls
      BY DEF Flag!EventFlagAssumption
    <3>2. QED
      BY <1>2, <3>1, ConsumesBits DEF Flag!WaitDenied, Flag!WaitPasses, Flag!PollFails, Flag!Returns, Flag!Enters
  <2>2. Flag!Waiters' = Flag!Waiters
    BY <1>0, <2>1 DEF Flag!Waiters, Flag!TypeOK
  <2>3. QED
    BY <2>1, <2>2 DEF Flag!CancelIsExclusive, Flag!CancelLeavesNobody
<1>3. ASSUME NEW c \in FlagWaits, Flag!WaitParks(t, c)
      PROVE  Flag!CancelIsExclusive /\ Flag!CancelLeavesNobody
  <2>1. UNCHANGED <<flagStatus, flagBits>> /\ Flag!Waiters \subseteq Flag!Waiters'
    BY <1>0, <1>3 DEF Flag!WaitParks, Flag!Waiters, Flag!TypeOK
  <2>2. QED
    BY <2>1 DEF Flag!CancelIsExclusive, Flag!CancelLeavesNobody
<1>4. ASSUME NEW c \in FlagChanges, Flag!Blocks(t, c) \/ Flag!Modify(t, c)
      PROVE  Flag!CancelIsExclusive /\ Flag!CancelLeavesNobody
  <2>1. CASE Flag!Blocks(t, c)
    <3>1. UNCHANGED <<flagStatus, flagBits>> /\ Flag!Waiters' = Flag!Waiters
      BY <1>0, <2>1 DEF Flag!Blocks, Flag!Enters, Flag!Waiters, Flag!TypeOK
    <3>2. QED
      BY <3>1 DEF Flag!CancelIsExclusive, Flag!CancelLeavesNobody
  <2>2. CASE Flag!Modify(t, c)
    BY <2>2 DEF Flag!Modify, Flag!Set, Flag!Clear, Flag!CancelBegins, Flag!DeleteBegins, Flag!Ready,
                Flag!CancelIsExclusive, Flag!CancelLeavesNobody
  <2>3. QED
    BY <1>4, <2>1, <2>2
<1>5. CASE Flag!Wakes(t) \/ Flag!WaitSleepsAgain(t)
  <2>1. UNCHANGED <<flagStatus, flagBits>> /\ Flag!Waiters' = Flag!Waiters
    BY <1>0, <1>5 DEF Flag!Wakes, Flag!WaitSleepsAgain, Flag!Waiters, Flag!TypeOK
  <2>2. QED
    BY <2>1 DEF Flag!CancelIsExclusive, Flag!CancelLeavesNobody
<1>6. CASE Flag!WaitLeaves(t)
  <2>1. UNCHANGED <<flagStatus, flagBits>> /\ Flag!Returns(t, flagStatus) /\ flagPc[t] = "awake"
    BY <1>6 DEF Flag!WaitLeaves
  <2>2. Flag!Waiters' = Flag!Waiters \ {t} /\ flagResult'[t] = flagStatus
    BY <1>0, <2>1 DEF Flag!Returns, Flag!Waiters, Flag!TypeOK
  <2>3. QED
    BY <2>1, <2>2 DEF Flag!CancelIsExclusive, Flag!CancelLeavesNobody
<1>7. CASE Flag!WaitSucceeds(t) \/ Flag!WaitTimesOut(t)
  BY <1>7 DEF Flag!WaitSucceeds, Flag!WaitTimesOut, Flag!CancelIsExclusive, Flag!CancelLeavesNobody
<1>8. CASE Flag!CancelEnds(t) \/ Flag!DeleteEnds(t)
  <2>1. flagWaiting = 0 /\ flagBits' = flagBits
    BY <1>8 DEF Flag!CancelEnds, Flag!DeleteEnds
  <2>2. Flag!Waiters = {}
    BY <2>1, NobodyWaits
  <2>3. QED
    BY <2>1, <2>2 DEF Flag!CancelIsExclusive, Flag!CancelLeavesNobody
<1>9. CASE Flag!WaitDenied(t)
  <2>1. UNCHANGED <<flagStatus, flagBits>> /\ flagPc' = [flagPc EXCEPT ![t] = "idle"] /\ flagPc[t] = "idle"
    BY <1>9 DEF Flag!WaitDenied, Flag!Returns, Flag!Enters
  <2>2. Flag!Waiters' = Flag!Waiters
    BY <1>0, <2>1 DEF Flag!Waiters, Flag!TypeOK
  <2>3. QED
    BY <2>1, <2>2 DEF Flag!CancelIsExclusive, Flag!CancelLeavesNobody
<1>10. QED
  BY <1>1, <1>2, <1>3, <1>4, <1>5, <1>6, <1>7, <1>8, <1>9 DEF Flag!Calls, Flag!Relocks

\* Who waits while a Cancel is under way leaves with Canceled, nobody touches
\* the bits it set, and it ends when nobody waits any more.
THEOREM CancelsAreTotal ==
  ASSUME Flag!EventFlagAssumption, IsFiniteSet(Threads) PROVE Flag!Spec => Flag!CancelIsTotal
<1>1. FlagIInv /\ [Flag!Next]_(Flag!vars) => [Flag!CancelIsExclusive /\ Flag!CancelLeavesNobody]_(Flag!vars)
  BY FlagStepIsTotal
<1>2. QED
  BY <1>1, FlagIInvHolds, PTL DEF Flag!Spec, Flag!CancelIsTotal

(***************************************************************************)
(* The event queue: what is triggered is received once and in order, and   *)
(* no trigger is left while a waiter sleeps.                               *)
(***************************************************************************)

\* A nonempty set of naturals has a least element.
LEMMA LeastElement ==
  ASSUME NEW S \in SUBSET Nat, S # {}
  PROVE  \E m \in S : \A k \in S : m <= k
<1> DEFINE Less == {ss \in Nat \X Nat : ss[1] < ss[2]}
<1>1. IsWellFoundedOn(Less, Nat)
  BY NatLessThanWellFounded DEF OpToRel
<1>2. ASSUME NEW x \in Nat, NEW y \in Nat, y < x
      PROVE  <<y, x>> \in Less
  BY <1>2
<1> HIDE DEF Less
<1>3. \E x \in S : \A y \in S : ~ (<<y, x>> \in Less)
  BY <1>1, WFMin
<1>4. PICK m \in S : \A y \in S : ~ (<<y, m>> \in Less)
  BY <1>3
<1>5. ASSUME NEW k \in S
      PROVE  m <= k
  <2>1. ~ (k < m)
    BY <1>2, <1>4
  <2>2. QED
    BY <2>1
<1>6. QED
  BY <1>5

\* The events of a list, and the waiters.
EventRecords ==
  [key : Events!Keys, clear : BOOLEAN, triggered : BOOLEAN, data : Int,
   pending : Seq(Int), deadline : {"none", "set", "past"}]

WaiterOK(r) == \/ r = Events!Idle
               \/ r \in [at : {"looks", "sleeps"}, num : EventNums, timed : BOOLEAN,
                         elapsed : BOOLEAN]

EventTypes ==
  /\ events \in Seq(EventRecords) /\ triggers \in Nat /\ others \in Nat
  /\ DOMAIN waiter = Threads /\ \A w \in Threads : WaiterOK(waiter[w])
  /\ sent \in [QueuedEvents -> Seq(Int)] /\ got \in [QueuedEvents -> Seq(Int)]

\* What waiters take of a queued event is cleared; and so is all they take until
\* a timer or an event without EV_CLEAR is added.
EventsClear ==
  \A i \in DOMAIN events :
    /\ events[i].key \in QueuedEvents => events[i].clear
    /\ others = 0 => events[i].clear /\ events[i].key \notin TimerEvents

EventsIInv == EventTypes /\ EventsClear /\ Events!EventsInv

\* What an event has for waiters.
Stock(e) == IF e.triggered THEN <<e.data>> \o e.pending ELSE <<>>

LEMMA EventCards ==
  ASSUME NEW S
  PROVE  Events!Cardinality(S) = Cardinality(S) /\ Events!IsFiniteSet(S) = IsFiniteSet(S)
BY DEF Events!Cardinality, Cardinality, Events!IsFiniteSet, IsFiniteSet

\* Events that stay come from different places of the list.
Stay(rest, list, places) ==
  \E at \in [DOMAIN rest -> places] :
    /\ \A i, j \in DOMAIN rest : at[i] = at[j] => i = j
    /\ \A i \in DOMAIN rest : rest[i] = list[at[i]]

LEMMA EventsKept ==
  ASSUME NEW A, NEW list \in Seq(A), NEW places \in SUBSET DOMAIN list,
         NEW rest \in Events!Kept(list, places)
  PROVE  rest \in Seq(A) /\ Stay(rest, list, places)
<1> DEFINE n == Events!Cardinality(places)
<1>1. n \in Nat
  <2>1. IsFiniteSet(1 .. Len(list)) /\ places \in SUBSET (1 .. Len(list))
    BY FS_Interval
  <2>2. IsFiniteSet(places)
    BY <2>1, FS_Subset
  <2>3. QED
    BY <2>2, FS_CardinalityType, EventCards
<1> HIDE DEF n
<1>2. PICK at \in [1 .. n -> places] :
        /\ \A i, j \in 1 .. n : i < j => at[i] < at[j]
        /\ rest = [i \in 1 .. n |-> list[at[i]]]
  BY DEF Events!Kept, n
<1>3. \A i \in 1 .. n : at[i] \in 1 .. Len(list) /\ list[at[i]] \in A
  OBVIOUS
<1>4. rest \in Seq(A) /\ DOMAIN rest = 1 .. n
  BY <1>1, <1>2, <1>3
<1>5. \A i, j \in 1 .. n : at[i] = at[j] => i = j
  <2>1. \A i, j \in 1 .. n : i < j \/ j < i \/ i = j
    BY <1>1
  <2>2. QED
    BY <1>2, <1>3, <2>1
<1>6. QED
  BY <1>2, <1>4, <1>5 DEF Stay

\* Where the event of a key is.
LEMMA EventAt ==
  ASSUME EventTypes, Events!TypeOK, NEW i \in DOMAIN events
  PROVE  Events!At(events[i].key) = i /\ events[i].key \in Events!Added
<1>1. \A j \in DOMAIN events : events[j].key = events[i].key => j = i
  BY DEF Events!TypeOK, Events!IsInjective
<1>2. QED
  BY <1>1 DEF Events!At, Events!Added

LEMMA EventAdded ==
  ASSUME EventTypes, NEW k \in Events!Added
  PROVE  Events!At(k) \in DOMAIN events /\ events[Events!At(k)].key = k
BY DEF Events!At, Events!Added

-----------------------------------------------------------------------------
\* What waiters take.

\* What a waiter with some room takes of an event, and what is left of it: nothing
\* is lost or doubled.
Shares(e, room, taken, left) ==
  /\ taken \in Seq(Int) /\ Len(taken) \in 0 .. room
  /\ left \in EventRecords /\ Stock(e) = taken \o Stock(left)
  /\ left.key = e.key /\ left.clear /\ left.deadline = e.deadline
  /\ left.pending # <<>> => left.triggered
  /\ left.triggered => e.triggered /\ Len(left.pending) <= Len(e.pending)
  /\ taken # <<>> => e.triggered /\ (left.triggered => Len(left.pending) < Len(e.pending))
  /\ e.triggered /\ room > 0 => taken # <<>>

LEMMA TakenAndLeft ==
  ASSUME NEW e \in EventRecords, NEW room \in Nat, e.clear, e.pending # <<>> => e.triggered
  PROVE  Shares(e, room, Events!Taken(e, room), Events!Left(e, Len(Events!Taken(e, room))))
<1> SUFFICES ASSUME NEW taken, taken = Events!Taken(e, room),
                    NEW left, left = Events!Left(e, Len(taken))
             PROVE  Shares(e, room, taken, left)
  OBVIOUS
<1> DEFINE all == <<e.data>> \o e.pending
           m == IF room < Len(all) THEN room ELSE Len(all)
<1>0. /\ all \in Seq(Int) /\ Len(all) = Len(e.pending) + 1 /\ Len(e.pending) \in Nat
      /\ e.pending \in Seq(Int) /\ e.data \in Int
  BY DEF EventRecords
<1>1. CASE ~e.triggered
  <2>1. taken = <<>> /\ left = e
    BY <1>1 DEF Events!Taken, Events!Left
  <2>2. QED
    BY <1>0, <1>1, <2>1 DEF Stock, Shares
<1>2. CASE e.triggered
  <2>0. m \in 0 .. Len(all) /\ m <= room /\ (room > 0 => m > 0)
    BY <1>0
  <2>1. taken = SubSeq(all, 1, m) /\ Stock(e) = all
    BY <1>2 DEF Events!Taken, Stock
  <2>a. all[1] = e.data /\ all = <<e.data>> \o e.pending
    BY <1>0
  <2> HIDE DEF all, m
  <2>2. taken \in Seq(Int) /\ Len(taken) = m /\ (m > 0 => taken # <<>>)
    <3>1. \A i \in 1 .. m : all[i] \in Int
      BY <1>0, <2>0
    <3>2. taken \in Seq(Int) /\ Len(taken) = m
      BY <2>0, <2>1, <3>1, SubSeqProperties
    <3>3. QED
      BY <3>2
  <2>3. CASE m = 0
    <3>1. left = e /\ taken = <<>>
      BY <2>2, <2>3 DEF Events!Left
    <3>2. Stock(e) = <<>> \o Stock(e)
      BY <1>0, <2>1
    <3>3. QED
      BY <1>0, <1>2, <2>0, <2>3, <3>1, <3>2 DEF Shares
  <2>4. CASE m = Len(all)
    <3>1. m # 0 /\ taken # <<>>
      BY <1>0, <2>2, <2>4
    <3>2. left = [e EXCEPT !.triggered = FALSE, !.data = 0, !.pending = <<>>]
      BY <2>2, <2>4, <2>a, <3>1 DEF Events!Left
    <3>3. /\ left = [key |-> e.key, clear |-> e.clear, triggered |-> FALSE, data |-> 0,
                     pending |-> <<>>, deadline |-> e.deadline]
      BY <3>2 DEF EventRecords
    <3>4. left \in EventRecords
      <4>1. <<>> \in Seq(Int)
        OBVIOUS
      <4>2. QED
        BY <3>3, <4>1 DEF EventRecords
    <3>5. taken \o Stock(left) = all
      <4>1. Stock(left) = <<>> /\ taken = all
        BY <1>0, <2>1, <2>4, <3>3, SubSeqFull DEF Stock
      <4>2. QED
        BY <1>0, <4>1, ConcatEmptySeq
    <3>6. QED
      BY <1>2, <2>0, <2>1, <2>2, <3>1, <3>3, <3>4, <3>5 DEF Shares
  <2>5. CASE m # 0 /\ m # Len(all)
    <3>1. taken # <<>> /\ m \in Nat /\ m > 0 /\ m < Len(all) /\ Len(all) \in Nat
      BY <1>0, <2>0, <2>2, <2>5
    <3> DEFINE rest == SubSeq(all, m + 2, Len(all))
    <3>2. left = [e EXCEPT !.data = all[m + 1], !.pending = rest]
      BY <2>2, <2>5, <2>a DEF Events!Left
    <3>3. all[m + 1] \in Int /\ rest \in Seq(Int) /\ Len(rest) < Len(e.pending)
      <4>0. \A i \in 1 .. Len(all) : all[i] \in Int
        BY <1>0
      <4>1. m + 1 \in 1 .. Len(all) /\ \A i \in m + 2 .. Len(all) : all[i] \in Int
        BY <3>1, <4>0
      <4>2. /\ rest \in Seq(Int)
            /\ Len(rest) = IF m + 2 <= Len(all) THEN Len(all) - (m + 2) + 1 ELSE 0
        BY <3>1, <4>1, SubSeqProperties
      <4>3. all[m + 1] \in Int
        BY <4>0, <4>1
      <4>4. Len(rest) < Len(e.pending)
        BY <1>0, <3>1, <4>2
      <4>5. QED
        BY <4>2, <4>3, <4>4
    <3> HIDE DEF rest
    <3>4. left = [key |-> e.key, clear |-> e.clear, triggered |-> e.triggered, data |-> all[m + 1],
                  pending |-> rest, deadline |-> e.deadline]
      BY <3>2 DEF EventRecords
    <3>5. left \in EventRecords
      BY <3>3, <3>4 DEF EventRecords
    <3>6. taken \o Stock(left) = all
      <4>1. Stock(left) = <<all[m + 1]>> \o rest
        BY <1>2, <3>4 DEF Stock
      <4>2. m + 1 \in 1 .. Len(all) /\ Len(all) \in m + 1 .. Len(all) /\ m + 1 + 1 = m + 2
        BY <3>1
      <4>3. SubSeq(all, m + 1, Len(all)) = <<all[m + 1]>> \o rest
        BY <1>0, <4>2, SubSeqRecursiveFirst DEF rest
      <4>4. 1 \in 1 .. Len(all) + 1 /\ m \in 1 - 1 .. Len(all) /\ Len(all) \in m .. Len(all)
        BY <3>1
      <4>5. taken \o SubSeq(all, m + 1, Len(all)) = SubSeq(all, 1, Len(all))
        BY <1>0, <2>1, <4>4, ConcatAdjacentSubSeq
      <4>6. QED
        BY <1>0, <4>1, <4>3, <4>5, SubSeqFull
    <3>7. Len(rest) <= Len(e.pending) /\ Len(rest) \in Nat
      BY <1>0, <3>3
    <3>8. /\ left.key = e.key /\ left.clear /\ left.deadline = e.deadline
          /\ left.triggered /\ left.pending = rest
      BY <1>2, <3>4
    <3>9. Len(taken) \in 0 .. room
      BY <2>0, <2>2
    <3>10. QED
      BY <1>2, <2>1, <2>2, <3>1, <3>3, <3>5, <3>6, <3>7, <3>8, <3>9 DEF Shares
  <2>6. QED
    BY <2>3, <2>4, <2>5
<1>3. QED
  BY <1>1, <1>2

\* Only a timer has a deadline.
LEMMA NotExpired ==
  ASSUME EventTypes, Events!TypeOK, NEW i \in DOMAIN events, events[i].key \notin TimerEvents
  PROVE  Events!Expired(events[i]) = events[i]
BY DEF Events!TypeOK, Events!Expired

\* The first that is triggered finds all the room.
LEMMA FoundIsTaken ==
  ASSUME EventTypes, EventsClear, Events!TypeOK, others = 0,
         NEW num \in Nat \ {0}, NEW rooms \in Events!Rooms(num), Events!Found
  PROVE  \E i \in DOMAIN events : Events!Taken(events[i], rooms[i]) # <<>>
<1>0. /\ DOMAIN events = 1 .. Len(events) /\ Len(events) \in Nat
      /\ \A i \in DOMAIN events :
           /\ Events!Expired(events[i]) = events[i] /\ events[i] \in EventRecords
           /\ events[i].clear /\ (events[i].pending # <<>> => events[i].triggered)
  BY NotExpired DEF EventTypes, EventsClear, Events!TypeOK
<1>1. /\ rooms \in [DOMAIN events -> 0 .. num]
      /\ \A i \in DOMAIN events :
           rooms[i] = IF i = 1 THEN num
                      ELSE rooms[i - 1] - Len(Events!Taken(Events!Expired(events[i - 1]), rooms[i - 1]))
  BY DEF Events!Rooms
<1> DEFINE S == {i \in DOMAIN events : events[i].triggered}
<1>2. S # {} /\ S \in SUBSET Nat
  BY <1>0 DEF Events!Found
<1>3. PICK m \in S : \A k \in S : m <= k
  BY <1>2, LeastElement
<1>4. m \in 1 .. Len(events) /\ events[m].triggered
      /\ \A k \in DOMAIN events : k < m => ~events[k].triggered
  BY <1>0, <1>3
<1> HIDE DEF S
<1>5. rooms[m] = num
  <2> DEFINE T == {j \in 1 .. m : rooms[j] # num}
  <2>1. CASE T = {}
    BY <1>4, <2>1
  <2>2. CASE T # {}
    <3>0. m \in Nat /\ T \in SUBSET Nat
      BY <1>4
    <3>1. PICK l \in T : \A k \in T : l <= k
      BY <2>2, <3>0, LeastElement
    <3>2. l \in 1 .. m /\ rooms[l] # num /\ \A k \in 1 .. m : k < l => rooms[k] = num
      BY <1>4, <3>1
    <3> HIDE DEF T
    <3>a. l \in DOMAIN events /\ m <= Len(events) /\ m \in Nat
      BY <1>0, <1>4, <3>2
    <3>b. l # 1
      BY <1>1, <3>2, <3>a
    <3>3. l # 1 /\ l \in DOMAIN events /\ l - 1 \in 1 .. m /\ l - 1 < l /\ l - 1 < m /\ l - 1 \in DOMAIN events
      BY <1>0, <3>2, <3>a, <3>b
    <3>4. Events!Taken(Events!Expired(events[l - 1]), rooms[l - 1]) = <<>>
      BY <1>0, <1>4, <3>3 DEF Events!Taken
    <3>5. rooms[l] = num - 0
      BY <1>1, <3>2, <3>3, <3>4
    <3>6. QED
      BY <3>2, <3>5
  <2>3. QED
    BY <2>1, <2>2
<1>6. Events!Taken(events[m], rooms[m]) # <<>>
  BY <1>0, <1>4, <1>5, TakenAndLeft DEF Shares
<1>7. QED
  BY <1>0, <1>4, <1>6

-----------------------------------------------------------------------------
\* What a step has to see to.

EventListOK ==
  /\ \A i, j \in DOMAIN events : events[i].key = events[j].key => i = j
  /\ \A i \in DOMAIN events :
       /\ events[i].pending # <<>> => events[i].triggered /\ events[i].key \in QueuedEvents
       /\ (events[i].deadline = "none") = (events[i].key \notin TimerEvents)

QueueEndOK ==
  /\ closed => ~registered /\ events = <<>> /\ Events!Sleepers = {}
  /\ \A w \in Events!Sleepers : ~waiter[w].elapsed

LEMMA EventsParts ==
  EventsIInv <=> /\ EventTypes /\ EventsClear /\ EventListOK /\ QueueEndOK
                 /\ Events!ReceivedInOrder /\ Events!TriggersAreServed
BY DEF EventsIInv, EventListOK, QueueEndOK, Events!EventsInv, Events!QueueInv, Events!TypeOK,
       Events!ClosedWakesAll, Events!IsInjective

LEMMA EventsPartsNext ==
  ASSUME EventTypes', EventsClear', EventListOK', QueueEndOK',
         Events!ReceivedInOrder', Events!TriggersAreServed'
  PROVE  EventsIInv'
BY DEF EventsIInv, EventListOK, QueueEndOK, Events!EventsInv, Events!QueueInv, Events!TypeOK,
       Events!ClosedWakesAll, Events!IsInjective

LEMMA UnreceivedAre ==
  ASSUME NEW x
  PROVE  x \in Events!Unreceived <=>
           \E i \in DOMAIN events : \E n \in 0 .. Len(events[i].pending) :
              /\ x = <<events[i].key, n>>
              /\ events[i].triggered /\ events[i].clear /\ events[i].key \notin TimerEvents
BY DEF Events!Unreceived

LEMMA UnreceivedFinite ==
  ASSUME EventTypes PROVE IsFiniteSet(Events!Unreceived)
<1> DEFINE of(i) == {events[i].key} \X (0 .. Len(events[i].pending))
           places == {j \in DOMAIN events : /\ events[j].triggered /\ events[j].clear
                                            /\ events[j].key \notin TimerEvents}
<1>1. IsFiniteSet(places)
  <2>1. IsFiniteSet(1 .. Len(events)) /\ places \in SUBSET (1 .. Len(events))
    BY FS_Interval DEF EventTypes
  <2>2. QED
    BY <2>1, FS_Subset
<1>2. ASSUME NEW i \in places PROVE IsFiniteSet(of(i))
  <2>1. Len(events[i].pending) \in Nat
    BY DEF EventTypes, EventRecords
  <2>2. IsFiniteSet(0 .. Len(events[i].pending))
    BY <2>1, FS_Interval
  <2>3. IsFiniteSet({events[i].key})
    BY FS_Singleton, Zenon
  <2>4. QED
    BY <2>2, <2>3, FS_Product
<1>3. Events!Unreceived = UNION {of(i) : i \in places}
  BY DEF Events!Unreceived
<1> HIDE DEF of, places
<1>4. IsFiniteSet({of(i) : i \in places})
  <2> DEFINE image == {of(i) : i \in places}
             f == [i \in places |-> of(i)]
  <2>1. f \in Surjection(places, image)
    BY DEF Surjection
  <2> HIDE DEF f, image
  <2>2. IsFiniteSet(image)
    BY <1>1, <2>1, FS_Surjection
  <2>3. QED
    BY <2>2 DEF image
<1>5. QED
  BY <1>2, <1>3, <1>4, FS_UNION

\* A list whose events come from other places of the list before.
LEMMA EventsFrom ==
  ASSUME EventListOK, EventsClear, others' = 0 => others = 0,
         NEW at \in [DOMAIN events' -> DOMAIN events],
         \A i, j \in DOMAIN events' : at[i] = at[j] => i = j,
         \A i \in DOMAIN events' :
           /\ events'[i].key = events[at[i]].key /\ events'[i].clear = events[at[i]].clear
           /\ (events'[i].deadline = "none") = (events[at[i]].deadline = "none")
           /\ events'[i].pending # <<>> => events'[i].triggered /\ events'[i].key \in QueuedEvents
  PROVE  EventListOK' /\ EventsClear'
BY DEF EventListOK, EventsClear

\* ... has no more triggers than they had.
LEMMA FewerUnreceived ==
  ASSUME EventTypes, events' \in Seq(EventRecords),
         NEW at \in [DOMAIN events' -> DOMAIN events],
         \A i \in DOMAIN events' :
           /\ events'[i].key = events[at[i]].key /\ events'[i].clear = events[at[i]].clear
           /\ events'[i].key \notin TimerEvents /\ events'[i].triggered =>
                events[at[i]].triggered /\ Len(events'[i].pending) <= Len(events[at[i]].pending)
  PROVE  Events!Unreceived' \subseteq Events!Unreceived
<1> SUFFICES ASSUME NEW x \in Events!Unreceived' PROVE x \in Events!Unreceived
  OBVIOUS
<1>1. PICK i \in DOMAIN events' : \E n \in 0 .. Len(events'[i].pending) :
        /\ x = <<events'[i].key, n>>
        /\ events'[i].triggered /\ events'[i].clear /\ events'[i].key \notin TimerEvents
  BY DEF Events!Unreceived
<1>a. PICK n \in 0 .. Len(events'[i].pending) : x = <<events'[i].key, n>>
  BY <1>1
<1>2. Len(events'[i].pending) \in Nat /\ Len(events[at[i]].pending) \in Nat
  BY DEF EventTypes, EventRecords
<1>3. n \in 0 .. Len(events[at[i]].pending) /\ at[i] \in DOMAIN events
  BY <1>1, <1>2
<1>4. QED
  BY <1>1, <1>a, <1>3, UnreceivedAre

LEMMA ServedSuffices ==
  ASSUME IsFiniteSet(Threads), EventTypes, EventTypes', Events!TriggersAreServed,
         others' = 0 => others = 0,
         Events!Sleepers' # {} => /\ Events!Sleepers # {}
                                  /\ Events!Unreceived' \subseteq Events!Unreceived
                                  /\ Events!Awake \subseteq Events!Awake'
  PROVE  Events!TriggersAreServed'
<1> SUFFICES ASSUME others' = 0, Events!Sleepers' # {}
             PROVE  Cardinality(Events!Unreceived') <= Cardinality(Events!Awake')
  BY EventCards DEF Events!TriggersAreServed
<1>1. Cardinality(Events!Unreceived) <= Cardinality(Events!Awake)
  BY EventCards DEF Events!TriggersAreServed
<1>2. IsFiniteSet(Events!Unreceived) /\ Events!Unreceived' \in SUBSET Events!Unreceived
  BY UnreceivedFinite
<1>3. Events!Awake' \in SUBSET Threads /\ Events!Awake \in SUBSET Events!Awake'
  BY DEF Events!Awake
<1>4. IsFiniteSet(Events!Awake') /\ IsFiniteSet(Events!Awake) /\ IsFiniteSet(Events!Unreceived')
  BY <1>2, <1>3, FS_Subset
<1>5. /\ Cardinality(Events!Unreceived') <= Cardinality(Events!Unreceived)
      /\ Cardinality(Events!Awake) <= Cardinality(Events!Awake')
  BY <1>2, <1>3, <1>4, FS_Subset
<1>6. QED
  BY <1>1, <1>2, <1>4, <1>5, FS_CardinalityType

\* A signal wakes one sleeper, if there is one.
LEMMA SignalWakes ==
  ASSUME EventTypes, QueueEndOK, Events!Signal
  PROVE  /\ DOMAIN waiter' = Threads /\ \A w \in Threads : WaiterOK(waiter'[w])
         /\ Events!Sleepers' \subseteq Events!Sleepers /\ Events!Awake \subseteq Events!Awake'
         /\ \A w \in Events!Sleepers' : ~waiter'[w].elapsed
         /\ Events!Sleepers # {} => \E w \in Threads \ Events!Awake : Events!Awake' = Events!Awake \cup {w}
<1>1. CASE Events!Sleepers = {}
  <2>1. waiter' = waiter
    BY <1>1 DEF Events!Signal
  <2>2. QED
    BY <1>1, <2>1 DEF EventTypes, Events!Sleepers, Events!Awake
<1>2. ASSUME NEW w \in Events!Sleepers, NEW late \in BOOLEAN,
             waiter' = [waiter EXCEPT ![w] = Events!Woken(w, late)]
      PROVE  /\ DOMAIN waiter' = Threads /\ \A v \in Threads : WaiterOK(waiter'[v])
             /\ Events!Sleepers' \subseteq Events!Sleepers
             /\ \A v \in Events!Sleepers' : ~waiter'[v].elapsed
             /\ w \in Threads \ Events!Awake /\ Events!Awake' = Events!Awake \cup {w}
  <2>1. w \in Threads /\ waiter[w].at = "sleeps" /\ WaiterOK(waiter[w])
    BY DEF Events!Sleepers, EventTypes
  <2>2. waiter[w] \in [at : {"looks", "sleeps"}, num : EventNums, timed : BOOLEAN, elapsed : BOOLEAN]
    BY <2>1 DEF WaiterOK, Events!Idle
  <2>3. WaiterOK(Events!Woken(w, late)) /\ Events!Woken(w, late).at = "looks"
    BY <2>2 DEF WaiterOK, Events!Woken
  <2>4. /\ DOMAIN waiter' = Threads /\ waiter'[w] = Events!Woken(w, late)
        /\ \A v \in Threads : v # w => waiter'[v] = waiter[v]
    BY <1>2, <2>1 DEF EventTypes
  <2>5. \A v \in Threads : WaiterOK(waiter'[v])
    BY <2>3, <2>4 DEF EventTypes
  <2>6. /\ Events!Sleepers' = Events!Sleepers \ {w}
        /\ Events!Awake' = Events!Awake \cup {w} /\ w \notin Events!Awake
    BY <2>1, <2>3, <2>4 DEF Events!Sleepers, Events!Awake
  <2>7. \A v \in Events!Sleepers' : ~waiter'[v].elapsed
    <3>1. \A v \in Events!Sleepers' : v \in Events!Sleepers /\ v \in Threads /\ v # w
      BY <2>6 DEF Events!Sleepers
    <3>2. QED
      BY <2>4, <3>1 DEF QueueEndOK
  <2>8. QED
    BY <2>1, <2>4, <2>5, <2>6, <2>7
<1>3. QED
  BY <1>1, <1>2 DEF Events!Signal

-----------------------------------------------------------------------------
\* The events and the end of the queue.

LEMMA EventsInitHolds == Events!Init => EventsIInv
<1> SUFFICES ASSUME Events!Init PROVE EventsIInv
  OBVIOUS
<1>1. EventTypes
  BY DEF Events!Init, EventTypes, WaiterOK
<1>2. Events!Sleepers = {} /\ EventsClear /\ EventListOK /\ Events!ReceivedInOrder
  BY DEF Events!Init, Events!Sleepers, Events!Idle, EventsClear, EventListOK, Events!ReceivedInOrder
<1>3. QueueEndOK /\ Events!TriggersAreServed
  BY <1>2 DEF Events!Init, QueueEndOK, Events!TriggersAreServed
<1>4. QED
  BY <1>1, <1>2, <1>3, EventsParts

\* The data of queued events is as before.
LEMMA SameOrder ==
  ASSUME Events!ReceivedInOrder,
         \A i \in DOMAIN events' : events'[i].key \in QueuedEvents =>
           \E j \in DOMAIN events :
             /\ events'[i].key = events[j].key /\ events'[i].triggered = events[j].triggered
             /\ events'[i].data = events[j].data /\ events'[i].pending = events[j].pending
             /\ sent'[events[j].key] = sent[events[j].key]
             /\ got'[events[j].key] = got[events[j].key]
  PROVE  Events!ReceivedInOrder'
<1> SUFFICES ASSUME NEW i \in DOMAIN events', events'[i].key \in QueuedEvents
             PROVE  sent'[events'[i].key] = got'[events'[i].key] \o
                      (IF events'[i].triggered THEN <<events'[i].data>> \o events'[i].pending ELSE <<>>)
  BY DEF Events!ReceivedInOrder
<1>1. PICK j \in DOMAIN events :
        /\ events'[i].key = events[j].key /\ events'[i].triggered = events[j].triggered
        /\ events'[i].data = events[j].data /\ events'[i].pending = events[j].pending
        /\ sent'[events[j].key] = sent[events[j].key]
        /\ got'[events[j].key] = got[events[j].key]
  OBVIOUS
<1>2. sent[events[j].key] = got[events[j].key] \o
        (IF events[j].triggered THEN <<events[j].data>> \o events[j].pending ELSE <<>>)
  BY <1>1 DEF Events!ReceivedInOrder
<1>3. QED
  BY <1>1, <1>2

\* An event that gets another deadline keeps what it has.
LEMMA DeadlineKeeps ==
  ASSUME EventTypes, EventListOK, EventsClear, Events!ReceivedInOrder, NEW p \in DOMAIN events, NEW deadline \in {"none", "set", "past"},
         (deadline = "none") = (events[p].deadline = "none"),
         events' = [events EXCEPT ![p].deadline = deadline],
         UNCHANGED <<sent, got>>, others' = 0 => others = 0
  PROVE  /\ events' \in Seq(EventRecords) /\ EventListOK' /\ EventsClear'
         /\ Events!Unreceived' \subseteq Events!Unreceived /\ Events!ReceivedInOrder'
<1>1. events[p] \in EventRecords
  BY DEF EventTypes
<1>2. /\ DOMAIN events' = DOMAIN events /\ events'[p] = [events[p] EXCEPT !.deadline = deadline]
      /\ \A i \in DOMAIN events : i # p => events'[i] = events[i]
  BY DEF EventTypes
<1>3. events'[p] \in EventRecords
  BY <1>1, <1>2 DEF EventRecords
<1>4. \A i \in DOMAIN events :
        /\ events'[i].key = events[i].key /\ events'[i].clear = events[i].clear
        /\ events'[i].triggered = events[i].triggered /\ events'[i].data = events[i].data
        /\ events'[i].pending = events[i].pending
        /\ (events'[i].deadline = "none") = (events[i].deadline = "none")
  BY <1>1, <1>2 DEF EventRecords
<1>5. events' \in Seq(EventRecords)
  BY <1>2, <1>3 DEF EventTypes
<1> DEFINE at == [i \in DOMAIN events' |-> i]
<1>6. at \in [DOMAIN events' -> DOMAIN events] /\ \A i \in DOMAIN events' : at[i] = i
  BY <1>2
<1> HIDE DEF at
<1>7. EventListOK' /\ EventsClear'
  <2>1. \A i \in DOMAIN events' : events'[i].pending # <<>> => events'[i].triggered /\ events'[i].key \in QueuedEvents
    BY <1>2, <1>4 DEF EventListOK
  <2>2. QED
    BY <1>2, <1>4, <1>6, <2>1, EventsFrom
<1>8. Events!Unreceived' \subseteq Events!Unreceived
  <2>1. \A i \in DOMAIN events : Len(events[i].pending) <= Len(events[i].pending)
    BY DEF EventTypes, EventRecords
  <2>2. QED
    BY <1>2, <1>4, <1>5, <1>6, <2>1, FewerUnreceived
<1>9. Events!ReceivedInOrder'
  BY <1>2, <1>4, SameOrder
<1>10. QED
  BY <1>5, <1>7, <1>8, <1>9

LEMMA AddedAgainKeeps ==
  ASSUME IsFiniteSet(Threads), EventsIInv, NEW k \in Events!Keys, NEW clear \in BOOLEAN,
         Events!AddEvent(k, clear), k \in Events!Added
  PROVE  EventsIInv'
<1> DEFINE p == Events!At(k)
           deadline == IF k \in TimerEvents THEN "set" ELSE "none"
<1>0. /\ EventTypes /\ EventsClear /\ EventListOK /\ QueueEndOK
      /\ Events!ReceivedInOrder /\ Events!TriggersAreServed
  BY EventsParts
<1>1. /\ ~closed /\ events' = [events EXCEPT ![p].deadline = deadline]
      /\ UNCHANGED <<sent, got, registered, closed, triggers>> /\ Events!Signal
      /\ others' \in {others, others + 1}
  BY <1>0 DEF Events!AddEvent, EventTypes
<1>2. p \in DOMAIN events /\ events[p].key = k
  BY <1>0, EventAdded
<1> HIDE DEF p
<1>3. /\ (deadline = "none") = (events[p].deadline = "none")
      /\ deadline \in {"none", "set", "past"}
  BY <1>0, <1>2 DEF EventListOK
<1> HIDE DEF deadline
<1>4. others' \in Nat /\ (others' = 0 => others = 0)
  BY <1>0, <1>1 DEF EventTypes
<1>5. /\ events' \in Seq(EventRecords) /\ EventListOK' /\ EventsClear'
      /\ Events!Unreceived' \subseteq Events!Unreceived /\ Events!ReceivedInOrder'
  BY <1>0, <1>1, <1>2, <1>3, <1>4, DeadlineKeeps
<1>6. EventTypes'
  BY <1>0, <1>1, <1>4, <1>5, SignalWakes DEF EventTypes
<1>7. Events!TriggersAreServed'
  BY <1>0, <1>1, <1>4, <1>5, <1>6, SignalWakes, ServedSuffices
<1>8. QueueEndOK'
  BY <1>0, <1>1, SignalWakes DEF QueueEndOK
<1>9. QED
  BY <1>5, <1>6, <1>7, <1>8, EventsPartsNext

LEMMA AddedAnewKeeps ==
  ASSUME Events!EventAssumption, IsFiniteSet(Threads), EventsIInv,
         NEW k \in Events!Keys, NEW clear \in BOOLEAN,
         Events!AddEvent(k, clear), k \notin Events!Added
  PROVE  EventsIInv'
<1> DEFINE deadline == IF k \in TimerEvents THEN "set" ELSE "none"
           r == [key |-> k, clear |-> clear, triggered |-> FALSE, data |-> 0,
                 pending |-> <<>>, deadline |-> deadline]
<1>0. /\ EventTypes /\ EventsClear /\ EventListOK /\ QueueEndOK
      /\ Events!ReceivedInOrder /\ Events!TriggersAreServed
  BY EventsParts
<1>1. /\ ~closed /\ events' = Append(events, r) /\ Events!Forget({k})
      /\ UNCHANGED <<registered, closed, triggers>> /\ Events!Signal
      /\ others' = others + IF k \in TimerEvents \/ ~clear THEN 1 ELSE 0
      /\ ~clear => k \in UserEvents
  BY DEF Events!AddEvent
<1>2. r \in EventRecords
  <2>1. <<>> \in Seq(Int)
    OBVIOUS
  <2>2. QED
    BY <2>1 DEF EventRecords
<1>3. /\ r.key = k /\ r.clear = clear /\ ~r.triggered /\ r.pending = <<>>
      /\ (r.deadline = "none") = (k \notin TimerEvents)
  OBVIOUS
<1> HIDE DEF r, deadline
<1>4. /\ events' \in Seq(EventRecords)
      /\ \A i \in DOMAIN events' : \/ i \in DOMAIN events /\ events'[i] = events[i]
                                   \/ i = Len(events) + 1 /\ events'[i] = r
  BY <1>0, <1>1, <1>2 DEF EventTypes
<1>5. others' \in Nat /\ (others' = 0 => others = 0 /\ clear /\ k \notin TimerEvents)
  BY <1>0, <1>1 DEF EventTypes
<1>6. sent' \in [QueuedEvents -> Seq(Int)] /\ got' \in [QueuedEvents -> Seq(Int)]
  BY <1>0, <1>1 DEF Events!Forget, EventTypes
<1>7. EventTypes'
  BY <1>0, <1>1, <1>4, <1>5, <1>6, SignalWakes DEF EventTypes
<1>8. \A i \in DOMAIN events : events[i].key # k
  BY DEF Events!Added
<1>9. EventListOK'
  BY <1>0, <1>3, <1>4, <1>8 DEF EventListOK
<1>10. EventsClear'
  <2>1. k \in QueuedEvents => clear
    BY <1>1 DEF Events!EventAssumption
  <2>2. QED
    BY <1>0, <1>3, <1>4, <1>5, <2>1 DEF EventsClear
<1>11. Events!Unreceived' \subseteq Events!Unreceived
  BY <1>3, <1>4 DEF Events!Unreceived
<1>12. Events!TriggersAreServed'
  BY <1>0, <1>1, <1>5, <1>7, <1>11, SignalWakes, ServedSuffices
<1>13. QueueEndOK'
  BY <1>0, <1>1, SignalWakes DEF QueueEndOK
<1>14. Events!ReceivedInOrder'
  <2> SUFFICES ASSUME NEW i \in DOMAIN events', events'[i].key \in QueuedEvents
               PROVE  sent'[events'[i].key] = got'[events'[i].key] \o
                        (IF events'[i].triggered THEN <<events'[i].data>> \o events'[i].pending ELSE <<>>)
    BY DEF Events!ReceivedInOrder
  <2>1. CASE i \in DOMAIN events /\ events'[i] = events[i]
    BY <1>0, <1>1, <1>8, <2>1 DEF Events!ReceivedInOrder, Events!Forget
  <2>2. CASE events'[i] = r
    BY <1>1, <1>3, <2>2 DEF Events!Forget
  <2>3. QED
    BY <1>4, <2>1, <2>2
<1>15. QED
  BY <1>7, <1>9, <1>10, <1>12, <1>13, <1>14, EventsPartsNext

LEMMA AppendBehind ==
  ASSUME NEW s \in Seq(Int), NEW t \in Seq(Int), NEW x \in Int
  PROVE  s \o Append(t, x) = Append(s \o t, x)
<1> DEFINE l == s \o Append(t, x)
           r == Append(s \o t, x)
<1>1. s \o t \in Seq(Int) /\ Append(t, x) \in Seq(Int) /\ Len(Append(t, x)) = Len(t) + 1
  OBVIOUS
<1>2. /\ l \in Seq(Int) /\ Len(l) = Len(s) + Len(t) + 1
      /\ r \in Seq(Int) /\ Len(r) = Len(s) + Len(t) + 1
  BY <1>1
<1>3. \A i \in 1 .. Len(l) : l[i] = r[i]
  BY <1>1, <1>2
<1> HIDE DEF l, r
<1>4. l = r
  BY <1>2, <1>3, SeqEqual
<1>5. QED
  BY <1>4 DEF l, r

\* A trigger is the last that its event has for waiters.
LEMMA StockGrows ==
  ASSUME NEW e \in EventRecords, e.pending # <<>> => e.triggered, NEW x \in Int
  PROVE  /\ Events!Triggered(e, x) \in EventRecords /\ Events!Triggered(e, x).triggered
         /\ Events!Triggered(e, x).key = e.key /\ Events!Triggered(e, x).clear = e.clear
         /\ Events!Triggered(e, x).deadline = e.deadline
         /\ Len(Events!Triggered(e, x).pending) \in {Len(e.pending), Len(e.pending) + 1}
         /\ e.key \in QueuedEvents => Stock(Events!Triggered(e, x)) = Append(Stock(e), x)
         /\ ~e.triggered => Events!Triggered(e, x).pending = <<>>
         /\ Events!Triggered(e, x).pending # <<>> => e.pending # <<>> \/ e.key \in QueuedEvents
         /\ e.triggered /\ e.key \notin QueuedEvents =>
              Len(Events!Triggered(e, x).pending) = Len(e.pending)
         /\ Len(Events!Triggered(e, x).pending) > Len(e.pending) => e.triggered
<1>0. /\ e.pending \in Seq(Int) /\ Len(e.pending) \in Nat /\ e.data \in Int
      /\ Append(e.pending, x) \in Seq(Int) /\ Len(Append(e.pending, x)) = Len(e.pending) + 1
  BY DEF EventRecords
<1>1. CASE e.triggered /\ e.key \in QueuedEvents
  <2>1. Events!Triggered(e, x) = [key |-> e.key, clear |-> e.clear, triggered |-> e.triggered,
                                  data |-> e.data, pending |-> Append(e.pending, x),
                                  deadline |-> e.deadline]
    BY <1>1 DEF Events!Triggered, EventRecords
  <2>2. Events!Triggered(e, x) \in EventRecords
    BY <1>0, <2>1 DEF EventRecords
  <2>3. Stock(Events!Triggered(e, x)) = <<e.data>> \o Append(e.pending, x) /\ Stock(e) = <<e.data>> \o e.pending
    BY <1>1, <2>1 DEF Stock
  <2>4. <<e.data>> \o Append(e.pending, x) = Append(<<e.data>> \o e.pending, x)
    <3>1. <<e.data>> \in Seq(Int)
      BY <1>0
    <3>2. QED
      BY <1>0, <3>1, AppendBehind
  <2>5. /\ Events!Triggered(e, x).triggered /\ Events!Triggered(e, x).key = e.key
        /\ Events!Triggered(e, x).clear = e.clear /\ Events!Triggered(e, x).deadline = e.deadline
        /\ Events!Triggered(e, x).pending = Append(e.pending, x)
    BY <1>1, <2>1
  <2>6. Len(Events!Triggered(e, x).pending) = Len(e.pending) + 1
    BY <1>0, <2>5
  <2>7. QED
    BY <1>1, <2>2, <2>3, <2>4, <2>5, <2>6
<1>2. CASE ~(e.triggered /\ e.key \in QueuedEvents)
  <2>1. Events!Triggered(e, x) = [key |-> e.key, clear |-> e.clear, triggered |-> TRUE,
                                  data |-> x, pending |-> e.pending, deadline |-> e.deadline]
    BY <1>2 DEF Events!Triggered, EventRecords
  <2>2. Events!Triggered(e, x) \in EventRecords
    BY <1>0, <2>1 DEF EventRecords
  <2>3. e.key \in QueuedEvents => Stock(Events!Triggered(e, x)) = Append(Stock(e), x)
    <3> SUFFICES ASSUME e.key \in QueuedEvents PROVE Stock(Events!Triggered(e, x)) = Append(Stock(e), x)
      OBVIOUS
    <3>1. ~e.triggered /\ e.pending = <<>>
      BY <1>2
    <3>2. Stock(e) = <<>> /\ Stock(Events!Triggered(e, x)) = <<x>> \o <<>>
      BY <2>1, <3>1 DEF Stock
    <3>3. QED
      BY <3>2
  <2>4. /\ Events!Triggered(e, x).triggered /\ Events!Triggered(e, x).key = e.key
        /\ Events!Triggered(e, x).clear = e.clear /\ Events!Triggered(e, x).deadline = e.deadline
        /\ Events!Triggered(e, x).pending = e.pending
    BY <2>1
  <2>5. ~(Len(Events!Triggered(e, x).pending) > Len(e.pending))
    BY <1>0, <2>4
  <2>6. QED
    BY <1>2, <2>2, <2>3, <2>4, <2>5
<1>3. QED
  BY <1>1, <1>2

LEMMA TriggerKeeps ==
  ASSUME Events!EventAssumption, IsFiniteSet(Threads), EventsIInv,
         NEW k \in Events!Keys, Events!TriggerEvent(k)
  PROVE  EventsIInv'
<1> DEFINE p == Events!At(k)
           x == triggers + 1
<1>0. /\ EventTypes /\ EventsClear /\ EventListOK /\ QueueEndOK
      /\ Events!ReceivedInOrder /\ Events!TriggersAreServed
  BY EventsParts
<1>1. /\ ~closed /\ events' = [events EXCEPT ![p] = Events!Triggered(events[p], x)]
      /\ UNCHANGED <<got, registered, closed, others>> /\ Events!Signal /\ triggers' = x
      /\ sent' = [q \in QueuedEvents |-> IF q = k THEN Append(sent[q], x) ELSE sent[q]]
      /\ k \in Events!Added /\ k \notin TimerEvents
  BY DEF Events!TriggerEvent
<1>2. p \in DOMAIN events /\ events[p].key = k /\ x \in Nat /\ x \in Int
  BY <1>0, <1>1, EventAdded DEF EventTypes
<1> HIDE DEF p, x
<1>3. events[p] \in EventRecords /\ (events[p].pending # <<>> => events[p].triggered /\ k \in QueuedEvents)
  BY <1>0, <1>2 DEF EventTypes, EventListOK
<1>4. /\ DOMAIN events' = DOMAIN events /\ events'[p] = Events!Triggered(events[p], x)
      /\ \A i \in DOMAIN events : i # p => events'[i] = events[i]
  BY <1>0, <1>1, <1>2 DEF EventTypes
<1>5. /\ events'[p] \in EventRecords /\ events'[p].triggered
      /\ events'[p].key = k /\ events'[p].clear = events[p].clear
      /\ events'[p].deadline = events[p].deadline
      /\ events'[p].pending # <<>> => k \in QueuedEvents
      /\ Len(events'[p].pending) \in {Len(events[p].pending), Len(events[p].pending) + 1}
      /\ k \in QueuedEvents => Stock(events'[p]) = Append(Stock(events[p]), x)
      /\ Len(events'[p].pending) > Len(events[p].pending) => events[p].triggered
      /\ ~events[p].triggered => events'[p].pending = <<>>
  BY <1>2, <1>3, <1>4, StockGrows
<1>6. events' \in Seq(EventRecords)
  BY <1>0, <1>1, <1>2, <1>4, <1>5 DEF EventTypes
<1>7. sent' \in [QueuedEvents -> Seq(Int)]
  BY <1>0, <1>1, <1>2 DEF EventTypes
<1>8. EventTypes'
  BY <1>0, <1>1, <1>2, <1>6, <1>7, SignalWakes DEF EventTypes
<1> DEFINE at == [i \in DOMAIN events' |-> i]
<1>10. at \in [DOMAIN events' -> DOMAIN events] /\ \A i \in DOMAIN events' : at[i] = i
  BY <1>4
<1> HIDE DEF at
<1>11. EventListOK' /\ EventsClear'
  <2>1. \A i \in DOMAIN events' :
           /\ events'[i].key = events[i].key /\ events'[i].clear = events[i].clear
           /\ events'[i].deadline = events[i].deadline
           /\ events'[i].pending # <<>> => events'[i].triggered /\ events'[i].key \in QueuedEvents
    BY <1>0, <1>2, <1>4, <1>5 DEF EventListOK
  <2>2. QED
    BY <1>0, <1>1, <1>10, <2>1, EventsFrom
<1>12. Events!Unreceived' \subseteq Events!Unreceived \cup {<<k, Len(events'[p].pending)>>}
  <2> SUFFICES ASSUME NEW u \in Events!Unreceived', u # <<k, Len(events'[p].pending)>>
               PROVE  u \in Events!Unreceived
    OBVIOUS
  <2>1. PICK i \in DOMAIN events' : /\ \E n \in 0 .. Len(events'[i].pending) : u = <<events'[i].key, n>>
                                    /\ events'[i].triggered /\ events'[i].clear
                                    /\ events'[i].key \notin TimerEvents
    BY DEF Events!Unreceived
  <2>2. CASE i # p
    BY <1>4, <2>1, <2>2, UnreceivedAre
  <2>3. CASE i = p
    <3>1. PICK n \in 0 .. Len(events'[p].pending) : u = <<k, n>>
      BY <1>5, <2>1, <2>3
    <3>2. Len(events[p].pending) \in Nat
      BY <1>3 DEF EventRecords
    <3>3. n # Len(events'[p].pending)
      BY <3>1
    <3>4. events[p].triggered
      <4>1. CASE ~events[p].triggered
        <5>1. Len(events'[p].pending) = 0
          BY <1>5, <4>1
        <5>2. QED
          BY <3>1, <3>3, <5>1
      <4>2. QED
        BY <4>1
    <3>5. n \in 0 .. Len(events[p].pending)
      BY <1>5, <3>1, <3>2, <3>3
    <3>6. QED
      BY <1>1, <1>2, <1>5, <2>1, <2>3, <3>1, <3>4, <3>5, UnreceivedAre
  <2>4. QED
    BY <2>2, <2>3
<1>13. Events!TriggersAreServed'
  <2> SUFFICES ASSUME others' = 0, Events!Sleepers' # {}
               PROVE  Cardinality(Events!Unreceived') <= Cardinality(Events!Awake')
    BY EventCards DEF Events!TriggersAreServed
  <2>1. Events!Sleepers # {}
    BY <1>0, <1>1, SignalWakes
  <2>2. PICK w \in Threads \ Events!Awake : Events!Awake' = Events!Awake \cup {w}
    BY <1>0, <1>1, <2>1, SignalWakes
  <2>3. Cardinality(Events!Unreceived) <= Cardinality(Events!Awake)
    BY <1>0, <1>1, <2>1, EventCards DEF Events!TriggersAreServed
  <2>4. IsFiniteSet(Events!Awake) /\ IsFiniteSet(Events!Unreceived)
    <3>1. Events!Awake \in SUBSET Threads
      BY DEF Events!Awake
    <3>2. QED
      BY <1>0, <3>1, FS_Subset, UnreceivedFinite
  <2>5. Cardinality(Events!Awake') = Cardinality(Events!Awake) + 1
    BY <2>2, <2>4, FS_AddElement
  <2> DEFINE y == <<k, Len(events'[p].pending)>>
             more == Events!Unreceived \cup {y}
  <2>6. Events!Unreceived' \in SUBSET more
    BY <1>12
  <2> HIDE DEF y
  <2>7. IsFiniteSet(more) /\ Cardinality(more) <= Cardinality(Events!Unreceived) + 1
    <3>1. Cardinality(Events!Unreceived) \in Nat
      BY <2>4, FS_CardinalityType
    <3>2. IsFiniteSet(more) /\ Cardinality(more) = IF y \in Events!Unreceived THEN Cardinality(Events!Unreceived)
                                                     ELSE Cardinality(Events!Unreceived) + 1
      BY <2>4, FS_AddElement
    <3>3. QED
      BY <3>1, <3>2
  <2> HIDE DEF more
  <2>8. IsFiniteSet(Events!Unreceived') /\ Cardinality(Events!Unreceived') <= Cardinality(more)
    BY <2>6, <2>7, FS_Subset
  <2>9. QED
    BY <2>3, <2>4, <2>5, <2>7, <2>8, FS_CardinalityType
<1>14. QueueEndOK'
  BY <1>0, <1>1, SignalWakes DEF QueueEndOK
<1>15. Events!ReceivedInOrder'
  <2> SUFFICES ASSUME NEW i \in DOMAIN events', events'[i].key \in QueuedEvents
               PROVE  sent'[events'[i].key] = got'[events'[i].key] \o Stock(events'[i])
    BY DEF Events!ReceivedInOrder, Stock
  <2>0. \A j \in DOMAIN events : events[j].key \in QueuedEvents =>
          sent[events[j].key] = got[events[j].key] \o Stock(events[j])
    BY <1>0 DEF Events!ReceivedInOrder, Stock
  <2>1. CASE i # p
    <3>1. events[i].key # k /\ i \in DOMAIN events
      BY <1>0, <1>2, <1>4, <2>1 DEF EventListOK
    <3>2. QED
      BY <1>1, <1>4, <2>0, <2>1, <3>1
  <2>2. CASE i = p
    <3>1. k \in QueuedEvents /\ sent'[k] = Append(sent[k], x) /\ got'[k] = got[k]
      BY <1>1, <1>5, <2>2
    <3>2. sent[k] = got[k] \o Stock(events[p]) /\ got[k] \in Seq(Int)
      BY <1>0, <1>2, <2>0, <3>1 DEF EventTypes
    <3>a. Stock(events[p]) \in Seq(Int)
      <4>1. <<events[p].data>> \in Seq(Int) /\ events[p].pending \in Seq(Int) /\ <<>> \in Seq(Int)
        BY <1>3 DEF EventRecords
      <4>2. <<events[p].data>> \o events[p].pending \in Seq(Int)
        BY <4>1, ConcatProperties
      <4>3. QED
        BY <4>1, <4>2 DEF Stock
    <3>3. Append(sent[k], x) = got[k] \o Append(Stock(events[p]), x)
      BY <1>2, <3>2, <3>a, AppendBehind
    <3>4. QED
      BY <1>5, <2>2, <3>1, <3>3
  <2>3. QED
    BY <2>1, <2>2
<1>16. QED
  BY <1>8, <1>11, <1>13, <1>14, <1>15, EventsPartsNext

LEMMA EventDeletedKeeps ==
  ASSUME IsFiniteSet(Threads), EventsIInv, NEW k \in Events!Keys, Events!DeleteEvent(k)
  PROVE  EventsIInv'
<1> DEFINE places == {i \in DOMAIN events : events[i].key # k}
<1>0. /\ EventTypes /\ EventsClear /\ EventListOK /\ QueueEndOK
      /\ Events!ReceivedInOrder /\ Events!TriggersAreServed
  BY EventsParts
<1>1. /\ ~closed /\ events' \in Events!Kept(events, places) /\ Events!Forget({k})
      /\ UNCHANGED <<registered, closed, waiter, triggers, others>>
  BY DEF Events!DeleteEvent
<1>a. places \in SUBSET DOMAIN events /\ events \in Seq(EventRecords)
  BY <1>0 DEF EventTypes
<1> HIDE DEF places
<1>b. events' \in Events!Kept(events, places)
  BY <1>1
<1>2. events' \in Seq(EventRecords) /\ Stay(events', events, places)
  BY <1>a, <1>b, EventsKept
<1>3. PICK at \in [DOMAIN events' -> places] :
              /\ \A i, j \in DOMAIN events' : at[i] = at[j] => i = j
              /\ \A i \in DOMAIN events' : events'[i] = events[at[i]]
  BY <1>2 DEF Stay
<1>4. at \in [DOMAIN events' -> DOMAIN events] /\ \A i \in DOMAIN events' : at[i] \in DOMAIN events /\ events[at[i]].key # k
  BY <1>3 DEF places
<1>5. sent' \in [QueuedEvents -> Seq(Int)] /\ got' \in [QueuedEvents -> Seq(Int)]
  BY <1>0, <1>1 DEF Events!Forget, EventTypes
<1>6. EventTypes'
  BY <1>0, <1>1, <1>2, <1>5 DEF EventTypes
<1>7. EventListOK' /\ EventsClear'
  <2>1. \A i \in DOMAIN events' : events'[i].pending # <<>> => events'[i].triggered /\ events'[i].key \in QueuedEvents
    BY <1>0, <1>3, <1>4 DEF EventListOK
  <2>2. QED
    BY <1>0, <1>1, <1>3, <1>4, <2>1, EventsFrom
<1>8. Events!Unreceived' \subseteq Events!Unreceived
  <2>1. \A i \in DOMAIN events : Len(events[i].pending) <= Len(events[i].pending)
    BY <1>0 DEF EventTypes, EventRecords
  <2>2. QED
    BY <1>0, <1>2, <1>3, <1>4, <2>1, FewerUnreceived
<1>9. Events!Sleepers' = Events!Sleepers /\ Events!Awake' = Events!Awake
  BY <1>1 DEF Events!Sleepers, Events!Awake
<1>10. Events!TriggersAreServed'
  BY <1>0, <1>1, <1>6, <1>8, <1>9, ServedSuffices
<1>11. QueueEndOK'
  BY <1>0, <1>1, <1>9 DEF QueueEndOK
<1>12. Events!ReceivedInOrder'
  <2>1. \A i \in DOMAIN events' : events'[i].key \in QueuedEvents =>
           sent'[events[at[i]].key] = sent[events[at[i]].key] /\ got'[events[at[i]].key] = got[events[at[i]].key]
    BY <1>1, <1>3, <1>4 DEF Events!Forget
  <2>2. QED
    BY <1>0, <1>3, <1>4, <2>1, SameOrder
<1>13. QED
  BY <1>6, <1>7, <1>10, <1>11, <1>12, EventsPartsNext

LEMMA ExpireKeeps ==
  ASSUME IsFiniteSet(Threads), EventsIInv, NEW k \in Events!Keys, Events!Expire(k)
  PROVE  EventsIInv'
<1> DEFINE p == Events!At(k)
<1>0. /\ EventTypes /\ EventsClear /\ EventListOK /\ QueueEndOK
      /\ Events!ReceivedInOrder /\ Events!TriggersAreServed
  BY EventsParts
<1>1. /\ k \in Events!Added /\ events[p].deadline = "set"
      /\ events' = [events EXCEPT ![p].deadline = "past"]
      /\ UNCHANGED <<registered, closed, waiter, triggers, others, sent, got>>
  BY DEF Events!Expire
<1>2. p \in DOMAIN events
  BY <1>0, <1>1, EventAdded
<1> HIDE DEF p
<1>3. /\ events' \in Seq(EventRecords) /\ EventListOK' /\ EventsClear'
      /\ Events!Unreceived' \subseteq Events!Unreceived /\ Events!ReceivedInOrder'
  BY <1>0, <1>1, <1>2, DeadlineKeeps
<1>4. EventTypes'
  BY <1>0, <1>1, <1>3 DEF EventTypes
<1>5. Events!Sleepers' = Events!Sleepers /\ Events!Awake' = Events!Awake
  BY <1>1 DEF Events!Sleepers, Events!Awake
<1>6. Events!TriggersAreServed'
  BY <1>0, <1>1, <1>3, <1>4, <1>5, ServedSuffices
<1>7. QueueEndOK'
  <2>1. ~closed
    BY <1>0, <1>2 DEF QueueEndOK
  <2>2. QED
    BY <1>0, <1>1, <1>5, <2>1 DEF QueueEndOK
<1>8. QED
  BY <1>3, <1>4, <1>6, <1>7, EventsPartsNext

LEMMA QueueEndKeeps ==
  ASSUME EventsIInv, Events!DeleteEqueue \/ Events!Close
  PROVE  EventsIInv'
<1>0. /\ EventTypes /\ EventsClear /\ EventListOK /\ QueueEndOK
      /\ Events!ReceivedInOrder /\ Events!TriggersAreServed
  BY EventsParts
<1>1. CASE Events!DeleteEqueue
  <2>1. registered' = FALSE /\ UNCHANGED <<closed, events, waiter, triggers, others, sent, got>>
    BY <1>1 DEF Events!DeleteEqueue
  <2>2. EventTypes' /\ EventsClear' /\ EventListOK' /\ Events!ReceivedInOrder'
    BY <1>0, <2>1 DEF EventTypes, EventsClear, EventListOK, Events!ReceivedInOrder
  <2>3. Events!Sleepers' = Events!Sleepers /\ Events!Awake' = Events!Awake /\ Events!Unreceived' = Events!Unreceived
    BY <2>1 DEF Events!Sleepers, Events!Awake, Events!Unreceived
  <2>4. QueueEndOK' /\ Events!TriggersAreServed'
    BY <1>0, <2>1, <2>3 DEF QueueEndOK, Events!TriggersAreServed
  <2>5. QED
    BY <2>2, <2>4, EventsPartsNext
<1>2. ASSUME Events!Close PROVE EventsIInv'
  <2>1. /\ ~registered /\ closed' = TRUE /\ events' = <<>> /\ Events!Forget(QueuedEvents)
        /\ Events!SignalAll /\ UNCHANGED <<registered, triggers, others>>
    BY <1>2 DEF Events!Close
  <2>2. sent' \in [QueuedEvents -> Seq(Int)] /\ got' \in [QueuedEvents -> Seq(Int)]
    BY <1>0, <2>1 DEF Events!Forget, EventTypes
  <2>3. PICK late \in [Threads -> BOOLEAN] :
          waiter' = [w \in Threads |-> IF w \in Events!Sleepers THEN Events!Woken(w, late[w]) ELSE waiter[w]]
    BY <2>1 DEF Events!SignalAll
  <2>4. ASSUME NEW w \in Threads PROVE WaiterOK(waiter'[w]) /\ waiter'[w].at # "sleeps"
    <3>1. WaiterOK(waiter[w])
      BY <1>0 DEF EventTypes
    <3>2. CASE w \in Events!Sleepers
      <4>1. waiter[w].at = "sleeps" /\ waiter'[w] = Events!Woken(w, late[w])
        BY <2>3, <3>2 DEF Events!Sleepers
      <4>2. waiter[w] \in [at : {"looks", "sleeps"}, num : EventNums, timed : BOOLEAN, elapsed : BOOLEAN]
        BY <3>1, <4>1 DEF WaiterOK, Events!Idle
      <4>3. QED
        BY <4>1, <4>2 DEF WaiterOK, Events!Woken
    <3>3. CASE w \notin Events!Sleepers
      BY <2>3, <3>1, <3>3 DEF Events!Sleepers
    <3>4. QED
      BY <3>2, <3>3
  <2>5. Events!Sleepers' = {}
    BY <2>4 DEF Events!Sleepers
  <2>6. EventTypes'
    BY <1>0, <2>1, <2>2, <2>3, <2>4 DEF EventTypes
  <2>7. /\ EventsClear' /\ EventListOK' /\ QueueEndOK' /\ Events!ReceivedInOrder'
        /\ Events!TriggersAreServed'
    BY <2>1, <2>5 DEF EventsClear, EventListOK, QueueEndOK, Events!ReceivedInOrder, Events!TriggersAreServed
  <2>8. QED
    BY <2>6, <2>7, EventsPartsNext
<1>3. QED
  BY <1>1, <1>2

-----------------------------------------------------------------------------
\* The waiters.

\* Of a queue that is closed nothing is to be received, nor when nothing is found.
LEMMA NothingUnreceived ==
  ASSUME EventTypes, EventListOK, QueueEndOK, closed \/ ~Events!Found
  PROVE  Events!Unreceived = {}
<1>1. \A i \in DOMAIN events : ~events[i].triggered
  <2>1. CASE closed
    BY <2>1 DEF QueueEndOK
  <2>2. CASE ~Events!Found
    <3>1. \A i \in DOMAIN events : ~Events!Expired(events[i]).triggered /\ events[i] \in EventRecords
      BY <2>2 DEF Events!Found, EventTypes
    <3>2. QED
      BY <3>1 DEF Events!Expired, EventRecords
  <2>3. QED
    BY <2>1, <2>2
<1>2. QED
  BY <1>1 DEF Events!Unreceived

\* Steps of a waiter that leave the events alone.
LEMMA WaiterKeeps ==
  ASSUME Events!EventAssumption, IsFiniteSet(Threads), EventsIInv, NEW w \in Threads,
         \/ \E num \in EventNums, tm, el \in BOOLEAN : Events!WaitEqueue(w, num, tm, el)
         \/ Events!WaitIsRefused(w) \/ Events!WaitSleeps(w) \/ Events!WaitWakes(w)
  PROVE  EventsIInv'
<1>0. /\ EventTypes /\ EventsClear /\ EventListOK /\ QueueEndOK
      /\ Events!ReceivedInOrder /\ Events!TriggersAreServed
  BY EventsParts
<1>1. UNCHANGED <<registered, closed, events, triggers, others, sent, got>>
  BY DEF Events!WaitEqueue, Events!WaitIsRefused, Events!WaitSleeps, Events!WaitWakes
<1>2. EventsClear' /\ EventListOK' /\ Events!ReceivedInOrder' /\ Events!Unreceived' = Events!Unreceived
  <2>1. EventsClear' /\ EventListOK'
    BY <1>0, <1>1 DEF EventsClear, EventListOK
  <2>2. Events!ReceivedInOrder'
    BY <1>0, <1>1 DEF Events!ReceivedInOrder
  <2>3. Events!Unreceived' = Events!Unreceived
    BY <1>1 DEF Events!Unreceived
  <2>4. QED
    BY <2>1, <2>2, <2>3
<1> DEFINE Call == [at : {"looks", "sleeps"}, num : EventNums, timed : BOOLEAN, elapsed : BOOLEAN]
<1>3. DOMAIN waiter = Threads /\ WaiterOK(waiter[w])
  BY <1>0 DEF EventTypes
<1>4. waiter[w].at # "idle" => waiter[w] \in Call
  BY <1>3 DEF WaiterOK, Events!Idle
\* The others stay where they are.
<1>5. ASSUME NEW r, waiter' = [waiter EXCEPT ![w] = r], WaiterOK(r),
             r.at = "sleeps" => ~closed /\ ~r.elapsed /\ ~Events!Found,
             r.at = "idle" => closed,
             waiter[w].at = "sleeps" => r.at = "looks"
      PROVE  EventsIInv'
  <2>1. /\ DOMAIN waiter' = Threads /\ waiter'[w] = r
        /\ \A v \in Threads : v # w => waiter'[v] = waiter[v]
    BY <1>3, <1>5
  <2>2. EventTypes'
    BY <1>0, <1>1, <1>5, <2>1 DEF EventTypes
  <2>3. QueueEndOK'
    <3>1. ASSUME NEW v \in Events!Sleepers' PROVE ~closed /\ ~waiter'[v].elapsed
      <4>1. v \in Threads /\ waiter'[v].at = "sleeps"
        BY DEF Events!Sleepers
      <4>2. CASE v = w
        BY <1>5, <2>1, <4>1, <4>2
      <4>3. CASE v # w
        <5>1. v \in Events!Sleepers /\ waiter'[v] = waiter[v]
          BY <2>1, <4>1, <4>3 DEF Events!Sleepers
        <5>2. QED
          BY <1>0, <5>1 DEF QueueEndOK
      <4>4. QED
        BY <4>2, <4>3
    <3>2. QED
      BY <1>0, <1>1, <3>1 DEF QueueEndOK
  <2>4. Events!TriggersAreServed'
    <3>1. CASE r.at = "looks"
      <4>1. Events!Sleepers' \subseteq Events!Sleepers /\ Events!Awake \subseteq Events!Awake'
        BY <2>1, <3>1 DEF Events!Sleepers, Events!Awake
      <4>2. QED
        BY <1>0, <1>1, <1>2, <2>2, <4>1, ServedSuffices
    <3>2. CASE r.at # "looks"
      <4>1. Events!Unreceived = {}
        <5>1. r.at \in {"idle", "sleeps"}
          BY <1>5, <3>2 DEF WaiterOK, Events!Idle
        <5>2. QED
          BY <1>0, <1>5, <5>1, NothingUnreceived
      <4>2. Cardinality(Events!Unreceived') = 0
        BY <1>2, <4>1, FS_EmptySet
      <4>3. Events!Awake' \in SUBSET Threads
        BY DEF Events!Awake
      <4>4. Cardinality(Events!Awake') \in Nat
        BY <4>3, FS_Subset, FS_CardinalityType
      <4>5. QED
        BY <4>2, <4>4, EventCards DEF Events!TriggersAreServed
    <3>3. QED
      BY <3>1, <3>2
  <2>5. QED
    BY <1>2, <2>2, <2>3, <2>4, EventsPartsNext
<1>6. ASSUME NEW num \in EventNums, NEW tm \in BOOLEAN, NEW el \in BOOLEAN,
             Events!WaitEqueue(w, num, tm, el)
      PROVE  EventsIInv'
  <2> DEFINE r == [at |-> "looks", num |-> num, timed |-> tm, elapsed |-> el]
  <2>1. waiter[w] = Events!Idle /\ waiter' = [waiter EXCEPT ![w] = r]
    BY <1>6 DEF Events!WaitEqueue
  <2>2. WaiterOK(r) /\ r.at = "looks"
    BY DEF WaiterOK
  <2>3. QED
    BY <1>5, <2>1, <2>2
<1>7. CASE Events!WaitIsRefused(w)
  <2>1. waiter[w].at = "looks" /\ closed /\ waiter' = [waiter EXCEPT ![w] = Events!Idle]
    BY <1>7 DEF Events!WaitIsRefused
  <2>2. WaiterOK(Events!Idle) /\ Events!Idle.at = "idle"
    BY DEF WaiterOK, Events!Idle
  <2>3. QED
    BY <1>5, <2>1, <2>2
<1>8. CASE Events!WaitSleeps(w)
  <2> DEFINE r == [waiter[w] EXCEPT !.at = "sleeps"]
  <2>1. /\ waiter[w].at = "looks" /\ ~closed /\ ~waiter[w].elapsed /\ ~Events!Found
        /\ waiter' = [waiter EXCEPT ![w] = r]
    BY <1>8 DEF Events!WaitSleeps
  <2>2. WaiterOK(r) /\ r.at = "sleeps" /\ ~r.elapsed
    BY <1>4, <2>1 DEF WaiterOK
  <2> HIDE DEF r
  <2>3. QED
    BY <1>5, <2>1, <2>2
<1>9. CASE Events!WaitWakes(w)
  <2>1. PICK late \in BOOLEAN : /\ waiter[w].at = "sleeps"
                                /\ waiter' = [waiter EXCEPT ![w] = Events!Woken(w, late)]
    BY <1>9 DEF Events!WaitWakes
  <2>2. WaiterOK(Events!Woken(w, late)) /\ Events!Woken(w, late).at = "looks"
    BY <1>4, <2>1 DEF WaiterOK, Events!Woken
  <2>3. QED
    BY <1>5, <2>1, <2>2
<1>10. QED
  BY <1>6, <1>7, <1>8, <1>9

LEMMA ConcatThree ==
  ASSUME NEW a \in Seq(Int), NEW b \in Seq(Int), NEW c \in Seq(Int)
  PROVE  a \o (b \o c) = (a \o b) \o c
BY ConcatAssociative

\* A waiter leaves with what it found.
LEMMA WaitReturnsKeeps ==
  ASSUME Events!EventAssumption, IsFiniteSet(Threads), EventsIInv, NEW w \in Threads,
         Events!WaitReturns(w)
  PROVE  EventsIInv'
<1>0. /\ EventTypes /\ EventsClear /\ EventListOK /\ QueueEndOK
      /\ Events!ReceivedInOrder /\ Events!TriggersAreServed /\ Events!TypeOK
  BY EventsParts DEF EventsIInv, Events!EventsInv, Events!QueueInv
<1> DEFINE num == waiter[w].num
           E(i) == Events!Expired(events[i])
<1>1. PICK rooms \in Events!Rooms(num) :
        LET taken == [i \in DOMAIN events |-> Events!Taken(Events!Expired(events[i]), rooms[i])]
            left == [i \in DOMAIN events |-> Events!Left(Events!Expired(events[i]), Len(taken[i]))]
        IN /\ events' \in Events!Kept(left, {i \in DOMAIN events :
                                              events[i].key \in TimerEvents => taken[i] = <<>>})
           /\ got' = [k \in QueuedEvents |-> IF k \in Events!Added THEN got[k] \o taken[Events!At(k)] ELSE got[k]]
  BY DEF Events!WaitReturns
<1>2. /\ waiter[w].at = "looks" /\ ~closed /\ (Events!Found \/ waiter[w].elapsed)
      /\ waiter' = [waiter EXCEPT ![w] = Events!Idle]
      /\ UNCHANGED <<registered, closed, triggers, others, sent>>
  BY DEF Events!WaitReturns
<1> DEFINE taken == [i \in DOMAIN events |-> Events!Taken(E(i), rooms[i])]
           left == [i \in DOMAIN events |-> Events!Left(E(i), Len(taken[i]))]
           stay == {i \in DOMAIN events : events[i].key \in TimerEvents => taken[i] = <<>>}
<1>3. /\ events' \in Events!Kept(left, stay) /\ stay \in SUBSET DOMAIN events
      /\ got' = [k \in QueuedEvents |-> IF k \in Events!Added THEN got[k] \o taken[Events!At(k)] ELSE got[k]]
  BY <1>1
<1>4. num \in EventNums /\ num \in Nat \ {0}
  <2>1. WaiterOK(waiter[w])
    BY <1>0 DEF EventTypes
  <2>2. num \in EventNums
    BY <1>2, <2>1 DEF WaiterOK, Events!Idle
  <2>3. QED
    BY <2>2 DEF Events!EventAssumption
<1> HIDE DEF num
<1>5. DOMAIN events = 1 .. Len(events) /\ Len(events) \in Nat /\ \A i \in DOMAIN events : rooms[i] \in Nat
  <2>1. rooms \in [DOMAIN events -> 0 .. num]
    BY DEF Events!Rooms
  <2>2. QED
    BY <1>0, <1>4, <2>1 DEF EventTypes
<1>6. ASSUME NEW i \in DOMAIN events
      PROVE  /\ E(i) \in EventRecords /\ events[i] \in EventRecords
             /\ E(i).key = events[i].key /\ E(i).clear = events[i].clear
             /\ E(i).pending = events[i].pending /\ E(i).deadline = events[i].deadline
             /\ E(i).pending # <<>> => E(i).triggered /\ E(i).key \in QueuedEvents
             /\ events[i].key \notin TimerEvents => E(i) = events[i]
  <2>1. events[i] \in EventRecords
    BY <1>0 DEF EventTypes
  <2>2. E(i) \in {events[i], [events[i] EXCEPT !.triggered = TRUE]}
    BY DEF Events!Expired
  <2>3. events[i].pending # <<>> => events[i].triggered /\ events[i].key \in QueuedEvents
    BY <1>0 DEF EventListOK
  <2>4. events[i].key \notin TimerEvents => E(i) = events[i]
    BY <1>0, NotExpired
  <2> HIDE DEF E
  <2>5. CASE E(i) = events[i]
    BY <2>1, <2>3, <2>4, <2>5
  <2>6. CASE E(i) = [events[i] EXCEPT !.triggered = TRUE]
    BY <2>1, <2>3, <2>4, <2>6 DEF EventRecords
  <2>7. QED
    BY <2>2, <2>5, <2>6
<1>7. ASSUME NEW i \in DOMAIN events
      PROVE  /\ left[i] \in EventRecords
             /\ left[i].key = events[i].key /\ left[i].clear = events[i].clear
             /\ left[i].deadline = events[i].deadline
             /\ left[i].pending # <<>> => left[i].triggered /\ left[i].key \in QueuedEvents
             /\ left[i].triggered => E(i).triggered /\ Len(left[i].pending) <= Len(events[i].pending)
             /\ events[i].clear =>
                  /\ taken[i] \in Seq(Int) /\ Stock(E(i)) = taken[i] \o Stock(left[i])
                  /\ taken[i] # <<>> =>
                       /\ E(i).triggered
                       /\ left[i].triggered => Len(left[i].pending) < Len(events[i].pending)
  <2>1. taken[i] = Events!Taken(E(i), rooms[i]) /\ left[i] = Events!Left(E(i), Len(taken[i]))
    OBVIOUS
  <2>2. /\ E(i) \in EventRecords /\ E(i).pending = events[i].pending /\ E(i).key = events[i].key
        /\ E(i).clear = events[i].clear /\ E(i).deadline = events[i].deadline
        /\ E(i).pending # <<>> => E(i).triggered /\ E(i).key \in QueuedEvents
        /\ rooms[i] \in Nat
    BY <1>5, <1>6
  <2> HIDE DEF taken, left, E
  <2>3. Len(E(i).pending) \in Nat
    BY <2>2 DEF EventRecords
  <2>4. CASE events[i].clear
    <3>1. /\ taken[i] \in Seq(Int) /\ left[i] \in EventRecords /\ Stock(E(i)) = taken[i] \o Stock(left[i])
          /\ left[i].key = E(i).key /\ left[i].clear /\ left[i].deadline = E(i).deadline
          /\ left[i].pending # <<>> => left[i].triggered
          /\ left[i].triggered => E(i).triggered /\ Len(left[i].pending) <= Len(E(i).pending)
          /\ taken[i] # <<>> => E(i).triggered /\ (left[i].triggered => Len(left[i].pending) < Len(E(i).pending))
      <4> DEFINE e == E(i)
                 room == rooms[i]
                 t == taken[i]
                 l == left[i]
      <4>1. /\ e \in EventRecords /\ room \in Nat /\ e.clear
            /\ e.pending # <<>> => e.triggered
        BY <2>2, <2>4
      <4>2. t = Events!Taken(e, room) /\ l = Events!Left(e, Len(t))
        BY <2>1
      <4> HIDE DEF e, room, t, l
      <4>a. Shares(e, room, t, l)
        BY <4>1, <4>2, TakenAndLeft
      <4>3. /\ t \in Seq(Int) /\ l \in EventRecords /\ Stock(e) = t \o Stock(l)
            /\ l.key = e.key /\ l.clear /\ l.deadline = e.deadline
            /\ l.pending # <<>> => l.triggered
            /\ l.triggered => e.triggered /\ Len(l.pending) <= Len(e.pending)
            /\ t # <<>> => e.triggered /\ (l.triggered => Len(l.pending) < Len(e.pending))
        BY <4>a DEF Shares
      <4>4. QED
        BY <4>3 DEF e, t, l
    <3>2. left[i].pending # <<>> => E(i).pending # <<>>
      <4>1. ASSUME left[i].pending # <<>>, E(i).pending = <<>> PROVE FALSE
        <5>1. Len(left[i].pending) <= 0 /\ left[i].pending \in Seq(Int)
          BY <3>1, <4>1 DEF EventRecords
        <5>2. QED
          BY <4>1, <5>1
      <4>2. QED
        BY <4>1
    <3>3. QED
      BY <2>2, <2>4, <3>1, <3>2
  <2>5. CASE ~events[i].clear
    <3>1. left[i] = E(i)
      BY <2>1, <2>2, <2>5 DEF Events!Left
    <3>2. QED
      BY <2>2, <2>3, <2>5, <3>1
  <2>6. QED
    BY <2>4, <2>5 DEF EventRecords
<1>8. taken \in [DOMAIN events -> {taken[i] : i \in DOMAIN events}] /\ left \in Seq(EventRecords) /\ DOMAIN left = DOMAIN events
  BY <1>5, <1>7
<1>9. ASSUME NEW i \in DOMAIN events, events[i].key \in QueuedEvents
      PROVE  /\ taken[i] \in Seq(Int) /\ Stock(events[i]) = taken[i] \o Stock(left[i])
             /\ got'[events[i].key] = got[events[i].key] \o taken[i]
  <2>1. events[i].clear /\ events[i].key \notin TimerEvents
    BY <1>0, <1>9 DEF EventsClear, Events!EventAssumption
  <2>2. Events!At(events[i].key) = i /\ events[i].key \in Events!Added
    BY <1>0, EventAt
  <2>3. got'[events[i].key] = got[events[i].key] \o taken[i]
    BY <1>3, <1>9, <2>2
  <2>4. QED
    BY <1>6, <1>7, <2>1, <2>3
<1> HIDE DEF taken, left, stay
<1>10. events' \in Seq(EventRecords) /\ Stay(events', left, stay)
  <2>1. stay \in SUBSET DOMAIN left
    BY <1>3, <1>8
  <2>2. events' \in Events!Kept(left, stay)
    BY <1>3
  <2>3. QED
    BY <1>8, <2>1, <2>2, EventsKept
<1>11. PICK at \in [DOMAIN events' -> stay] :
         /\ \A i, j \in DOMAIN events' : at[i] = at[j] => i = j
         /\ \A i \in DOMAIN events' : events'[i] = left[at[i]]
  BY <1>10 DEF Stay
<1>12. at \in [DOMAIN events' -> DOMAIN events] /\ \A i \in DOMAIN events' : at[i] \in DOMAIN events
  BY <1>3, <1>11
<1>13. got' \in [QueuedEvents -> Seq(Int)]
  <2>1. ASSUME NEW k \in QueuedEvents, k \in Events!Added PROVE got[k] \o taken[Events!At(k)] \in Seq(Int)
    <3>1. Events!At(k) \in DOMAIN events /\ events[Events!At(k)].key = k
      BY <1>0, <2>1, EventAdded
    <3>2. taken[Events!At(k)] \in Seq(Int) /\ got[k] \in Seq(Int)
      BY <1>0, <1>9, <3>1 DEF EventTypes
    <3>3. QED
      BY <3>2, ConcatProperties
  <2>2. \A k \in QueuedEvents : got[k] \in Seq(Int)
    BY <1>0 DEF EventTypes
  <2>3. QED
    BY <1>3, <2>1, <2>2
<1>14. /\ DOMAIN waiter' = Threads /\ waiter'[w] = Events!Idle
       /\ \A v \in Threads : v # w => waiter'[v] = waiter[v]
  BY <1>0, <1>2 DEF EventTypes
<1>15. EventTypes'
  BY <1>0, <1>2, <1>10, <1>13, <1>14 DEF EventTypes, WaiterOK
<1>16. EventListOK' /\ EventsClear'
  <2>1. \A i \in DOMAIN events' :
           /\ events'[i].key = events[at[i]].key /\ events'[i].clear = events[at[i]].clear
           /\ (events'[i].deadline = "none") = (events[at[i]].deadline = "none")
           /\ events'[i].pending # <<>> => events'[i].triggered /\ events'[i].key \in QueuedEvents
    <3> TAKE i \in DOMAIN events'
    <3>1. at[i] \in DOMAIN events /\ events'[i] = left[at[i]]
      BY <1>11, <1>12
    <3>2. QED
      BY <1>7, <3>1
  <2>2. QED
    BY <1>0, <1>2, <1>11, <1>12, <2>1, EventsFrom
<1>17. Events!Unreceived' \subseteq Events!Unreceived
  <2>1. \A i \in DOMAIN events' :
           /\ events'[i].key = events[at[i]].key /\ events'[i].clear = events[at[i]].clear
           /\ events'[i].key \notin TimerEvents /\ events'[i].triggered =>
                events[at[i]].triggered /\ Len(events'[i].pending) <= Len(events[at[i]].pending)
    <3> TAKE i \in DOMAIN events'
    <3>1. at[i] \in DOMAIN events /\ events'[i] = left[at[i]]
      BY <1>11, <1>12
    <3>2. E(at[i]).triggered /\ events[at[i]].key \notin TimerEvents => events[at[i]].triggered
      BY <1>6, <3>1
    <3>3. QED
      BY <1>7, <3>1, <3>2
  <2>2. QED
    BY <1>0, <1>10, <1>12, <2>1, FewerUnreceived
<1>18. Events!ReceivedInOrder'
  <2> SUFFICES ASSUME NEW i \in DOMAIN events', events'[i].key \in QueuedEvents
               PROVE  sent'[events'[i].key] = got'[events'[i].key] \o Stock(events'[i])
    BY DEF Events!ReceivedInOrder, Stock
  <2> DEFINE j == at[i]
             k == events[j].key
  <2>1. j \in DOMAIN events /\ events'[i] = left[j] /\ k = events'[i].key /\ k \in QueuedEvents
    BY <1>7, <1>11, <1>12
  <2> HIDE DEF j
  <2>2. /\ taken[j] \in Seq(Int) /\ Stock(events[j]) = taken[j] \o Stock(left[j])
        /\ got'[k] = got[k] \o taken[j] /\ got[k] \in Seq(Int)
    BY <1>0, <1>9, <2>1 DEF EventTypes
  <2>3. sent[k] = got[k] \o Stock(events[j])
    BY <1>0, <2>1 DEF Events!ReceivedInOrder, Stock
  <2>4. Stock(left[j]) \in Seq(Int)
    <3>1. left[j] \in EventRecords
      BY <1>7, <2>1
    <3>2. <<left[j].data>> \in Seq(Int) /\ left[j].pending \in Seq(Int) /\ <<>> \in Seq(Int)
      BY <3>1 DEF EventRecords
    <3>3. QED
      BY <3>2, ConcatProperties DEF Stock
  <2>5. got[k] \o (taken[j] \o Stock(left[j])) = (got[k] \o taken[j]) \o Stock(left[j])
    BY <2>2, <2>4, ConcatThree
  <2>6. QED
    BY <1>2, <2>1, <2>2, <2>3, <2>5
<1>19. Events!Sleepers' = Events!Sleepers /\ Events!Awake' = Events!Awake \ {w} /\ w \in Events!Awake
  BY <1>2, <1>14 DEF Events!Sleepers, Events!Awake, Events!Idle
<1>20. QueueEndOK'
  <2>1. \A v \in Events!Sleepers : waiter'[v] = waiter[v]
    BY <1>2, <1>14 DEF Events!Sleepers
  <2>2. QED
    BY <1>0, <1>2, <1>19, <2>1 DEF QueueEndOK
<1>21. Events!TriggersAreServed'
  <2> SUFFICES ASSUME others = 0, Events!Sleepers # {}
               PROVE  Cardinality(Events!Unreceived') <= Cardinality(Events!Awake')
    BY <1>2, <1>19, EventCards DEF Events!TriggersAreServed
  <2>1. Cardinality(Events!Unreceived) <= Cardinality(Events!Awake)
    BY <1>0, EventCards DEF Events!TriggersAreServed
  <2>2. IsFiniteSet(Events!Awake) /\ IsFiniteSet(Events!Unreceived)
    <3>1. Events!Awake \in SUBSET Threads
      BY DEF Events!Awake
    <3>2. QED
      BY <1>0, <3>1, FS_Subset, UnreceivedFinite
  <2>3. IsFiniteSet(Events!Awake') /\ Cardinality(Events!Awake') = Cardinality(Events!Awake) - 1
    BY <1>19, <2>2, FS_RemoveElement
  <2>4. CASE ~Events!Found
    <3>1. Events!Unreceived' = {}
      BY <1>0, <1>17, <2>4, NothingUnreceived
    <3>2. Cardinality(Events!Unreceived') = 0
      BY <3>1, FS_EmptySet
    <3>3. QED
      BY <2>3, <3>2, FS_CardinalityType
  <2>5. CASE Events!Found
    <3>1. PICK i \in DOMAIN events : Events!Taken(events[i], rooms[i]) # <<>>
      BY <1>0, <1>4, <2>5, FoundIsTaken
    <3>2. events[i].key \notin TimerEvents /\ events[i].clear /\ E(i) = events[i]
      BY <1>0, <1>6 DEF EventsClear
    <3>3. taken[i] # <<>>
      BY <3>1, <3>2 DEF taken
    <3>4. events[i].triggered /\ (left[i].triggered => Len(left[i].pending) < Len(events[i].pending))
      BY <1>7, <3>2, <3>3
    <3> DEFINE n == Len(events[i].pending)
               x == <<events[i].key, n>>
    <3>5. n \in Nat /\ Len(left[i].pending) \in Nat
      BY <1>6, <1>7 DEF EventRecords
    <3>6. x \in Events!Unreceived
      <4>1. n \in 0 .. Len(events[i].pending)
        BY <3>5
      <4>2. QED
        BY <3>2, <3>4, <4>1, UnreceivedAre
    <3>7. x \notin Events!Unreceived'
      <4> SUFFICES ASSUME x \in Events!Unreceived' PROVE FALSE
        OBVIOUS
      <4>1. PICK j \in DOMAIN events' : /\ \E m \in 0 .. Len(events'[j].pending) : x = <<events'[j].key, m>>
                                        /\ events'[j].triggered
        BY DEF Events!Unreceived
      <4>2. events'[j].key = events[i].key /\ n \in 0 .. Len(events'[j].pending)
        BY <4>1
      <4>3. at[j] \in DOMAIN events /\ events'[j] = left[at[j]] /\ events[at[j]].key = events[i].key
        BY <1>7, <1>11, <1>12, <4>2
      <4>4. at[j] = i
        BY <1>0, <4>3 DEF EventListOK
      <4>5. QED
        BY <3>4, <3>5, <4>1, <4>2, <4>3, <4>4
    <3> HIDE DEF x, n
    <3>8. Events!Unreceived' \in SUBSET (Events!Unreceived \ {x})
      BY <1>17, <3>7
    <3>9. /\ IsFiniteSet(Events!Unreceived \ {x})
          /\ Cardinality(Events!Unreceived \ {x}) = Cardinality(Events!Unreceived) - 1
      BY <2>2, <3>6, FS_RemoveElement
    <3>10. /\ IsFiniteSet(Events!Unreceived')
           /\ Cardinality(Events!Unreceived') <= Cardinality(Events!Unreceived \ {x})
      BY <3>8, <3>9, FS_Subset
    <3>11. QED
      BY <2>1, <2>2, <2>3, <3>9, <3>10, FS_CardinalityType
  <2>6. QED
    BY <2>4, <2>5
<1>22. QED
  BY <1>15, <1>16, <1>18, <1>20, <1>21, EventsPartsNext

LEMMA EventsStepKeeps ==
  ASSUME Events!EventAssumption, IsFiniteSet(Threads), EventsIInv, [Events!Next]_(Events!vars)
  PROVE  EventsIInv'
<1>1. CASE UNCHANGED Events!vars
  <2>1. UNCHANGED <<registered, closed, events, waiter, triggers, others, sent, got>>
    BY <1>1 DEF Events!vars
  <2>2. EventTypes' = EventTypes /\ EventsClear' = EventsClear /\ EventListOK' = EventListOK
    BY <2>1 DEF EventTypes, EventsClear, EventListOK
  <2>3. /\ Events!Sleepers' = Events!Sleepers /\ Events!Awake' = Events!Awake
        /\ Events!Unreceived' = Events!Unreceived
    BY <2>1 DEF Events!Sleepers, Events!Awake, Events!Unreceived
  <2>4. QueueEndOK' = QueueEndOK /\ Events!TriggersAreServed' = Events!TriggersAreServed
    BY <2>1, <2>3 DEF QueueEndOK, Events!TriggersAreServed
  <2>5. Events!ReceivedInOrder' = Events!ReceivedInOrder
    BY <2>1 DEF Events!ReceivedInOrder
  <2>6. QED
    BY <2>2, <2>4, <2>5, EventsParts, EventsPartsNext
<1>2. ASSUME NEW k \in Events!Keys, NEW clear \in BOOLEAN, Events!AddEvent(k, clear)
      PROVE  EventsIInv'
  BY <1>2, AddedAgainKeeps, AddedAnewKeeps
<1>3. ASSUME NEW k \in Events!Keys,
             Events!TriggerEvent(k) \/ Events!DeleteEvent(k) \/ Events!Expire(k)
      PROVE  EventsIInv'
  BY <1>3, TriggerKeeps, EventDeletedKeeps, ExpireKeeps
<1>4. CASE Events!DeleteEqueue \/ Events!Close
  BY <1>4, QueueEndKeeps
<1>5. ASSUME NEW w \in Threads,
             \/ \E num \in EventNums, tm, el \in BOOLEAN : Events!WaitEqueue(w, num, tm, el)
             \/ Events!WaitIsRefused(w) \/ Events!WaitSleeps(w) \/ Events!WaitWakes(w)
      PROVE  EventsIInv'
  BY <1>5, WaiterKeeps
<1>6. ASSUME NEW w \in Threads, Events!WaitReturns(w) PROVE EventsIInv'
  BY <1>6, WaitReturnsKeeps
<1>7. QED
  BY <1>1, <1>2, <1>3, <1>4, <1>5, <1>6 DEF Events!Next

\* Every trigger is received once and in order, and nobody sleeps next to one or
\* on a closed queue (KernelEqueuePrivate, src/kernel/eventQueue.cpp).
THEOREM TriggersAreReceived ==
  ASSUME Events!EventAssumption, IsFiniteSet(Threads) PROVE Events!Spec => []Events!EventsInv
<1>1. Events!Init => EventsIInv
  BY EventsInitHolds
<1>2. EventsIInv /\ [Events!Next]_(Events!vars) => EventsIInv'
  BY EventsStepKeeps
<1>3. EventsIInv => Events!EventsInv
  BY DEF EventsIInv
<1>4. QED
  BY <1>1, <1>2, <1>3, PTL DEF Events!Spec
=============================================================================
