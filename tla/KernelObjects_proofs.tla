------------------------ MODULE KernelObjects_proofs ------------------------
(***************************************************************************)
(* Theorems about the counting semaphore (KernelSema), for any threads,    *)
(* limits and arguments; and about KernelObjects, which uses it and the    *)
(* other objects: what is proved of a component (PthreadMonitor_proofs,    *)
(* KernelWaits_proofs) holds of a behaviour that uses it.                  *)
(***************************************************************************)
EXTENDS KernelObjects, WellFoundedInduction, TLAPS

(***************************************************************************)
(* The list of waiters.                                                    *)
(***************************************************************************)

\* AddWaiter inserts inside the list or at its end; in priority order, behind
\* everyone as important and in front of someone less important.
LEMMA InsertPositionProperties ==
  ASSUME TypeOK, NEW p \in Int
  PROVE  LET at == InsertPosition(p)
         IN /\ at \in 1..(Len(queue) + 1)
            /\ ~fifo => \A j \in 1..(at - 1) : priority[queue[j]] <= p
            /\ at <= Len(queue) => priority[queue[at]] > p
            /\ fifo => at = Len(queue) + 1
<1> DEFINE Later == {i \in DOMAIN queue : priority[queue[i]] > p}
<1>1. /\ Len(queue) \in Nat /\ DOMAIN queue = 1..Len(queue)
      /\ \A i \in DOMAIN queue : queue[i] \in Threads
      /\ \A t \in Threads : priority[t] \in Int
  BY DEF TypeOK
<1>2. CASE fifo \/ Later = {}
  <2>1. \A i \in DOMAIN queue : ~fifo => priority[queue[i]] <= p
    BY <1>1, <1>2
  <2>2. InsertPosition(p) = Len(queue) + 1
    BY <2>1 DEF InsertPosition
  <2>3. QED
    BY <2>1, <2>2, <1>1, <1>2
<1>3. CASE ~fifo /\ Later # {}
  <2>1. PICK m \in Later : \A k \in Later : m <= k
    <3>1. Later \in SUBSET Nat
      BY <1>1
    <3>2. QED
      BY <3>1, <1>3, Waits!LeastElement
  <2>2. /\ m \in DOMAIN queue /\ priority[queue[m]] > p
        /\ \A j \in 1..(m - 1) : priority[queue[j]] <= p
    BY <2>1, <1>1
  <2> DEFINE First(i) == /\ priority[queue[i]] > p
                         /\ \A j \in 1..(i - 1) : priority[queue[j]] <= p
  <2>3. InsertPosition(p) = CHOOSE i \in DOMAIN queue : First(i)
    <3>1. ~ (fifo \/ \A i \in DOMAIN queue : priority[queue[i]] <= p)
      BY <1>3, <1>1, <2>2
    <3>2. QED
      BY <3>1, Zenon DEF InsertPosition
  <2>4. \E i \in DOMAIN queue : First(i)
    BY <2>2
  <2>5. InsertPosition(p) \in DOMAIN queue /\ First(InsertPosition(p))
    <3> HIDE DEF First
    <3> QED BY <2>3, <2>4
  <2>6. QED
    BY <2>5, <1>1, <1>3
<1>4. QED
  BY <1>2, <1>3

\* What the list holds after AddWaiter.
LEMMA AddWaiterProperties ==
  ASSUME TypeOK, NEW t \in Threads, NEW p \in Int, AddWaiter(t, p)
  PROVE  LET at == InsertPosition(p)
         IN /\ queue' \in Seq(Threads)
            /\ Len(queue') = Len(queue) + 1
            /\ queue'[at] = t
            /\ \A i \in 1..Len(queue') :
                 queue'[i] = IF i < at THEN queue[i]
                             ELSE IF i = at THEN t ELSE queue[i - 1]
<1> DEFINE at == InsertPosition(p)
<1> DEFINE e(i) == IF i < at THEN queue[i] ELSE IF i = at THEN t ELSE queue[i - 1]
<1>1. at \in 1..(Len(queue) + 1) /\ Len(queue) \in Nat
  BY InsertPositionProperties DEF TypeOK
<1>2. queue' = [i \in 1..(Len(queue) + 1) |-> e(i)]
  BY DEF AddWaiter
<1>3. \A i \in 1..(Len(queue) + 1) : e(i) \in Threads
  BY <1>1 DEF TypeOK
<1> HIDE DEF at
<1>4. queue' \in Seq(Threads) /\ Len(queue') = Len(queue) + 1
  BY <1>1, <1>2, <1>3
<1>5. QED
  BY <1>1, <1>2, <1>4 DEF at

\* What the list holds after RemoveWaiter of a thread that is on it.
LEMMA RemoveWaiterProperties ==
  ASSUME TypeOK, NEW t, RemoveWaiter(t), NEW k \in DOMAIN queue, queue[k] = t
  PROVE  \E at \in DOMAIN queue :
            /\ queue[at] = t
            /\ queue' \in Seq(Threads)
            /\ Len(queue') = Len(queue) - 1
            /\ \A i \in 1..Len(queue') :
                 queue'[i] = IF i < at THEN queue[i] ELSE queue[i + 1]
<1> DEFINE at == CHOOSE i \in DOMAIN queue : queue[i] = t
<1> DEFINE e(i) == IF i < at THEN queue[i] ELSE queue[i + 1]
<1>1. at \in DOMAIN queue /\ queue[at] = t
  OBVIOUS
<1>2. queue' = [i \in 1..(Len(queue) - 1) |-> e(i)]
  BY DEF RemoveWaiter
<1> HIDE DEF at
<1>3. Len(queue) - 1 \in Nat /\ \A i \in 1..(Len(queue) - 1) : e(i) \in Threads
  <2>1. /\ Len(queue) \in Nat /\ DOMAIN queue = 1..Len(queue)
        /\ \A i \in 1..Len(queue) : queue[i] \in Threads
    BY DEF TypeOK
  <2>2. at \in 1..Len(queue)
    BY <1>1, <2>1
  <2>3. Len(queue) - 1 \in Nat
    BY <2>1, <2>2
  <2>4. ASSUME NEW i \in 1..(Len(queue) - 1) PROVE e(i) \in Threads
    <3>1. i \in 1..Len(queue) /\ i + 1 \in 1..Len(queue)
      BY <2>1
    <3>2. QED
      BY <2>1, <3>1
  <2>5. QED
    BY <2>3, <2>4
<1>4. queue' \in Seq(Threads) /\ Len(queue') = Len(queue) - 1
  BY <1>2, <1>3
<1>5. QED
  BY <1>1, <1>2, <1>4

(***************************************************************************)
(* Types, and the list against the stacks.  Neither is inductive alone:    *)
(* the list keeps its type because the thread that leaves is on it.        *)
(***************************************************************************)

\* A step that leaves the list and the set of waiting threads alone.
LEMMA SameList ==
  ASSUME ListMatchesStacks, queue' = queue, Waiting' = Waiting
  PROVE  ListMatchesStacks'
  BY DEF ListMatchesStacks

\* One thread may not be in two places of the list, nor off it while it waits.
LEMMA ListStep ==
  ASSUME TypeOK, ListMatchesStacks, [Next]_vars
  PROVE  TypeOK' /\ ListMatchesStacks'
<1> USE KernelSemaAssumption
<1>0. SUFFICES ASSUME NEW t \in Threads, Calls(t) \/ Continues(t)
               PROVE  TypeOK' /\ ListMatchesStacks'
  <2>1. CASE UNCHANGED vars
    BY <2>1 DEF vars, TypeOK, ListMatchesStacks, Waiting
  <2>2. QED
    BY <2>1 DEF Next
<1>1. ASSUME NEW i \in Inits, NEW m \in Maxes, NEW f \in BOOLEAN,
             Create(t, i, m, f)
      PROVE  TypeOK' /\ ListMatchesStacks'
  <2>1. TypeOK'
    BY <1>1 DEF Create, TypeOK, waiter, decision
  <2>2. queue' = queue /\ Waiting' = Waiting
    BY <1>1 DEF Create, Waiting, TypeOK, waiter, decision
  <2>3. QED
    BY <2>1, <2>2, SameList
<1>2. ASSUME NEW n \in Needs, WaitRejected(t, n)
      PROVE  TypeOK' /\ ListMatchesStacks'
  <2>1. TypeOK'
    BY <1>2 DEF WaitRejected, TypeOK, Results, waiter, object, Enters
  <2>2. queue' = queue /\ Waiting' = Waiting
    BY <1>2 DEF WaitRejected, Waiting, TypeOK, Results, waiter, object, Enters
  <2>3. QED
    BY <2>1, <2>2, SameList
<1>3. ASSUME NEW n \in Needs, WaitTakes(t, n)
      PROVE  TypeOK' /\ ListMatchesStacks'
  <2>1. TypeOK'
    BY <1>3 DEF WaitTakes, TypeOK, Results, waiter, object, Enters
  <2>2. queue' = queue /\ Waiting' = Waiting
    BY <1>3 DEF WaitTakes, Waiting, TypeOK, Results, waiter, object, Enters
  <2>3. QED
    BY <2>1, <2>2, SameList
<1>4. ASSUME NEW n \in Needs, PollFails(t, n)
      PROVE  TypeOK' /\ ListMatchesStacks'
  <2>1. TypeOK'
    BY <1>4 DEF PollFails, TypeOK, Results, waiter, object, Enters
  <2>2. queue' = queue /\ Waiting' = Waiting
    BY <1>4 DEF PollFails, Waiting, TypeOK, Results, waiter, object, Enters
  <2>3. QED
    BY <2>1, <2>2, SameList
<1>5. ASSUME NEW n \in Needs, NEW p \in Priorities, NEW b \in BOOLEAN,
             WaitBlocks(t, n, p, b)
      PROVE  TypeOK' /\ ListMatchesStacks'
  <2> DEFINE at == InsertPosition(p)
  <2>1. /\ AddWaiter(t, p) /\ p \in Int /\ n \in Int
        /\ pc[t] = "idle" /\ scan = 0
        /\ need' = [need EXCEPT ![t] = n]
        /\ priority' = [priority EXCEPT ![t] = p]
        /\ timed' = [timed EXCEPT ![t] = b]
        /\ result' = [result EXCEPT ![t] = "TimedOut"]
        /\ pc' = [pc EXCEPT ![t] = "parked"]
        /\ UNCHANGED <<object, count, scan, ready>>
    BY <1>5 DEF WaitBlocks, Enters, MutexFree
  <2>2. /\ queue' \in Seq(Threads) /\ Len(queue') = Len(queue) + 1
        /\ queue'[at] = t
        /\ \A i \in 1..Len(queue') :
             queue'[i] = IF i < at THEN queue[i]
                         ELSE IF i = at THEN t ELSE queue[i - 1]
    BY <2>1, AddWaiterProperties
  <2>3. at \in 1..(Len(queue) + 1) /\ Len(queue) \in Nat
    BY <2>1, InsertPositionProperties DEF TypeOK
  <2> HIDE DEF at
  <2>4. TypeOK'
    BY <2>1, <2>2 DEF TypeOK, object, Locations, Results
  <2>5. t \notin Waiting /\ Waiting' = Waiting \cup {t}
    BY <2>1 DEF Waiting, TypeOK
  <2>6. ListMatchesStacks'
    <3>1. \A i \in 1..Len(queue) : queue[i] \in Waiting
      BY DEF ListMatchesStacks, TypeOK
    <3>2. ASSUME NEW u \in Waiting'
          PROVE  \E i \in DOMAIN queue' : queue'[i] = u
      <4>1. CASE u = t
        BY <4>1, <2>2, <2>3
      <4>2. CASE u # t
        <5>1. PICK i \in 1..Len(queue) : queue[i] = u
          BY <4>2, <2>5 DEF ListMatchesStacks, TypeOK
        <5>2. queue'[IF i < at THEN i ELSE i + 1] = u
          BY <5>1, <2>2, <2>3
        <5>3. QED
          BY <5>1, <5>2, <2>2, <2>3
      <4>3. QED
        BY <4>1, <4>2
    <3>3. ASSUME NEW i \in DOMAIN queue'
          PROVE  queue'[i] \in Waiting'
      BY <3>1, <2>2, <2>3, <2>5
    <3>4. ASSUME NEW i \in DOMAIN queue', NEW j \in DOMAIN queue',
                 queue'[i] = queue'[j]
          PROVE  i = j
      <4>1. \A k, l \in 1..Len(queue) : queue[k] = queue[l] => k = l
        BY DEF ListMatchesStacks, TypeOK
      <4>2. i \in 1..(Len(queue) + 1) /\ j \in 1..(Len(queue) + 1)
        BY <2>2
      <4>3. \A k \in 1..Len(queue) : queue[k] # t
        BY <3>1, <2>5
      <4>4. QED
        <5> DEFINE k(x) == IF x < at THEN x ELSE x - 1
        <5>1. \A x \in 1..(Len(queue) + 1) : x # at =>
                k(x) \in 1..Len(queue) /\ queue'[x] = queue[k(x)]
          BY <2>2, <2>3
        <5>2. i = at <=> j = at
          BY <5>1, <4>2, <4>3, <3>4, <2>2
        <5>3. i # at => k(i) = k(j)
          BY <5>1, <5>2, <4>1, <4>2, <3>4
        <5>4. QED
          BY <5>2, <5>3, <4>2, <2>3
    <3>5. QED
      BY <3>2, <3>3, <3>4 DEF ListMatchesStacks
  <2>7. QED
    BY <2>4, <2>6
<1>6. ASSUME NEW n \in SignalCounts, SignalRejected(t, n)
      PROVE  TypeOK' /\ ListMatchesStacks'
  <2>1. TypeOK'
    BY <1>6 DEF SignalRejected, TypeOK, vars
  <2>2. queue' = queue /\ Waiting' = Waiting
    BY <1>6 DEF SignalRejected, Waiting, TypeOK, vars
  <2>3. QED
    BY <2>1, <2>2, SameList
<1>7. ASSUME NEW n \in SignalCounts, SignalBegins(t, n)
      PROVE  TypeOK' /\ ListMatchesStacks'
  <2>1. TypeOK'
    BY <1>7 DEF SignalBegins, TypeOK, Enters, MutexFree, Locations, waiter, decision, object
  <2>2. queue' = queue /\ Waiting' = Waiting
    BY <1>7 DEF SignalBegins, Waiting, TypeOK, Enters, MutexFree, Locations, waiter, decision, object
  <2>3. QED
    BY <2>1, <2>2, SameList
<1>8. ASSUME NEW n \in CancelCounts, Cancel(t, n)
      PROVE  TypeOK' /\ ListMatchesStacks'
  <2>1. TypeOK'
    BY <1>8 DEF Cancel, TypeOK, Enters, ReadyAll, Awakened, Locations, Results, waiter, object
  <2>2. queue' = queue /\ Waiting' = Waiting
    BY <1>8 DEF Cancel, Waiting, TypeOK, Enters, ReadyAll, Awakened, Locations, Results, waiter, object
  <2>3. QED
    BY <2>1, <2>2, SameList
<1>9. ASSUME NEW n \in CancelCounts, CancelRejected(t, n)
      PROVE  TypeOK' /\ ListMatchesStacks'
  <2>1. TypeOK'
    BY <1>9 DEF CancelRejected, TypeOK, vars
  <2>2. queue' = queue /\ Waiting' = Waiting
    BY <1>9 DEF CancelRejected, Waiting, TypeOK, vars
  <2>3. QED
    BY <2>1, <2>2, SameList
<1>10. CASE DeleteBegins(t)
  <2>1. TypeOK'
    BY <1>10 DEF DeleteBegins, TypeOK, Enters, ReadyAll, Awakened, Locations, Results, waiter
  <2>2. queue' = queue /\ Waiting' = Waiting
    BY <1>10 DEF DeleteBegins, Waiting, TypeOK, Enters, ReadyAll, Awakened, Locations, Results, waiter
  <2>3. QED
    BY <2>1, <2>2, SameList
<1>11. CASE DeleteEnds(t)
  <2>1. TypeOK'
    BY <1>11 DEF DeleteEnds, TypeOK, Locations, waiter, decision
  <2>2. queue' = queue /\ Waiting' = Waiting
    BY <1>11 DEF DeleteEnds, Waiting, TypeOK, Locations, waiter, decision
  <2>3. QED
    BY <2>1, <2>2, SameList
<1>12. CASE SliceEnds(t)
  <2>1. TypeOK'
    BY <1>12 DEF SliceEnds, TypeOK, Locations, waiter, decision, object
  <2>2. queue' = queue /\ Waiting' = Waiting
    BY <1>12 DEF SliceEnds, Waiting, TypeOK, Locations, waiter, decision, object
  <2>3. QED
    BY <2>1, <2>2, SameList
<1>13. CASE WaitSleepsAgain(t)
  <2>1. TypeOK'
    BY <1>13 DEF WaitSleepsAgain, TypeOK, Locations, waiter, decision, object
  <2>2. queue' = queue /\ Waiting' = Waiting
    BY <1>13 DEF WaitSleepsAgain, Waiting, TypeOK, Locations, waiter, decision, object
  <2>3. QED
    BY <2>1, <2>2, SameList
<1>14. CASE WaitReturns(t) \/ WaitTimesOut(t)
  <2>1. /\ RemoveWaiter(t) /\ pc[t] = "awake" /\ scan = 0
        /\ need' = [need EXCEPT ![t] = 0]
        /\ priority' = [priority EXCEPT ![t] = 0]
        /\ timed' = [timed EXCEPT ![t] = FALSE]
        /\ ready' = [ready EXCEPT ![t] = FALSE]
        /\ result' \in {result, [result EXCEPT ![t] = "TimedOut"]}
        /\ pc' = [pc EXCEPT ![t] = "idle"]
        /\ UNCHANGED <<object, count, scan>>
    BY <1>14 DEF WaitReturns, WaitTimesOut, ForgetWaiter, MutexFree
  <2>2. t \in Waiting /\ Waiting' = Waiting \ {t}
    BY <2>1 DEF Waiting, TypeOK
  <2>3. PICK k \in DOMAIN queue : queue[k] = t
    BY <2>2 DEF ListMatchesStacks
  <2>4. PICK at \in DOMAIN queue :
          /\ queue[at] = t
          /\ queue' \in Seq(Threads) /\ Len(queue') = Len(queue) - 1
          /\ \A i \in 1..Len(queue') :
               queue'[i] = IF i < at THEN queue[i] ELSE queue[i + 1]
    BY <2>1, <2>3, RemoveWaiterProperties
  <2>5. TypeOK'
    <3>1. result' \in [Threads -> Results]
      BY <2>1 DEF TypeOK, Results
    <3>2. scan' \in 0..(Len(queue') + 1)
      BY <2>1, <2>4 DEF TypeOK
    <3>3. /\ need' \in [Threads -> Int] /\ priority' \in [Threads -> Int]
          /\ timed' \in [Threads -> BOOLEAN] /\ ready' \in [Threads -> BOOLEAN]
          /\ pc' \in [Threads -> Locations]
      BY <2>1 DEF TypeOK, Locations
    <3>4. QED
      BY <2>1, <2>4, <3>1, <3>2, <3>3 DEF TypeOK, object
  <2>6. ListMatchesStacks'
    <3>1. Len(queue) \in Nat /\ at \in 1..Len(queue)
      BY <2>4 DEF TypeOK
    <3>2. \A k1, l \in 1..Len(queue) : queue[k1] = queue[l] => k1 = l
      <4>1. DOMAIN queue = 1..Len(queue)
        BY DEF TypeOK
      <4>2. QED
        BY <4>1 DEF ListMatchesStacks
    <3>3. ASSUME NEW u \in Waiting'
          PROVE  \E i \in DOMAIN queue' : queue'[i] = u
      <4>1. PICK i \in 1..Len(queue) : queue[i] = u
        BY <2>2 DEF ListMatchesStacks, TypeOK
      <4>2. i # at
        BY <4>1, <2>2, <2>4
      <4>3. queue'[IF i < at THEN i ELSE i - 1] = u
        BY <4>1, <4>2, <3>1, <2>4
      <4>4. QED
        BY <4>2, <4>3, <3>1, <2>4
    <3>4. ASSUME NEW i \in DOMAIN queue'
          PROVE  queue'[i] \in Waiting'
      <4>1. i \in 1..(Len(queue) - 1)
        BY <2>4
      <4>2. \A k1 \in 1..Len(queue) : queue[k1] \in Waiting
        BY DEF ListMatchesStacks, TypeOK
      <4>3. QED
        BY <4>1, <4>2, <3>1, <3>2, <2>2, <2>4
    <3>5. ASSUME NEW i \in DOMAIN queue', NEW j \in DOMAIN queue',
                 queue'[i] = queue'[j]
          PROVE  i = j
      <4>1. i \in 1..(Len(queue) - 1) /\ j \in 1..(Len(queue) - 1)
        BY <2>4
      <4>2. QED
        <5> DEFINE k1(x) == IF x < at THEN x ELSE x + 1
        <5>1. \A x \in 1..(Len(queue) - 1) :
                k1(x) \in 1..Len(queue) /\ queue'[x] = queue[k1(x)]
          BY <3>1, <2>4
        <5>2. k1(i) = k1(j)
          BY <5>1, <4>1, <3>2, <3>5
        <5>3. QED
          BY <5>2, <4>1, <3>1
    <3>6. QED
      BY <3>3, <3>4, <3>5 DEF ListMatchesStacks
  <2>7. QED
    BY <2>5, <2>6
<1>15. CASE WakeWaiter(t)
  <2>1. TypeOK'
    <3>1. /\ queue[scan] \in Threads /\ scan' = scan + 1
          /\ scan \in 1..Len(queue) /\ need[queue[scan]] \in Int
      BY <1>15 DEF WakeWaiter, TypeOK
    <3>2. /\ count' \in Int /\ ready' \in [Threads -> BOOLEAN]
          /\ result' \in [Threads -> Results]
      <4>1. CASE Fits(queue[scan])
        <5>1. /\ count' = count - need[queue[scan]]
              /\ ready' = [ready EXCEPT ![queue[scan]] = TRUE]
              /\ result' = [result EXCEPT ![queue[scan]] = "Ok"]
          BY <1>15, <4>1 DEF WakeWaiter
        <5>2. QED
          BY <5>1, <3>1 DEF TypeOK, Results
      <4>2. CASE ~Fits(queue[scan])
        BY <1>15, <3>1, <4>2 DEF WakeWaiter, TypeOK
      <4>3. QED
        BY <4>1, <4>2
    <3>3. scan' \in 0..(Len(queue) + 1)
      BY <3>1 DEF TypeOK
    <3>4. QED
      BY <1>15, <3>2, <3>3 DEF WakeWaiter, TypeOK, waiter, object
  <2>2. queue' = queue /\ Waiting' = Waiting
    BY <1>15 DEF WakeWaiter, Waiting, TypeOK, Fits, Results, waiter, object
  <2>3. QED
    BY <2>1, <2>2, SameList
<1>16. CASE SignalEnds(t)
  <2>1. TypeOK'
    BY <1>16 DEF SignalEnds, TypeOK, Awakened, Locations, waiter, decision, object
  <2>2. queue' = queue /\ Waiting' = Waiting
    BY <1>16 DEF SignalEnds, Waiting, TypeOK, Awakened, Locations, waiter, decision, object
  <2>3. QED
    BY <2>1, <2>2, SameList
<1>17. QED
  BY <1>0, <1>1, <1>2, <1>3, <1>4, <1>5, <1>6, <1>7, <1>8, <1>9, <1>10, <1>11,
     <1>12, <1>13, <1>14, <1>15, <1>16
     DEF Calls, Continues

\* The initial state.
LEMMA InitIsTyped == Init => TypeOK /\ ListMatchesStacks
<1> SUFFICES ASSUME Init PROVE TypeOK /\ ListMatchesStacks
  OBVIOUS
<1>1. queue \in Seq(Threads) /\ Len(queue) = 0 /\ DOMAIN queue = {}
  BY DEF Init
<1>2. Waiting = {}
  BY DEF Init, Waiting
<1>3. TypeOK
  <2>1. /\ fifo \in BOOLEAN /\ timed \in [Threads -> BOOLEAN]
        /\ ready \in [Threads -> BOOLEAN]
    BY Zenon DEF Init
  <2>2. scan \in 0..(Len(queue) + 1)
    BY <1>1 DEF Init
  <2>3. QED
    BY <1>1, <2>1, <2>2 DEF Init, TypeOK, Locations, Results
<1>4. QED
  BY <1>1, <1>2, <1>3 DEF ListMatchesStacks

\* Every variable keeps its type, and the waiter list names exactly the threads
\* inside KernelSemaPrivate::Wait, each once.
THEOREM Typing == Spec => [](TypeOK /\ ListMatchesStacks)
<1>1. Init => TypeOK /\ ListMatchesStacks
  BY InitIsTyped
<1>2. TypeOK /\ ListMatchesStacks /\ [Next]_vars => (TypeOK /\ ListMatchesStacks)'
  BY ListStep
<1>3. QED
  BY <1>1, <1>2, PTL DEF Spec

(***************************************************************************)
(* The other invariants.  Each lemma is one of them, preserved by a step   *)
(* from a state in which the ones it names hold.                           *)
(***************************************************************************)

\* Waiting as a step changes it, and the waiter records of those who stay.
LEMMA WaiterFrame ==
  ASSUME TypeOK, NEW t \in Threads
  PROVE  /\ \A n \in Needs, p \in Priorities, b \in BOOLEAN : WaitBlocks(t, n, p, b) =>
              /\ t \notin Waiting /\ Waiting' = Waiting \cup {t}
              /\ need' = [need EXCEPT ![t] = n] /\ ready' = ready
         /\ WaitReturns(t) \/ WaitTimesOut(t) =>
              /\ t \in Waiting /\ Waiting' = Waiting \ {t}
              /\ need' = [need EXCEPT ![t] = 0]
              /\ ready' = [ready EXCEPT ![t] = FALSE]
         /\ SliceEnds(t) \/ WaitSleepsAgain(t) \/ SignalEnds(t) \/ DeleteEnds(t) =>
              /\ Waiting' = Waiting /\ need' = need /\ ready' = ready
         /\ \A n \in SignalCounts : SignalBegins(t, n) =>
              /\ Waiting' = Waiting /\ need' = need /\ ready' = ready
         /\ (\E n \in CancelCounts : Cancel(t, n)) \/ DeleteBegins(t) =>
              /\ Waiting' = Waiting /\ need' = need
              /\ \A u \in Threads : ready'[u] = (ready[u] \/ u \in Waiting)
<1>1. ASSUME NEW n \in Needs, NEW p \in Priorities, NEW b \in BOOLEAN, WaitBlocks(t, n, p, b)
      PROVE  /\ t \notin Waiting /\ Waiting' = Waiting \cup {t}
             /\ need' = [need EXCEPT ![t] = n] /\ ready' = ready
  BY <1>1 DEF WaitBlocks, Enters, Waiting, TypeOK
<1>2. ASSUME WaitReturns(t) \/ WaitTimesOut(t)
      PROVE  /\ t \in Waiting /\ Waiting' = Waiting \ {t}
             /\ need' = [need EXCEPT ![t] = 0]
             /\ ready' = [ready EXCEPT ![t] = FALSE]
  <2>1. /\ ForgetWaiter(t) /\ pc[t] = "awake"
    BY <1>2 DEF WaitReturns, WaitTimesOut
  <2>2. QED
    BY <2>1 DEF ForgetWaiter, Waiting, TypeOK
<1>3. ASSUME SliceEnds(t) \/ WaitSleepsAgain(t) \/ SignalEnds(t) \/ DeleteEnds(t)
      PROVE  Waiting' = Waiting /\ need' = need /\ ready' = ready
  <2>1. CASE SliceEnds(t)
    BY <2>1 DEF SliceEnds, Waiting, TypeOK, waiter, decision
  <2>2. CASE WaitSleepsAgain(t)
    BY <2>2 DEF WaitSleepsAgain, Waiting, TypeOK, waiter, decision
  <2>3. CASE SignalEnds(t)
    BY <2>3 DEF SignalEnds, Awakened, Waiting, TypeOK, waiter, decision
  <2>4. CASE DeleteEnds(t)
    BY <2>4 DEF DeleteEnds, Waiting, TypeOK, waiter, decision
  <2>5. QED
    BY <1>3, <2>1, <2>2, <2>3, <2>4
<1>4. ASSUME NEW n \in SignalCounts, SignalBegins(t, n)
      PROVE  Waiting' = Waiting /\ need' = need /\ ready' = ready
  BY <1>4 DEF SignalBegins, Enters, Waiting, TypeOK, waiter, decision
<1>5. ASSUME (\E n \in CancelCounts : Cancel(t, n)) \/ DeleteBegins(t)
      PROVE  /\ Waiting' = Waiting /\ need' = need
             /\ \A u \in Threads : ready'[u] = (ready[u] \/ u \in Waiting)
  <2>1. /\ pc' \in {Awakened, [Awakened EXCEPT ![t] = "delete"]} /\ pc[t] = "idle"
        /\ ready' = [u \in Threads |-> ready[u] \/ u \in Waiting] /\ need' = need
    BY <1>5 DEF Cancel, DeleteBegins, Enters, ReadyAll, waiter
  <2>2. Waiting' = Waiting
    BY <2>1 DEF Awakened, Waiting, TypeOK
  <2>3. QED
    BY <2>1, <2>2
<1>6. QED
  BY <1>1, <1>2, <1>3, <1>4, <1>5

\* Support is preserved.
LEMMA SupportStep ==
  ASSUME TypeOK, ListMatchesStacks, Support, [Next]_vars
  PROVE  Support'
<1> USE KernelSemaAssumption
<1>0. SUFFICES ASSUME NEW t \in Threads, Calls(t) \/ Continues(t)
               PROVE  Support'
  <2>1. CASE UNCHANGED vars
    BY <2>1 DEF vars, Waiting, MutexFree, Support
  <2>2. QED
    BY <2>1 DEF Next
<1> DEFINE Same == /\ Waiting' = Waiting /\ need' = need /\ ready' = ready
                   /\ UNCHANGED <<initCount, maxCount, queue>>
<1>1. ASSUME Same, status' = "Freed" => status = "Freed"
      PROVE  Support'
  BY <1>1 DEF Support
<1>2. ASSUME NEW i \in Inits, NEW m \in Maxes, NEW f \in BOOLEAN, Create(t, i, m, f)
      PROVE  Support'
  BY <1>2 DEF Create, Support, Waiting, waiter, decision
<1>3. ASSUME NEW n \in Needs, WaitRejected(t, n) \/ WaitTakes(t, n) \/ PollFails(t, n)
      PROVE  Support'
  BY <1>3, <1>1 DEF WaitRejected, WaitTakes, PollFails, Waiting, waiter, object
<1>4. ASSUME NEW n \in Needs, NEW p \in Priorities, NEW b \in BOOLEAN, WaitBlocks(t, n, p, b)
      PROVE  Support'
  <2>1. /\ n >= 1 /\ status' = "Set" /\ UNCHANGED <<initCount, maxCount>>
    BY <1>4 DEF WaitBlocks, MayWait, object
  <2>2. /\ t \notin Waiting /\ Waiting' = Waiting \cup {t}
        /\ need' = [need EXCEPT ![t] = n] /\ ready' = ready
    BY <1>4, WaiterFrame
  <2>3. /\ need'[t] = n
        /\ \A u \in Threads : u # t => need'[u] = need[u]
    BY <2>2 DEF TypeOK
  <2>4. Waiting \subseteq Threads
    BY DEF Waiting
  <2>5. \A u \in Waiting' : need'[u] >= 1
    BY <2>1, <2>2, <2>3, <2>4 DEF Support
  <2>6. \A u \in Threads : u \notin Waiting' => ~ready'[u]
    BY <2>2 DEF Support
  <2>7. QED
    BY <2>1, <2>5, <2>6 DEF Support
<1>5. ASSUME NEW n \in SignalCounts, SignalRejected(t, n) \/ SignalBegins(t, n)
      PROVE  Support'
  BY <1>5, <1>1, WaiterFrame DEF SignalRejected, SignalBegins, Waiting, vars, object
<1>6. ASSUME NEW n \in CancelCounts, CancelRejected(t, n)
      PROVE  Support'
  BY <1>6, <1>1 DEF CancelRejected, Waiting, vars
<1>7. ASSUME (\E n \in CancelCounts : Cancel(t, n)) \/ DeleteBegins(t)
      PROVE  Support'
  <2>1. UNCHANGED <<initCount, maxCount, queue>> /\ status' # "Freed"
    BY <1>7 DEF Cancel, DeleteBegins, object
  <2>2. QED
    BY <2>1, <1>7, WaiterFrame DEF Support, Waiting
<1>8. ASSUME WaitReturns(t) \/ WaitTimesOut(t)
      PROVE  Support'
  <2>1. UNCHANGED <<status, initCount, maxCount>>
    BY <1>8 DEF WaitReturns, WaitTimesOut, object
  <2>2. t \in Waiting /\ queue # <<>>
    BY <1>8, WaiterFrame DEF ListMatchesStacks
  <2>3. QED
    BY <2>1, <2>2, <1>8, WaiterFrame DEF Support, Waiting, TypeOK
<1>9. CASE SliceEnds(t) \/ WaitSleepsAgain(t) \/ SignalEnds(t)
  BY <1>9, <1>1, WaiterFrame DEF SliceEnds, WaitSleepsAgain, SignalEnds, object
<1>10. CASE DeleteEnds(t)
  BY <1>10, WaiterFrame DEF DeleteEnds, Support
<1>11. CASE WakeWaiter(t)
  <2>1. queue[scan] \in Waiting
    BY <1>11 DEF WakeWaiter, ListMatchesStacks
  <2>2. /\ Waiting' = Waiting /\ need' = need /\ UNCHANGED <<object, queue>>
        /\ \A u \in Threads \ {queue[scan]} : ready'[u] = ready[u]
    BY <1>11 DEF WakeWaiter, Waiting, waiter, TypeOK
  <2>3. QED
    BY <2>1, <2>2 DEF Support, object, Waiting
<1>12. QED
  BY <1>0, <1>2, <1>3, <1>4, <1>5, <1>6, <1>7, <1>8, <1>9, <1>10, <1>11
     DEF Calls, Continues

\* WakeWaiters leaves no waiter behind that fits, and nothing done later makes
\* a remaining waiter fit without waking it.
LEMMA StrandedStep ==
  ASSUME TypeOK, ListMatchesStacks, Support, PassedDoNotFit, NoStrandedWaiter,
         [Next]_vars
  PROVE  PassedDoNotFit' /\ NoStrandedWaiter'
<1> USE KernelSemaAssumption
<1> DEFINE Goal == PassedDoNotFit /\ NoStrandedWaiter
<1>0. SUFFICES ASSUME NEW t \in Threads, Calls(t) \/ Continues(t)
               PROVE  Goal'
  <2>1. CASE UNCHANGED vars
    BY <2>1 DEF vars, Waiting, MutexFree, PassedDoNotFit, NoStrandedWaiter
  <2>2. QED
    BY <2>1 DEF Next
<1>1. ASSUME scan' = 0, scan = 0, count' <= count, count' \in Int,
             \A u \in Waiting' : ~ready'[u] =>
                u \in Waiting /\ ~ready[u] /\ need'[u] = need[u]
      PROVE  Goal'
  <2>1. \A u \in Waiting' : ~ready'[u] => need'[u] > count'
    BY <1>1 DEF NoStrandedWaiter, MutexFree, TypeOK, Waiting
  <2>2. \A i \in DOMAIN queue' : ~(i < scan') \/ i < 0
    BY <1>1
  <2>3. TypeOK'
    BY ListStep
  <2>4. QED
    BY <2>1, <2>2, <2>3, <1>1 DEF NoStrandedWaiter, PassedDoNotFit, MutexFree, TypeOK
<1>2. ASSUME NEW i \in Inits, NEW m \in Maxes, NEW f \in BOOLEAN, Create(t, i, m, f)
      PROVE  Goal'
  <2>1. queue = <<>> /\ DOMAIN queue = {}
    BY <1>2 DEF Create, Support
  <2>2. Waiting = {}
    BY <2>1 DEF ListMatchesStacks
  <2>3. QED
    BY <1>2, <2>1, <2>2 DEF Create, Waiting, PassedDoNotFit, NoStrandedWaiter
<1>3. ASSUME NEW n \in Needs, WaitRejected(t, n) \/ PollFails(t, n)
      PROVE  Goal'
  BY <1>3, <1>1 DEF WaitRejected, PollFails, Waiting, Enters, MutexFree, waiter, TypeOK
<1>4. ASSUME NEW n \in Needs, WaitTakes(t, n)
      PROVE  Goal'
  <2>1. n \in Int /\ n >= 1 /\ count' = count - n
    BY <1>4 DEF WaitTakes, MayWait
  <2>2. Waiting' = Waiting /\ need' = need /\ ready' = ready /\ scan = 0 /\ scan' = 0
    BY <1>4 DEF WaitTakes, Waiting, waiter, Enters, MutexFree
  <2>3. QED
    BY <2>1, <2>2, <1>1 DEF TypeOK
<1>5. ASSUME NEW n \in Needs, NEW p \in Priorities, NEW b \in BOOLEAN, WaitBlocks(t, n, p, b)
      PROVE  Goal'
  <2>1. /\ count < n /\ count' = count /\ scan = 0 /\ scan' = 0
    BY <1>5 DEF WaitBlocks, Enters, MutexFree
  <2>2. \A u \in Waiting' : ~ready'[u] => need'[u] > count'
    <3>1. /\ Waiting' = Waiting \cup {t} /\ need' = [need EXCEPT ![t] = n] /\ ready' = ready
      BY <1>5, WaiterFrame
    <3>2. \A u \in Waiting : ~ready[u] => need[u] > count
      BY <2>1 DEF NoStrandedWaiter, MutexFree
    <3>3. n \in Int /\ need'[t] = n /\ \A u \in Threads \ {t} : need'[u] = need[u]
      BY <3>1 DEF TypeOK
    <3>4. QED
      BY <2>1, <3>1, <3>2, <3>3 DEF Waiting, TypeOK
  <2>3. TypeOK'
    BY ListStep
  <2>4. QED
    <3>1. NoStrandedWaiter'
      BY <2>2 DEF NoStrandedWaiter
    <3>2. \A i \in DOMAIN queue' : ~(i < scan')
      BY <2>1, <2>3 DEF TypeOK
    <3>3. PassedDoNotFit'
      BY <3>2 DEF PassedDoNotFit
    <3>4. QED
      BY <3>1, <3>3
<1>6. ASSUME NEW n \in SignalCounts, SignalBegins(t, n)
      PROVE  Goal'
  BY <1>6 DEF SignalBegins, NoStrandedWaiter, PassedDoNotFit, MutexFree, TypeOK
<1>7. ASSUME NEW n \in SignalCounts, SignalRejected(t, n)
      PROVE  Goal'
  BY <1>7 DEF SignalRejected, vars, Waiting, NoStrandedWaiter, PassedDoNotFit, MutexFree
<1>8. ASSUME NEW n \in CancelCounts, CancelRejected(t, n)
      PROVE  Goal'
  BY <1>8 DEF CancelRejected, vars, Waiting, NoStrandedWaiter, PassedDoNotFit, MutexFree
<1>9. CASE (\E n \in CancelCounts : Cancel(t, n)) \/ DeleteBegins(t)
  <2>1. scan' = 0 /\ queue' = queue
    BY <1>9 DEF Cancel, DeleteBegins, Enters, MutexFree
  <2>2. \A u \in Waiting' : ready'[u]
    BY <1>9, WaiterFrame DEF Waiting
  <2>3. QED
    BY <2>1, <2>2 DEF NoStrandedWaiter, PassedDoNotFit, TypeOK
<1>10. CASE WaitReturns(t) \/ WaitTimesOut(t)
  <2>1. scan = 0 /\ scan' = 0 /\ count' = count
    BY <1>10 DEF WaitReturns, WaitTimesOut, MutexFree
  <2>2. QED
    BY <2>1, <1>1, <1>10, WaiterFrame DEF TypeOK, Waiting
<1>11. CASE SliceEnds(t) \/ WaitSleepsAgain(t) \/ DeleteEnds(t)
  <2>1. UNCHANGED <<scan, count, queue, need, ready>> /\ Waiting' = Waiting
    BY <1>11, WaiterFrame DEF SliceEnds, WaitSleepsAgain, DeleteEnds
  <2>2. QED
    BY <2>1 DEF NoStrandedWaiter, PassedDoNotFit, MutexFree
<1>12. CASE SignalEnds(t)
  <2>1. scan > Len(queue) /\ scan' = 0 /\ UNCHANGED <<count, queue, need, ready>>
    BY <1>12, WaiterFrame DEF SignalEnds
  <2>2. Waiting' = Waiting
    BY <1>12, WaiterFrame
  <2>3. \A u \in Waiting : ~ready[u] => need[u] > count
    BY <2>1 DEF ListMatchesStacks, PassedDoNotFit, TypeOK
  <2>4. QED
    BY <2>1, <2>2, <2>3 DEF NoStrandedWaiter, PassedDoNotFit, TypeOK
<1>13. CASE WakeWaiter(t)
  <2> DEFINE w == queue[scan]
  <2>1. /\ scan \in 1..Len(queue) /\ scan' = scan + 1 /\ queue' = queue /\ need' = need
        /\ w \in Threads /\ w \in Waiting
    BY <1>13 DEF WakeWaiter, TypeOK, ListMatchesStacks, waiter
  <2>2. need[w] \in Int /\ need[w] >= 1
    BY <2>1 DEF Support, TypeOK
  <2>3. /\ count' \in Int /\ count' <= count
        /\ \A u \in Threads : ~ready'[u] => ~ready[u]
        /\ ~ready'[w] => need[w] > count'
    <3>1. CASE Fits(w)
      <4>1. count' = count - need[w] /\ ready' = [ready EXCEPT ![w] = TRUE]
        BY <3>1, <1>13 DEF WakeWaiter
      <4>2. QED
        BY <4>1, <2>1, <2>2 DEF TypeOK
    <3>2. CASE ~Fits(w)
      <4>1. count' = count /\ ready' = ready
        BY <3>2, <1>13 DEF WakeWaiter
      <4>2. QED
        BY <4>1, <3>2, <2>2 DEF TypeOK, Fits
    <3>3. QED
      BY <3>1, <3>2
  <2> HIDE DEF w
  <2>4. PassedDoNotFit'
    <3>1. ASSUME NEW i \in DOMAIN queue, i < scan + 1, ~ready'[queue[i]]
          PROVE  need[queue[i]] > count'
      <4>1. CASE i < scan
        <5>1. queue[i] \in Threads
          BY DEF TypeOK
        <5>2. ~ready[queue[i]]
          BY <2>3, <3>1, <5>1
        <5>3. need[queue[i]] > count
          BY <4>1, <5>2 DEF PassedDoNotFit
        <5>4. need[queue[i]] \in Int /\ count \in Int
          BY <5>1 DEF TypeOK
        <5>5. QED
          BY <2>3, <5>3, <5>4
      <4>2. CASE i = scan
        BY <4>2, <3>1, <2>3 DEF w
      <4>3. QED
        BY <4>1, <4>2, <3>1, <2>1 DEF TypeOK
    <3>2. QED
      BY <3>1, <2>1 DEF PassedDoNotFit
  <2>5. NoStrandedWaiter'
    BY <2>1 DEF NoStrandedWaiter, MutexFree
  <2>6. QED
    BY <2>4, <2>5
<1>14. QED
  BY <1>0, <1>2, <1>3, <1>4, <1>5, <1>6, <1>7, <1>8, <1>9, <1>10, <1>11, <1>12, <1>13
     DEF Calls, Continues

\* The count stays in range.
LEMMA CountStep ==
  ASSUME TypeOK, ListMatchesStacks, Support, CountInRange, [Next]_vars
  PROVE  CountInRange'
<1> USE KernelSemaAssumption
<1>0. SUFFICES ASSUME NEW t \in Threads, Calls(t) \/ Continues(t)
               PROVE  CountInRange'
  <2>1. CASE UNCHANGED vars
    BY <2>1 DEF vars, Waiting, MutexFree, CountInRange
  <2>2. QED
    BY <2>1 DEF Next
<1>1. ASSUME NEW i \in Inits, NEW m \in Maxes, NEW f \in BOOLEAN, Create(t, i, m, f)
      PROVE  CountInRange'
  BY <1>1 DEF Create, CountInRange
<1>2. ASSUME NEW n \in Needs, WaitTakes(t, n)
      PROVE  CountInRange'
  BY <1>2 DEF WaitTakes, MayWait, CountInRange, TypeOK, object
<1>3. ASSUME NEW n \in SignalCounts, SignalBegins(t, n)
      PROVE  CountInRange'
  BY <1>3 DEF SignalBegins, MaySignal, CountInRange, TypeOK, object
<1>4. ASSUME NEW n \in CancelCounts, Cancel(t, n)
      PROVE  CountInRange'
  BY <1>4 DEF Cancel, CountInRange, TypeOK, Support, object
<1>5. CASE WakeWaiter(t)
  <2> DEFINE w == queue[scan]
  <2>1. need[w] \in Int /\ need[w] >= 1
    BY <1>5 DEF WakeWaiter, ListMatchesStacks, Support, TypeOK, Waiting
  <2>2. /\ maxCount' = maxCount
        /\ count' = IF Fits(w) THEN count - need[w] ELSE count
    BY <1>5 DEF WakeWaiter, object
  <2>3. QED
    BY <2>1, <2>2 DEF CountInRange, TypeOK, Fits
<1>6. ASSUME UNCHANGED <<count, maxCount>>
      PROVE  CountInRange'
  BY <1>6 DEF CountInRange
<1>7. ASSUME NEW n \in Needs, WaitRejected(t, n) \/ PollFails(t, n)
      PROVE  CountInRange'
  BY <1>6, <1>7 DEF WaitRejected, PollFails, object
<1>8. ASSUME NEW n \in Needs, NEW p \in Priorities, NEW b \in BOOLEAN, WaitBlocks(t, n, p, b)
      PROVE  CountInRange'
  BY <1>6, <1>8 DEF WaitBlocks, object
<1>9. CASE (\E n \in SignalCounts : SignalRejected(t, n))
            \/ (\E n \in CancelCounts : CancelRejected(t, n))
  BY <1>6, <1>9 DEF SignalRejected, CancelRejected, vars
<1>10. CASE DeleteBegins(t) \/ DeleteEnds(t) \/ SliceEnds(t) \/ WaitSleepsAgain(t)
             \/ WaitReturns(t) \/ WaitTimesOut(t) \/ SignalEnds(t)
  BY <1>6, <1>10 DEF DeleteBegins, DeleteEnds, SliceEnds, WaitSleepsAgain, WaitReturns,
                     WaitTimesOut, SignalEnds, object
<1>11. QED
  BY <1>0, <1>1, <1>2, <1>3, <1>4, <1>5, <1>7, <1>8, <1>9, <1>10 DEF Calls, Continues

\* Decided waiters are awake, and all are decided once the object is deleted.
LEMMA AwakeStep ==
  ASSUME TypeOK, ListMatchesStacks, Support, ReadyIsAwake, DeletedIsDraining, [Next]_vars
  PROVE  ReadyIsAwake' /\ DeletedIsDraining'
<1> USE KernelSemaAssumption
<1> DEFINE Goal == ReadyIsAwake /\ DeletedIsDraining
<1>0. SUFFICES ASSUME NEW t \in Threads, Calls(t) \/ Continues(t)
               PROVE  Goal'
  <2>1. CASE UNCHANGED vars
    BY <2>1 DEF vars, Waiting, MutexFree, ReadyIsAwake, DeletedIsDraining
  <2>2. QED
    BY <2>1 DEF Next
<1>1. ASSUME NEW i \in Inits, NEW m \in Maxes, NEW f \in BOOLEAN, Create(t, i, m, f)
      PROVE  Goal'
  BY <1>1 DEF Create, ReadyIsAwake, DeletedIsDraining, MutexFree, decision
<1>2. ASSUME NEW n \in Needs, WaitRejected(t, n) \/ WaitTakes(t, n) \/ PollFails(t, n)
      PROVE  Goal'
  <2>1. UNCHANGED <<status, scan, pc, ready>>
    BY <1>2 DEF WaitRejected, WaitTakes, PollFails, object
  <2>2. QED
    BY <2>1 DEF ReadyIsAwake, DeletedIsDraining, MutexFree, Waiting
<1>3. ASSUME NEW n \in Needs, NEW p \in Priorities, NEW b \in BOOLEAN, WaitBlocks(t, n, p, b)
      PROVE  Goal'
  <2>1. /\ t \notin Waiting /\ pc' = [pc EXCEPT ![t] = "parked"] /\ UNCHANGED <<scan, ready>>
        /\ status' = "Set"
    BY <1>3, WaiterFrame DEF WaitBlocks, MayWait, object
  <2>2. QED
    BY <2>1 DEF ReadyIsAwake, DeletedIsDraining, MutexFree, Support, TypeOK
<1>4. ASSUME NEW n \in SignalCounts, SignalBegins(t, n)
      PROVE  Goal'
  <2>1. /\ scan' = 1 /\ Waiting' = Waiting /\ UNCHANGED <<status, ready>>
    BY <1>4, WaiterFrame DEF SignalBegins, object
  <2>2. QED
    BY <2>1 DEF ReadyIsAwake, DeletedIsDraining, MutexFree
<1>5. CASE (\E n \in SignalCounts : SignalRejected(t, n))
            \/ (\E n \in CancelCounts : CancelRejected(t, n))
  BY <1>5 DEF SignalRejected, CancelRejected, vars, ReadyIsAwake, DeletedIsDraining,
              MutexFree, Waiting
<1>7. CASE (\E n \in CancelCounts : Cancel(t, n)) \/ DeleteBegins(t)
  <2>1. \A u \in Waiting' : ready'[u]
    BY <1>7, WaiterFrame DEF Waiting
  <2>2. \A u \in Threads : pc'[u] # "parked"
    BY <1>7 DEF Cancel, DeleteBegins, Enters, Awakened, TypeOK
  <2>3. QED
    BY <2>1, <2>2 DEF ReadyIsAwake, DeletedIsDraining
<1>8. CASE SliceEnds(t)
  <2>1. /\ pc' = [pc EXCEPT ![t] = "awake"] /\ UNCHANGED <<status, scan, ready>>
        /\ Waiting' = Waiting
    BY <1>8, WaiterFrame DEF SliceEnds, object, decision
  <2>2. QED
    BY <2>1 DEF ReadyIsAwake, DeletedIsDraining, MutexFree, TypeOK
<1>9. CASE WaitSleepsAgain(t)
  <2>1. /\ pc' = [pc EXCEPT ![t] = "parked"] /\ UNCHANGED <<status, scan, ready>>
        /\ Waiting' = Waiting /\ ~ready[t]
    BY <1>9, WaiterFrame DEF WaitSleepsAgain, object, decision
  <2>2. DeletedIsDraining'
    BY <2>1 DEF DeletedIsDraining
  <2>3. \A u \in Threads \ {t} : pc'[u] = pc[u]
    BY <2>1 DEF TypeOK
  <2>4. QED
    BY <2>1, <2>2, <2>3, Zenon DEF ReadyIsAwake, MutexFree
<1>10. CASE WaitReturns(t) \/ WaitTimesOut(t)
  <2>1. /\ pc' = [pc EXCEPT ![t] = "idle"] /\ UNCHANGED <<status, scan>>
        /\ ready' = [ready EXCEPT ![t] = FALSE] /\ Waiting' = Waiting \ {t}
    BY <1>10, WaiterFrame DEF WaitReturns, WaitTimesOut, ForgetWaiter, object
  <2>2. \A u \in Threads \ {t} : ready'[u] = ready[u] /\ pc'[u] = pc[u]
    BY <2>1 DEF TypeOK
  <2>3. QED
    BY <2>1, <2>2 DEF ReadyIsAwake, DeletedIsDraining, MutexFree, TypeOK, Waiting
<1>11. CASE SignalEnds(t)
  <2>1. /\ pc' = [Awakened EXCEPT ![t] = "idle"] /\ UNCHANGED <<status, ready>>
        /\ Waiting' = Waiting
    BY <1>11, WaiterFrame DEF SignalEnds, object
  <2>2. \A u \in Threads : pc'[u] # "parked"
    BY <2>1 DEF Awakened
  <2>3. QED
    BY <2>1, <2>2 DEF ReadyIsAwake, DeletedIsDraining
<1>12. CASE WakeWaiter(t)
  <2>1. /\ scan \in 1..Len(queue) /\ scan' = scan + 1 /\ UNCHANGED <<status, pc>>
        /\ queue[scan] \in Threads
    BY <1>12 DEF WakeWaiter, TypeOK, object
  <2>2. \A u \in Threads : ready[u] => ready'[u]
    <3>1. CASE Fits(queue[scan])
      BY <1>12, <2>1, <3>1 DEF WakeWaiter, TypeOK
    <3>2. CASE ~Fits(queue[scan])
      BY <1>12, <3>2 DEF WakeWaiter
    <3>3. QED
      BY <3>1, <3>2
  <2>3. QED
    BY <2>1, <2>2 DEF ReadyIsAwake, DeletedIsDraining, MutexFree, Waiting
<1>13. CASE DeleteEnds(t)
  <2>1. /\ pc' = [pc EXCEPT ![t] = "idle"] /\ status' = "Freed" /\ UNCHANGED <<scan, ready>>
    BY <1>13 DEF DeleteEnds, decision
  <2>2. QED
    BY <2>1 DEF ReadyIsAwake, DeletedIsDraining, MutexFree, TypeOK
<1>14. QED
  BY <1>0, <1>1, <1>2, <1>3, <1>4, <1>5, <1>7, <1>8, <1>9, <1>10, <1>11, <1>12, <1>13
     DEF Calls, Continues

\* In priority order the list stays sorted.
LEMMA SortedStep ==
  ASSUME TypeOK, ListMatchesStacks, Support, SortedByPriority, [Next]_vars
  PROVE  SortedByPriority'
<1> USE KernelSemaAssumption
<1>0. SUFFICES ASSUME NEW t \in Threads, Calls(t) \/ Continues(t)
               PROVE  SortedByPriority'
  <2>1. CASE UNCHANGED vars
    BY <2>1 DEF vars, SortedByPriority
  <2>2. QED
    BY <2>1 DEF Next
<1>1. ASSUME UNCHANGED <<fifo, queue, priority>>
      PROVE  SortedByPriority'
  BY <1>1 DEF SortedByPriority
<1>2. ASSUME NEW i \in Inits, NEW m \in Maxes, NEW f \in BOOLEAN, Create(t, i, m, f)
      PROVE  SortedByPriority'
  <2>1. DOMAIN queue' = {}
    BY <1>2 DEF Create, Support
  <2>2. QED
    BY <2>1 DEF SortedByPriority
<1>3. ASSUME NEW n \in Needs, NEW p \in Priorities, NEW b \in BOOLEAN, WaitBlocks(t, n, p, b)
      PROVE  SortedByPriority'
  <2> DEFINE at == InsertPosition(p)
  <2>1. /\ AddWaiter(t, p) /\ p \in Int /\ t \notin Waiting /\ fifo' = fifo
        /\ priority' = [priority EXCEPT ![t] = p]
    BY <1>3, WaiterFrame DEF WaitBlocks, object
  <2>2. /\ Len(queue') = Len(queue) + 1 /\ queue' \in Seq(Threads)
        /\ \A i \in 1..Len(queue') :
             queue'[i] = IF i < at THEN queue[i]
                         ELSE IF i = at THEN t ELSE queue[i - 1]
    BY <2>1, AddWaiterProperties
  <2>3. /\ at \in 1..(Len(queue) + 1)
        /\ ~fifo => \A j \in 1..(at - 1) : priority[queue[j]] <= p
        /\ at <= Len(queue) => priority[queue[at]] > p
    BY <2>1, InsertPositionProperties
  <2>4. \A i \in 1..Len(queue) :
          /\ priority'[queue[i]] = priority[queue[i]] /\ priority[queue[i]] \in Int
    BY <2>1 DEF ListMatchesStacks, TypeOK
  <2> HIDE DEF at
  <2>5. Len(queue) \in Nat /\ DOMAIN queue = 1..Len(queue)
        /\ DOMAIN queue' = 1..Len(queue')
    BY <2>2 DEF TypeOK
  <2>6. priority'[t] = p
    BY <2>1 DEF TypeOK
  <2>7. ASSUME ~fifo, NEW i \in 1..Len(queue'), NEW j \in 1..Len(queue'), i < j
        PROVE  priority'[queue'[i]] <= priority'[queue'[j]]
    <3>1. \A k, l \in 1..Len(queue) : k < l => priority[queue[k]] <= priority[queue[l]]
      BY <2>5, <2>7 DEF SortedByPriority
    <3>2. i \in 1..(Len(queue) + 1) /\ j \in 1..(Len(queue) + 1)
      BY <2>2
    <3>3. CASE j <= at
      <4>1. queue'[i] = queue[i] /\ i \in 1..(at - 1) /\ i \in 1..Len(queue)
        BY <3>2, <3>3, <2>2, <2>3, <2>5, <2>7
      <4>2. CASE j = at
        BY <4>1, <4>2, <2>2, <2>3, <2>4, <2>6, <2>7
      <4>3. CASE j < at
        <5>1. queue'[j] = queue[j] /\ j \in 1..Len(queue)
          BY <4>3, <3>2, <2>2, <2>3, <2>5
        <5>2. QED
          BY <5>1, <4>1, <3>1, <2>4, <2>7
      <4>4. QED
        BY <4>2, <4>3, <3>2, <3>3, <2>3
    <3>4. CASE j > at
      <4>1. /\ queue'[j] = queue[j - 1] /\ j - 1 \in 1..Len(queue) /\ at <= j - 1
            /\ at \in 1..Len(queue)
        BY <3>2, <3>4, <2>2, <2>3, <2>5
      <4>2. /\ priority'[queue'[j]] = priority[queue[j - 1]]
            /\ priority[queue[j - 1]] \in Int /\ p < priority[queue[j - 1]]
        <5>1. CASE at = j - 1
          BY <5>1, <4>1, <2>1, <2>3, <2>4
        <5>2. CASE at < j - 1
          <6>1. priority[queue[at]] <= priority[queue[j - 1]]
            BY <5>2, <4>1, <3>1
          <6>2. QED
            BY <6>1, <4>1, <2>1, <2>3, <2>4
        <5>3. QED
          BY <5>1, <5>2, <4>1
      <4>3. CASE i < at
        <5>1. queue'[i] = queue[i] /\ i \in 1..Len(queue) /\ i < j - 1
          BY <4>1, <4>3, <3>2, <2>2
        <5>2. QED
          BY <5>1, <4>1, <4>2, <3>1, <2>4
      <4>4. CASE i = at
        BY <4>2, <4>4, <3>2, <2>1, <2>2, <2>6
      <4>5. CASE i > at
        <5>1. queue'[i] = queue[i - 1] /\ i - 1 \in 1..Len(queue) /\ i - 1 < j - 1
          BY <4>5, <3>2, <2>2, <2>3, <2>7
        <5>2. QED
          BY <5>1, <4>1, <4>2, <3>1, <2>4
      <4>6. QED
        BY <4>3, <4>4, <4>5, <3>2, <2>3
    <3>5. QED
      BY <3>3, <3>4, <3>2, <2>3
  <2>8. QED
    BY <2>1, <2>5, <2>7 DEF SortedByPriority
<1>4. CASE WaitReturns(t) \/ WaitTimesOut(t)
  <2>1. /\ RemoveWaiter(t) /\ fifo' = fifo /\ priority' = [priority EXCEPT ![t] = 0]
    BY <1>4 DEF WaitReturns, WaitTimesOut, ForgetWaiter, object
  <2>2. PICK k \in DOMAIN queue : queue[k] = t
    BY <1>4, WaiterFrame DEF ListMatchesStacks
  <2>3. PICK at \in DOMAIN queue :
          /\ queue[at] = t
          /\ queue' \in Seq(Threads) /\ Len(queue') = Len(queue) - 1
          /\ \A i \in 1..Len(queue') :
               queue'[i] = IF i < at THEN queue[i] ELSE queue[i + 1]
    BY <2>1, <2>2, RemoveWaiterProperties
  <2> DEFINE from(i) == IF i < at THEN i ELSE i + 1
  <2>4. Len(queue) \in Nat /\ at \in 1..Len(queue)
    BY <2>3 DEF TypeOK
  <2>5. \A i \in 1..Len(queue') :
          /\ from(i) \in 1..Len(queue) /\ from(i) # at /\ queue'[i] = queue[from(i)]
    BY <2>3, <2>4
  <2>6. DOMAIN queue = 1..Len(queue) /\ DOMAIN queue' = 1..Len(queue')
    BY <2>3 DEF TypeOK
  <2>7. ASSUME NEW i \in 1..Len(queue), i # at
        PROVE  priority'[queue[i]] = priority[queue[i]]
    <3>1. \A k1, l \in DOMAIN queue : queue[k1] = queue[l] => k1 = l
      BY DEF ListMatchesStacks
    <3>2. queue[i] # t
      BY <3>1, <2>3, <2>6, <2>7
    <3>3. queue[i] \in Threads
      BY <2>6 DEF TypeOK
    <3>4. QED
      BY <3>2, <3>3, <2>1 DEF TypeOK
  <2>8. \A i, j \in 1..Len(queue') : i < j => from(i) < from(j)
    BY <2>3, <2>4
  <2> HIDE DEF from
  <2>9. ASSUME ~fifo, NEW i \in 1..Len(queue'), NEW j \in 1..Len(queue'), i < j
        PROVE  priority'[queue'[i]] <= priority'[queue'[j]]
    <3>1. \A k1, l \in 1..Len(queue) : k1 < l => priority[queue[k1]] <= priority[queue[l]]
      BY <2>6, <2>9 DEF SortedByPriority
    <3>2. /\ from(i) \in 1..Len(queue) /\ from(j) \in 1..Len(queue)
          /\ from(i) < from(j)
      BY <2>5, <2>8, <2>9
    <3>3. priority[queue[from(i)]] <= priority[queue[from(j)]]
      BY <3>1, <3>2
    <3>4. QED
      BY <3>3, <2>5, <2>7
  <2>10. QED
    BY <2>1, <2>6, <2>9 DEF SortedByPriority
<1>5. ASSUME NEW n \in Needs, WaitRejected(t, n) \/ WaitTakes(t, n) \/ PollFails(t, n)
      PROVE  SortedByPriority'
  BY <1>5, <1>1 DEF WaitRejected, WaitTakes, PollFails, object, waiter
<1>6. ASSUME NEW n \in SignalCounts, SignalRejected(t, n) \/ SignalBegins(t, n)
      PROVE  SortedByPriority'
  BY <1>6, <1>1 DEF SignalRejected, SignalBegins, object, waiter, vars
<1>7. ASSUME NEW n \in CancelCounts, Cancel(t, n) \/ CancelRejected(t, n)
      PROVE  SortedByPriority'
  BY <1>7, <1>1 DEF Cancel, CancelRejected, object, waiter, vars
<1>8. CASE DeleteBegins(t) \/ DeleteEnds(t) \/ SliceEnds(t) \/ WaitSleepsAgain(t)
            \/ WakeWaiter(t) \/ SignalEnds(t)
  BY <1>8, <1>1 DEF DeleteBegins, DeleteEnds, SliceEnds, WaitSleepsAgain, WakeWaiter,
                    SignalEnds, object, waiter
<1>9. QED
  BY <1>0, <1>2, <1>3, <1>4, <1>5, <1>6, <1>7, <1>8 DEF Calls, Continues

(***************************************************************************)
(* The theorems.                                                           *)
(***************************************************************************)

\* IInv is inductive: types, the list, the count, the order of the list and who
\* sleeps agree in every state of the semaphore's methods.
THEOREM IInvHolds == Spec => []IInv
<1>1. Init => IInv
  <2> SUFFICES ASSUME Init PROVE IInv
    OBVIOUS
  <2>1. Waiting = {} /\ DOMAIN queue = {}
    BY DEF Init, Waiting
  <2>2. \A t \in Threads : ~ready[t]
    BY Zenon DEF Init
  <2>3. Support
    BY <2>1, <2>2 DEF Init, Support
  <2>4. /\ PassedDoNotFit /\ NoStrandedWaiter /\ CountInRange
        /\ ReadyIsAwake /\ SortedByPriority /\ DeletedIsDraining
    BY <2>1, <2>2 DEF Init, PassedDoNotFit, NoStrandedWaiter, CountInRange,
       ReadyIsAwake, SortedByPriority, DeletedIsDraining
  <2>5. TypeOK /\ ListMatchesStacks
    BY InitIsTyped
  <2>6. QED
    BY <2>3, <2>4, <2>5 DEF IInv
<1>2. IInv /\ [Next]_vars => IInv'
  BY ListStep, SupportStep, StrandedStep, CountStep, AwakeStep, SortedStep DEF IInv
<1>3. QED
  BY <1>1, <1>2, PTL DEF Spec

\* KernelSemaPrivate::Signal and every other method leave no waiter asleep whose
\* need count could be served from m_count.
THEOREM NoWaiterIsStranded == Spec => []NoStrandedWaiter
  BY IInvHolds, PTL DEF IInv

\* m_count stays between 0 and m_max_count when signal counts are not negative.
THEOREM CountStaysInRange == Spec => []CountInRange
  BY IInvHolds, PTL DEF IInv

\* A waiter that was granted, canceled or deleted has been woken.
THEOREM DecidedWaitersAreAwake == Spec => [](ReadyIsAwake /\ DeletedIsDraining)
  BY IInvHolds, PTL DEF IInv

\* With attr 2 the list is served most important thread first.
THEOREM ListIsSorted == Spec => []SortedByPriority
  BY IInvHolds, PTL DEF IInv

\* A step that leaves the list alone keeps its order.
LEMMA SameOrder ==
  ASSUME TypeOK, ListMatchesStacks, queue' = queue
  PROVE  ArrivalOrder
<1>1. /\ Len(queue) \in Nat /\ DOMAIN queue = 1..Len(queue)
      /\ \A i, j \in DOMAIN queue : queue[i] = queue[j] => i = j
      /\ \A i \in DOMAIN queue : queue[i] \in Waiting
  BY DEF TypeOK, ListMatchesStacks
<1>2. QED
  BY <1>1 DEF ArrivalOrder

\* Who joins goes in one place, and the others keep theirs.
LEMMA JoiningKeepsOrder ==
  ASSUME TypeOK, ListMatchesStacks, NEW t \in Threads, NEW p \in Int, t \notin Waiting,
         AddWaiter(t, p)
  PROVE  ArrivalOrder
<1> DEFINE at == InsertPosition(p)
<1>1. /\ Len(queue') = Len(queue) + 1 /\ queue' \in Seq(Threads)
      /\ \A i \in 1..Len(queue') :
           queue'[i] = IF i < at THEN queue[i]
                       ELSE IF i = at THEN t ELSE queue[i - 1]
  BY AddWaiterProperties
<1>2. at \in 1..(Len(queue) + 1) /\ (fifo => at = Len(queue) + 1)
  BY InsertPositionProperties
<1>3. /\ Len(queue) \in Nat /\ DOMAIN queue = 1..Len(queue) /\ DOMAIN queue' = 1..Len(queue')
      /\ \A i, j \in DOMAIN queue : queue[i] = queue[j] => i = j
      /\ \A i \in DOMAIN queue : queue[i] \in Waiting /\ queue[i] # t
  BY <1>1 DEF TypeOK, ListMatchesStacks
<1> HIDE DEF at
<1>4. ASSUME NEW i \in DOMAIN queue, NEW k \in DOMAIN queue', queue'[k] = queue[i]
      PROVE  k = IF i < at THEN i ELSE i + 1
  <2>1. k # at
    BY <1>1, <1>3, <1>4
  <2>2. CASE k < at
    <3>1. queue[k] = queue[i] /\ k \in DOMAIN queue
      BY <1>1, <1>2, <1>3, <1>4, <2>2
    <3>2. QED
      BY <1>3, <2>2, <3>1
  <2>3. CASE k > at
    <3>1. queue[k - 1] = queue[i] /\ k - 1 \in DOMAIN queue
      BY <1>1, <1>2, <1>3, <1>4, <2>3
    <3>2. k - 1 = i
      BY <1>3, <3>1
    <3>3. QED
      BY <1>2, <1>3, <2>3, <3>2
  <2>4. QED
    BY <1>2, <1>3, <2>1, <2>2, <2>3
<1>5. ASSUME NEW i \in DOMAIN queue, NEW j \in DOMAIN queue,
             NEW k \in DOMAIN queue', NEW l \in DOMAIN queue',
             i < j, queue'[k] = queue[i], queue'[l] = queue[j]
      PROVE  k < l
  <2>1. k = (IF i < at THEN i ELSE i + 1) /\ l = (IF j < at THEN j ELSE j + 1)
    BY <1>4, <1>5
  <2>2. QED
    BY <1>2, <1>3, <1>5, <2>1
<1>6. ASSUME fifo, NEW k \in DOMAIN queue', queue'[k] \notin Waiting
      PROVE  k = Len(queue')
  <2>1. CASE k < at
    BY <1>1, <1>2, <1>3, <1>6, <2>1
  <2>2. CASE k >= at
    BY <1>1, <1>2, <1>3, <1>6, <2>2
  <2>3. QED
    BY <1>2, <1>3, <2>1, <2>2
<1>7. QED
  BY <1>5, <1>6 DEF ArrivalOrder

\* Who leaves leaves a gap that the ones behind close.
LEMMA LeavingKeepsOrder ==
  ASSUME TypeOK, ListMatchesStacks, NEW t \in Waiting, RemoveWaiter(t)
  PROVE  ArrivalOrder
<1>1. PICK n \in DOMAIN queue : queue[n] = t
  BY DEF ListMatchesStacks
<1>2. PICK at \in DOMAIN queue :
        /\ queue[at] = t
        /\ queue' \in Seq(Threads) /\ Len(queue') = Len(queue) - 1
        /\ \A i \in 1..Len(queue') :
             queue'[i] = IF i < at THEN queue[i] ELSE queue[i + 1]
  BY <1>1, RemoveWaiterProperties
<1>3. /\ Len(queue) \in Nat /\ DOMAIN queue = 1..Len(queue) /\ DOMAIN queue' = 1..Len(queue')
      /\ \A i, j \in DOMAIN queue : queue[i] = queue[j] => i = j
      /\ \A i \in DOMAIN queue : queue[i] \in Waiting
  BY <1>2 DEF TypeOK, ListMatchesStacks
<1>4. ASSUME NEW k \in DOMAIN queue'
      PROVE  /\ (IF k < at THEN k ELSE k + 1) \in DOMAIN queue
             /\ queue'[k] = queue[IF k < at THEN k ELSE k + 1]
  BY <1>2, <1>3
<1>5. ASSUME NEW i \in DOMAIN queue, NEW j \in DOMAIN queue,
             NEW k \in DOMAIN queue', NEW l \in DOMAIN queue',
             i < j, queue'[k] = queue[i], queue'[l] = queue[j]
      PROVE  k < l
  <2>1. i = (IF k < at THEN k ELSE k + 1) /\ j = (IF l < at THEN l ELSE l + 1)
    BY <1>3, <1>4, <1>5
  <2>2. QED
    BY <1>2, <1>3, <1>5, <2>1
<1>6. \A k \in DOMAIN queue' : queue'[k] \in Waiting
  BY <1>3, <1>4
<1>7. QED
  BY <1>5, <1>6 DEF ArrivalOrder

\* A step decides who has to be next and keeps the order of who stays.
LEMMA StepKeepsOrder ==
  ASSUME IInv, [Next]_vars
  PROVE  GrantInOrder /\ ArrivalOrder
<1> USE KernelSemaAssumption
<1>0. /\ TypeOK /\ ListMatchesStacks /\ PassedDoNotFit
      /\ Len(queue) \in Nat /\ DOMAIN queue = 1..Len(queue)
      /\ \A i \in DOMAIN queue : queue[i] \in Waiting /\ queue[i] \in Threads
      /\ \A i, j \in DOMAIN queue : queue[i] = queue[j] => i = j
      /\ ready \in [Threads -> BOOLEAN] /\ result \in [Threads -> Results]
  BY DEF IInv, TypeOK, ListMatchesStacks
<1>1. SUFFICES ASSUME NEW t \in Threads, Calls(t) \/ Continues(t)
               PROVE  GrantInOrder /\ ArrivalOrder
  <2>1. CASE UNCHANGED vars
    BY <1>0, <2>1, SameOrder DEF vars, GrantInOrder, decision
  <2>2. QED
    BY <2>1 DEF Next
<1>2. ASSUME queue' = queue, ready' = ready
      PROVE  GrantInOrder /\ ArrivalOrder
  BY <1>0, <1>2, SameOrder DEF GrantInOrder
<1>3. ASSUME \/ \E i \in Inits, m \in Maxes, f \in BOOLEAN : Create(t, i, m, f)
             \/ \E n \in Needs : WaitRejected(t, n) \/ WaitTakes(t, n) \/ PollFails(t, n)
             \/ \E n \in SignalCounts : SignalRejected(t, n) \/ SignalBegins(t, n)
             \/ \E n \in CancelCounts : CancelRejected(t, n)
             \/ DeleteEnds(t) \/ SliceEnds(t) \/ WaitSleepsAgain(t) \/ SignalEnds(t)
      PROVE  GrantInOrder /\ ArrivalOrder
  <2>1. queue' = queue /\ ready' = ready
    BY <1>3 DEF Create, WaitRejected, WaitTakes, PollFails, SignalRejected, SignalBegins,
       CancelRejected, DeleteEnds, SliceEnds, WaitSleepsAgain, SignalEnds, vars, decision
  <2>2. QED
    BY <1>2, <2>1
<1>4. ASSUME NEW n \in Needs, NEW p \in Priorities, NEW b \in BOOLEAN, WaitBlocks(t, n, p, b)
      PROVE  GrantInOrder /\ ArrivalOrder
  <2>1. t \notin Waiting /\ ready' = ready /\ AddWaiter(t, p) /\ p \in Int
    BY <1>0, <1>4, WaiterFrame DEF WaitBlocks
  <2>2. ArrivalOrder
    BY <1>0, <2>1, JoiningKeepsOrder
  <2>3. QED
    BY <2>1, <2>2 DEF GrantInOrder
<1>5. ASSUME WaitReturns(t) \/ WaitTimesOut(t)
      PROVE  GrantInOrder /\ ArrivalOrder
  <2>1. t \in Waiting /\ ready' = [ready EXCEPT ![t] = FALSE] /\ RemoveWaiter(t)
    BY <1>0, <1>5, WaiterFrame DEF WaitReturns, WaitTimesOut, ForgetWaiter
  <2>2. ArrivalOrder
    BY <1>0, <2>1, LeavingKeepsOrder
  <2>3. \A u \in Threads : ready'[u] => ready[u]
    BY <1>0, <2>1
  <2>4. QED
    BY <1>0, <2>2, <2>3 DEF GrantInOrder
<1>6. ASSUME (\E n \in CancelCounts : Cancel(t, n)) \/ DeleteBegins(t)
      PROVE  GrantInOrder /\ ArrivalOrder
  <2>1. PICK r \in {"Canceled", "Deleted"} : queue' = queue /\ ReadyAll(r)
    BY <1>6 DEF Cancel, DeleteBegins
  <2>2. \A u \in Waiting : ~ready[u] => result'[u] # "Ok"
    BY <2>1 DEF ReadyAll, Waiting
  <2>3. QED
    BY <1>0, <2>1, <2>2, SameOrder DEF GrantInOrder
<1>7. ASSUME WakeWaiter(t)
      PROVE  GrantInOrder /\ ArrivalOrder
  <2>1. queue' = queue /\ scan \in DOMAIN queue
    BY <1>7 DEF WakeWaiter
  <2>2. ASSUME NEW i \in DOMAIN queue, ~ready[queue[i]], ready'[queue[i]]
        PROVE  i = scan
    BY <1>0, <1>7, <2>1, <2>2 DEF WakeWaiter
  <2>3. \A j \in 1..(scan - 1) : ready[queue[j]] \/ need[queue[j]] > count
    BY <1>0, <2>1 DEF PassedDoNotFit
  <2>4. GrantInOrder
    BY <2>2, <2>3 DEF GrantInOrder
  <2>5. QED
    BY <1>0, <2>1, <2>4, SameOrder
<1>8. QED
  BY <1>1, <1>3, <1>4, <1>5, <1>6, <1>7 DEF Calls, Continues

\* Grants follow the list and its order lasts: WakeWaiters never passes over a
\* waiter that fits, who stays keeps his place among who stays, and in FIFO order
\* who joins is last.
THEOREM GrantsFollowTheList == Spec => GrantsKeepOrder
<1>1. IInv /\ [Next]_vars => [GrantInOrder /\ ArrivalOrder]_vars
  BY StepKeepsOrder
<1>2. QED
  BY <1>1, IInvHolds, PTL DEF Spec, GrantsKeepOrder

(***************************************************************************)
(* KernelSema implements CountingSema.                                     *)
(***************************************************************************)

\* ReadyAll decides every undecided call, and no other.
LEMMA DecidedAtOnce ==
  ASSUME NEW r \in {"Canceled", "Deleted"}, Waiting' = Waiting, result \in [Threads -> Results],
         ready' = [u \in Threads |-> ready[u] \/ u \in Waiting],
         result' = [u \in Threads |-> IF u \in Waiting /\ ~ready[u] THEN r ELSE result[u]],
         UNCHANGED <<maxCount, need>>
  PROVE  Abstract!Decide(r)
<1> DEFINE Answer(u) == IF u \in Waiting /\ ~ready[u] THEN "undecided" ELSE result[u]
<1>1. ASSUME NEW u \in Threads
      PROVE  (IF u \in Waiting' /\ ~ready'[u] THEN "undecided" ELSE result'[u])
               = IF u \in Waiting /\ Answer(u) = "undecided" THEN r ELSE Answer(u)
  <2>1. ready'[u] = (ready[u] \/ u \in Waiting)
    OBVIOUS
  <2>2. result'[u] = IF u \in Waiting /\ ~ready[u] THEN r ELSE result[u]
    OBVIOUS
  <2>3. Waiting' = Waiting
    OBVIOUS
  <2>4. CASE u \in Waiting /\ ~ready[u]
    BY <2>1, <2>2, <2>3, <2>4
  <2>5. CASE ~(u \in Waiting /\ ~ready[u])
    <3>1. result[u] # "undecided"
      BY DEF Results
    <3>2. QED
      BY <2>1, <2>2, <2>3, <2>5, <3>1
  <2>6. QED
    BY <2>4, <2>5
<1>2. QED
  BY <1>1 DEF Abstract!Decide, Abstract!Undecided

\* Every step is one of the abstract semaphore, or none: an iteration of
\* WakeWaiters is a grant, Signal's first section a release, and sleeping, waking
\* and the end of the loop are not seen.
LEMMA ImplementsStep ==
  ASSUME SignalCounts \subseteq Nat, IInv, [Next]_vars
  PROVE  [Abstract!Next]_(Abstract!vars)
<1> USE KernelSemaAssumption
<1>0. /\ TypeOK /\ Support /\ ListMatchesStacks /\ CountInRange
      /\ count \in Int /\ maxCount \in Int /\ initCount \in Int /\ ready \in [Threads -> BOOLEAN]
      /\ result \in [Threads -> Results] /\ pc \in [Threads -> Locations]
      /\ need \in [Threads -> Int]
  BY DEF IInv, TypeOK
<1>1. SUFFICES ASSUME NEW t \in Threads, Calls(t) \/ Continues(t)
               PROVE  [Abstract!Next]_(Abstract!vars)
  <2>1. CASE UNCHANGED vars
    BY <2>1 DEF vars, Abstract!vars, Waiting
  <2>2. QED
    BY <2>1 DEF Next
<1>2. ASSUME NEW i \in Inits, NEW m \in Maxes, NEW f \in BOOLEAN, Create(t, i, m, f)
      PROVE  Abstract!New
  <2>1. Waiting = {} /\ Waiting' = Waiting
    BY <1>0, <1>2 DEF Create, Support, ListMatchesStacks, Waiting, waiter, decision
  <2>2. QED
    BY <2>1, <1>2 DEF Create, Abstract!New, waiter, decision
<1>3. ASSUME NEW n \in Needs, WaitRejected(t, n)
      PROVE  Abstract!Refuse(t)
  <2>1. t \notin Waiting /\ Waiting' = Waiting
    BY <1>3 DEF WaitRejected, Enters, Waiting
  <2>2. QED
    BY <1>0, <2>1, <1>3 DEF WaitRejected, Abstract!Refuse, waiter, object
<1>4. ASSUME NEW n \in Needs, WaitTakes(t, n)
      PROVE  Abstract!Take(t)
  <2>1. t \notin Waiting /\ Waiting' = Waiting
    BY <1>4 DEF WaitTakes, Enters, Waiting
  <2>2. n \in Int /\ n >= 1 /\ count >= n
    BY <1>4 DEF WaitTakes, MayWait
  <2>3. count' < count /\ count' >= 0
    BY <1>0, <2>2, <1>4 DEF WaitTakes
  <2>4. /\ result' = [result EXCEPT ![t] = "Ok"]
        /\ UNCHANGED <<maxCount, need, ready>>
    BY <1>4 DEF WaitTakes, waiter, object
  <2>5. QED
    BY <1>0, <2>1, <2>3, <2>4 DEF Abstract!Take
<1>5. ASSUME NEW n \in Needs, PollFails(t, n)
      PROVE  Abstract!Refuse(t)
  <2>1. t \notin Waiting /\ Waiting' = Waiting
    BY <1>5 DEF PollFails, Enters, Waiting
  <2>2. QED
    BY <1>0, <2>1, <1>5 DEF PollFails, Abstract!Refuse, waiter, object
<1>6. ASSUME NEW n \in Needs, NEW p \in Priorities, NEW b \in BOOLEAN, WaitBlocks(t, n, p, b)
      PROVE  Abstract!Block(t)
  <2>1. t \notin Waiting /\ Waiting' = Waiting \cup {t}
    BY <1>0, <1>6 DEF WaitBlocks, Enters, Waiting
  <2>2. ~ready[t]
    BY <1>0, <2>1 DEF Support
  <2>3. n \in Int /\ n > count
    BY <1>0, <1>6 DEF WaitBlocks
  <2>4. QED
    BY <1>0, <2>1, <2>2, <2>3, <1>6 DEF WaitBlocks, Abstract!Block, object
<1>7. ASSUME NEW n \in SignalCounts, SignalBegins(t, n)
      PROVE  Abstract!Release
  <2>1. Waiting' = Waiting
    BY <1>0, <1>7 DEF SignalBegins, Enters, Waiting
  <2>2. n \in Nat /\ count + n <= maxCount
    BY <1>7 DEF SignalBegins, MaySignal
  <2>3. QED
    BY <1>0, <2>1, <2>2, <1>7 DEF SignalBegins, Abstract!Release, waiter, object, decision
<1>8. ASSUME NEW n \in CancelCounts, Cancel(t, n)
      PROVE  Abstract!CancelAll
  <2>1. Waiting' = Waiting
    BY <1>0, <1>8 DEF Cancel, Awakened, Waiting, Locations
  <2>2. count' \in 0..maxCount
    BY <1>0, <1>8 DEF Cancel, Support
  <2>3. /\ ready' = [u \in Threads |-> ready[u] \/ u \in Waiting]
        /\ result' = [u \in Threads |->
                         IF u \in Waiting /\ ~ready[u] THEN "Canceled" ELSE result[u]]
        /\ UNCHANGED <<maxCount, need>>
    BY <1>8 DEF Cancel, ReadyAll, waiter, object
  <2>4. QED
    BY <1>0, <2>1, <2>2, <2>3, DecidedAtOnce DEF Abstract!CancelAll
<1>9. ASSUME DeleteBegins(t)
      PROVE  Abstract!DeleteAll
  <2>1. Waiting' = Waiting
    BY <1>0, <1>9 DEF DeleteBegins, Enters, Awakened, Waiting, Locations
  <2>2. /\ ready' = [u \in Threads |-> ready[u] \/ u \in Waiting]
        /\ result' = [u \in Threads |->
                         IF u \in Waiting /\ ~ready[u] THEN "Deleted" ELSE result[u]]
        /\ UNCHANGED <<maxCount, need, count>>
    BY <1>9 DEF DeleteBegins, ReadyAll, waiter
  <2>3. QED
    BY <1>0, <2>1, <2>2, DecidedAtOnce DEF Abstract!DeleteAll
<1>10. ASSUME \/ DeleteEnds(t) \/ SliceEnds(t) \/ WaitSleepsAgain(t) \/ SignalEnds(t)
              \/ \E n \in SignalCounts : SignalRejected(t, n)
              \/ \E n \in CancelCounts : CancelRejected(t, n)
       PROVE  UNCHANGED Abstract!vars
  <2>1. Waiting' = Waiting
    BY <1>0, <1>10 DEF DeleteEnds, SliceEnds, WaitSleepsAgain, SignalEnds, SignalRejected,
       CancelRejected, Awakened, Waiting, Locations, vars
  <2>2. UNCHANGED <<count, maxCount, need, ready, result>>
    BY <1>10 DEF DeleteEnds, SliceEnds, WaitSleepsAgain, SignalEnds, SignalRejected,
       CancelRejected, vars, object, waiter, decision
  <2>3. QED
    BY <2>1, <2>2 DEF Abstract!vars
<1>11. ASSUME WakeWaiter(t)
       PROVE  (\E u \in Threads : Abstract!Grant(u)) \/ UNCHANGED Abstract!vars
  <2>0. PICK v \in Threads : v = queue[scan]
    BY <1>0, <1>11 DEF WakeWaiter, ListMatchesStacks, Waiting
  <2>1. v \in Waiting /\ Waiting' = Waiting
    BY <1>0, <2>0, <1>11 DEF WakeWaiter, ListMatchesStacks, Waiting
  <2>2. CASE ~Fits(v)
    <3>1. UNCHANGED <<count, maxCount, need, ready, result>>
      BY <2>0, <2>2, <1>11 DEF WakeWaiter, object, waiter
    <3>2. QED
      BY <2>1, <3>1 DEF Abstract!vars
  <2>3. CASE Fits(v)
    <3>1. /\ count' = count - need[v]
          /\ ready' = [ready EXCEPT ![v] = TRUE]
          /\ result' = [result EXCEPT ![v] = "Ok"]
          /\ UNCHANGED <<maxCount, need>>
          /\ ~ready[v] /\ need[v] <= count
      BY <2>0, <2>3, <1>11 DEF WakeWaiter, Fits, object, waiter
    <3>2. Abstract!Grant(v)
      BY <1>0, <2>1, <3>1 DEF Abstract!Grant, Abstract!Undecided, Results
    <3>3. QED
      BY <3>2
  <2>4. QED
    BY <2>2, <2>3
<1>12. ASSUME WaitReturns(t) \/ WaitTimesOut(t)
       PROVE  Abstract!Leave(t)
  <2>1. t \in Waiting /\ Waiting' = Waiting \ {t}
    BY <1>0, <1>12 DEF WaitReturns, WaitTimesOut, ForgetWaiter, Waiting
  <2>2. /\ need' = [need EXCEPT ![t] = 0] /\ ready' = [ready EXCEPT ![t] = FALSE]
        /\ UNCHANGED <<count, maxCount>>
        /\ result' = [result EXCEPT ![t] = IF ready[t] THEN @ ELSE "TimedOut"]
    BY <1>0, <1>12 DEF WaitReturns, WaitTimesOut, ForgetWaiter, object
  <2>3. t \in Abstract!Undecided <=> ~ready[t]
    BY <1>0, <2>1 DEF Abstract!Undecided, Results
  <2>4. ~ready'[t] /\ t \notin Waiting'
    BY <1>0, <2>1, <2>2
  <2> DEFINE Answer(u) == IF u \in Waiting /\ ~ready[u] THEN "undecided" ELSE result[u]
  <2>5. ASSUME NEW u \in Threads
        PROVE  (IF u \in Waiting' /\ ~ready'[u] THEN "undecided" ELSE result'[u])
                 = IF u # t THEN Answer(u) ELSE IF ready[t] THEN Answer(t) ELSE "TimedOut"
    BY <1>0, <2>1, <2>2, <2>4
  <2>6. QED
    BY <2>1, <2>2, <2>3, <2>5 DEF Abstract!Leave
<1>13. QED
  BY <1>1, <1>2, <1>3, <1>4, <1>5, <1>6, <1>7, <1>8, <1>9, <1>10, <1>11, <1>12
     DEF Calls, Continues, Abstract!Next

LEMMA ImplementsInit == Init => Abstract!Init
<1> SUFFICES ASSUME Init PROVE Abstract!Init
  OBVIOUS
<1>1. Waiting = {}
  BY DEF Init, Waiting
<1>2. [t \in Threads |-> IF t \in Waiting /\ ~ready[t] THEN "undecided" ELSE result[t]]
        \in [Threads -> Abstract!Answers \ {"undecided"}]
  BY <1>1 DEF Init, Abstract!Answers
<1>3. QED
  BY <1>1, <1>2 DEF Init, Abstract!Init

\* If signal counts are not negative, the semaphore with its list, its mutex and
\* its sleepers does what the abstract one may do: no unit is made, lost or given
\* to two calls, and a call answers Ok exactly when it was charged.
THEOREM SemaphoreImplementsCounting ==
  ASSUME SignalCounts \subseteq Nat
  PROVE  Spec => ImplementsCountingSema
<1>1. Init => Abstract!Init
  BY ImplementsInit
<1>2. IInv /\ [Next]_vars => [Abstract!Next]_(Abstract!vars)
  BY ImplementsStep
<1>3. QED
  BY <1>1, <1>2, IInvHolds, PTL DEF Spec, ImplementsCountingSema, Abstract!Spec

(***************************************************************************)
(* The objects together.                                                   *)
(***************************************************************************)

\* The invariants of the components, each of the behaviours that use it.
ObjectsInv ==
  /\ Pthread!IInv
  /\ used = "flag" => Waits!FlagIInv
  /\ used = "rwlock" => Waits!Rwlock!TypeOK
  /\ used = "address" => Waits!IInv
  /\ used = "posix" => Waits!PosixIInv
  /\ used = "threads" => Waits!ThreadsIInv
  /\ used = "events" => Waits!EventsIInv

\* An instance has its own name for what it takes from FiniteSets.
LEMMA Finite == Waits!IsFiniteSet(Threads)
BY ObjectsAssumption DEF IsFiniteSet, Waits!IsFiniteSet

LEMMA ObjectsInitHolds == ObjectsInit => ObjectsInv
<1> SUFFICES ASSUME ObjectsInit PROVE ObjectsInv
  OBVIOUS
<1>1. Pthread!IInv
  BY Pthread!InitHolds, ObjectsAssumption DEF ObjectsInit
<1>2. used = "flag" => Waits!FlagIInv
  BY Waits!FlagInitHolds, ObjectsAssumption, Finite DEF ObjectsInit
<1>3. used = "rwlock" => Waits!Rwlock!TypeOK
  BY Waits!RwlockInitHolds, ObjectsAssumption DEF ObjectsInit
<1>4. used = "address" => Waits!IInv
  BY Waits!InitHolds, ObjectsAssumption DEF ObjectsInit
<1>5. used = "posix" => Waits!PosixIInv
  BY Waits!PosixInitHolds, ObjectsAssumption DEF ObjectsInit
<1>6. used = "threads" => Waits!ThreadsIInv
  BY Waits!ThreadsInitHolds, ObjectsAssumption DEF ObjectsInit
<1>7. used = "events" => Waits!EventsIInv
  BY Waits!EventsInitHolds, ObjectsAssumption, Finite DEF ObjectsInit
<1>8. QED
  BY <1>1, <1>2, <1>3, <1>4, <1>5, <1>6, <1>7 DEF ObjectsInv

\* A behaviour uses one component, and leaves the variables of the others alone.
LEMMA UsedSteps ==
  ASSUME [ObjectsNext]_objectVars
  PROVE  /\ used' = used
         /\ [Pthread!Next]_(Pthread!vars)
         /\ used = "flag" => [Waits!Flag!Next]_(Waits!Flag!vars)
         /\ used = "rwlock" => [Waits!Rwlock!Next]_(Waits!Rwlock!vars)
         /\ used = "address" => [Waits!Next]_(Waits!vars)
         /\ used = "posix" => [Waits!Posix!Next]_(Waits!Posix!vars)
         /\ used = "threads" => [Waits!Threading!Next]_(Waits!Threading!vars)
         /\ used = "events" => [Waits!Events!Next]_(Waits!Events!vars)
<1>1. used' = used /\ [Pthread!Next]_(Pthread!vars)
  BY DEF ObjectsNext, objectVars, monitorVars, Pthread!vars, Pthread!mutex, Pthread!cond
<1>2. UNCHANGED objectVars => UNCHANGED all12
  BY DEF objectVars
<1>3. used = "flag" => [Waits!Flag!Next]_(Waits!Flag!vars)
  BY <1>2 DEF ObjectsNext, all12, last7, last6, Waits!Flag!vars
<1>4. used = "rwlock" => [Waits!Rwlock!Next]_(Waits!Rwlock!vars)
  BY <1>2 DEF ObjectsNext, all12, last7, Waits!Rwlock!vars
<1>5. used = "address" => [Waits!Next]_(Waits!vars)
  BY <1>2 DEF ObjectsNext, all12, last7, last6, last5, last4, last2,
              Waits!vars, Waits!host, Waits!local
<1>6. used = "posix" => [Waits!Posix!Next]_(Waits!Posix!vars)
  BY <1>2 DEF ObjectsNext, all12, last7, Waits!Posix!vars
<1>7. used = "threads" => [Waits!Threading!Next]_(Waits!Threading!vars)
  BY <1>2 DEF ObjectsNext, all12, last7, last6, last5, last4,
              Waits!Threading!vars, Waits!Threading!flags
<1>8. used = "events" => [Waits!Events!Next]_(Waits!Events!vars)
  BY <1>2 DEF ObjectsNext, all12, last7, last6, last5, Waits!Events!vars
<1>9. QED
  BY <1>1, <1>3, <1>4, <1>5, <1>6, <1>7, <1>8

LEMMA ObjectsStepKeeps ==
  ASSUME ObjectsInv, [ObjectsNext]_objectVars PROVE ObjectsInv'
<1>1. Pthread!IInv'
  BY UsedSteps, Pthread!StepKeeps, ObjectsAssumption DEF ObjectsInv
<1>2. used = "flag" => Waits!FlagIInv'
  BY UsedSteps, Waits!FlagStepKeeps, ObjectsAssumption, Finite DEF ObjectsInv
<1>3. used = "rwlock" => Waits!Rwlock!TypeOK'
  BY UsedSteps, Waits!RwlockStepKeeps, ObjectsAssumption, Finite DEF ObjectsInv
<1>4. used = "address" => Waits!IInv'
  BY UsedSteps, Waits!StepKeeps, ObjectsAssumption DEF ObjectsInv
<1>5. used = "posix" => Waits!PosixIInv'
  BY UsedSteps, Waits!PosixStepKeeps, ObjectsAssumption DEF ObjectsInv
<1>6. used = "threads" => Waits!ThreadsIInv'
  BY UsedSteps, Waits!ThreadsStepKeeps, ObjectsAssumption DEF ObjectsInv
<1>7. used = "events" => Waits!EventsIInv'
  BY UsedSteps, Waits!EventsStepKeeps, ObjectsAssumption, Finite DEF ObjectsInv
<1>8. QED
  BY <1>1, <1>2, <1>3, <1>4, <1>5, <1>6, <1>7, UsedSteps DEF ObjectsInv

LEMMA ObjectsInvHolds == ObjectsSpec => []ObjectsInv
<1>1. ObjectsInv /\ [ObjectsNext]_objectVars => ObjectsInv'
  BY ObjectsStepKeeps
<1>2. QED
  BY <1>1, ObjectsInitHolds, PTL DEF ObjectsSpec

-----------------------------------------------------------------------------

\* The event flag of any behaviour counts its waiters and leaves none asleep.
THEOREM FlagIsServed == ObjectsSpec => []FlagInv
<1>1. ObjectsInv => FlagInv
  BY DEF ObjectsInv, FlagInv, Waits!FlagIInv
<1>2. QED
  BY <1>1, ObjectsInvHolds, PTL

\* Mutexes, conditions and read-write locks are exclusive.
THEOREM LocksAreExclusive == ObjectsSpec => []LocksInv
<1>1. ObjectsInv => LocksInv
  BY DEF ObjectsInv, LocksInv
<1>2. QED
  BY <1>1, ObjectsInvHolds, PTL

\* Whoever waits for a word can be found by a wake.
THEOREM WordsHaveTheirWaiters == ObjectsSpec => []WaitersAreReachable
<1>1. ObjectsInv => WaitersAreReachable
  BY Waits!Reachable DEF ObjectsInv, WaitersAreReachable
<1>2. QED
  BY <1>1, ObjectsInvHolds, PTL

\* No unit of a POSIX semaphore is left while a thread sleeps for one.
THEOREM UnitsReachSleepers == ObjectsSpec => []PosixSemInv
<1>1. ObjectsInv => PosixSemInv
  BY DEF ObjectsInv, PosixSemInv, Waits!PosixIInv
<1>2. QED
  BY <1>1, ObjectsInvHolds, PTL

\* What is triggered on an event queue is received once and in order, and no trigger
\* is left while a waiter sleeps.
THEOREM EventsReachWaiters == ObjectsSpec => []EventsInv
<1>1. ObjectsInv => EventsInv
  BY DEF ObjectsInv, EventsInv, Waits!EventsIInv
<1>2. QED
  BY <1>1, ObjectsInvHolds, PTL

\* A thread is joined once and its record has one user at a time.
THEOREM ThreadsHaveTheirRecords == ObjectsSpec => []ThreadsInv
<1>1. ObjectsInv => ThreadsInv
  BY Waits!OneUser, ObjectsAssumption DEF ObjectsInv, ThreadsInv
<1>2. QED
  BY <1>1, ObjectsInvHolds, PTL

\* Cancel and the destructor of a flag leave nobody, and a wake for everybody is
\* lost by nobody on hosts without a futex.
THEOREM WakesReachAll == ObjectsSpec => WakesAreTotal
<1>1. ASSUME ObjectsInv, ObjectsNext
      PROVE  /\ used = "flag" => Waits!Flag!CancelIsExclusive /\ Waits!Flag!CancelLeavesNobody
             /\ used = "address" => Waits!KeepsWakes("portable")
  <2>1. used = "flag" => Waits!Flag!Next
    BY <1>1 DEF ObjectsNext
  <2>2. used = "flag" => Waits!Flag!CancelIsExclusive /\ Waits!Flag!CancelLeavesNobody
    BY <1>1, <2>1, Waits!FlagStepIsTotal, ObjectsAssumption, Finite DEF ObjectsInv
  <2>3. used = "address" => Waits!Next
    BY <1>1 DEF ObjectsNext
  <2>4. used = "address" => Waits!KeepsWakes("portable")
    BY <1>1, <2>3, Waits!WakesAreKept, ObjectsAssumption DEF ObjectsInv
  <2>5. QED
    BY <2>2, <2>4
<1>2. QED
  BY <1>1, ObjectsInvHolds, PTL DEF ObjectsSpec, WakesAreTotal

\* A mutex and its condition are a monitor, whichever object a behaviour uses.
THEOREM ObjectsImplementMonitor == ObjectsSpec => ImplementsMonitor
<1>1. ObjectsInit => Pthread!Abstract!Init
  BY Pthread!InitImplements DEF ObjectsInit
<1>2. ObjectsInv /\ [ObjectsNext]_objectVars
        => [Pthread!Abstract!Next]_(Pthread!Abstract!vars)
  BY UsedSteps, Pthread!StepImplements, ObjectsAssumption DEF ObjectsInv
<1>3. QED
  BY <1>1, <1>2, ObjectsInvHolds, PTL
     DEF ObjectsSpec, ImplementsMonitor, Pthread!ImplementsMonitor, Pthread!Abstract!Spec
=============================================================================
