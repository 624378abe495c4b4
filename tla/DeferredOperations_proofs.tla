---------------------- MODULE DeferredOperations_proofs ----------------------
(***************************************************************************)
(* Proofs about DeferredOperations, for any threads, submissions and       *)
(* operations: an operation runs after the GPU and after the priority      *)
(* operations before it, and a shutdown drops none.                        *)
(***************************************************************************)
EXTENDS DeferredOperations, TLAPS

(***************************************************************************)
(* The invariant.                                                          *)
(***************************************************************************)

Op == [prio : BOOLEAN, tick : 0 .. MaxTick, status : Statuses]

Places == {"idle", "late", "waits", "pops", "yields", "runs", "submits", "retires",
           "drains", "stops", "wakes", "joins", "tells", "follows"}

TypesOK ==
  /\ phase \in {"Open", "Draining", "Closed"} /\ stop \in BOOLEAN
  /\ pc \in [Threads -> Places] /\ arg \in [Threads -> Nat]
  /\ closer \in Threads \cup {None}
  /\ asleep \subseteq Threads \cup {Runner} /\ owes \subseteq Threads \cup {Runner}

\* What is known of the timeline is behind it, and it behind the submissions.
ClockOK ==
  /\ tick \in 1 .. MaxTick + 1 /\ done \in 0 .. tick - 1 /\ known \in 0 .. done
  /\ phase = "Open" \/ (phase = "Draining" /\ pc[closer] = "submits") => tick <= MaxTick

\* The Owner pops as long as nobody shuts down, then who shuts down does.
Popping(t) == pc[t] \in {"pops", "yields", "runs"}
Closing(t) == pc[t] \in {"submits", "retires", "drains", "stops", "wakes", "joins"}

StagesOK ==
  /\ \A t \in Threads :
       /\ Popping(t) => \/ phase = "Open" /\ t = Owner
                        \/ phase = "Draining" /\ t = closer
       /\ Closing(t) => phase = "Draining" /\ t = closer
       /\ pc[t] = "tells" => phase = "Closed"
  /\ phase = "Open" => closer = None
  /\ phase = "Draining" => closer \in Threads /\ (Popping(closer) \/ Closing(closer))
  /\ stop <=> \/ phase = "Closed"
              \/ phase = "Draining" /\ pc[closer] \in {"wakes", "joins"}

\* The ticks of operations that were queued do not fall.
TicksOK ==
  /\ ops \in Seq(Op)
  /\ \A o \in DOMAIN ops :
       /\ ops[o].tick <= tick /\ ops[o].status # "dropped"
       /\ ops[o].status # "done" => ops[o].tick > 0
       /\ ops[o].status \in {"running", "done"} => ops[o].tick <= done
  /\ \A o, p \in DOMAIN ops :
       o < p /\ ops[o].tick > 0 /\ ops[p].tick > 0 => ops[o].tick <= ops[p].tick

\* A queue has the operations of its kind that are queued, in their order.
QueueIn(q, all, prio) ==
  /\ q \in Seq(1 .. Len(all))
  /\ \A i, j \in DOMAIN q : i < j => q[i] < q[j]
  /\ \A i \in DOMAIN q : all[q[i]].status = "queued" /\ all[q[i]].prio = prio
  /\ \A o \in DOMAIN all :
       all[o].status = "queued" /\ all[o].prio = prio => \E i \in DOMAIN q : q[i] = o

QueuesOK == QueueIn(pending, ops, FALSE) /\ QueueIn(priority, ops, TRUE)

\* The priority operation that was taken is the active one, ...
RunnerOK ==
  /\ runner \in {"top", "poised", "waits", "runs", "clears", "notifies", "exited"}
  /\ active # 0 <=> runner \in {"waits", "runs", "clears"}
  /\ active # 0 => /\ active \in DOMAIN ops /\ ops[active].prio
                   /\ runner = "waits" => ops[active].status = "taken"
                   /\ runner = "runs" => ops[active].status = "running"
                   /\ runner = "clears" => ops[active].status = "done"
  /\ \A o \in DOMAIN ops :
       ops[o].prio /\ ops[o].status \in {"taken", "running"} => o = active

\* ... and a normal one is with the thread that pops.
PopperOK ==
  /\ \A t \in Threads :
       pc[t] \in {"yields", "runs"} =>
         /\ arg[t] \in DOMAIN ops /\ ~ops[arg[t]].prio
         /\ pc[t] = "yields" => ops[arg[t]].status = "taken" /\ ops[arg[t]].tick <= known
         /\ pc[t] = "runs" => ops[arg[t]].status = "running"
  /\ \A o \in DOMAIN ops :
       ~ops[o].prio /\ ops[o].status \in {"taken", "running"} =>
         \E t \in Threads : pc[t] \in {"yields", "runs"} /\ arg[t] = o

\* What a shutdown has behind it at each of its stages.
DrainOK ==
  /\ phase = "Draining" =>
       /\ pc[closer] # "submits" => \A o \in DOMAIN ops : ops[o].tick < tick
       /\ pc[closer] \notin {"submits", "retires"} => \A o \in DOMAIN ops : ops[o].tick <= known
       /\ pc[closer] \in {"drains", "stops", "wakes", "joins"} => pending = <<>>
       /\ pc[closer] \in {"stops", "wakes", "joins"} => priority = <<>> /\ active = 0
  /\ NothingLost

Books == TicksOK /\ QueuesOK /\ RunnerOK /\ PopperOK /\ PriorityFirst

Course == TypesOK /\ ClockOK /\ StagesOK /\ DrainOK

IInv == Books /\ Course

(***************************************************************************)
(* Operations and queues as a step changes them.                           *)
(***************************************************************************)

LEMMA StatusIsSet ==
  ASSUME ops \in Seq(Op), NEW o \in DOMAIN ops, NEW s \in Statuses, SetStatus(o, s)
  PROVE  /\ ops' \in Seq(Op) /\ Len(ops') = Len(ops) /\ DOMAIN ops' = DOMAIN ops
         /\ \A p \in DOMAIN ops : /\ ops'[p].tick = ops[p].tick /\ ops'[p].prio = ops[p].prio
                                  /\ p # o => ops'[p].status = ops[p].status
         /\ ops'[o].status = s
<1>1. ops' = [ops EXCEPT ![o].status = s]
  BY DEF SetStatus
<1>2. ops[o] \in Op
  OBVIOUS
<1>3. [ops[o] EXCEPT !.status = s] \in Op
  BY <1>2 DEF Op
<1>4. \A p \in DOMAIN ops : ops'[p] = IF p = o THEN [ops[o] EXCEPT !.status = s] ELSE ops[p]
  BY <1>1
<1>5. ops' \in Seq(Op) /\ Len(ops') = Len(ops) /\ DOMAIN ops' = DOMAIN ops
  BY <1>1, <1>3
<1>6. QED
  BY <1>2, <1>4, <1>5 DEF Op

LEMMA IsAppended ==
  ASSUME ops \in Seq(Op), NEW new \in Op, ops' = Append(ops, new)
  PROVE  /\ ops' \in Seq(Op) /\ Len(ops) \in Nat /\ Len(ops') = Len(ops) + 1
         /\ DOMAIN ops = 1 .. Len(ops) /\ DOMAIN ops' = 1 .. Len(ops) + 1
         /\ ops'[Len(ops) + 1] = new
         /\ \A p \in DOMAIN ops : ops'[p] = ops[p]
OBVIOUS

\* A queue stays as it is when nothing it is about changes, ...
LEMMA QueueStays ==
  ASSUME NEW q, NEW all, NEW all2, NEW prio, QueueIn(q, all, prio),
         Len(all2) = Len(all), DOMAIN all2 = DOMAIN all,
         \A o \in DOMAIN all :
           /\ all2[o].prio = all[o].prio
           /\ all[o].prio # prio \/ (all2[o].status = "queued" <=> all[o].status = "queued")
  PROVE  QueueIn(q, all2, prio)
<1>1. \A i \in DOMAIN q : q[i] \in 1 .. Len(all)
  BY DEF QueueIn
<1>2. QED
  BY DEF QueueIn

LEMMA QueueGrows ==
  ASSUME NEW q, NEW all, NEW all2, NEW prio, QueueIn(q, all, prio),
         Len(all) \in Nat, Len(all2) = Len(all) + 1,
         DOMAIN all = 1 .. Len(all), DOMAIN all2 = 1 .. Len(all) + 1,
         \A o \in DOMAIN all : all2[o] = all[o],
         all2[Len(all) + 1].status = "queued", all2[Len(all) + 1].prio = prio
  PROVE  QueueIn(Append(q, Len(all) + 1), all2, prio)
<1> DEFINE r == Append(q, Len(all) + 1)
<1>1. q \in Seq(1 .. Len(all)) /\ q \in Seq(1 .. Len(all) + 1)
  BY DEF QueueIn
<1>2. /\ r \in Seq(1 .. Len(all2)) /\ Len(q) \in Nat
      /\ DOMAIN q = 1 .. Len(q) /\ DOMAIN r = 1 .. Len(q) + 1 /\ r[Len(q) + 1] = Len(all) + 1
      /\ \A i \in 1 .. Len(q) : r[i] = q[i] /\ q[i] \in 1 .. Len(all)
  BY <1>1
<1>10. /\ \A i, j \in DOMAIN q : i < j => q[i] < q[j]
       /\ \A i \in DOMAIN q : all[q[i]].status = "queued" /\ all[q[i]].prio = prio
  BY DEF QueueIn
<1> HIDE DEF r
<1>3. ASSUME NEW i \in DOMAIN r, NEW j \in DOMAIN r, i < j
      PROVE  r[i] < r[j]
  <2>1. i \in 1 .. Len(q)
    BY <1>2, <1>3
  <2>2. CASE j = Len(q) + 1
    BY <1>2, <2>1, <2>2
  <2>3. CASE j # Len(q) + 1
    BY <1>2, <1>3, <1>10, <2>1, <2>3
  <2>4. QED
    BY <2>2, <2>3
<1>4. ASSUME NEW i \in DOMAIN r
      PROVE  all2[r[i]].status = "queued" /\ all2[r[i]].prio = prio
  <2>1. CASE i = Len(q) + 1
    BY <1>2, <2>1
  <2>2. CASE i # Len(q) + 1
    <3>1. i \in DOMAIN q /\ r[i] = q[i] /\ r[i] \in DOMAIN all
      BY <1>2, <2>2
    <3>2. QED
      BY <1>10, <3>1
  <2>3. QED
    BY <2>1, <2>2
<1>5. ASSUME NEW o \in DOMAIN all2, all2[o].status = "queued", all2[o].prio = prio
      PROVE  \E i \in DOMAIN r : r[i] = o
  <2>1. CASE o = Len(all) + 1
    BY <1>2, <2>1
  <2>2. CASE o # Len(all) + 1
    <3>1. o \in DOMAIN all
      BY <2>2
    <3>2. PICK i \in DOMAIN q : q[i] = o
      BY <1>5, <3>1 DEF QueueIn
    <3>3. QED
      BY <1>2, <3>2
  <2>3. QED
    BY <2>1, <2>2
<1>6. QED
  BY <1>2, <1>3, <1>4, <1>5 DEF QueueIn, r

\* ... also when an operation is added that it is not for.
LEMMA QueueSkips ==
  ASSUME NEW q, NEW all, NEW all2, NEW prio, QueueIn(q, all, prio),
         Len(all) \in Nat, Len(all2) = Len(all) + 1,
         DOMAIN all = 1 .. Len(all), DOMAIN all2 = 1 .. Len(all) + 1,
         \A o \in DOMAIN all : all2[o] = all[o],
         all2[Len(all) + 1].status # "queued" \/ all2[Len(all) + 1].prio # prio
  PROVE  QueueIn(q, all2, prio)
<1>1. q \in Seq(1 .. Len(all)) /\ q \in Seq(1 .. Len(all2))
  BY DEF QueueIn
<1>2. \A i \in DOMAIN q : q[i] \in DOMAIN all
  BY <1>1
<1>3. \A o \in DOMAIN all2 : o = Len(all) + 1 \/ o \in DOMAIN all
  OBVIOUS
<1>4. /\ \A i, j \in DOMAIN q : i < j => q[i] < q[j]
      /\ \A i \in DOMAIN q : all2[q[i]].status = "queued" /\ all2[q[i]].prio = prio
  BY <1>2 DEF QueueIn
<1>5. \A o \in DOMAIN all2 :
        all2[o].status = "queued" /\ all2[o].prio = prio => \E i \in DOMAIN q : q[i] = o
  BY <1>3 DEF QueueIn
<1>6. QED
  BY <1>1, <1>4, <1>5 DEF QueueIn

\* Only the status of one operation differs.
Alters(all, all2, o) ==
  /\ Len(all) \in Nat /\ DOMAIN all = 1 .. Len(all)
  /\ Len(all2) = Len(all) /\ DOMAIN all2 = DOMAIN all
  /\ \A p \in DOMAIN all : /\ all2[p].prio = all[p].prio
                           /\ p # o => all2[p].status = all[p].status

\* A queue whose front is taken.
LEMMA QueueShrinks ==
  ASSUME NEW q, NEW all, NEW all2, NEW prio, QueueIn(q, all, prio), q # <<>>,
         Alters(all, all2, Head(q)), all2[Head(q)].status # "queued"
  PROVE  /\ QueueIn(Tail(q), all2, prio)
         /\ Head(q) \in DOMAIN all /\ all[Head(q)].status = "queued" /\ all[Head(q)].prio = prio
<1> DEFINE h == Head(q)
<1> DEFINE r == Tail(q)
<1>0. /\ Len(all) \in Nat /\ Len(all2) = Len(all) /\ DOMAIN all = 1 .. Len(all) /\ DOMAIN all2 = DOMAIN all
      /\ \A o \in DOMAIN all : /\ all2[o].prio = all[o].prio
                               /\ o # h => all2[o].status = all[o].status
      /\ all2[h].status # "queued"
  BY DEF Alters
<1> DEFINE l == Len(q)
<1>1. /\ q \in Seq(1 .. Len(all)) /\ r \in Seq(1 .. Len(all2)) /\ h = q[1]
      /\ l \in Nat \ {0} /\ DOMAIN q = 1 .. l /\ DOMAIN r = 1 .. l - 1
      /\ \A i \in 1 .. l - 1 : r[i] = q[i + 1]
      /\ \A i \in 1 .. l : q[i] \in DOMAIN all
  BY <1>0 DEF QueueIn
<1> HIDE DEF l, h, r
<1>2. /\ r \in Seq(1 .. Len(all2)) /\ l \in Nat \ {0}
  BY <1>1
<1>3. /\ \A i, j \in 1 .. l : i < j => q[i] < q[j]
      /\ \A i \in 1 .. l : all[q[i]].status = "queued" /\ all[q[i]].prio = prio
  BY <1>1 DEF QueueIn
<1>4. ASSUME NEW i \in 1 .. l - 1
      PROVE  /\ i + 1 \in 1 .. l /\ r[i] = q[i + 1] /\ r[i] \in DOMAIN all
             /\ q[1] < q[i + 1]
  <2>1. i + 1 \in 1 .. l /\ 1 \in 1 .. l /\ 1 < i + 1
    BY <1>2
  <2>2. QED
    BY <1>1, <1>3, <2>1
<1>5. ASSUME NEW i \in 1 .. l - 1, NEW j \in 1 .. l - 1, i < j
      PROVE  r[i] < r[j]
  <2>1. i + 1 < j + 1
    BY <1>2, <1>5
  <2>2. QED
    BY <1>3, <1>4, <2>1
<1>6. ASSUME NEW i \in 1 .. l - 1
      PROVE  all2[r[i]].status = "queued" /\ all2[r[i]].prio = prio
  <2>1. r[i] \in Nat /\ q[1] \in Nat /\ q[1] < r[i]
    <3>1. i + 1 \in 1 .. l /\ 1 \in 1 .. l /\ r[i] = q[i + 1] /\ q[1] < q[i + 1]
      BY <1>2, <1>4
    <3>2. q[1] \in DOMAIN all /\ q[i + 1] \in DOMAIN all
      BY <1>1, <3>1
    <3>3. DOMAIN all = 1 .. Len(all) /\ Len(all) \in Nat
      BY <1>0
    <3>4. QED
      BY <3>1, <3>2, <3>3
  <2>2. r[i] # h /\ r[i] \in DOMAIN all
    BY <1>1, <1>4, <2>1
  <2>3. all[r[i]].status = "queued" /\ all[r[i]].prio = prio
    BY <1>3, <1>4
  <2>4. QED
    BY <1>0, <2>2, <2>3
<1>7. ASSUME NEW o \in DOMAIN all2, all2[o].status = "queued", all2[o].prio = prio
      PROVE  \E i \in 1 .. l - 1 : r[i] = o
  <2>1. o # h /\ o \in DOMAIN all
    BY <1>0, <1>7
  <2>2. PICK i \in 1 .. l : q[i] = o
    BY <1>0, <1>1, <1>7, <2>1 DEF QueueIn
  <2>3. i # 1
    BY <1>1, <2>1, <2>2
  <2>4. i - 1 \in 1 .. l - 1 /\ (i - 1) + 1 = i
    BY <1>2, <2>3
  <2>5. QED
    BY <1>4, <2>2, <2>4
<1>8. /\ h \in DOMAIN all /\ all[h].status = "queued" /\ all[h].prio = prio
  <2>1. 1 \in 1 .. l
    BY <1>2
  <2>2. QED
    BY <1>1, <1>3, <2>1
<1>9. QueueIn(r, all2, prio)
  BY <1>0, <1>1, <1>2, <1>5, <1>6, <1>7 DEF QueueIn
<1>10. QED
  BY <1>8, <1>9 DEF h, r

LEMMA TickIsNumber ==
  ASSUME TicksOK, NEW o \in DOMAIN ops
  PROVE  /\ ops[o].tick \in Nat /\ ops[o].tick <= MaxTick /\ ops[o].status \in Statuses
         /\ ops[o].prio \in BOOLEAN
<1>1. ops[o] \in Op
  BY DEF TicksOK
<1>2. QED
  BY <1>1 DEF Op

\* What is not the front of a queue is not older than it.
LEMMA FrontIsOldest ==
  ASSUME TicksOK, QueuesOK, priority # <<>>, NEW o \in DOMAIN ops,
         ops[o].prio, ops[o].status = "queued"
  PROVE  ops[Head(priority)].tick <= ops[o].tick
<1>1. /\ Len(priority) \in Nat \ {0} /\ DOMAIN priority = 1 .. Len(priority)
      /\ Head(priority) = priority[1] /\ Head(priority) \in 1 .. Len(ops)
      /\ \A i \in DOMAIN priority : priority[i] \in 1 .. Len(ops)
  BY DEF QueuesOK, QueueIn
<1>2. DOMAIN ops = 1 .. Len(ops) /\ Len(ops) \in Nat
  BY DEF TicksOK
<1>3. /\ \A i, j \in DOMAIN priority : i < j => priority[i] < priority[j]
      /\ \A i \in DOMAIN priority : ops[priority[i]].status = "queued"
  BY DEF QueuesOK, QueueIn
<1>4. PICK i \in DOMAIN priority : priority[i] = o
  BY DEF QueuesOK, QueueIn
<1>5. ops[o].tick \in Nat /\ ops[Head(priority)].tick \in Nat
  BY <1>1, <1>2, TickIsNumber
<1>6. ops[Head(priority)].status = "queued"
  <2>1. 1 \in DOMAIN priority
    BY <1>1
  <2>2. QED
    BY <1>1, <1>3, <2>1
<1>7. ops[Head(priority)].tick > 0 /\ ops[o].tick > 0
  BY <1>1, <1>2, <1>6 DEF TicksOK
<1>8. CASE i = 1
  BY <1>1, <1>4, <1>5, <1>8
<1>9. CASE i # 1
  <2>1. Head(priority) < o
    BY <1>1, <1>3, <1>4, <1>9
  <2>2. QED
    BY <1>1, <1>2, <1>7, <2>1 DEF TicksOK
<1>10. QED
  BY <1>8, <1>9

\* Where PriorityDone says so, no priority operation up to that tick is left.
LEMMA NoneIsLeft ==
  ASSUME TicksOK, QueuesOK, RunnerOK, NEW k \in Nat, PriorityDone(k), NEW p \in DOMAIN ops,
         ops[p].prio, ops[p].tick <= k
  PROVE  ops[p].status = "done"
<1>1. ops[p].status \in Statuses /\ ops[p].tick \in Nat
  BY TickIsNumber
<1>2. ops[p].status \notin {"taken", "running"}
  <2>1. SUFFICES ASSUME ops[p].status \in {"taken", "running"} PROVE FALSE
    OBVIOUS
  <2>2. p = active /\ active # 0
    BY <2>1 DEF RunnerOK, TicksOK
  <2>3. QED
    BY <2>2 DEF PriorityDone
<1>3. ops[p].status # "queued"
  <2>1. SUFFICES ASSUME ops[p].status = "queued" PROVE FALSE
    OBVIOUS
  <2>2. priority # <<>>
    BY <2>1 DEF QueuesOK, QueueIn
  <2>3. Head(priority) \in DOMAIN ops
    BY <2>2 DEF QueuesOK, QueueIn, TicksOK
  <2>4. ops[Head(priority)].tick \in Nat
    BY <2>3, TickIsNumber
  <2>5. ops[Head(priority)].tick <= ops[p].tick
    BY <2>1, <2>2, FrontIsOldest
  <2>6. QED
    BY <1>1, <2>2, <2>4, <2>5 DEF PriorityDone
<1>4. QED
  BY <1>1, <1>2, <1>3 DEF TicksOK, Statuses

(***************************************************************************)
(* The books: operations, queues, who has what was taken.                  *)
(***************************************************************************)

\* The same threads have the same normal operations.
SamePoppers == \A t \in Threads :
  pc[t] \in {"yields", "runs"} \/ pc'[t] \in {"yields", "runs"} =>
    pc'[t] = pc[t] /\ arg'[t] = arg[t]

Later == /\ tick' \in Nat /\ done' \in Nat /\ known' \in Nat
         /\ tick <= tick' /\ done <= done' /\ known <= known'

\* The Runner goes on without an operation.
SameRunner == \/ runner' = runner
              \/ active = 0 /\ runner' \in {"top", "poised", "notifies", "exited"}

LEMMA BooksStay ==
  ASSUME Books, ClockOK, UNCHANGED <<ops, pending, priority, active>>,
         Later, SamePoppers, SameRunner
  PROVE  Books'
<1>1. /\ tick \in Nat /\ done \in Nat /\ known \in Nat
      /\ tick' \in Nat /\ done' \in Nat /\ known' \in Nat
      /\ tick <= tick' /\ done <= done' /\ known <= known'
  BY DEF ClockOK, Later
<1>2. \A o \in DOMAIN ops : ops[o].tick \in Nat
  BY TickIsNumber DEF Books
<1>3. TicksOK'
  BY <1>1, <1>2 DEF Books, TicksOK
<1>4. QueuesOK' /\ PriorityFirst'
  BY DEF Books, QueuesOK, PriorityFirst
<1>5. RunnerOK'
  BY DEF Books, RunnerOK, SameRunner
<1>6. PopperOK'
  BY <1>1, <1>2 DEF Books, PopperOK, SamePoppers
<1>7. QED
  BY <1>3, <1>4, <1>5, <1>6 DEF Books

\* A new operation is queued with the tick of now, or was run at once.
LEMMA BooksGrow ==
  ASSUME Books, ClockOK, NEW new \in Op, ops' = Append(ops, new), QueuesOK',
         \/ new.status = "done" /\ new.tick = 0
         \/ new.status = "queued" /\ new.tick = tick,
         UNCHANGED <<clock, active, runner>>, SamePoppers
  PROVE  Books'
<1>1. /\ tick \in Nat /\ done \in Nat /\ known \in Nat /\ tick > 0 /\ done < tick
      /\ tick' = tick /\ done' = done /\ known' = known
  BY DEF ClockOK, clock
<1> DEFINE n == Len(ops) + 1
<1>0. n \in Nat
  BY DEF Books, TicksOK
<1>2. /\ ops' \in Seq(Op)
      /\ DOMAIN ops = 1 .. n - 1 /\ DOMAIN ops' = 1 .. n
      /\ ops'[n] = new
      /\ \A p \in DOMAIN ops : ops'[p] = ops[p]
  BY IsAppended DEF Books, TicksOK
<1> HIDE DEF n
<1>3. \A o \in DOMAIN ops : ops[o].tick \in Nat
  BY TickIsNumber DEF Books
<1>4. \A o \in DOMAIN ops' : o = n \/ (o \in DOMAIN ops /\ o < n)
  <2>1. \A o \in 1 .. n : o = n \/ (o \in 1 .. n - 1 /\ o < n)
    BY <1>0
  <2>2. QED
    BY <1>2, <2>1
<1>5. TicksOK'
  <2>1. ASSUME NEW o \in DOMAIN ops'
        PROVE  /\ ops'[o].tick <= tick' /\ ops'[o].status # "dropped"
               /\ ops'[o].status # "done" => ops'[o].tick > 0
               /\ ops'[o].status \in {"running", "done"} => ops'[o].tick <= done'
    <3>1. CASE o = n
      BY <1>1, <1>2, <3>1
    <3>2. CASE o # n
      BY <1>1, <1>2, <1>4, <3>2 DEF Books, TicksOK
    <3>3. QED
      BY <3>1, <3>2
  <2>2. ASSUME NEW o \in DOMAIN ops', NEW p \in DOMAIN ops',
               o < p, ops'[o].tick > 0, ops'[p].tick > 0
        PROVE  ops'[o].tick <= ops'[p].tick
    <3>1. o \in DOMAIN ops /\ ops'[o] = ops[o]
      <4>1. o # n /\ o \in DOMAIN ops
        BY <1>0, <1>4, <2>2
      <4>2. QED
        BY <1>2, <4>1
    <3>2. CASE p = n
      BY <1>1, <1>2, <2>2, <3>1, <3>2 DEF Books, TicksOK
    <3>3. CASE p # n
      BY <1>2, <1>4, <2>2, <3>1, <3>3 DEF Books, TicksOK
    <3>4. QED
      BY <3>2, <3>3
  <2>3. QED
    BY <1>2, <2>1, <2>2 DEF TicksOK
<1>6. RunnerOK'
  <2>1. \A o \in DOMAIN ops' : ops'[o].status \in {"taken", "running"} => o \in DOMAIN ops
    BY <1>2, <1>4
  <2>2. active' = active /\ runner' = runner
    OBVIOUS
  <2>3. DOMAIN ops \subseteq DOMAIN ops'
    BY <1>0, <1>2
  <2>4. QED
    BY <1>2, <2>1, <2>2, <2>3 DEF Books, RunnerOK
<1>7. PopperOK'
  <2>1. \A o \in DOMAIN ops' : ops'[o].status \in {"taken", "running"} => o \in DOMAIN ops
    BY <1>2, <1>4
  <2>2. DOMAIN ops \subseteq DOMAIN ops'
    BY <1>0, <1>2
  <2>3. ASSUME NEW t \in Threads, pc'[t] \in {"yields", "runs"}
        PROVE  /\ arg'[t] \in DOMAIN ops' /\ ~ops'[arg'[t]].prio
               /\ pc'[t] = "yields" =>
                    ops'[arg'[t]].status = "taken" /\ ops'[arg'[t]].tick <= known'
               /\ pc'[t] = "runs" => ops'[arg'[t]].status = "running"
    <3>1. pc'[t] = pc[t] /\ arg'[t] = arg[t]
      BY <2>3 DEF SamePoppers
    <3>2. /\ arg[t] \in DOMAIN ops /\ ~ops[arg[t]].prio
          /\ pc[t] = "yields" => ops[arg[t]].status = "taken" /\ ops[arg[t]].tick <= known
          /\ pc[t] = "runs" => ops[arg[t]].status = "running"
      BY <2>3, <3>1 DEF Books, PopperOK
    <3>3. arg[t] \in DOMAIN ops' /\ ops'[arg[t]] = ops[arg[t]]
      BY <1>2, <2>2, <3>2
    <3>4. QED
      BY <1>1, <3>1, <3>2, <3>3
  <2>4. ASSUME NEW o \in DOMAIN ops', ~ops'[o].prio, ops'[o].status \in {"taken", "running"}
        PROVE  \E t \in Threads : pc'[t] \in {"yields", "runs"} /\ arg'[t] = o
    <3>1. o \in DOMAIN ops /\ ops'[o] = ops[o]
      BY <1>2, <2>1, <2>4
    <3>2. PICK t \in Threads : pc[t] \in {"yields", "runs"} /\ arg[t] = o
      BY <2>4, <3>1 DEF Books, PopperOK
    <3>3. QED
      BY <3>2 DEF SamePoppers
  <2>5. QED
    BY <2>3, <2>4 DEF PopperOK
<1>8. PriorityFirst'
  <2>1. SUFFICES ASSUME NEW o \in DOMAIN ops', NEW p \in DOMAIN ops',
                        ~ops'[o].prio, ops'[o].status = "running",
                        ops'[p].prio, ops'[p].tick <= ops'[o].tick
                 PROVE  ops'[p].status = "done"
    BY DEF PriorityFirst
  <2>2. o \in DOMAIN ops /\ ops'[o] = ops[o]
    BY <1>2, <1>4, <2>1
  <2>3. CASE p = n
    <3>1. ops[o].tick <= done
      BY <2>1, <2>2 DEF Books, TicksOK
    <3>2. QED
      BY <1>1, <1>2, <1>3, <2>1, <2>2, <2>3, <3>1
  <2>4. CASE p # n
    <3>1. p \in DOMAIN ops /\ ops'[p] = ops[p]
      BY <1>2, <1>4, <2>1, <2>4
    <3>2. /\ ~ops[o].prio /\ ops[o].status = "running"
          /\ ops[p].prio /\ ops[p].tick <= ops[o].tick
      BY <2>1, <2>2, <3>1
    <3>3. ops[p].status = "done"
      BY <2>2, <3>1, <3>2 DEF Books, PriorityFirst
    <3>4. QED
      BY <3>1, <3>3
  <2>5. QED
    BY <2>3, <2>4
<1>9. QED
  BY <1>5, <1>6, <1>7, <1>8 DEF Books

LEMMA PushGrows ==
  ASSUME DeferredAssumption, Books, ClockOK, NEW t, NEW prio \in BOOLEAN, Push(t, prio),
         UNCHANGED <<clock, active, runner>>, SamePoppers
  PROVE  Books'
<1> DEFINE new == Operation(prio, tick, "queued")
<1>1. new \in Op /\ ops' = Append(ops, new) /\ phase = "Open"
  BY DEF DeferredAssumption, Push, Op, Operation, ClockOK, Statuses
<1>2. /\ Len(ops) \in Nat /\ Len(ops') = Len(ops) + 1
      /\ DOMAIN ops = 1 .. Len(ops) /\ DOMAIN ops' = 1 .. Len(ops) + 1
      /\ ops'[Len(ops) + 1] = new
      /\ \A p \in DOMAIN ops : ops'[p] = ops[p]
  BY <1>1, IsAppended DEF Books, TicksOK
<1>3. new.status = "queued" /\ new.prio = prio /\ new.tick = tick
  BY DEF Operation
<1> HIDE DEF new
<1>4. QueuesOK'
  <2>1. CASE prio
    <3>1. priority' = Append(priority, Len(ops) + 1) /\ pending' = pending
      BY <2>1 DEF Push
    <3>2. QueueIn(priority', ops', TRUE)
      BY <1>2, <1>3, <2>1, <3>1, QueueGrows DEF Books, QueuesOK
    <3>3. QueueIn(pending', ops', FALSE)
      BY <1>2, <1>3, <2>1, <3>1, QueueSkips DEF Books, QueuesOK
    <3>4. QED
      BY <3>2, <3>3 DEF QueuesOK
  <2>2. CASE ~prio
    <3>1. pending' = Append(pending, Len(ops) + 1) /\ priority' = priority
      BY <2>2 DEF Push
    <3>2. QueueIn(pending', ops', FALSE)
      BY <1>2, <1>3, <2>2, <3>1, QueueGrows DEF Books, QueuesOK
    <3>3. QueueIn(priority', ops', TRUE)
      BY <1>2, <1>3, <2>2, <3>1, QueueSkips DEF Books, QueuesOK
    <3>4. QED
      BY <3>2, <3>3 DEF QueuesOK
  <2>3. QED
    BY <2>1, <2>2
<1>5. QED
  BY <1>1, <1>3, <1>4, BooksGrow

LEMMA RunAtOnceGrows ==
  ASSUME DeferredAssumption, Books, ClockOK, NEW prio \in BOOLEAN,
         ops' = Append(ops, Operation(prio, 0, "done")),
         UNCHANGED <<clock, pending, priority, active, runner>>, SamePoppers
  PROVE  Books'
<1> DEFINE new == Operation(prio, 0, "done")
<1>1. new \in Op /\ ops' = Append(ops, new)
  BY DEF DeferredAssumption, Op, Operation, Statuses
<1>2. /\ Len(ops) \in Nat /\ Len(ops') = Len(ops) + 1
      /\ DOMAIN ops = 1 .. Len(ops) /\ DOMAIN ops' = 1 .. Len(ops) + 1
      /\ ops'[Len(ops) + 1] = new
      /\ \A p \in DOMAIN ops : ops'[p] = ops[p]
  BY <1>1, IsAppended DEF Books, TicksOK
<1>3. new.status = "done" /\ new.tick = 0
  BY DEF Operation
<1> HIDE DEF new
<1>5. /\ QueueIn(pending, ops', FALSE) /\ QueueIn(priority, ops', TRUE)
  BY <1>2, <1>3, QueueSkips DEF Books, QueuesOK
<1>6. QueuesOK'
  BY <1>5 DEF QueuesOK
<1>7. UNCHANGED <<clock, active, runner>> /\ new.status = "done" /\ new.tick = 0
  BY <1>3
<1>8. QED
  BY <1>1, <1>6, <1>7, BooksGrow

LEMMA TicksAfterSet ==
  ASSUME Books, ClockOK, NEW o \in DOMAIN ops, NEW s \in Statuses, SetStatus(o, s),
         s # "dropped", ops[o].status # "done",
         s \in {"running", "done"} => ops[o].tick <= done', Later
  PROVE  TicksOK'
<1>1. /\ ops' \in Seq(Op) /\ DOMAIN ops' = DOMAIN ops
      /\ \A p \in DOMAIN ops : /\ ops'[p].tick = ops[p].tick /\ ops'[p].prio = ops[p].prio
                               /\ p # o => ops'[p].status = ops[p].status
      /\ ops'[o].status = s
  BY StatusIsSet DEF Books, TicksOK
<1>2. /\ tick \in Nat /\ done \in Nat /\ tick' \in Nat /\ done' \in Nat
      /\ tick <= tick' /\ done <= done'
  BY DEF ClockOK, Later
<1>3. \A p \in DOMAIN ops : ops[p].tick \in Nat
  BY TickIsNumber DEF Books
<1>4. \A p \in DOMAIN ops' :
        /\ ops'[p].tick <= tick' /\ ops'[p].status # "dropped"
        /\ ops'[p].status # "done" => ops'[p].tick > 0
        /\ ops'[p].status \in {"running", "done"} => ops'[p].tick <= done'
  BY <1>1, <1>2, <1>3 DEF Books, TicksOK
<1>5. \A p, q \in DOMAIN ops' :
        p < q /\ ops'[p].tick > 0 /\ ops'[q].tick > 0 => ops'[p].tick <= ops'[q].tick
  BY <1>1 DEF Books, TicksOK
<1>6. QED
  BY <1>1, <1>4, <1>5 DEF TicksOK

\* A queue an operation was not in, and is not put in.
LEMMA QueuesAfterSet ==
  ASSUME Books, NEW o \in DOMAIN ops, NEW s \in Statuses, SetStatus(o, s),
         ops[o].status # "queued", s # "queued", UNCHANGED <<pending, priority>>
  PROVE  QueuesOK'
<1>1. /\ ops' \in Seq(Op) /\ DOMAIN ops' = DOMAIN ops /\ Len(ops') = Len(ops)
      /\ Len(ops) \in Nat /\ DOMAIN ops = 1 .. Len(ops)
      /\ \A p \in DOMAIN ops : /\ ops'[p].prio = ops[p].prio
                               /\ p # o => ops'[p].status = ops[p].status
      /\ ops'[o].status = s
  BY StatusIsSet DEF Books, TicksOK
<1>2. /\ QueueIn(pending, ops, FALSE) /\ QueueIn(priority, ops, TRUE)
      /\ \A p \in DOMAIN ops : ops'[p].status = "queued" <=> ops[p].status = "queued"
  BY <1>1 DEF Books, QueuesOK
<1>3. QueueIn(pending, ops', FALSE) /\ QueueIn(priority, ops', TRUE)
  BY <1>1, <1>2, QueueStays
<1>4. QED
  BY <1>3 DEF QueuesOK

LEMMA PopTakesKeeps ==
  ASSUME DeferredAssumption, IInv, NEW t \in Threads, PopTakes(t)
  PROVE  Books'
<1> DEFINE o == Head(pending)
<1> DEFINE rest == Tail(pending)
<1>1. /\ pc[t] = "pops" /\ pending # <<>> /\ ops[o].tick <= known
      /\ pending' = rest /\ priority' = priority
      /\ arg' = [arg EXCEPT ![t] = o] /\ pc' = [pc EXCEPT ![t] = "yields"]
      /\ SetStatus(o, "taken")
      /\ UNCHANGED <<clock, active, runner>>
  BY DEF PopTakes, Ready, IsFree, Goto
<1>0. ops \in Seq(Op) /\ "taken" \in Statuses /\ o = Head(pending) /\ rest = Tail(pending)
  BY DEF IInv, Books, TicksOK, Statuses
<1>2. Len(ops) \in Nat /\ DOMAIN ops = 1 .. Len(ops) /\ o \in DOMAIN ops
  BY <1>0, <1>1 DEF IInv, Books, QueuesOK, QueueIn
<1> HIDE DEF o, rest
<1>3. /\ DOMAIN ops' = DOMAIN ops /\ Len(ops') = Len(ops)
      /\ \A p \in DOMAIN ops : /\ ops'[p].tick = ops[p].tick /\ ops'[p].prio = ops[p].prio
                               /\ p # o => ops'[p].status = ops[p].status
      /\ ops'[o].status = "taken"
  BY <1>0, <1>1, <1>2, StatusIsSet
<1>4. QueueIn(pending', ops', FALSE) /\ ops[o].status = "queued" /\ ops[o].prio = FALSE
  <2>1. QueueIn(pending, ops, FALSE)
    BY DEF IInv, Books, QueuesOK
  <2>2. QueueIn(rest, ops', FALSE) /\ ops[o].status = "queued" /\ ops[o].prio = FALSE
    <3>1. Alters(ops, ops', Head(pending)) /\ ops'[Head(pending)].status # "queued"
      BY <1>0, <1>2, <1>3 DEF Alters
    <3>2. QED
      BY <1>0, <1>1, <2>1, <3>1, QueueShrinks
  <2>3. QED
    BY <1>1, <2>2
<1>5. QueueIn(priority', ops', TRUE)
  <2>1. QueueIn(priority, ops, TRUE)
    BY DEF IInv, Books, QueuesOK
  <2>2. QueueIn(priority, ops', TRUE)
    <3>1. \A p \in DOMAIN ops :
            /\ ops'[p].prio = ops[p].prio
            /\ ops[p].prio # TRUE \/ (ops'[p].status = "queued" <=> ops[p].status = "queued")
      BY <1>3, <1>4
    <3>2. Len(ops') = Len(ops) /\ DOMAIN ops' = DOMAIN ops
      BY <1>3
    <3>3. QED
      BY <2>1, <3>1, <3>2, QueueStays
  <2>3. QED
    BY <1>1, <2>2
<1>6. Later
  BY <1>1 DEF Later, IInv, Course, ClockOK, clock
<1>7. TicksOK'
  BY <1>0, <1>1, <1>2, <1>4, <1>6, TicksAfterSet DEF IInv, Course
<1>8. RunnerOK'
  BY <1>1, <1>2, <1>3, <1>4 DEF IInv, Books, RunnerOK
<1>9. PopperOK'
  <2>1. \A u \in Threads : u # t => pc[u] \notin {"yields", "runs"}
    BY <1>1 DEF IInv, Course, StagesOK, Popping
  <2>2. /\ \A u \in Threads : pc'[u] = IF u = t THEN "yields" ELSE pc[u]
        /\ arg'[t] = o
    BY <1>1 DEF IInv, Course, TypesOK
  <2>3. known' = known
    BY <1>1 DEF clock
  <2>4. \A u \in Threads : pc[u] \notin {"yields", "runs"}
    BY <1>1, <2>1
  <2>5. /\ o \in DOMAIN ops' /\ ~ops'[o].prio /\ ops'[o].status = "taken"
        /\ ops'[o].tick <= known'
    BY <1>1, <1>2, <1>3, <1>4, <2>3
  <2>6. \A p \in DOMAIN ops : ~ops[p].prio => ops[p].status \notin {"taken", "running"}
    BY <2>4 DEF IInv, Books, PopperOK
  <2>7. \A p \in DOMAIN ops' :
          ~ops'[p].prio /\ ops'[p].status \in {"taken", "running"} => p = o
    BY <1>3, <2>6
  <2>8. QED
    BY <2>2, <2>4, <2>5, <2>7 DEF PopperOK
<1>10. PriorityFirst'
  BY <1>2, <1>3, <1>4 DEF IInv, Books, PriorityFirst
<1>11. QED
  BY <1>4, <1>5, <1>7, <1>8, <1>9, <1>10 DEF Books, QueuesOK

\* Only the thread that pops has a normal operation.
LEMMA OnePops ==
  ASSUME IInv, NEW t \in Threads, Popping(t)
  PROVE  \A u \in Threads : pc[u] \in {"yields", "runs"} => u = t
  BY DEF IInv, Course, StagesOK, Popping

LEMMA PopRunsKeeps ==
  ASSUME IInv, NEW t \in Threads, pc[t] = "yields", PriorityDone(ops[arg[t]].tick),
         SetStatus(arg[t], "running"), pc' = [pc EXCEPT ![t] = "runs"],
         UNCHANGED <<clock, pending, priority, active, runner, arg>>
  PROVE  Books'
<1> DEFINE o == arg[t]
<1>1. /\ o \in DOMAIN ops /\ ~ops[o].prio /\ ops[o].status = "taken" /\ ops[o].tick <= known
  BY DEF IInv, Books, PopperOK
<1>2. ops \in Seq(Op) /\ "running" \in Statuses /\ SetStatus(o, "running")
  BY DEF IInv, Books, TicksOK, Statuses
<1> HIDE DEF o
<1>3. /\ DOMAIN ops' = DOMAIN ops
      /\ \A p \in DOMAIN ops : /\ ops'[p].tick = ops[p].tick /\ ops'[p].prio = ops[p].prio
                               /\ p # o => ops'[p].status = ops[p].status
      /\ ops'[o].status = "running"
  BY <1>1, <1>2, StatusIsSet
<1>4. Later /\ ops[o].tick \in Nat /\ ops[o].tick <= done'
  <2>1. tick \in Nat /\ done \in Nat /\ known \in Nat /\ known <= done
    BY DEF IInv, Course, ClockOK
  <2>2. tick' = tick /\ done' = done /\ known' = known
    BY DEF clock
  <2>3. ops[o].tick \in Nat
    BY <1>1, TickIsNumber DEF IInv, Books
  <2>4. QED
    BY <1>1, <2>1, <2>2, <2>3 DEF Later
<1>5. TicksOK'
  BY <1>1, <1>2, <1>4, TicksAfterSet DEF IInv, Course
<1>6. QueuesOK'
  BY <1>1, <1>2, QueuesAfterSet DEF IInv
<1>7. RunnerOK'
  <2>1. \A p \in DOMAIN ops : ops'[p].prio => ops'[p].status = ops[p].status
    BY <1>1, <1>3
  <2>2. QED
    BY <1>3, <2>1 DEF IInv, Books, RunnerOK
<1>8. PopperOK'
  <2>1. \A u \in Threads : pc'[u] \in {"yields", "runs"} => u = t
    BY OnePops DEF IInv, Course, TypesOK, Popping
  <2>2. pc'[t] = "runs" /\ arg'[t] = o
    BY DEF IInv, Course, TypesOK, o
  <2>3. \A p \in DOMAIN ops : ~ops[p].prio /\ ops[p].status \in {"taken", "running"} => p = o
    <3>1. \A u \in Threads : pc[u] \in {"yields", "runs"} => u = t
      BY OnePops DEF Popping
    <3>2. QED
      BY <3>1 DEF IInv, Books, PopperOK, o
  <2>4. \A p \in DOMAIN ops' : ~ops'[p].prio /\ ops'[p].status \in {"taken", "running"} => p = o
    BY <1>3, <2>3
  <2>5. o \in DOMAIN ops' /\ ~ops'[o].prio /\ ops'[o].status = "running"
    BY <1>1, <1>3
  <2>6. QED
    BY <2>1, <2>2, <2>4, <2>5 DEF PopperOK
<1>9. PriorityFirst'
  <2>1. SUFFICES ASSUME NEW p \in DOMAIN ops', NEW q \in DOMAIN ops',
                        ~ops'[p].prio, ops'[p].status = "running",
                        ops'[q].prio, ops'[q].tick <= ops'[p].tick
                 PROVE  ops'[q].status = "done"
    BY DEF PriorityFirst
  <2>2. /\ q \in DOMAIN ops /\ q # o /\ ops[q].prio /\ ops'[q].status = ops[q].status
        /\ p \in DOMAIN ops /\ ops[q].tick <= ops[p].tick /\ ~ops[p].prio
    BY <1>1, <1>3, <2>1
  <2>3. CASE p = o
    <3>1. PriorityDone(ops[o].tick)
      BY DEF o
    <3>2. ops[q].status = "done"
      BY <1>4, <2>2, <2>3, <3>1, NoneIsLeft DEF IInv, Books
    <3>3. QED
      BY <2>2, <3>2
  <2>4. CASE p # o
    BY <1>3, <2>1, <2>2, <2>4 DEF IInv, Books, PriorityFirst
  <2>5. QED
    BY <2>3, <2>4
<1>10. QED
  BY <1>5, <1>6, <1>7, <1>8, <1>9 DEF Books

LEMMA PopReturnsKeeps ==
  ASSUME IInv, NEW t \in Threads, PopReturns(t)
  PROVE  Books'
<1> DEFINE o == arg[t]
<1>1. /\ pc[t] = "runs" /\ pc' = [pc EXCEPT ![t] = "pops"] /\ SetStatus(o, "done")
      /\ arg' = [arg EXCEPT ![t] = 0] /\ UNCHANGED <<clock, pending, priority, active, runner>>
  BY DEF PopReturns, Goto
<1>2. /\ o \in DOMAIN ops /\ ~ops[o].prio /\ ops[o].status = "running"
  BY <1>1 DEF IInv, Books, PopperOK
<1>3. /\ ops \in Seq(Op) /\ "done" \in Statuses /\ ops[o].tick <= done
  BY <1>2 DEF IInv, Books, TicksOK, Statuses
<1>4. \A p \in DOMAIN ops : ~ops[p].prio /\ ops[p].status \in {"taken", "running"} => p = o
  <2>1. \A u \in Threads : pc[u] \in {"yields", "runs"} => u = t
    BY <1>1, OnePops DEF Popping
  <2>2. QED
    BY <2>1 DEF IInv, Books, PopperOK
<1> HIDE DEF o
<1>5. /\ DOMAIN ops' = DOMAIN ops
      /\ \A p \in DOMAIN ops : /\ ops'[p].tick = ops[p].tick /\ ops'[p].prio = ops[p].prio
                               /\ p # o => ops'[p].status = ops[p].status
      /\ ops'[o].status = "done"
  BY <1>1, <1>2, <1>3, StatusIsSet
<1>6. Later /\ done' = done
  BY <1>1 DEF IInv, Course, ClockOK, clock, Later
<1>7. TicksOK'
  BY <1>1, <1>2, <1>3, <1>6, TicksAfterSet DEF IInv, Course
<1>8. QueuesOK'
  BY <1>1, <1>2, <1>3, QueuesAfterSet DEF IInv
<1>9. RunnerOK'
  <2>1. \A p \in DOMAIN ops : ops'[p].prio => ops'[p].status = ops[p].status
    BY <1>2, <1>5
  <2>2. QED
    BY <1>1, <1>5, <2>1 DEF IInv, Books, RunnerOK
<1>10. PopperOK'
  <2>1. \A u \in Threads : pc'[u] \notin {"yields", "runs"}
    BY <1>1, OnePops DEF IInv, Course, TypesOK, Popping
  <2>2. \A p \in DOMAIN ops' : ops'[p].prio \/ ops'[p].status \notin {"taken", "running"}
    BY <1>4, <1>5
  <2>3. QED
    BY <2>1, <2>2 DEF PopperOK
<1>11. PriorityFirst'
  BY <1>2, <1>5 DEF IInv, Books, PriorityFirst
<1>12. QED
  BY <1>7, <1>8, <1>9, <1>10, <1>11 DEF Books

LEMMA RunnerTakesKeeps ==
  ASSUME DeferredAssumption, IInv, runner = "top", priority # <<>>,
         priority' = Tail(priority), active' = Head(priority),
         SetStatus(Head(priority), "taken"), runner' = "waits",
         UNCHANGED <<clock, pending, pc, arg>>
  PROVE  Books'
<1> DEFINE o == Head(priority)
<1> DEFINE rest == Tail(priority)
<1>0. /\ ops \in Seq(Op) /\ "taken" \in Statuses /\ o = Head(priority) /\ rest = Tail(priority)
      /\ priority' = rest /\ active' = o /\ SetStatus(o, "taken")
  BY DEF IInv, Books, TicksOK, Statuses
<1>2. Len(ops) \in Nat /\ DOMAIN ops = 1 .. Len(ops) /\ o \in DOMAIN ops
  BY <1>0 DEF IInv, Books, QueuesOK, QueueIn
<1> HIDE DEF o, rest
<1>3. /\ DOMAIN ops' = DOMAIN ops /\ Len(ops') = Len(ops)
      /\ \A p \in DOMAIN ops : /\ ops'[p].tick = ops[p].tick /\ ops'[p].prio = ops[p].prio
                               /\ p # o => ops'[p].status = ops[p].status
      /\ ops'[o].status = "taken"
  BY <1>0, <1>2, StatusIsSet
<1>4. QueueIn(priority', ops', TRUE) /\ ops[o].status = "queued" /\ ops[o].prio = TRUE
  <2>1. QueueIn(priority, ops, TRUE)
    BY DEF IInv, Books, QueuesOK
  <2>2. Alters(ops, ops', Head(priority)) /\ ops'[Head(priority)].status # "queued"
    BY <1>0, <1>2, <1>3 DEF Alters
  <2>3. QueueIn(rest, ops', TRUE) /\ ops[o].status = "queued" /\ ops[o].prio = TRUE
    BY <1>0, <2>1, <2>2, QueueShrinks
  <2>4. QED
    BY <1>0, <2>3
<1>5. QueueIn(pending', ops', FALSE)
  <2>1. QueueIn(pending, ops, FALSE)
    BY DEF IInv, Books, QueuesOK
  <2>2. QueueIn(pending, ops', FALSE)
    BY <1>2, <1>3, <1>4, <2>1, QueueStays
  <2>3. QED
    BY <2>2
<1>6. Later
  BY DEF Later, IInv, Course, ClockOK, clock
<1>7. TicksOK'
  BY <1>0, <1>2, <1>4, <1>6, TicksAfterSet DEF IInv, Course
<1>8. RunnerOK'
  <2>1. active = 0
    BY DEF IInv, Books, RunnerOK
  <2>2. \A p \in DOMAIN ops : ops[p].prio => ops[p].status \notin {"taken", "running"}
    <3>1. 0 \notin DOMAIN ops
      BY <1>2
    <3>2. QED
      BY <2>1, <3>1 DEF IInv, Books, RunnerOK
  <2>3. \A p \in DOMAIN ops' : ops'[p].prio /\ ops'[p].status \in {"taken", "running"} => p = o
    BY <1>3, <2>2
  <2>4. o # 0 /\ o \in DOMAIN ops' /\ ops'[o].prio /\ ops'[o].status = "taken"
    BY <1>2, <1>3, <1>4
  <2>5. QED
    BY <1>0, <2>3, <2>4 DEF RunnerOK
<1>9. PopperOK'
  <2>1. \A p \in DOMAIN ops : ~ops[p].prio => p # o /\ ops'[p].status = ops[p].status
    BY <1>3, <1>4
  <2>2. pc' = pc /\ arg' = arg /\ known' = known
    BY DEF clock
  <2>3. PopperOK
    BY DEF IInv, Books
  <2>4. ASSUME NEW t \in Threads, pc[t] \in {"yields", "runs"}
        PROVE  /\ arg[t] \in DOMAIN ops' /\ ~ops'[arg[t]].prio
               /\ pc[t] = "yields" => ops'[arg[t]].status = "taken" /\ ops'[arg[t]].tick <= known
               /\ pc[t] = "runs" => ops'[arg[t]].status = "running"
    <3>1. /\ arg[t] \in DOMAIN ops /\ ~ops[arg[t]].prio
          /\ pc[t] = "yields" => ops[arg[t]].status = "taken" /\ ops[arg[t]].tick <= known
          /\ pc[t] = "runs" => ops[arg[t]].status = "running"
      BY <2>3, <2>4 DEF PopperOK
    <3>2. /\ arg[t] \in DOMAIN ops' /\ ops'[arg[t]].status = ops[arg[t]].status
          /\ ops'[arg[t]].tick = ops[arg[t]].tick /\ ops'[arg[t]].prio = ops[arg[t]].prio
      BY <1>3, <2>1, <3>1
    <3>3. QED
      BY <3>1, <3>2
  <2>5. ASSUME NEW p \in DOMAIN ops', ~ops'[p].prio, ops'[p].status \in {"taken", "running"}
        PROVE  \E t \in Threads : pc[t] \in {"yields", "runs"} /\ arg[t] = p
    <3>1. p \in DOMAIN ops /\ ~ops[p].prio /\ ops[p].status \in {"taken", "running"}
      BY <1>3, <2>1, <2>5
    <3>2. QED
      BY <2>3, <3>1 DEF PopperOK
  <2>6. QED
    BY <2>2, <2>4, <2>5 DEF PopperOK
<1>10. PriorityFirst'
  <2>1. SUFFICES ASSUME NEW p \in DOMAIN ops', NEW q \in DOMAIN ops',
                        ~ops'[p].prio, ops'[p].status = "running",
                        ops'[q].prio, ops'[q].tick <= ops'[p].tick
                 PROVE  ops'[q].status = "done"
    BY DEF PriorityFirst
  <2>2. /\ p \in DOMAIN ops /\ q \in DOMAIN ops /\ p # o /\ ops[p].status = "running"
        /\ ~ops[p].prio /\ ops[q].prio /\ ops[q].tick <= ops[p].tick
    BY <1>3, <1>4, <2>1
  <2>3. ops[q].status = "done"
    BY <2>2 DEF IInv, Books, PriorityFirst
  <2>4. q # o
    BY <1>4, <2>3
  <2>5. QED
    BY <1>3, <2>2, <2>3, <2>4
<1>11. QED
  BY <1>4, <1>5, <1>7, <1>8, <1>9, <1>10 DEF Books, QueuesOK

\* The status of the active operation goes on.
LEMMA ActiveGoesOn ==
  ASSUME IInv, active # 0, NEW s \in {"running", "done"}, SetStatus(active, s),
         runner' = IF s = "running" THEN "runs" ELSE "clears",
         ops[active].status = "taken" \/ ops[active].status = "running",
         ops[active].tick <= done', Later,
         UNCHANGED <<pending, priority, active, pc, arg>>
  PROVE  Books'
<1>1. /\ active \in DOMAIN ops /\ ops[active].prio /\ s \in Statuses /\ ops \in Seq(Op)
      /\ s # "dropped" /\ s # "queued" /\ ops[active].status # "done"
      /\ ops[active].status # "queued" /\ active' = active
  BY DEF IInv, Books, RunnerOK, TicksOK, Statuses
<1>3. /\ DOMAIN ops' = DOMAIN ops
      /\ \A p \in DOMAIN ops : /\ ops'[p].tick = ops[p].tick /\ ops'[p].prio = ops[p].prio
                               /\ p # active => ops'[p].status = ops[p].status
      /\ ops'[active].status = s
  BY <1>1, StatusIsSet
<1>4. TicksOK'
  BY <1>1, TicksAfterSet DEF IInv, Course
<1>5. QueuesOK'
  BY <1>1, QueuesAfterSet DEF IInv
<1>6. RunnerOK'
  BY <1>1, <1>3 DEF IInv, Books, RunnerOK
<1>7. PopperOK'
  <2>1. \A p \in DOMAIN ops : ~ops[p].prio => p # active /\ ops'[p].status = ops[p].status
    BY <1>1, <1>3
  <2>2. pc' = pc /\ arg' = arg /\ known' \in Nat /\ known \in Nat /\ known <= known'
    BY DEF Later, IInv, Course, ClockOK
  <2>3. \A p \in DOMAIN ops : ops[p].tick \in Nat
    BY TickIsNumber DEF IInv, Books
  <2>4. ASSUME NEW u \in Threads, pc'[u] \in {"yields", "runs"}
        PROVE  /\ arg'[u] \in DOMAIN ops' /\ ~ops'[arg'[u]].prio
               /\ pc'[u] = "yields" =>
                    ops'[arg'[u]].status = "taken" /\ ops'[arg'[u]].tick <= known'
               /\ pc'[u] = "runs" => ops'[arg'[u]].status = "running"
    <3>1. /\ arg[u] \in DOMAIN ops /\ ~ops[arg[u]].prio
          /\ pc[u] = "yields" => ops[arg[u]].status = "taken" /\ ops[arg[u]].tick <= known
          /\ pc[u] = "runs" => ops[arg[u]].status = "running"
      BY <2>2, <2>4 DEF IInv, Books, PopperOK
    <3>2. QED
      BY <1>3, <2>1, <2>2, <2>3, <3>1
  <2>5. \A o \in DOMAIN ops' :
          ~ops'[o].prio /\ ops'[o].status \in {"taken", "running"} =>
            \E t \in Threads : pc'[t] \in {"yields", "runs"} /\ arg'[t] = o
    BY <1>3, <2>1, <2>2 DEF IInv, Books, PopperOK
  <2>6. QED
    BY <2>4, <2>5 DEF PopperOK
<1>8. PriorityFirst'
  BY <1>1, <1>3 DEF IInv, Books, PriorityFirst
<1>9. QED
  BY <1>4, <1>5, <1>6, <1>7, <1>8 DEF Books

LEMMA RunnerClearsKeeps ==
  ASSUME IInv, RunnerClears
  PROVE  Books'
<1>1. /\ runner = "clears" /\ active' = 0 /\ runner' = "notifies"
      /\ UNCHANGED <<clock, ops, pending, priority, pc, arg>>
  BY DEF RunnerClears, queues
<1>2. ops[active].status = "done"
  BY <1>1 DEF IInv, Books, RunnerOK
<1>3. RunnerOK'
  BY <1>1, <1>2 DEF IInv, Books, RunnerOK
<1>4. UNCHANGED <<tick, done, known, ops, pending, priority, pc, arg>>
  BY <1>1 DEF clock
<1>5. TicksOK' /\ QueuesOK' /\ PopperOK' /\ PriorityFirst'
  <2>1. TicksOK'
    BY <1>4 DEF IInv, Books, TicksOK
  <2>2. QueuesOK'
    BY <1>4 DEF IInv, Books, QueuesOK
  <2>3. PopperOK'
    BY <1>4 DEF IInv, Books, PopperOK
  <2>4. PriorityFirst'
    BY <1>4 DEF IInv, Books, PriorityFirst
  <2>5. QED
    BY <2>1, <2>2, <2>3, <2>4
<1>6. QED
  BY <1>3, <1>5 DEF Books

(***************************************************************************)
(* The course: the stages of a shutdown and what it has behind it.         *)
(***************************************************************************)

\* Where neither popping nor shutting down goes on.
Outside == {"idle", "late", "waits", "follows"}

SameCourse ==
  /\ phase' = phase /\ stop' = stop /\ closer' = closer
  /\ \A t \in Threads : \/ pc'[t] = pc[t]
                        \/ pc[t] \in Outside /\ pc'[t] \in Outside
                        \/ Popping(t) /\ Popping(t)'

LEMMA StagesStay ==
  ASSUME StagesOK, SameCourse
  PROVE  StagesOK'
<1>1. \A t \in Threads : /\ Popping(t)' <=> Popping(t)
                         /\ Closing(t)' <=> Closing(t)
                         /\ Closing(t) => pc'[t] = pc[t]
                         /\ pc'[t] = "tells" => pc[t] = "tells"
  BY DEF SameCourse, Popping, Closing, Outside
<1>2. phase' = phase /\ stop' = stop /\ closer' = closer
  BY DEF SameCourse
<1>3. phase = "Draining" => /\ closer \in Threads
                            /\ pc'[closer] \in {"wakes", "joins"} <=> pc[closer] \in {"wakes", "joins"}
  BY <1>1 DEF StagesOK, Closing, Popping
<1>4. phase = "Draining" => /\ closer \in Threads
                            /\ Popping(closer)' \/ Closing(closer)'
  <2>1. phase = "Draining" => closer \in Threads /\ (Popping(closer) \/ Closing(closer))
    BY DEF StagesOK
  <2>2. closer' = closer
    BY <1>2
  <2>3. QED
    BY <1>1, <2>1, <2>2
<1>5. \A t \in Threads :
        /\ Popping(t)' => \/ phase = "Open" /\ t = Owner
                          \/ phase = "Draining" /\ t = closer
        /\ Closing(t)' => phase = "Draining" /\ t = closer
        /\ pc'[t] = "tells" => phase = "Closed"
  BY <1>1 DEF StagesOK
<1>6. QED
  BY <1>2, <1>3, <1>4, <1>5 DEF StagesOK

\* The clock goes on, or not.
LEMMA ClockStays ==
  ASSUME ClockOK, StagesOK, SameCourse, tick' = tick, done' = done, known' \in known .. done
  PROVE  ClockOK' /\ Later
<1>1. phase = "Draining" /\ pc'[closer] = "submits" => pc[closer] = "submits"
  BY DEF StagesOK, SameCourse, Outside, Popping
<1>2. phase' = phase /\ closer' = closer
  BY DEF SameCourse
<1>3. /\ tick \in 1 .. MaxTick + 1 /\ done \in 0 .. tick - 1 /\ known \in 0 .. done
      /\ phase = "Open" \/ (phase = "Draining" /\ pc[closer] = "submits") => tick <= MaxTick
  BY DEF ClockOK
<1>4. Later
  BY <1>3 DEF Later
<1>5. ClockOK'
  BY <1>1, <1>2, <1>3 DEF ClockOK
<1>6. QED
  BY <1>4, <1>5

\* A step of a shutdown's others leaves it what it has behind it.
LEMMA DrainStays ==
  ASSUME IInv, SameCourse, Later,
         phase = "Draining" =>
           /\ tick' = tick
           /\ \A o \in DOMAIN ops' :
                ops'[o].tick = 0 \/ (o \in DOMAIN ops /\ ops'[o].tick = ops[o].tick)
           /\ pending' = pending \/ pending # <<>>
           /\ priority' = priority \/ priority # <<>>
           /\ active' = active \/ active # 0,
         stop => /\ UNCHANGED <<pending, priority, active>>
                 /\ \A o \in DOMAIN ops' : ops'[o].status = "done"
  PROVE  DrainOK'
<1>1. NothingLost'
  BY DEF NothingLost, IInv, Course, DrainOK, SameCourse
<1>2. ASSUME phase' = "Draining"
      PROVE  /\ pc'[closer'] # "submits" => \A o \in DOMAIN ops' : ops'[o].tick < tick'
             /\ pc'[closer'] \notin {"submits", "retires"} => \A o \in DOMAIN ops' : ops'[o].tick <= known'
             /\ pc'[closer'] \in {"drains", "stops", "wakes", "joins"} => pending' = <<>>
             /\ pc'[closer'] \in {"stops", "wakes", "joins"} => priority' = <<>> /\ active' = 0
  <2>1. phase = "Draining" /\ closer' = closer /\ closer \in Threads
    BY <1>2 DEF SameCourse, IInv, Course, StagesOK
  <2>2. /\ pc'[closer] # "submits" => pc[closer] # "submits"
        /\ pc'[closer] \notin {"submits", "retires"} => pc[closer] \notin {"submits", "retires"}
        /\ \A place \in {"drains", "stops", "wakes", "joins"} : pc'[closer] = place => pc[closer] = place
    <3>1. Popping(closer) \/ Closing(closer)
      BY <2>1 DEF IInv, Course, StagesOK
    <3>2. pc'[closer] = pc[closer] \/ (Popping(closer) /\ pc'[closer] \in {"pops", "yields", "runs"})
      BY <2>1, <3>1 DEF SameCourse, Popping, Closing, Outside
    <3>3. QED
      BY <3>2 DEF Popping
  <2>3. /\ tick \in Nat /\ tick > 0 /\ known \in Nat /\ known' \in Nat /\ known <= known' /\ tick' = tick
    BY <2>1 DEF IInv, Course, ClockOK, Later
  <2>4. \A o \in DOMAIN ops : ops[o].tick \in Nat
    BY TickIsNumber DEF IInv, Books
  <2>5. \A o \in DOMAIN ops' :
          ops'[o].tick = 0 \/ (o \in DOMAIN ops /\ ops'[o].tick = ops[o].tick)
    BY <2>1
  <2>6. pc'[closer] # "submits" => \A o \in DOMAIN ops' : ops'[o].tick < tick'
    <3>1. pc[closer] # "submits" => \A o \in DOMAIN ops : ops[o].tick < tick
      BY <2>1 DEF IInv, Course, DrainOK
    <3>2. QED
      BY <2>2, <2>3, <2>5, <3>1
  <2>7. pc'[closer] \notin {"submits", "retires"} => \A o \in DOMAIN ops' : ops'[o].tick <= known'
    <3>1. pc[closer] \notin {"submits", "retires"} => \A o \in DOMAIN ops : ops[o].tick <= known
      BY <2>1 DEF IInv, Course, DrainOK
    <3>2. QED
      BY <2>2, <2>3, <2>4, <2>5, <3>1
  <2>8. pc'[closer] \in {"drains", "stops", "wakes", "joins"} => pending' = <<>>
    BY <2>1, <2>2 DEF IInv, Course, DrainOK
  <2>9. pc'[closer] \in {"stops", "wakes", "joins"} => priority' = <<>> /\ active' = 0
    BY <2>1, <2>2 DEF IInv, Course, DrainOK
  <2>10. QED
    BY <2>1, <2>6, <2>7, <2>8, <2>9
<1>3. QED
  BY <1>1, <1>2 DEF DrainOK

\* A step that neither touches the operations nor brings a shutdown further.
LEMMA CourseStays ==
  ASSUME IInv, TypesOK', ClockOK', Later, SameCourse, SamePoppers, SameRunner,
         UNCHANGED <<ops, pending, priority, active>>, phase = "Draining" => tick' = tick
  PROVE  IInv'
<1>1. Books'
  BY BooksStay DEF IInv, Course
<1>2. StagesOK'
  BY StagesStay DEF IInv, Course
<1>3. ops' = ops /\ pending' = pending /\ priority' = priority /\ active' = active
  OBVIOUS
<1>4. stop => \A o \in DOMAIN ops : ops[o].status = "done"
  BY DEF IInv, Course, DrainOK, NothingLost
<1>5. DrainOK'
  BY <1>3, <1>4, DrainStays
<1>6. QED
  BY <1>1, <1>2, <1>5 DEF IInv, Course

LEMMA ClockRuns ==
  ASSUME IInv, UNCHANGED clock, SameCourse
  PROVE  ClockOK' /\ Later
<1>1. tick' = tick /\ done' = done /\ known' = known /\ known \in known .. done
  BY DEF clock, IInv, Course, ClockOK
<1>2. QED
  BY <1>1, ClockStays DEF IInv, Course

\* Threads call and return, fall asleep and are woken.
Quiet ==
  /\ UNCHANGED <<clock, queues, active, phase, stop, closer>>
  /\ \A t \in Threads : \/ pc'[t] = pc[t] /\ arg'[t] = arg[t]
                        \/ pc[t] \in Outside /\ pc'[t] \in Outside

LEMMA QuietKeeps ==
  ASSUME IInv, Quiet, TypesOK', SameRunner
  PROVE  IInv'
<1>1. SameCourse /\ SamePoppers
  BY DEF Quiet, SameCourse, SamePoppers, Outside
<1>2. ClockOK' /\ Later
  BY <1>1, ClockRuns DEF Quiet
<1>3. UNCHANGED <<ops, pending, priority, active>> /\ tick' = tick
  BY DEF Quiet, queues, clock
<1>4. QED
  BY <1>1, <1>2, <1>3, CourseStays

LEMMA CallsAndWakes ==
  ASSUME DeferredAssumption, IInv, NEW t \in Threads \cup {Runner}, NEW k,
         \/ NotifyOne(t) \/ RunnerSleeps \/ RunnerNotifies
         \/ /\ t \in Threads
            /\ \/ DeferLate(t) \/ (WaitPriority(t, k) /\ k \in Nat)
               \/ WaitPriorityReturns(t)
               \/ ShutdownJoinsOther(t) \/ ShutdownFollows(t)
  PROVE  IInv'
<1>1. TypesOK
  BY DEF IInv, Course
<1>2. CASE NotifyOne(t)
  BY <1>1, <1>2, QuietKeeps DEF NotifyOne, Quiet, TypesOK, SameRunner
<1>3. CASE RunnerSleeps
  <2>1. TypesOK' /\ Quiet
    BY <1>1, <1>3 DEF RunnerSleeps, Quiet, TypesOK
  <2>2. SameRunner
    BY <1>3 DEF RunnerSleeps, SameRunner, IInv, Books, RunnerOK
  <2>3. QED
    BY <2>1, <2>2, QuietKeeps
<1>4. CASE RunnerNotifies
  <2>1. TypesOK' /\ Quiet
    BY <1>1, <1>4 DEF RunnerNotifies, Quiet, TypesOK
  <2>2. SameRunner
    BY <1>4 DEF RunnerNotifies, SameRunner, IInv, Books, RunnerOK
  <2>3. QED
    BY <2>1, <2>2, QuietKeeps
<1>5. CASE t \in Threads /\ DeferLate(t)
  <2>1. TypesOK' /\ Quiet /\ SameRunner
    BY <1>1, <1>5 DEF DeferLate, Goto, Quiet, TypesOK, SameRunner, Places, Outside
  <2>2. QED
    BY <2>1, QuietKeeps
<1>6. CASE t \in Threads /\ WaitPriority(t, k) /\ k \in Nat
  <2>1. TypesOK' /\ Quiet /\ SameRunner
    BY <1>1, <1>6 DEF WaitPriority, Goto, Quiet, TypesOK, SameRunner, Places, Outside
  <2>2. QED
    BY <2>1, QuietKeeps
<1>7. CASE t \in Threads /\ WaitPriorityReturns(t)
  <2>1. TypesOK' /\ Quiet /\ SameRunner
    <3>1. CASE PriorityDone(arg[t])
      BY <1>1, <1>7, <3>1 DEF WaitPriorityReturns, Goto, Quiet, TypesOK, SameRunner, Places, Outside
    <3>2. CASE ~PriorityDone(arg[t])
      BY <1>1, <1>7, <3>2 DEF WaitPriorityReturns, Goto, Quiet, TypesOK, SameRunner, Places, Outside
    <3>3. QED
      BY <3>1, <3>2
  <2>2. QED
    BY <2>1, QuietKeeps
<1>8. CASE t \in Threads /\ ShutdownJoinsOther(t)
  <2>1. TypesOK' /\ Quiet /\ SameRunner
    BY <1>1, <1>8 DEF ShutdownJoinsOther, Goto, Quiet, TypesOK, SameRunner, Places, Outside
  <2>2. QED
    BY <2>1, QuietKeeps
<1>9. CASE t \in Threads /\ ShutdownFollows(t)
  <2>1. TypesOK' /\ Quiet /\ SameRunner
    BY <1>1, <1>9 DEF ShutdownFollows, Goto, Quiet, TypesOK, SameRunner, Places, Outside
  <2>2. QED
    BY <2>1, QuietKeeps
<1>10. QED
  BY <1>2, <1>3, <1>4, <1>5, <1>6, <1>7, <1>8, <1>9

\* The GPU and the submissions.
LEMMA ClockSteps ==
  ASSUME DeferredAssumption, IInv, GpuFinishes \/ Flush
  PROVE  IInv'
<1>1. TypesOK' /\ SameCourse /\ SamePoppers /\ SameRunner
  BY DEF GpuFinishes, Flush, queues, SameCourse, SamePoppers, SameRunner, IInv, Course, TypesOK
<1>2. UNCHANGED <<ops, pending, priority, active>> /\ (phase = "Draining" => tick' = tick)
  BY DEF GpuFinishes, Flush, queues
<1>3. ClockOK' /\ Later
  <2>1. /\ tick \in 1 .. MaxTick + 1 /\ done \in 0 .. tick - 1 /\ known \in 0 .. done
        /\ phase = "Open" \/ (phase = "Draining" /\ pc[closer] = "submits") => tick <= MaxTick
        /\ MaxTick \in Nat
    BY DEF IInv, Course, ClockOK, DeferredAssumption
  <2>2. phase' = phase /\ closer' = closer /\ pc' = pc /\ known' = known
    BY DEF GpuFinishes, Flush
  <2>3. CASE GpuFinishes
    <3>1. tick' = tick /\ done' = done + 1 /\ done < tick - 1
      BY <2>3 DEF GpuFinishes
    <3>2. QED
      BY <2>1, <2>2, <3>1 DEF ClockOK, Later
  <2>4. CASE Flush
    <3>1. tick' = tick + 1 /\ done' = done /\ tick < MaxTick
      BY <2>4 DEF Flush
    <3>2. QED
      BY <2>1, <2>2, <3>1 DEF ClockOK, Later
  <2>5. QED
    BY <2>3, <2>4
<1>4. QED
  BY <1>1, <1>2, <1>3, CourseStays

\* An operation is added, in a queue or when it has run.
LEMMA PushKeeps ==
  ASSUME DeferredAssumption, IInv, NEW t \in Threads \cup {Runner}, NEW prio \in BOOLEAN,
         Push(t, prio), UNCHANGED <<clock, active, phase, stop, runner, pc, arg, closer, asleep>>
  PROVE  IInv'
<1>1. Books'
  BY PushGrows DEF IInv, Course, SamePoppers
<1>2. TypesOK' /\ SameCourse
  BY DEF Push, IInv, Course, TypesOK, SameCourse
<1>3. phase = "Open" /\ ~stop
  BY DEF Push, IInv, Course, StagesOK
<1>4. ClockOK' /\ Later
  BY <1>2, ClockRuns
<1>5. DrainOK'
  BY <1>2, <1>3, <1>4, DrainStays
<1>6. StagesOK'
  BY <1>2, StagesStay DEF IInv, Course
<1>7. QED
  BY <1>1, <1>2, <1>4, <1>5, <1>6 DEF IInv, Course

LEMMA RunAtOnceKeeps ==
  ASSUME DeferredAssumption, IInv, NEW prio \in BOOLEAN,
         ops' = Append(ops, Operation(prio, 0, "done")), TypesOK',
         UNCHANGED <<clock, pending, priority, active, phase, stop, runner, closer>>,
         SameCourse, SamePoppers
  PROVE  IInv'
<1>1. Books'
  BY RunAtOnceGrows DEF IInv, Course
<1>2. ClockOK' /\ Later
  BY ClockRuns
<1>3. /\ \A o \in DOMAIN ops' : \/ ops'[o].tick = 0 /\ ops'[o].status = "done"
                                \/ o \in DOMAIN ops /\ ops'[o] = ops[o]
  <2>1. Operation(prio, 0, "done") \in Op
    BY DEF Operation, Op, Statuses, DeferredAssumption
  <2>2. /\ Len(ops) \in Nat /\ DOMAIN ops = 1 .. Len(ops) /\ DOMAIN ops' = 1 .. Len(ops) + 1
        /\ ops'[Len(ops) + 1] = Operation(prio, 0, "done")
        /\ \A p \in DOMAIN ops : ops'[p] = ops[p]
    BY <2>1, IsAppended DEF IInv, Books, TicksOK
  <2>3. \A o \in DOMAIN ops' : o = Len(ops) + 1 \/ o \in DOMAIN ops
    BY <2>2
  <2>4. QED
    BY <2>2, <2>3 DEF Operation
<1>4. stop => \A o \in DOMAIN ops : ops[o].status = "done"
  BY DEF IInv, Course, DrainOK, NothingLost
<1>5. /\ tick' = tick /\ (stop => \A o \in DOMAIN ops' : ops'[o].status = "done")
      /\ \A o \in DOMAIN ops' : ops'[o].tick = 0 \/ (o \in DOMAIN ops /\ ops'[o].tick = ops[o].tick)
  BY <1>3, <1>4 DEF clock
<1>6. DrainOK'
  BY <1>2, <1>5, DrainStays
<1>7. StagesOK'
  BY StagesStay DEF IInv, Course
<1>8. QED
  BY <1>1, <1>2, <1>6, <1>7 DEF IInv, Course

LEMMA RunLateKeeps ==
  ASSUME DeferredAssumption, IInv, NEW t \in Threads, RunLate(t)
  PROVE  IInv'
<1>1. TypesOK' /\ SameRunner
  BY DEF RunLate, Goto, IInv, Course, TypesOK, SameRunner, Places
<1>2. CASE phase = "Closed"
  <2>1. /\ ops' = Append(ops, Operation(FALSE, 0, "done")) /\ SameCourse /\ SamePoppers
    BY <1>2 DEF RunLate, Goto, SameCourse, SamePoppers, Outside, IInv, Course, TypesOK
  <2>2. UNCHANGED <<clock, pending, priority, active, phase, stop, runner, closer>>
    BY DEF RunLate
  <2>3. QED
    BY <1>1, <2>1, <2>2, RunAtOnceKeeps
<1>3. CASE phase # "Closed"
  <2>1. Quiet
    BY <1>3 DEF RunLate, Quiet, queues
  <2>2. QED
    BY <1>1, <2>1, QuietKeeps
<1>4. QED
  BY <1>2, <1>3

LEMMA DeferInCallbackKeeps ==
  ASSUME DeferredAssumption, IInv, NEW e \in Threads \cup {Runner}, NEW prio \in BOOLEAN,
         DeferInCallback(e, prio)
  PROVE  IInv'
<1>1. UNCHANGED <<clock, active, phase, stop, runner, pc, arg, closer, asleep>>
  BY DEF DeferInCallback
<1>2. CASE Push(e, prio)
  BY <1>1, <1>2, PushKeeps
<1>3. CASE ~Push(e, prio)
  <2>1. /\ ops' = Append(ops, Operation(prio, 0, "done"))
        /\ UNCHANGED <<pending, priority, owes>>
    BY <1>3 DEF DeferInCallback
  <2>2. TypesOK' /\ SameCourse /\ SamePoppers
    BY <1>1, <2>1 DEF IInv, Course, TypesOK, SameCourse, SamePoppers
  <2>3. QED
    BY <1>1, <2>1, <2>2, RunAtOnceKeeps
<1>4. QED
  BY <1>2, <1>3

(***************************************************************************)
(* PopPendingOperations and the Runner.                                    *)
(***************************************************************************)

\* The status of an operation is set, before the end of a shutdown.
LEMMA SetKeeps ==
  ASSUME IInv, Books', TypesOK', ClockOK', Later, SameCourse,
         NEW o \in DOMAIN ops, ops[o].status # "done", NEW s \in Statuses, SetStatus(o, s),
         phase = "Draining" => /\ tick' = tick
                               /\ pending' = pending \/ pending # <<>>
                               /\ priority' = priority \/ priority # <<>>
                               /\ active' = active \/ active # 0
  PROVE  IInv'
<1>1. ~stop
  BY DEF IInv, Course, DrainOK, NothingLost
<1>2. DOMAIN ops' = DOMAIN ops /\ \A p \in DOMAIN ops : ops'[p].tick = ops[p].tick
  BY StatusIsSet DEF IInv, Books, TicksOK
<1>3. DrainOK'
  BY <1>1, <1>2, DrainStays
<1>4. StagesOK'
  BY StagesStay DEF IInv, Course
<1>5. QED
  BY <1>3, <1>4 DEF IInv, Course

LEMMA PopBeginsKeeps ==
  ASSUME DeferredAssumption, IInv, PopBegins
  PROVE  IInv'
<1>1. /\ pc[Owner] = "idle" /\ phase = "Open" /\ known' = done /\ tick' = tick /\ done' = done
      /\ pc' = [pc EXCEPT ![Owner] = "pops"] /\ Owner \in Threads
      /\ UNCHANGED <<ops, pending, priority, active, phase, stop, runner, arg, closer, asleep, owes>>
  BY DEF PopBegins, Goto, queues, DeferredAssumption
<1>2. TypesOK'
  BY <1>1 DEF IInv, Course, TypesOK, Places
<1>3. Later
  BY <1>1 DEF IInv, Course, ClockOK, Later
<1>4. ClockOK'
  <2>1. /\ tick \in 1 .. MaxTick + 1 /\ done \in 0 .. tick - 1 /\ done \in 0 .. done
        /\ tick <= MaxTick
    BY <1>1 DEF IInv, Course, ClockOK
  <2>2. QED
    BY <1>1, <2>1 DEF ClockOK
<1>5. \A t \in Threads : pc'[t] = IF t = Owner THEN "pops" ELSE pc[t]
  BY <1>1 DEF IInv, Course, TypesOK
<1>6. SamePoppers /\ SameRunner
  BY <1>1, <1>5 DEF SamePoppers, SameRunner
<1>7. Books'
  BY <1>1, <1>3, <1>6, BooksStay DEF IInv, Course
<1>8. StagesOK'
  <2>1. \A t \in Threads : /\ Popping(t)' => Popping(t) \/ t = Owner
                           /\ Closing(t)' => Closing(t)
                           /\ pc'[t] = "tells" => pc[t] = "tells"
    BY <1>5 DEF Popping, Closing
  <2>2. QED
    BY <1>1, <2>1 DEF IInv, Course, StagesOK
<1>9. DrainOK'
  BY <1>1 DEF IInv, Course, DrainOK, NothingLost
<1>10. QED
  BY <1>2, <1>4, <1>7, <1>8, <1>9 DEF IInv, Course

LEMMA PopTakesInv ==
  ASSUME DeferredAssumption, IInv, NEW t \in Threads, PopTakes(t)
  PROVE  IInv'
<1>1. /\ pc[t] = "pops" /\ pending # <<>> /\ SetStatus(Head(pending), "taken")
      /\ pc' = [pc EXCEPT ![t] = "yields"] /\ arg' = [arg EXCEPT ![t] = Head(pending)]
      /\ UNCHANGED <<clock, priority, active, phase, stop, runner, closer, asleep, owes>>
  BY DEF PopTakes, Ready, Goto
<1>2. Head(pending) \in DOMAIN ops /\ ops[Head(pending)].status = "queued" /\ Head(pending) \in Nat
  <2>1. /\ Head(pending) \in 1 .. Len(ops) /\ Head(pending) = pending[1] /\ 1 \in DOMAIN pending
        /\ \A i \in DOMAIN pending : ops[pending[i]].status = "queued"
    BY <1>1 DEF IInv, Books, QueuesOK, QueueIn
  <2>2. DOMAIN ops = 1 .. Len(ops) /\ Len(ops) \in Nat
    BY DEF IInv, Books, TicksOK
  <2>3. QED
    BY <2>1, <2>2
<1>3. Books'
  BY PopTakesKeeps
<1>4. TypesOK' /\ SameCourse
  BY <1>1, <1>2 DEF IInv, Course, TypesOK, Places, SameCourse, Popping
<1>5. ClockOK' /\ Later
  BY <1>1, <1>4, ClockRuns
<1>6. tick' = tick /\ "taken" \in Statuses
  BY <1>1 DEF clock, Statuses
<1>7. QED
  BY <1>1, <1>2, <1>3, <1>4, <1>5, <1>6, SetKeeps

LEMMA PopRunsInv ==
  ASSUME DeferredAssumption, IInv, NEW t \in Threads, PopRuns(t)
  PROVE  IInv'
<1>1. /\ pc[t] = "yields"
      /\ UNCHANGED <<clock, pending, priority, active, phase, stop, runner, arg, closer, owes>>
  BY DEF PopRuns
<1>2. CASE PriorityDone(ops[arg[t]].tick)
  <2>1. /\ SetStatus(arg[t], "running") /\ pc' = [pc EXCEPT ![t] = "runs"] /\ asleep' = asleep
    BY <1>2 DEF PopRuns, Goto
  <2>2. Books'
    BY <1>1, <1>2, <2>1, PopRunsKeeps
  <2>3. TypesOK' /\ SameCourse
    BY <1>1, <2>1 DEF IInv, Course, TypesOK, Places, SameCourse, Popping
  <2>4. ClockOK' /\ Later
    BY <1>1, <2>3, ClockRuns
  <2>5. tick' = tick /\ "running" \in Statuses
    BY <1>1 DEF clock, Statuses
  <2>6. arg[t] \in DOMAIN ops /\ ops[arg[t]].status = "taken"
    BY <1>1 DEF IInv, Books, PopperOK
  <2>7. QED
    BY <1>1, <2>1, <2>2, <2>3, <2>4, <2>5, <2>6, SetKeeps
<1>3. CASE ~PriorityDone(ops[arg[t]].tick)
  <2>1. asleep' = asleep \cup {t} /\ UNCHANGED <<ops, pc>>
    BY <1>3 DEF PopRuns
  <2>2. TypesOK' /\ Quiet /\ SameRunner
    BY <1>1, <2>1 DEF IInv, Course, TypesOK, Quiet, queues, SameRunner
  <2>3. QED
    BY <2>2, QuietKeeps
<1>4. QED
  BY <1>2, <1>3

LEMMA PopReturnsInv ==
  ASSUME DeferredAssumption, IInv, NEW t \in Threads, PopReturns(t)
  PROVE  IInv'
<1>1. /\ pc[t] = "runs" /\ SetStatus(arg[t], "done") /\ arg' = [arg EXCEPT ![t] = 0]
      /\ pc' = [pc EXCEPT ![t] = "pops"]
      /\ UNCHANGED <<clock, pending, priority, active, phase, stop, runner, closer, asleep, owes>>
  BY DEF PopReturns, Goto
<1>2. Books'
  BY PopReturnsKeeps
<1>3. TypesOK' /\ SameCourse
  BY <1>1 DEF IInv, Course, TypesOK, Places, SameCourse, Popping
<1>4. ClockOK' /\ Later
  BY <1>1, <1>3, ClockRuns
<1>5. tick' = tick /\ "done" \in Statuses
  BY <1>1 DEF clock, Statuses
<1>6. arg[t] \in DOMAIN ops /\ ops[arg[t]].status = "running"
  BY <1>1 DEF IInv, Books, PopperOK
<1>7. QED
  BY <1>1, <1>2, <1>3, <1>4, <1>5, <1>6, SetKeeps

\* The loop ends with an empty queue when it is a shutdown's: all ticks are known.
LEMMA PopEndsInv ==
  ASSUME DeferredAssumption, IInv, NEW t \in Threads, PopEnds(t)
  PROVE  IInv'
<1>1. /\ pc[t] = "pops" /\ ~Ready
      /\ pc' = [pc EXCEPT ![t] = IF closer = t THEN "drains" ELSE "idle"]
      /\ UNCHANGED <<clock, ops, pending, priority, active, phase, stop, runner, arg, closer,
                     asleep, owes>>
  BY DEF PopEnds, Goto, queues
<1>2. TypesOK'
  <2>1. CASE closer = t
    BY <1>1, <2>1 DEF IInv, Course, TypesOK, Places
  <2>2. CASE closer # t
    BY <1>1, <2>2 DEF IInv, Course, TypesOK, Places
  <2>3. QED
    BY <2>1, <2>2
<1>3. /\ pc'[t] = IF closer = t THEN "drains" ELSE "idle"
      /\ \A u \in Threads : u # t => pc'[u] = pc[u]
  BY <1>1 DEF IInv, Course, TypesOK
<1>4. SamePoppers /\ SameRunner
  BY <1>1, <1>3 DEF SamePoppers, SameRunner
<1>5. Later /\ ClockOK'
  <2>1. tick' = tick /\ done' = done /\ known' = known
    BY <1>1 DEF clock
  <2>2. phase' = phase /\ closer' = closer
    BY <1>1
  <2>3. phase = "Draining" /\ pc'[closer] = "submits" => pc[closer] = "submits"
    BY <1>1, <1>3 DEF IInv, Course, StagesOK
  <2>4. /\ tick \in 1 .. MaxTick + 1 /\ done \in 0 .. tick - 1 /\ known \in 0 .. done
        /\ phase = "Open" \/ (phase = "Draining" /\ pc[closer] = "submits") => tick <= MaxTick
    BY DEF IInv, Course, ClockOK
  <2>5. Later
    BY <2>1, <2>4 DEF Later
  <2>6. QED
    BY <2>1, <2>2, <2>3, <2>4, <2>5 DEF ClockOK
<1>6. Books'
  BY <1>1, <1>4, <1>5, BooksStay DEF IInv, Course
<1>7. closer = t <=> phase = "Draining"
  BY <1>1 DEF IInv, Course, StagesOK, Popping, DeferredAssumption
<1>8. StagesOK'
  <2>1. \A u \in Threads : /\ Popping(u)' => Popping(u)
                           /\ Closing(u)' => Closing(u) \/ (u = t /\ closer = t)
                           /\ pc'[u] = "tells" => pc[u] = "tells"
    BY <1>3 DEF Popping, Closing
  <2>2. phase = "Draining" => /\ closer \in Threads /\ Closing(closer)' /\ pc'[closer] = "drains"
                              /\ pc[closer] = "pops"
    BY <1>1, <1>3, <1>7 DEF Closing
  <2>3. UNCHANGED <<phase, stop, closer>>
    BY <1>1
  <2>4. QED
    BY <1>7, <2>1, <2>2, <2>3 DEF IInv, Course, StagesOK
<1>9. DrainOK'
  <2>1. NothingLost'
    BY <1>1 DEF IInv, Course, DrainOK, NothingLost
  <2>2. CASE phase = "Draining"
    <3>1. closer = t /\ pc[closer] = "pops" /\ pc'[closer] = "drains"
      BY <1>1, <1>3, <1>7, <2>2
    <3>2. \A o \in DOMAIN ops : ops[o].tick < tick /\ ops[o].tick <= known
      BY <2>2, <3>1 DEF IInv, Course, DrainOK
    <3>3. pending = <<>>
      <4>1. SUFFICES ASSUME pending # <<>> PROVE FALSE
        OBVIOUS
      <4>2. Head(pending) \in DOMAIN ops
        BY <4>1 DEF IInv, Books, QueuesOK, QueueIn, TicksOK
      <4>3. QED
        BY <1>1, <3>2, <4>1, <4>2 DEF Ready, IsFree
    <3>4. UNCHANGED <<tick, known, ops, pending, closer>>
      BY <1>1 DEF clock
    <3>5. QED
      BY <2>1, <3>1, <3>2, <3>3, <3>4 DEF DrainOK
  <2>3. CASE phase # "Draining"
    BY <1>1, <2>1, <2>3 DEF DrainOK
  <2>4. QED
    BY <2>2, <2>3
<1>10. QED
  BY <1>2, <1>5, <1>6, <1>8, <1>9 DEF IInv, Course

LEMMA RunnerLooksInv ==
  ASSUME DeferredAssumption, IInv, RunnerLooks
  PROVE  IInv'
<1>1. /\ runner = "top"
      /\ UNCHANGED <<clock, phase, stop, pc, arg, closer, asleep, owes>>
  BY DEF RunnerLooks
<1>2. active = 0
  BY <1>1 DEF IInv, Books, RunnerOK
<1>3. TypesOK' /\ SameCourse
  BY <1>1 DEF IInv, Course, TypesOK, SameCourse
<1>4. CASE runner' \in {"exited", "poised"} /\ UNCHANGED <<queues, active>>
  BY <1>1, <1>2, <1>3, <1>4, QuietKeeps DEF Quiet, SameRunner
<1>5. CASE /\ priority # <<>> /\ priority' = Tail(priority) /\ active' = Head(priority)
           /\ SetStatus(Head(priority), "taken") /\ runner' = "waits" /\ UNCHANGED pending
  <2>1. Books'
    BY <1>1, <1>5, RunnerTakesKeeps
  <2>2. ClockOK' /\ Later
    BY <1>1, <1>3, ClockRuns
  <2>3. Head(priority) \in DOMAIN ops /\ ops[Head(priority)].status = "queued"
    <3>1. /\ Head(priority) \in 1 .. Len(ops) /\ Head(priority) = priority[1] /\ 1 \in DOMAIN priority
          /\ \A i \in DOMAIN priority : ops[priority[i]].status = "queued"
      BY <1>5 DEF IInv, Books, QueuesOK, QueueIn
    <3>2. DOMAIN ops = 1 .. Len(ops)
      BY DEF IInv, Books, TicksOK
    <3>3. QED
      BY <3>1, <3>2
  <2>4. phase # "Draining" \/ pc[closer] \notin {"stops", "wakes", "joins"}
    BY <1>5 DEF IInv, Course, DrainOK
  <2>5. ~stop
    BY <1>5 DEF IInv, Course, DrainOK, NothingLost
  <2>6. DOMAIN ops' = DOMAIN ops /\ \A p \in DOMAIN ops : ops'[p].tick = ops[p].tick
    BY <1>5, <2>3, StatusIsSet DEF IInv, Books, TicksOK, Statuses
  <2>7. NothingLost'
    BY <1>1, <2>5 DEF NothingLost
  <2>8. UNCHANGED <<tick, known, pending, phase, closer, pc>>
    BY <1>1, <1>5 DEF clock
  <2>9. DrainOK'
    BY <2>4, <2>6, <2>7, <2>8 DEF IInv, Course, DrainOK
  <2>10. StagesOK'
    BY <1>3, StagesStay DEF IInv, Course
  <2>11. QED
    BY <1>3, <2>1, <2>2, <2>9, <2>10 DEF IInv, Course
<1>6. QED
  BY <1>4, <1>5 DEF RunnerLooks

\* The operation it waits for is never dropped: nobody stops it while it has one.
LEMMA RunnerRunsInv ==
  ASSUME DeferredAssumption, IInv, RunnerRuns
  PROVE  IInv'
<1>1. /\ runner = "waits" /\ Waited(ops[active].tick)
      /\ UNCHANGED <<tick, done, pending, priority, active, phase, stop, pc, arg,
                     closer, asleep, owes>>
  BY DEF RunnerRuns
<1>2. active # 0 /\ active \in DOMAIN ops /\ ops[active].status = "taken"
  BY <1>1 DEF IInv, Books, RunnerOK
<1>3. ~stop
  BY <1>2 DEF IInv, Course, DrainOK, NothingLost
<1>4. SetStatus(active, "running") /\ runner' = "runs"
  BY <1>3 DEF RunnerRuns
<1>5. known' \in known .. done /\ ops[active].tick <= done
  <2>1. done \in Nat /\ known \in Nat /\ known <= done /\ ops[active].tick \in Nat
    BY <1>2, TickIsNumber DEF IInv, Books, Course, ClockOK
  <2>2. QED
    BY <1>1, <2>1 DEF Waited, IsFree
<1>6. TypesOK' /\ SameCourse
  BY <1>1 DEF IInv, Course, TypesOK, SameCourse
<1>7. ClockOK' /\ Later
  BY <1>1, <1>5, <1>6, ClockStays DEF IInv, Course
<1>8. Books'
  <2>1. ops[active].tick <= done' /\ "running" \in {"running", "done"}
    BY <1>1, <1>5
  <2>2. UNCHANGED <<pending, priority, active, pc, arg>>
    BY <1>1
  <2>3. QED
    BY <1>2, <1>4, <1>7, <2>1, <2>2, ActiveGoesOn
<1>9. "running" \in Statuses
  BY DEF Statuses
<1>10. QED
  BY <1>1, <1>2, <1>4, <1>6, <1>7, <1>8, <1>9, SetKeeps

LEMMA RunnerReturnsInv ==
  ASSUME DeferredAssumption, IInv, RunnerReturns
  PROVE  IInv'
<1>1. /\ runner = "runs" /\ SetStatus(active, "done") /\ runner' = "clears"
      /\ UNCHANGED <<clock, pending, priority, active, phase, stop, pc, arg, closer, asleep, owes>>
  BY DEF RunnerReturns
<1>2. active # 0 /\ active \in DOMAIN ops /\ ops[active].status = "running"
  BY <1>1 DEF IInv, Books, RunnerOK
<1>3. ops[active].tick <= done /\ done' = done /\ tick' = tick
  BY <1>1, <1>2 DEF IInv, Books, TicksOK, clock
<1>4. TypesOK' /\ SameCourse
  BY <1>1 DEF IInv, Course, TypesOK, SameCourse
<1>5. ClockOK' /\ Later
  BY <1>1, <1>4, ClockRuns
<1>6. Books'
  <2>1. ops[active].tick <= done' /\ "done" \in {"running", "done"}
    BY <1>3
  <2>2. UNCHANGED <<pending, priority, active, pc, arg>>
    BY <1>1
  <2>3. QED
    BY <1>1, <1>2, <1>5, <2>1, <2>2, ActiveGoesOn
<1>7. "done" \in Statuses
  BY DEF Statuses
<1>8. QED
  BY <1>1, <1>2, <1>3, <1>4, <1>5, <1>6, <1>7, SetKeeps

LEMMA RunnerClearsInv ==
  ASSUME DeferredAssumption, IInv, RunnerClears
  PROVE  IInv'
<1>1. /\ runner = "clears" /\ active' = 0
      /\ UNCHANGED <<clock, ops, pending, priority, phase, stop, pc, arg, closer, asleep, owes>>
  BY DEF RunnerClears, queues
<1>2. active # 0
  BY <1>1 DEF IInv, Books, RunnerOK
<1>3. TypesOK' /\ SameCourse
  BY <1>1 DEF IInv, Course, TypesOK, SameCourse
<1>4. ClockOK' /\ Later
  BY <1>1, <1>3, ClockRuns
<1>5. Books'
  BY RunnerClearsKeeps
<1>6. ~stop /\ tick' = tick
  BY <1>1, <1>2 DEF IInv, Course, DrainOK, NothingLost, clock
<1>7. DrainOK'
  BY <1>1, <1>2, <1>3, <1>4, <1>6, DrainStays
<1>8. StagesOK'
  BY <1>3, StagesStay DEF IInv, Course
<1>9. QED
  BY <1>3, <1>4, <1>5, <1>7, <1>8 DEF IInv, Course

(***************************************************************************)
(* Shutdown.                                                               *)
(***************************************************************************)

\* What the steps of a shutdown have in common.
LEMMA ShutdownBooks ==
  ASSUME DeferredAssumption, IInv, NEW t \in Threads, NEW place \in Places,
         ~Popping(t) \/ pc[t] = "pops", place \notin {"yields", "runs"},
         pc' = [pc EXCEPT ![t] = place], UNCHANGED <<queues, active, arg, runner>>, Later
  PROVE  /\ Books'
         /\ \A u \in Threads : pc'[u] = IF u = t THEN place ELSE pc[u]
         /\ pc' \in [Threads -> Places]
<1>1. \A u \in Threads : pc'[u] = IF u = t THEN place ELSE pc[u]
  BY DEF IInv, Course, TypesOK
<1>2. SamePoppers /\ SameRunner
  BY <1>1 DEF SamePoppers, SameRunner, Popping
<1>3. Books'
  BY <1>2, BooksStay DEF IInv, Course, queues
<1>4. QED
  BY <1>1, <1>3 DEF IInv, Course, TypesOK

LEMMA ShutdownBeginsInv ==
  ASSUME DeferredAssumption, IInv, NEW t \in Threads, ShutdownBegins(t)
  PROVE  IInv'
<1>1. /\ pc[t] = "idle" /\ pc[Owner] = "idle" /\ phase = "Open" /\ phase' = "Draining"
      /\ closer' = t /\ pc' = [pc EXCEPT ![t] = "submits"]
      /\ UNCHANGED <<clock, queues, active, stop, runner, arg, asleep, owes>>
  BY DEF ShutdownBegins, Goto
<1>2. UNCHANGED <<tick, done, known>> /\ Later
  BY <1>1 DEF clock, Later, IInv, Course, ClockOK
<1>3. /\ Books' /\ pc' \in [Threads -> Places]
      /\ \A u \in Threads : pc'[u] = IF u = t THEN "submits" ELSE pc[u]
  <2>1. "submits" \in Places /\ "submits" \notin {"yields", "runs"} /\ ~Popping(t)
    BY <1>1 DEF Places, Popping
  <2>2. QED
    BY <1>1, <1>2, <2>1, ShutdownBooks
<1>4. TypesOK'
  BY <1>1, <1>3 DEF IInv, Course, TypesOK
<1>5. ClockOK'
  BY <1>1, <1>2 DEF IInv, Course, ClockOK
<1>6. StagesOK'
  <2>1. \A u \in Threads : ~Popping(u) /\ ~Closing(u) /\ pc[u] # "tells"
    BY <1>1 DEF IInv, Course, StagesOK, Popping
  <2>2. \A u \in Threads : /\ ~Popping(u)' /\ (Closing(u)' => u = t) /\ pc'[u] # "tells"
    BY <1>3, <2>1 DEF Popping, Closing
  <2>3. Closing(t)' /\ ~stop /\ pc'[t] = "submits"
    BY <1>1, <1>3 DEF Closing, IInv, Course, StagesOK
  <2>4. QED
    BY <1>1, <2>2, <2>3 DEF StagesOK
<1>7. DrainOK'
  <2>1. ~stop' /\ pc'[closer'] = "submits"
    BY <1>1, <1>3 DEF IInv, Course, StagesOK
  <2>2. QED
    BY <2>1 DEF DrainOK, NothingLost
<1>8. QED
  BY <1>3, <1>4, <1>5, <1>6, <1>7 DEF IInv, Course

\* A shutdown goes on from one stage to the next.
LEMMA StagesAdvance ==
  ASSUME DeferredAssumption, IInv, NEW t \in Threads, Closing(t), NEW place \in Places,
         \A u \in Threads : pc'[u] = IF u = t THEN place ELSE pc[u],
         place \in {"pops", "retires", "drains", "stops", "wakes", "joins"},
         phase' = phase, closer' = closer, stop' <=> place \in {"wakes", "joins"}
  PROVE  StagesOK'
<1>1. phase = "Draining" /\ closer = t
  BY DEF IInv, Course, StagesOK
<1>2. \A u \in Threads : u # t => ~Popping(u) /\ ~Closing(u) /\ pc[u] # "tells"
  BY <1>1 DEF IInv, Course, StagesOK
<1>3. \A u \in Threads : u # t => ~Popping(u)' /\ ~Closing(u)' /\ pc'[u] # "tells"
  BY <1>2 DEF Popping, Closing
<1>4. pc'[t] = place /\ (Popping(t)' \/ Closing(t)') /\ pc'[t] # "tells"
  BY DEF Popping, Closing
<1>5. pc'[closer'] \in {"wakes", "joins"} <=> stop'
  BY <1>1, <1>4
<1>6. QED
  BY <1>1, <1>3, <1>4, <1>5 DEF StagesOK

\* The last submission has every operation that was deferred, ...
LEMMA ShutdownSubmitsInv ==
  ASSUME DeferredAssumption, IInv, NEW t \in Threads, ShutdownSubmits(t)
  PROVE  IInv'
<1>1. /\ pc[t] = "submits" /\ tick' = tick + 1 /\ pc' = [pc EXCEPT ![t] = "retires"]
      /\ UNCHANGED <<done, known, queues, active, phase, stop, runner, arg, closer, asleep, owes>>
  BY DEF ShutdownSubmits, Goto
<1>2. Closing(t) /\ phase = "Draining" /\ closer = t /\ ~stop
  BY <1>1 DEF Closing, IInv, Course, StagesOK
<1>3. /\ tick \in 1 .. MaxTick + 1 /\ done \in 0 .. tick - 1 /\ known \in 0 .. done
      /\ tick <= MaxTick /\ MaxTick \in Nat
  BY <1>1, <1>2 DEF IInv, Course, ClockOK, DeferredAssumption
<1>4. Later
  BY <1>1, <1>3 DEF Later
<1>5. /\ Books' /\ pc' \in [Threads -> Places]
      /\ \A u \in Threads : pc'[u] = IF u = t THEN "retires" ELSE pc[u]
  <2>1. "retires" \in Places /\ "retires" \notin {"yields", "runs"} /\ ~Popping(t)
    BY <1>1 DEF Places, Popping
  <2>2. QED
    BY <1>1, <1>4, <2>1, ShutdownBooks
<1>6. TypesOK'
  BY <1>1, <1>5 DEF IInv, Course, TypesOK
<1>7. ClockOK'
  <2>1. phase' = "Draining" /\ pc'[closer'] = "retires"
    BY <1>1, <1>2, <1>5
  <2>2. tick' \in 1 .. MaxTick + 1 /\ done' \in 0 .. tick' - 1 /\ known' \in 0 .. done'
    BY <1>1, <1>3
  <2>3. QED
    BY <2>1, <2>2 DEF ClockOK
<1>8. StagesOK'
  <2>1. /\ "retires" \in Places /\ phase' = phase /\ closer' = closer
        /\ stop' <=> "retires" \in {"wakes", "joins"}
    BY <1>1, <1>2 DEF Places
  <2>2. QED
    BY <1>2, <1>5, <2>1, StagesAdvance
<1>9. DrainOK'
  <2>1. pc'[closer'] = "retires" /\ ~stop'
    BY <1>1, <1>2, <1>5
  <2>2. \A o \in DOMAIN ops : ops[o].tick < tick'
    <3>1. \A o \in DOMAIN ops : ops[o].tick \in Nat /\ ops[o].tick <= tick
      BY TickIsNumber DEF IInv, Books, TicksOK
    <3>2. QED
      BY <1>1, <1>3, <3>1
  <2>3. ops' = ops
    BY <1>1 DEF queues
  <2>4. QED
    BY <2>1, <2>2, <2>3 DEF DrainOK, NothingLost
<1>10. QED
  BY <1>5, <1>6, <1>7, <1>8, <1>9 DEF IInv, Course

\* ... and when the GPU has finished it, all their ticks are known.
LEMMA ShutdownRetiresInv ==
  ASSUME DeferredAssumption, IInv, NEW t \in Threads, ShutdownRetires(t)
  PROVE  IInv'
<1>1. /\ pc[t] = "retires" /\ done >= tick - 1 /\ known' = done /\ pc' = [pc EXCEPT ![t] = "pops"]
      /\ UNCHANGED <<tick, done, queues, active, phase, stop, runner, arg, closer, asleep, owes>>
  BY DEF ShutdownRetires, Goto
<1>2. Closing(t) /\ phase = "Draining" /\ closer = t /\ ~stop
  BY <1>1 DEF Closing, IInv, Course, StagesOK
<1>3. tick \in 1 .. MaxTick + 1 /\ done \in 0 .. tick - 1 /\ known \in 0 .. done
  BY DEF IInv, Course, ClockOK
<1>4. Later
  BY <1>1, <1>3 DEF Later
<1>5. /\ Books' /\ pc' \in [Threads -> Places]
      /\ \A u \in Threads : pc'[u] = IF u = t THEN "pops" ELSE pc[u]
  <2>1. "pops" \in Places /\ "pops" \notin {"yields", "runs"} /\ ~Popping(t)
    BY <1>1 DEF Places, Popping
  <2>2. QED
    BY <1>1, <1>4, <2>1, ShutdownBooks
<1>6. TypesOK'
  BY <1>1, <1>5 DEF IInv, Course, TypesOK
<1>7. ClockOK'
  <2>1. phase' = "Draining" /\ pc'[closer'] = "pops"
    BY <1>1, <1>2, <1>5
  <2>2. tick' \in 1 .. MaxTick + 1 /\ done' \in 0 .. tick' - 1 /\ known' \in 0 .. done'
    BY <1>1, <1>3
  <2>3. QED
    BY <2>1, <2>2 DEF ClockOK
<1>8. StagesOK'
  <2>1. /\ "pops" \in Places /\ phase' = phase /\ closer' = closer
        /\ stop' <=> "pops" \in {"wakes", "joins"}
    BY <1>1, <1>2 DEF Places
  <2>2. QED
    BY <1>2, <1>5, <2>1, StagesAdvance
<1>9. DrainOK'
  <2>1. pc'[closer'] = "pops" /\ ~stop'
    BY <1>1, <1>2, <1>5
  <2>2. \A o \in DOMAIN ops : ops[o].tick < tick /\ ops[o].tick <= done
    <3>1. \A o \in DOMAIN ops : ops[o].tick \in Nat
      BY TickIsNumber DEF IInv, Books
    <3>2. \A o \in DOMAIN ops : ops[o].tick < tick
      BY <1>1, <1>2 DEF IInv, Course, DrainOK
    <3>3. QED
      BY <1>1, <1>3, <3>1, <3>2
  <2>3. ops' = ops /\ tick' = tick /\ known' = done
    BY <1>1 DEF queues
  <2>4. QED
    BY <2>1, <2>2, <2>3 DEF DrainOK, NothingLost
<1>10. QED
  BY <1>5, <1>6, <1>7, <1>8, <1>9 DEF IInv, Course

LEMMA ShutdownDrainsInv ==
  ASSUME DeferredAssumption, IInv, NEW t \in Threads, ShutdownDrains(t)
  PROVE  IInv'
<1>1. /\ pc[t] = "drains"
      /\ UNCHANGED <<clock, queues, active, phase, stop, runner, arg, closer, owes>>
  BY DEF ShutdownDrains
<1>2. Closing(t) /\ phase = "Draining" /\ closer = t /\ ~stop
  BY <1>1 DEF Closing, IInv, Course, StagesOK
<1>3. CASE Drained
  <2>1. pc' = [pc EXCEPT ![t] = "stops"] /\ asleep' = asleep
    BY <1>3 DEF ShutdownDrains, Goto
  <2>2. Later
    BY <1>1 DEF Later, clock, IInv, Course, ClockOK
  <2>3. /\ Books' /\ pc' \in [Threads -> Places]
        /\ \A u \in Threads : pc'[u] = IF u = t THEN "stops" ELSE pc[u]
    <3>1. "stops" \in Places /\ "stops" \notin {"yields", "runs"} /\ ~Popping(t)
      BY <1>1 DEF Places, Popping
    <3>2. QED
      BY <1>1, <2>1, <2>2, <3>1, ShutdownBooks
  <2>4. TypesOK'
    BY <1>1, <2>1, <2>3 DEF IInv, Course, TypesOK
  <2>5. pc'[closer'] = "stops" /\ phase' = "Draining" /\ ~stop'
    BY <1>1, <1>2, <2>3
  <2>6. ClockOK'
    BY <1>1, <2>5 DEF IInv, Course, ClockOK, clock
  <2>7. StagesOK'
    <3>1. /\ "stops" \in Places /\ phase' = phase /\ closer' = closer
          /\ stop' <=> "stops" \in {"wakes", "joins"}
      BY <1>1, <1>2 DEF Places
    <3>2. QED
      BY <1>2, <2>3, <3>1, StagesAdvance
  <2>8. DrainOK'
    <3>1. UNCHANGED <<tick, known, ops, pending, priority, active>>
      BY <1>1 DEF clock, queues
    <3>2. /\ \A o \in DOMAIN ops : ops[o].tick < tick /\ ops[o].tick <= known
          /\ pending = <<>> /\ priority = <<>> /\ active = 0
      BY <1>1, <1>2, <1>3 DEF IInv, Course, DrainOK, Drained
    <3>3. QED
      BY <2>5, <3>1, <3>2 DEF DrainOK, NothingLost
  <2>9. QED
    BY <2>3, <2>4, <2>6, <2>7, <2>8 DEF IInv, Course
<1>4. CASE ~Drained
  <2>1. asleep' = asleep \cup {t} /\ pc' = pc
    BY <1>4 DEF ShutdownDrains
  <2>2. TypesOK' /\ Quiet /\ SameRunner
    BY <1>1, <2>1 DEF IInv, Course, TypesOK, Quiet, SameRunner
  <2>3. QED
    BY <2>2, QuietKeeps
<1>5. QED
  BY <1>3, <1>4

\* With both queues empty and nothing taken every operation has run.
LEMMA ShutdownStopsInv ==
  ASSUME DeferredAssumption, IInv, NEW t \in Threads, ShutdownStops(t)
  PROVE  IInv'
<1>1. /\ pc[t] = "stops" /\ stop' = TRUE /\ pc' = [pc EXCEPT ![t] = "wakes"]
      /\ UNCHANGED <<clock, queues, active, phase, runner, arg, closer, asleep, owes>>
  BY DEF ShutdownStops, Goto
<1>2. Closing(t) /\ phase = "Draining" /\ closer = t
  BY <1>1 DEF Closing, IInv, Course, StagesOK
<1>3. Later
  BY <1>1 DEF Later, clock, IInv, Course, ClockOK
<1>4. /\ Books' /\ pc' \in [Threads -> Places]
      /\ \A u \in Threads : pc'[u] = IF u = t THEN "wakes" ELSE pc[u]
  <2>1. "wakes" \in Places /\ "wakes" \notin {"yields", "runs"} /\ ~Popping(t)
    BY <1>1 DEF Places, Popping
  <2>2. QED
    BY <1>1, <1>3, <2>1, ShutdownBooks
<1>5. TypesOK'
  BY <1>1, <1>4 DEF IInv, Course, TypesOK
<1>6. pc'[closer'] = "wakes" /\ phase' = "Draining" /\ stop'
  BY <1>1, <1>2, <1>4
<1>7. ClockOK'
  BY <1>1, <1>6 DEF IInv, Course, ClockOK, clock
<1>8. StagesOK'
  <2>1. /\ "wakes" \in Places /\ phase' = phase /\ closer' = closer
        /\ stop' <=> "wakes" \in {"wakes", "joins"}
    BY <1>1 DEF Places
  <2>2. QED
    BY <1>2, <1>4, <2>1, StagesAdvance
<1>9. /\ \A o \in DOMAIN ops : ops[o].tick < tick /\ ops[o].tick <= known
      /\ pending = <<>> /\ priority = <<>> /\ active = 0
  BY <1>1, <1>2 DEF IInv, Course, DrainOK
<1>10. ASSUME NEW o \in DOMAIN ops
       PROVE  ops[o].status = "done"
  <2>1. ops[o].status \in Statuses /\ ops[o].prio \in BOOLEAN
    BY TickIsNumber DEF IInv, Books
  <2>2. ops[o].status # "dropped"
    BY DEF IInv, Books, TicksOK
  <2>3. ops[o].status # "queued"
    <3>1. \A i \in DOMAIN <<>> : FALSE
      OBVIOUS
    <3>2. QED
      BY <1>9, <2>1, <3>1 DEF IInv, Books, QueuesOK, QueueIn
  <2>4. ops[o].status \notin {"taken", "running"}
    <3>1. CASE ops[o].prio
      <4>1. 0 \notin DOMAIN ops
        BY DEF IInv, Books, TicksOK
      <4>2. QED
        BY <1>9, <3>1, <4>1 DEF IInv, Books, RunnerOK
    <3>2. CASE ~ops[o].prio
      <4>1. \A u \in Threads : pc[u] \notin {"yields", "runs"}
        BY <1>1, <1>2 DEF IInv, Course, StagesOK, Popping
      <4>2. QED
        BY <3>2, <4>1 DEF IInv, Books, PopperOK
    <3>3. QED
      BY <3>1, <3>2
  <2>5. QED
    BY <2>1, <2>2, <2>3, <2>4 DEF Statuses
<1>11. DrainOK'
  <2>1. UNCHANGED <<tick, known, ops, pending, priority, active>>
    BY <1>1 DEF clock, queues
  <2>2. QED
    BY <1>6, <1>9, <1>10, <2>1 DEF DrainOK, NothingLost
<1>12. QED
  BY <1>4, <1>5, <1>7, <1>8, <1>11 DEF IInv, Course

LEMMA ShutdownWakesInv ==
  ASSUME DeferredAssumption, IInv, NEW t \in Threads, ShutdownWakes(t)
  PROVE  IInv'
<1>1. /\ pc[t] = "wakes" /\ asleep' = {} /\ pc' = [pc EXCEPT ![t] = "joins"]
      /\ UNCHANGED <<clock, queues, active, phase, stop, runner, arg, closer, owes>>
  BY DEF ShutdownWakes, Goto
<1>2. Closing(t) /\ phase = "Draining" /\ closer = t /\ stop
  BY <1>1 DEF Closing, IInv, Course, StagesOK
<1>3. Later
  BY <1>1 DEF Later, clock, IInv, Course, ClockOK
<1>4. /\ Books' /\ pc' \in [Threads -> Places]
      /\ \A u \in Threads : pc'[u] = IF u = t THEN "joins" ELSE pc[u]
  <2>1. "joins" \in Places /\ "joins" \notin {"yields", "runs"} /\ ~Popping(t)
    BY <1>1 DEF Places, Popping
  <2>2. QED
    BY <1>1, <1>3, <2>1, ShutdownBooks
<1>5. TypesOK'
  BY <1>1, <1>4 DEF IInv, Course, TypesOK
<1>6. pc'[closer'] = "joins" /\ phase' = "Draining" /\ stop'
  BY <1>1, <1>2, <1>4
<1>7. ClockOK'
  BY <1>1, <1>6 DEF IInv, Course, ClockOK, clock
<1>8. StagesOK'
  <2>1. /\ "joins" \in Places /\ phase' = phase /\ closer' = closer
        /\ stop' <=> "joins" \in {"wakes", "joins"}
    BY <1>1, <1>2 DEF Places
  <2>2. QED
    BY <1>2, <1>4, <2>1, StagesAdvance
<1>9. DrainOK'
  <2>1. /\ \A o \in DOMAIN ops : ops[o].tick < tick /\ ops[o].tick <= known
        /\ pending = <<>> /\ priority = <<>> /\ active = 0 /\ NothingLost
    BY <1>1, <1>2 DEF IInv, Course, DrainOK
  <2>2. UNCHANGED <<tick, known, ops, pending, priority, active, stop>>
    BY <1>1 DEF clock, queues
  <2>3. QED
    BY <1>6, <2>1, <2>2 DEF DrainOK, NothingLost
<1>10. QED
  BY <1>4, <1>5, <1>7, <1>8, <1>9 DEF IInv, Course

LEMMA ShutdownEnds ==
  ASSUME DeferredAssumption, IInv, NEW t \in Threads, ShutdownJoins(t) \/ ShutdownTells(t)
  PROVE  IInv'
<1> DEFINE place == IF ShutdownJoins(t) THEN "tells" ELSE "idle"
<1>1. /\ pc[t] \in {"joins", "tells"} /\ pc' = [pc EXCEPT ![t] = place] /\ phase' = "Closed"
      /\ UNCHANGED <<clock, queues, active, stop, runner, arg, owes>>
      /\ closer' \in {closer, None} /\ asleep' \in {asleep, {}}
  <2>1. CASE ShutdownJoins(t)
    BY <2>1 DEF ShutdownJoins, Goto
  <2>2. CASE ~ShutdownJoins(t)
    BY <2>2 DEF ShutdownTells, Goto, IInv, Course, StagesOK
  <2>3. QED
    BY <2>1, <2>2
<1>2. stop /\ \A u \in Threads : u # t => ~Popping(u) /\ ~Closing(u)
  BY <1>1 DEF Closing, IInv, Course, StagesOK
<1>3. Later
  BY <1>1 DEF Later, clock, IInv, Course, ClockOK
<1>4. place \in {"tells", "idle"}
  OBVIOUS
<1> HIDE DEF place
<1>5. /\ Books' /\ pc' \in [Threads -> Places]
      /\ \A u \in Threads : pc'[u] = IF u = t THEN place ELSE pc[u]
  <2>1. place \in Places /\ place \notin {"yields", "runs"} /\ ~Popping(t)
    BY <1>1, <1>4 DEF Places, Popping
  <2>2. QED
    BY <1>1, <1>3, <2>1, ShutdownBooks
<1>6. TypesOK'
  BY <1>1, <1>5 DEF IInv, Course, TypesOK
<1>7. ClockOK'
  BY <1>1 DEF IInv, Course, ClockOK, clock
<1>8. StagesOK'
  <2>1. \A u \in Threads : ~Popping(u)' /\ ~Closing(u)'
    BY <1>2, <1>4, <1>5 DEF Popping, Closing
  <2>2. phase' = "Closed" /\ stop'
    BY <1>1, <1>2
  <2>3. QED
    BY <2>1, <2>2 DEF StagesOK
<1>9. DrainOK'
  BY <1>1 DEF IInv, Course, DrainOK, NothingLost, queues
<1>10. QED
  BY <1>5, <1>6, <1>7, <1>8, <1>9 DEF IInv, Course

(***************************************************************************)
(* The theorem.                                                            *)
(***************************************************************************)

LEMMA InitHolds ==
  ASSUME DeferredAssumption, Init
  PROVE  IInv
<1>1. DOMAIN <<>> = {} /\ Len(<<>>) = 0
  OBVIOUS
<1>2. ops = <<>> /\ pending = <<>> /\ priority = <<>> /\ active = 0 /\ ~stop
  BY DEF Init
<1>3. TicksOK /\ PriorityFirst
  BY <1>1, <1>2 DEF TicksOK, PriorityFirst
<1>4. QueuesOK
  BY <1>1, <1>2 DEF QueuesOK, QueueIn
<1>5. RunnerOK /\ PopperOK
  BY <1>1, <1>2 DEF Init, RunnerOK, PopperOK
<1>6. TypesOK /\ ClockOK
  <2>1. TypesOK
    BY DEF Init, TypesOK, Places
  <2>2. MaxTick \in Nat /\ 1 <= MaxTick
    BY DEF DeferredAssumption
  <2>3. ClockOK
    BY <2>2 DEF Init, ClockOK
  <2>4. QED
    BY <2>1, <2>3
<1>7. StagesOK /\ DrainOK
  BY <1>2 DEF Init, StagesOK, DrainOK, Popping, Closing, NothingLost
<1>8. QED
  BY <1>3, <1>4, <1>5, <1>6, <1>7 DEF IInv, Books, Course

LEMMA StepKeeps ==
  ASSUME DeferredAssumption, IInv, [Next]_vars
  PROVE  IInv'
<1>1. ASSUME NEW t \in Threads, Calls(t)
      PROVE  IInv'
  <2>1. ASSUME NEW prio \in BOOLEAN, Defer(t, prio)
        PROVE  IInv'
    BY <2>1, PushKeeps DEF Defer
  <2>2. CASE DeferLate(t) \/ ShutdownJoinsOther(t)
    BY <2>2, CallsAndWakes
  <2>3. ASSUME NEW k \in 1 .. MaxTick, WaitPriority(t, k)
        PROVE  IInv'
    <3>1. k \in Nat
      OBVIOUS
    <3>2. QED
      BY <2>3, <3>1, CallsAndWakes
  <2>4. CASE ShutdownBegins(t)
    BY <2>4, ShutdownBeginsInv
  <2>5. QED
    BY <1>1, <2>1, <2>2, <2>3, <2>4 DEF Calls
<1>2. ASSUME NEW t \in Threads, Continues(t)
      PROVE  IInv'
  <2>1. CASE Pops(t)
    BY <2>1, PopTakesInv, PopRunsInv, PopReturnsInv, PopEndsInv DEF Pops
  <2>2. CASE RunLate(t)
    BY <2>2, RunLateKeeps
  <2>3. CASE WaitPriorityReturns(t) \/ ShutdownFollows(t)
    BY <2>3, CallsAndWakes
  <2>4. CASE ShutdownSubmits(t) \/ ShutdownRetires(t) \/ ShutdownDrains(t)
    BY <2>4, ShutdownSubmitsInv, ShutdownRetiresInv, ShutdownDrainsInv
  <2>5. CASE ShutdownStops(t) \/ ShutdownWakes(t) \/ ShutdownJoins(t) \/ ShutdownTells(t)
    BY <2>5, ShutdownStopsInv, ShutdownWakesInv, ShutdownEnds
  <2>6. QED
    BY <1>2, <2>1, <2>2, <2>3, <2>4, <2>5 DEF Continues, Shuts
<1>3. ASSUME NEW e \in Threads \cup {Runner},
             NotifyOne(e) \/ \E prio \in BOOLEAN : DeferInCallback(e, prio)
      PROVE  IInv'
  BY <1>3, CallsAndWakes, DeferInCallbackKeeps
<1>4. CASE RunnerStep
  <2>1. CASE RunnerSleeps \/ RunnerNotifies
    BY <2>1, CallsAndWakes
  <2>2. CASE RunnerLooks \/ RunnerRuns \/ RunnerReturns \/ RunnerClears
    BY <2>2, RunnerLooksInv, RunnerRunsInv, RunnerReturnsInv, RunnerClearsInv
  <2>3. QED
    BY <1>4, <2>1, <2>2 DEF RunnerStep
<1>5. CASE GpuFinishes \/ Flush \/ PopBegins
  BY <1>5, ClockSteps, PopBeginsKeeps
<1>6. CASE UNCHANGED vars
  <2>1. UNCHANGED <<tick, done, known, ops, pending, priority, active, phase, stop, runner,
                    pc, arg, closer, asleep, owes>>
    BY <1>6 DEF vars
  <2>2. TypesOK' /\ Quiet /\ SameRunner
    BY <2>1 DEF IInv, Course, TypesOK, Quiet, SameRunner, clock, queues
  <2>3. QED
    BY <2>2, QuietKeeps
<1>7. QED
  BY <1>1, <1>2, <1>3, <1>4, <1>5, <1>6 DEF Next

LEMMA InvariantImplies ==
  ASSUME DeferredAssumption, IInv
  PROVE  DeferredInv
<1>1. TypeOK
  <2>1. ops \in Seq(Op) /\ DOMAIN ops = 1 .. Len(ops) /\ Len(ops) \in Nat
    BY DEF IInv, Books, TicksOK
  <2>2. pending \in Seq(1 .. Len(ops)) /\ priority \in Seq(1 .. Len(ops))
    BY DEF IInv, Books, QueuesOK, QueueIn
  <2>3. active \in 0 .. Len(ops)
    BY <2>1 DEF IInv, Books, RunnerOK
  <2>4. runner \in {"top", "poised", "waits", "runs", "clears", "notifies", "exited"}
    BY DEF IInv, Books, RunnerOK
  <2>5. tick \in 1 .. MaxTick + 1 /\ done \in 0 .. tick - 1 /\ known \in 0 .. done
    BY DEF IInv, Course, ClockOK
  <2>6. QED
    BY <2>1, <2>2, <2>3, <2>4, <2>5 DEF TypeOK, Op, IInv, Course, TypesOK, Places
<1>2. RunsAfterGpu
  BY DEF RunsAfterGpu, IInv, Books, TicksOK
<1>3. PriorityFirst /\ NothingLost
  BY DEF IInv, Books, Course, DrainOK
<1>4. QED
  BY <1>1, <1>2, <1>3 DEF DeferredInv

\* What is deferred runs after the GPU, priority operations first, and none is
\* dropped by the shutdown.
THEOREM OperationsAreSound ==
  ASSUME DeferredAssumption
  PROVE  Spec => []DeferredInv
<1>1. Init => IInv
  BY InitHolds
<1>2. IInv /\ [Next]_vars => IInv'
  BY StepKeeps
<1>3. IInv => DeferredInv
  BY InvariantImplies
<1>4. QED
  BY <1>1, <1>2, <1>3, PTL DEF Spec
=============================================================================
