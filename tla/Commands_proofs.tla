--------------------------- MODULE Commands_proofs --------------------------
(***************************************************************************)
(* Proofs about SubmitPath, for any ring and stream sizes, any memory and  *)
(* any number of packets: the two rings keep what was put in them, nobody  *)
(* sleeps who should not, no copy works on memory that is gone, and        *)
(* packets and submissions are executed in order; and that what is proved  *)
(* of DeferredOperations (DeferredOperations_proofs) holds in Commands.    *)
(***************************************************************************)
EXTENDS Commands, WellFoundedInduction, TLAPS

(***************************************************************************)
(* Slots of a ring.                                                        *)
(***************************************************************************)

LEMMA Division ==
  ASSUME NEW c \in Nat \ {0}, NEW a \in Nat
  PROVE  a = (c * (a \div c)) + (a % c)
OBVIOUS

LEMMA Multiples ==
  ASSUME NEW c \in Nat \ {0}, NEW q \in Int, NEW s \in Int, q < s
  PROVE  (c * q) + c <= c * s
OBVIOUS

\* Numbers less than the size of the ring apart have different slots.
LEMMA SlotsDiffer ==
  ASSUME NEW c \in Nat \ {0}, NEW a \in Nat, NEW b \in Nat,
         a % c = b % c, a <= b, b < a + c
  PROVE  a = b
<1> DEFINE q == a \div c
<1> DEFINE s == b \div c
<1>1. q \in Int /\ s \in Int
  OBVIOUS
<1>2. a = (c * q) + (a % c) /\ b = (c * s) + (b % c)
  BY Division
<1> HIDE DEF q, s
<1>3. c * q \in Int /\ c * s \in Int /\ a % c \in Int
  BY <1>1
<1>4. (c * s) - (c * q) = b - a
  BY <1>2, <1>3
<1>5. q = s
  BY <1>1, <1>3, <1>4, Multiples
<1>6. QED
  BY <1>2, <1>5

LEMMA SlotIsFree ==
  ASSUME NEW c \in Nat \ {0}, NEW a \in Nat
  PROVE  a % c \in 0..c - 1 /\ (a + c) % c = a % c
<1> DEFINE q == a \div c
<1> DEFINE s == (a + c) \div c
<1>1. q \in Int /\ s \in Int /\ a % c \in 0..c - 1 /\ (a + c) % c \in 0..c - 1
  OBVIOUS
<1>2. a = (c * q) + (a % c) /\ a + c = (c * s) + ((a + c) % c)
  BY Division
<1> HIDE DEF q, s
<1>3. c * q \in Int /\ c * s \in Int
  BY <1>1
<1>4. c * (q + 1) = (c * q) + c
  BY <1>1
<1>5. s = q + 1
  <2>1. ~ (s < q + 1)
    BY <1>1, <1>2, <1>3, <1>4, Multiples
  <2>2. ~ (q + 1 < s)
    BY <1>1, <1>2, <1>3, <1>4, Multiples
  <2>3. QED
    BY <1>1, <2>1, <2>2
<1>6. QED
  BY <1>1, <1>2, <1>3, <1>4, <1>5

\* A nonempty bounded set of naturals has a greatest element.
LEMMA GreatestElement ==
  ASSUME NEW bound \in Nat, NEW S \in SUBSET (0..bound), S # {}
  PROVE  \E m \in S : \A k \in S : k <= m
<1> DEFINE Less == {ss \in Nat \X Nat : ss[1] < ss[2]}
<1> DEFINE T == {bound - k : k \in S}
<1>1. IsWellFoundedOn(Less, Nat)
  BY NatLessThanWellFounded DEF OpToRel
<1>2. ASSUME NEW x \in Nat, NEW y \in Nat, y < x
      PROVE  <<y, x>> \in Less
  BY <1>2
<1> HIDE DEF Less
<1>3. T \in SUBSET Nat /\ T # {}
  <2>1. \A k \in S : bound - k \in Nat
    OBVIOUS
  <2>2. QED
    BY <2>1
<1>4. \E x \in T : \A y \in T : ~ (<<y, x>> \in Less)
  BY <1>1, <1>3, WFMin
<1>5. PICK x \in T : \A y \in T : ~ (y < x)
  BY <1>2, <1>3, <1>4
<1>6. PICK m \in S : x = bound - m
  OBVIOUS
<1>7. ASSUME NEW k \in S PROVE k <= m
  <2>1. bound - k \in T
    OBVIOUS
  <2>2. ~ (bound - k < bound - m)
    BY <1>5, <1>6, <2>1
  <2>3. QED
    BY <2>2
<1>8. QED
  BY <1>7

(***************************************************************************)
(* The copies.                                                             *)
(***************************************************************************)

USE AsyncUploadAssumption

Jobs == [seq : Nat, area : Areas \cup {"none"}]

\* The worker is behind what was pushed by no more than the ring holds, and is
\* asleep or about to be only when it said so.
UploadOK ==
  /\ head \in Nat /\ done \in Nat /\ current \in Nat /\ limit \in Nat
  /\ done <= current /\ current <= head /\ head - done <= Capacity /\ head <= MaxJobs
  /\ slots \in [0..Capacity - 1 -> Jobs]
  /\ \A n \in done + 1..head : slots[Slot(n - 1)].seq = n
  /\ sleeping \in BOOLEAN /\ worker \in Bell!Places
  /\ worker # "running" => done = current
  /\ worker = "running" => limit \in current..head
  /\ worker \in {"checking", "parking", "parked"} => sleeping

WaitsOK ==
  /\ wait \in [Waiters -> [at : {"no", "spins", "looks", "parking", "parked"},
                           seq : Nat, seen : Nat]]
  /\ WaitersAreTold

MappedOK == mapped \subseteq Areas /\ JobsAreMapped

\* t waits for the first n copies, or they are done.
Awaits(t, n) ==
  \/ wait[t].at # "no" /\ wait[t].seq = n
  \/ wait[t].at = "no" /\ done >= n

\* The render thread waits for all copies before it submits, and for those of an
\* area before it unmaps the area.
UploadingOK ==
  producer = "uploading" =>
    \E n \in Nat :
      /\ Awaits(Render, n)
      /\ todo = "submit" => n = head
      /\ \A m \in done + 1..head : slots[Slot(m - 1)].area = todo => m <= n

\* What a step can do to the copies.
WaitStarts ==
  /\ \E t \in Waiters, n \in Nat : WaitBegins(t, n)
  /\ UNCHANGED <<ring, run, done, sleeping, worker, mapped>>

Remaps ==
  /\ mapped' \subseteq Areas /\ \A n \in Pending : slots[Slot(n - 1)].area \in mapped'
  /\ UNCHANGED <<ring, run, done, sleeping, worker, wait>>

UploadStep ==
  \/ \E area \in mapped : Add(area)
  \/ Kick \/ Worker \/ WaitStarts \/ Remaps
  \/ \E t \in Waiters : Waits(t)
  \/ UNCHANGED uploadVars

LEMMA AddKeeps ==
  ASSUME UploadOK, WaitsOK, MappedOK, NEW area \in mapped, Add(area)
  PROVE  UploadOK' /\ WaitsOK' /\ MappedOK'
<1>1. head - done < Capacity /\ head' = head + 1 /\ head < MaxJobs
  BY DEF Add, Full, UploadOK
<1>2. UNCHANGED <<run, done, sleeping, worker, wait, mapped>>
  BY DEF Add
<1>3. Slot(head) \in 0..Capacity - 1 /\ area \in Areas
  BY SlotIsFree DEF UploadOK, MappedOK, Slot
<1>4. /\ slots' \in [0..Capacity - 1 -> Jobs]
      /\ slots'[Slot(head)] = [seq |-> head + 1, area |-> area]
  BY <1>3 DEF Add, UploadOK, Jobs
<1>5. ASSUME NEW n \in done + 1..head
      PROVE  slots'[Slot(n - 1)] = slots[Slot(n - 1)]
  <2>1. n \in Nat /\ n - 1 \in Nat /\ n - 1 < head /\ head < (n - 1) + Capacity /\ head \in Nat
    BY <1>1 DEF UploadOK
  <2>2. ASSUME Slot(n - 1) = Slot(head)
        PROVE  FALSE
    <3>1. (n - 1) % Capacity = head % Capacity
      BY <2>2 DEF Slot
    <3>2. n - 1 = head
      <4> HIDE DEF Slot
      <4> DEFINE a == n - 1
      <4>1. a \in Nat /\ a % Capacity = head % Capacity /\ a <= head /\ head < a + Capacity
        BY <2>1, <3>1
      <4> HIDE DEF a
      <4>2. a = head
        BY <2>1, <4>1, SlotsDiffer
      <4>3. QED
        BY <4>2 DEF a
    <3>3. QED
      BY <2>1, <3>2
  <2>3. Slot(n - 1) \in 0..Capacity - 1
    BY <2>1, SlotIsFree DEF Slot
  <2>4. QED
    BY <2>2, <2>3 DEF Add, UploadOK
<1>6. ASSUME NEW n \in done + 1..head'
      PROVE  slots'[Slot(n - 1)].seq = n
  <2>1. CASE n = head + 1
    BY <2>1, <1>4 DEF UploadOK
  <2>2. CASE n # head + 1
    BY <2>2, <1>1, <1>5 DEF UploadOK
  <2>3. QED
    BY <2>1, <2>2
<1>7. UploadOK'
  BY <1>1, <1>2, <1>4, <1>6 DEF UploadOK, run
<1>8. WaitsOK'
  BY <1>2 DEF WaitsOK, WaitersAreTold
<1>9. MappedOK'
  <2>1. ASSUME NEW n \in current + 1..head'
        PROVE  slots'[Slot(n - 1)].area \in mapped
    <3>1. CASE n = head + 1
      BY <3>1, <1>4 DEF UploadOK
    <3>2. CASE n # head + 1
      <4>1. n \in done + 1..head /\ n \in Pending
        BY <3>2, <1>1 DEF UploadOK, Pending
      <4>2. QED
        BY <4>1, <1>5 DEF MappedOK, JobsAreMapped
    <3>3. QED
      BY <3>1, <3>2
  <2>2. QED
    BY <2>1, <1>2 DEF MappedOK, JobsAreMapped, Pending, run
<1>10. QED
  BY <1>7, <1>8, <1>9

LEMMA WorkerKeeps ==
  ASSUME UploadOK, WaitsOK, MappedOK, Worker
  PROVE  UploadOK' /\ WaitsOK' /\ MappedOK'
<1> USE DEF ring, run
<1>1. UNCHANGED <<ring, mapped>> /\ done <= done' /\ current <= current'
  BY DEF Worker, WorkerRests, WorkerStarts, RunJob, Publishes, Notifies, UploadOK
<1>2. UploadOK'
  <2>1. CASE WorkerRests
    BY <2>1 DEF WorkerRests, UploadOK, Bell!Rests, Bell!Tires, Bell!Announces, Bell!Checks,
                Bell!Parks, Bell!Wakes, Bell!Step, Bell!Places
  <2>2. CASE WorkerStarts
    BY <2>2 DEF WorkerStarts, UploadOK, Bell!Places
  <2>3. CASE RunJob
    BY <2>3 DEF RunJob, UploadOK
  <2>4. CASE Publishes
    BY <2>4 DEF Publishes, UploadOK, Bell!Places
  <2>5. CASE Notifies
    BY <2>5 DEF Notifies, UploadOK, Bell!Places
  <2>6. QED
    BY <2>1, <2>2, <2>3, <2>4, <2>5 DEF Worker
<1>3. WaitsOK'
  <2>1. CASE WorkerRests
    BY <2>1 DEF WorkerRests, WaitsOK, WaitersAreTold, Bell!Rests, Bell!Tires, Bell!Announces,
                Bell!Checks, Bell!Parks, Bell!Wakes, Bell!Step
  <2>2. CASE WorkerStarts \/ RunJob \/ Publishes
    BY <2>2 DEF WorkerStarts, RunJob, Publishes, WaitsOK, WaitersAreTold
  <2>3. CASE Notifies
    BY <2>3 DEF Notifies, WaitsOK, WaitersAreTold
  <2>4. QED
    BY <2>1, <2>2, <2>3 DEF Worker
<1>4. MappedOK'
  <2>1. current' \in {current, current + 1} /\ head' = head /\ current \in Nat /\ head \in Nat
    BY DEF Worker, WorkerRests, WorkerStarts, RunJob, Publishes, Notifies, UploadOK
  <2>2. QED
    <3>1. CASE current' = current
      BY <3>1, <1>1 DEF MappedOK, JobsAreMapped, Pending
    <3>2. CASE current' = current + 1
      BY <3>2, <2>1, <1>1 DEF MappedOK, JobsAreMapped, Pending
    <3>3. QED
      BY <2>1, <3>1, <3>2
<1>5. QED
  BY <1>2, <1>3, <1>4

LEMMA UploadStepKeeps ==
  ASSUME UploadOK, WaitsOK, MappedOK, UploadStep
  PROVE  UploadOK' /\ WaitsOK' /\ MappedOK'
<1> USE DEF ring, run
<1>1. CASE \E area \in mapped : Add(area)
  BY <1>1, AddKeeps
<1>2. CASE Kick
  BY <1>2 DEF Kick, Bell!Rings, Bell!Places, UploadOK, WaitsOK, WaitersAreTold, MappedOK,
              JobsAreMapped, Pending
<1>3. CASE Worker
  BY <1>3, WorkerKeeps
<1>4. CASE WaitStarts
  <2>1. UploadOK' /\ MappedOK'
    BY <1>4 DEF WaitStarts, UploadOK, MappedOK, JobsAreMapped, Pending
  <2>2. WaitsOK'
    BY <1>4 DEF WaitStarts, WaitBegins, NoWait, WaitsOK, WaitersAreTold
  <2>3. QED
    BY <2>1, <2>2
<1>5. CASE Remaps
  BY <1>5 DEF Remaps, UploadOK, WaitsOK, WaitersAreTold, MappedOK, JobsAreMapped, Pending
<1>6. ASSUME NEW t \in Waiters, Waits(t)
      PROVE  UploadOK' /\ WaitsOK' /\ MappedOK'
  <2>1. UploadOK' /\ MappedOK'
    BY <1>6 DEF Waits, UploadOK, MappedOK, JobsAreMapped, Pending
  <2>2. WaitsOK'
    <3> USE <1>6 DEF Waits, NoWait, WaitsOK, WaitersAreTold, UploadOK
    <3>1. CASE WaitSpins(t)
      <4>1. \/ wait' = [wait EXCEPT ![t] = NoWait]
            \/ wait' = [wait EXCEPT ![t].at = "looks"]
        BY <3>1 DEF WaitSpins
      <4>2. CASE wait' = [wait EXCEPT ![t] = NoWait]
        BY <4>2
      <4>3. CASE wait' = [wait EXCEPT ![t].at = "looks"]
        BY <4>3
      <4>4. QED
        BY <4>1, <4>2, <4>3
    <3>2. CASE WaitLooks(t)
      <4>1. \/ wait' = [wait EXCEPT ![t] = NoWait]
            \/ wait' = [wait EXCEPT ![t] = [@ EXCEPT !.at = "parking", !.seen = done]]
        BY <3>2 DEF WaitLooks
      <4>2. CASE wait' = [wait EXCEPT ![t] = NoWait]
        BY <4>2
      <4>3. CASE wait' = [wait EXCEPT ![t] = [@ EXCEPT !.at = "parking", !.seen = done]]
        BY <4>3
      <4>4. QED
        BY <4>1, <4>2, <4>3
    <3>3. CASE WaitParks(t)
      BY <3>3 DEF WaitParks
    <3>4. QED
      BY <3>1, <3>2, <3>3
  <2>3. QED
    BY <2>1, <2>2
<1>7. CASE UNCHANGED uploadVars
  BY <1>7 DEF uploadVars, UploadOK, WaitsOK, WaitersAreTold, MappedOK, JobsAreMapped, Pending
<1>8. QED
  BY <1>1, <1>2, <1>3, <1>4, <1>5, <1>6, <1>7 DEF UploadStep

(***************************************************************************)
(* The packets.                                                            *)
(***************************************************************************)

Packets == [number : Nat, copies : Nat, submits : BOOLEAN]

\* The producer is ahead of the worker by no more than the chunks, and what the
\* render thread does next fits where it is.
StreamOK ==
  /\ chunks \in [0..ChunkCount - 1 -> Seq(Packets)]
  /\ published \in Nat /\ completed \in Nat
  /\ completed <= published /\ published <= completed + ChunkCount
  /\ dozing \in BOOLEAN /\ recorder \in Ring!Places \cup {"submitting"}
  /\ recorder \in {"running", "submitting"} => completed < published
  /\ recorder \in {"checking", "parking", "parked"} => dozing

\* Chunk number k, from the one that is replayed to the one that is filled; a
\* chunk is free when it was replayed.
Chunk(k) == IF k < completed + ChunkCount THEN chunks[k % ChunkCount] ELSE <<>>

Chunks == completed..published

TodoOK ==
  /\ producer \in {"idle", "pushed", "ringing", "draining", "uploading"}
  /\ producer \in {"idle", "pushed"} => todo = "nothing"
  /\ producer = "draining" => todo \in {"inline", "submit"}
  /\ producer = "uploading" => todo \in {"submit"} \cup Areas
  /\ producer = "ringing" => todo \in {"nothing", "inline", "submit"}
  /\ todo \in {"inline", "submit"} => Chunk(published) = <<>>
  /\ producer = "uploading" /\ todo = "submit" => completed = published

BellsOK ==
  /\ Bell!Attends \/ producer = "pushed"
  /\ Ring!Attends \/ producer = "ringing"

\* The packets are numbered as they were recorded: b gives the number of the
\* first packet of a chunk, whether it was recorded or will be.
Numbers(b) ==
  /\ b[completed] = replayed + 1 /\ b[published + 1] = recorded + 1
  /\ \A k \in Chunks :
       /\ b[k] + Len(Chunk(k)) = b[k + 1] /\ b[k + 1] <= recorded + 1
       /\ \A i \in DOMAIN Chunk(k) : Chunk(k)[i].number = (b[k] + i) - 1

NumbersOK ==
  /\ recorded \in Nat /\ replayed \in Nat
  /\ \A k \in published + 1..(completed + ChunkCount) - 1 : Chunk(k) = <<>>
  /\ \E b \in [Nat -> Nat] : Numbers(b)

\* The packets that are not replayed.
Kept == UNION {{Chunk(k)[i] : i \in DOMAIN Chunk(k)} : k \in Chunks}

\* A packet submits what was promised when it was recorded.
Keeps(p) ==
  /\ p.submits <=> \E m \in DOMAIN promised : promised[m].packets = p.number - 1
  /\ \A m \in DOMAIN promised :
       promised[m].packets = p.number - 1 => promised[m].copies = p.copies

\* The driver has the submissions whose packet was replayed.
PromisesOK ==
  /\ promised \in Seq([copies : Nat, packets : Nat]) /\ handed \in 0..Len(promised)
  /\ \A i, j \in DOMAIN promised : i < j => promised[i].packets < promised[j].packets
  /\ \A i \in DOMAIN promised :
       /\ promised[i].packets < recorded
       /\ i <= handed <=> promised[i].packets < replayed
  /\ \A p \in Kept : Keeps(p)

SubmittingOK ==
  recorder = "submitting" =>
    chunks[Replayed] # <<>> /\ Packet.submits /\ Awaits(Recorder, Packet.copies)

IInv ==
  /\ UploadOK /\ WaitsOK /\ MappedOK /\ UploadingOK
  /\ StreamOK /\ TodoOK /\ BellsOK /\ NumbersOK /\ PromisesOK /\ SubmittingOK

LEMMA InitHolds == Init => IInv
<1> SUFFICES ASSUME Init PROVE IInv
  OBVIOUS
<1> USE DEF Init, UploadInit, StreamInit
<1>1. UploadOK
  <2>1. NoJob \in Jobs
    BY DEF NoJob, Jobs
  <2>2. slots \in [0..Capacity - 1 -> Jobs]
    BY <2>1
  <2>3. /\ head = 0 /\ done = 0 /\ current = 0 /\ limit = 0
        /\ sleeping = FALSE /\ worker = "polling" /\ worker \in Bell!Places
    BY DEF Bell!Places
  <2>4. QED
    BY <2>2, <2>3 DEF UploadOK
<1>2. WaitsOK
  BY DEF WaitsOK, WaitersAreTold, NoWait
<1>3. MappedOK
  BY DEF MappedOK, JobsAreMapped, Pending
<1>4. UploadingOK
  BY DEF UploadingOK
<1>5. StreamOK
  <2>1. <<>> \in Seq(Packets)
    OBVIOUS
  <2>2. chunks \in [0..ChunkCount - 1 -> Seq(Packets)]
    BY <2>1
  <2>3. /\ published = 0 /\ completed = 0 /\ dozing = FALSE
        /\ recorder = "polling" /\ recorder \in Ring!Places
    BY DEF Ring!Places
  <2>4. completed <= published /\ published <= completed + ChunkCount
    BY <2>3, RecordingStreamAssumption
  <2>5. QED
    BY <2>2, <2>3, <2>4 DEF StreamOK
<1>6. \A k \in 0..ChunkCount : Chunk(k) = <<>>
  BY RecordingStreamAssumption DEF Chunk
<1>7. TodoOK
  BY <1>6, RecordingStreamAssumption DEF TodoOK
<1>8. BellsOK
  BY DEF BellsOK, Bell!Attends, Ring!Attends
<1>9. NumbersOK
  <2>1. Numbers([k \in Nat |-> 1])
    BY <1>6, RecordingStreamAssumption DEF Numbers, Chunks
  <2>2. [k \in Nat |-> 1] \in [Nat -> Nat]
    OBVIOUS
  <2>3. \A k \in published + 1..(completed + ChunkCount) - 1 : Chunk(k) = <<>>
    BY <1>6, RecordingStreamAssumption
  <2>4. QED
    BY <2>1, <2>2, <2>3 DEF NumbersOK
<1>10. PromisesOK
  <2>1. Kept = {}
    BY <1>6, RecordingStreamAssumption DEF Kept, Chunks
  <2>2. QED
    BY <2>1 DEF PromisesOK
<1>11. SubmittingOK
  BY DEF SubmittingOK
<1>12. QED
  BY <1>1, <1>2, <1>3, <1>4, <1>5, <1>7, <1>8, <1>9, <1>10, <1>11 DEF IInv

(***************************************************************************)
(* What a step does to the packets.                                        *)
(***************************************************************************)

Unmoved == UNCHANGED <<chunks, published, completed, recorded, replayed, promised, handed>>

Appends(p) ==
  /\ p \in Packets /\ p.number = recorded + 1 /\ HasRoom
  /\ chunks' = [chunks EXCEPT ![Open] = Append(@, p)]
  /\ published' \in {published, published + 1} /\ recorded' = recorded + 1
  /\ promised' = IF p.submits THEN Append(promised, [copies |-> p.copies, packets |-> recorded])
                              ELSE promised
  /\ UNCHANGED <<completed, replayed, handed>>

Closes ==
  /\ HasRoom /\ published' = published + 1
  /\ UNCHANGED <<chunks, completed, recorded, replayed, promised, handed>>

Executes ==
  /\ Drained /\ Chunk(published) = <<>>
  /\ recorded' = recorded + 1 /\ replayed' = recorded + 1
  /\ \/ UNCHANGED <<promised, handed>>
     \/ promised' = Promise /\ handed' = handed + 1
  /\ UNCHANGED <<chunks, published, completed>>

ReplaysOne ==
  /\ completed < published /\ chunks[Replayed] # <<>>
  /\ chunks' = [chunks EXCEPT ![Replayed] = Tail(@)]
  /\ replayed' = Packet.number
  /\ handed' = IF Packet.submits THEN handed + 1 ELSE handed
  /\ UNCHANGED <<published, completed, recorded, promised>>

CompletesOne ==
  /\ completed < published /\ chunks[Replayed] = <<>> /\ completed' = completed + 1
  /\ UNCHANGED <<chunks, published, recorded, replayed, promised, handed>>

StreamStep ==
  \/ \E p \in Packets : Appends(p)
  \/ Closes \/ Executes \/ ReplaysOne \/ CompletesOne \/ Unmoved

LEMMA ChunkTypes ==
  ASSUME StreamOK, NEW k \in completed..completed + ChunkCount
  PROVE  /\ k \in Nat /\ Chunk(k) \in Seq(Packets)
         /\ k < completed + ChunkCount => Chunk(k) = chunks[k % ChunkCount]
         /\ k % ChunkCount \in 0..ChunkCount - 1
<1>1. k \in Nat /\ ChunkCount \in Nat \ {0}
  BY RecordingStreamAssumption DEF StreamOK
<1>2. k % ChunkCount \in 0..ChunkCount - 1
  BY <1>1, SlotIsFree
<1>3. <<>> \in Seq(Packets)
  OBVIOUS
<1>4. QED
  BY <1>1, <1>2, <1>3 DEF Chunk, StreamOK

\* Two chunks in use have different places.
LEMMA ChunksDiffer ==
  ASSUME StreamOK, NEW k \in Nat, NEW l \in Nat, completed <= k, completed <= l,
         k < completed + ChunkCount, l < completed + ChunkCount, k # l
  PROVE  k % ChunkCount # l % ChunkCount
<1>1. ChunkCount \in Nat \ {0} /\ completed \in Nat
  BY RecordingStreamAssumption DEF StreamOK
<1>2. CASE k < l
  <2>1. k <= l /\ l < k + ChunkCount
    BY <1>1, <1>2
  <2>2. QED
    BY <1>1, <2>1, SlotsDiffer
<1>3. CASE l < k
  <2>1. l <= k /\ k < l + ChunkCount
    BY <1>1, <1>3
  <2>2. QED
    BY <1>1, <2>1, SlotsDiffer
<1>4. QED
  BY <1>2, <1>3

LEMMA ChunkAppends ==
  ASSUME StreamOK, NEW p \in Packets, Appends(p)
  PROVE  \A k \in completed..completed + ChunkCount :
           Chunk(k)' = IF k = published THEN Append(Chunk(k), p) ELSE Chunk(k)
<1> SUFFICES ASSUME NEW k \in completed..completed + ChunkCount
             PROVE  Chunk(k)' = IF k = published THEN Append(Chunk(k), p) ELSE Chunk(k)
  OBVIOUS
<1>1. k \in Nat /\ k % ChunkCount \in 0..ChunkCount - 1 /\ completed \in Nat /\ completed <= k
  BY ChunkTypes DEF StreamOK
<1>2. /\ published \in Nat /\ completed <= published /\ published < completed + ChunkCount
      /\ completed' = completed /\ ChunkCount \in Nat
  BY RecordingStreamAssumption DEF Appends, HasRoom, StreamOK
<1>3. chunks' = [chunks EXCEPT ![published % ChunkCount] = Append(@, p)]
  BY DEF Appends, Open
<1>4. CASE k = published
  BY <1>1, <1>2, <1>3, <1>4 DEF Chunk, StreamOK
<1>5. CASE k # published /\ k < completed + ChunkCount
  <2>1. k % ChunkCount # published % ChunkCount
    BY <1>1, <1>2, <1>5, ChunksDiffer
  <2>2. QED
    BY <1>1, <1>2, <1>3, <1>5, <2>1 DEF Chunk, StreamOK
<1>6. CASE k # published /\ ~ (k < completed + ChunkCount)
  BY <1>2, <1>6 DEF Chunk
<1>7. QED
  BY <1>4, <1>5, <1>6

LEMMA ChunkReplays ==
  ASSUME StreamOK, ReplaysOne
  PROVE  \A k \in completed..completed + ChunkCount :
           Chunk(k)' = IF k = completed THEN Tail(Chunk(k)) ELSE Chunk(k)
<1> SUFFICES ASSUME NEW k \in completed..completed + ChunkCount
             PROVE  Chunk(k)' = IF k = completed THEN Tail(Chunk(k)) ELSE Chunk(k)
  OBVIOUS
<1>1. k \in Nat /\ k % ChunkCount \in 0..ChunkCount - 1 /\ completed \in Nat /\ completed <= k
  BY ChunkTypes DEF StreamOK
<1>2. completed' = completed /\ ChunkCount \in Nat /\ completed < completed + ChunkCount
  BY <1>1, RecordingStreamAssumption DEF ReplaysOne
<1>3. chunks' = [chunks EXCEPT ![completed % ChunkCount] = Tail(@)]
  BY DEF ReplaysOne, Replayed
<1>4. CASE k = completed
  BY <1>1, <1>2, <1>3, <1>4 DEF Chunk, StreamOK
<1>5. CASE k # completed /\ k < completed + ChunkCount
  <2>1. k % ChunkCount # completed % ChunkCount
    BY <1>1, <1>2, <1>5, ChunksDiffer
  <2>2. QED
    BY <1>1, <1>2, <1>3, <1>5, <2>1 DEF Chunk, StreamOK
<1>6. CASE k # completed /\ ~ (k < completed + ChunkCount)
  BY <1>2, <1>6 DEF Chunk
<1>7. QED
  BY <1>4, <1>5, <1>6

\* The chunk that was replayed is the last free one.
LEMMA ChunkCompletes ==
  ASSUME StreamOK, CompletesOne
  PROVE  \A k \in completed + 1..completed + ChunkCount : Chunk(k)' = Chunk(k)
<1> SUFFICES ASSUME NEW k \in completed + 1..completed + ChunkCount
             PROVE  Chunk(k)' = Chunk(k)
  OBVIOUS
<1>1. /\ completed \in Nat /\ ChunkCount \in Nat \ {0} /\ k \in Nat
      /\ completed' = completed + 1 /\ chunks' = chunks
  BY RecordingStreamAssumption DEF CompletesOne, StreamOK
<1>2. CASE k = completed + ChunkCount
  <2>1. k % ChunkCount = completed % ChunkCount
    BY <1>1, <1>2, SlotIsFree
  <2>2. chunks[k % ChunkCount] = <<>>
    BY <2>1 DEF CompletesOne, Replayed
  <2>3. QED
    BY <1>1, <1>2, <2>2 DEF Chunk
<1>3. CASE k # completed + ChunkCount
  BY <1>1, <1>3 DEF Chunk
<1>4. QED
  BY <1>2, <1>3

LEMMA NumbersFacts ==
  ASSUME StreamOK, NumbersOK
  PROVE  /\ replayed <= recorded
         /\ \A p \in Kept : p \in Packets /\ p.number <= recorded
         /\ chunks[Replayed] = Chunk(completed)
         /\ chunks[Replayed] # <<>> => /\ Packet \in Kept /\ Packet \in Packets
                                       /\ Packet.number = replayed + 1
         /\ Drained /\ Chunk(published) = <<>> => replayed = recorded /\ Kept = {}
<1>1. PICK b \in [Nat -> Nat] : Numbers(b)
  BY DEF NumbersOK
<1>2. /\ completed \in Nat /\ published \in Nat /\ ChunkCount \in Nat \ {0}
      /\ completed <= published /\ published <= completed + ChunkCount
      /\ recorded \in Nat /\ replayed \in Nat
  BY RecordingStreamAssumption DEF StreamOK, NumbersOK
<1>3. completed \in Chunks /\ published \in Chunks
  BY <1>2 DEF Chunks
<1>4. \A k \in Chunks : k \in completed..completed + ChunkCount
  BY <1>2 DEF Chunks
<1>5. \A k \in Chunks : k \in Nat /\ Chunk(k) \in Seq(Packets) /\ b[k] \in Nat /\ b[k + 1] \in Nat
  <2>1. ASSUME NEW k \in Chunks
        PROVE  k \in Nat /\ Chunk(k) \in Seq(Packets)
    BY <1>4, ChunkTypes
  <2>2. \A k \in Chunks : k \in Nat /\ k + 1 \in Nat
    BY <2>1
  <2>3. QED
    BY <2>1, <2>2
<1>6. chunks[Replayed] = Chunk(completed)
  <2>1. completed < completed + ChunkCount
    BY <1>2
  <2>2. QED
    BY <2>1 DEF Chunk, Replayed
<1>7. replayed <= recorded
  <2>1. b[completed] = replayed + 1 /\ b[completed + 1] <= recorded + 1
        /\ b[completed] + Len(Chunk(completed)) = b[completed + 1]
    BY <1>1, <1>3 DEF Numbers
  <2>2. Len(Chunk(completed)) \in Nat
    BY <1>3, <1>5
  <2>3. b[completed + 1] \in Nat
    BY <1>3, <1>5
  <2>4. QED
    BY <1>2, <2>1, <2>2, <2>3
<1>8. ASSUME NEW k \in Chunks, NEW i \in DOMAIN Chunk(k)
      PROVE  Chunk(k)[i] \in Packets /\ Chunk(k)[i].number <= recorded
  <2>1. Chunk(k) \in Seq(Packets)
    BY <1>5
  <2>2. i \in 1..Len(Chunk(k)) /\ Len(Chunk(k)) \in Nat /\ Chunk(k)[i] \in Packets
    BY <2>1
  <2>3. /\ Chunk(k)[i].number = (b[k] + i) - 1
        /\ b[k] + Len(Chunk(k)) = b[k + 1] /\ b[k + 1] <= recorded + 1
    <3>1. \A j \in DOMAIN Chunk(k) : Chunk(k)[j].number = (b[k] + j) - 1
      BY <1>1 DEF Numbers
    <3>2. b[k] + Len(Chunk(k)) = b[k + 1] /\ b[k + 1] <= recorded + 1
      BY <1>1 DEF Numbers
    <3>3. QED
      BY <3>1, <3>2
  <2>4. b[k] \in Nat /\ b[k + 1] \in Nat
    BY <1>5
  <2>5. (b[k] + i) - 1 <= recorded
    <3> DEFINE l == Len(Chunk(k))
    <3> DEFINE x == b[k]
    <3> DEFINE y == b[k + 1]
    <3>1. i \in Nat /\ l \in Nat /\ i <= l
      BY <2>2
    <3>2. x + l = y /\ y <= recorded + 1 /\ x \in Nat /\ y \in Nat
      BY <2>3, <2>4
    <3> HIDE DEF l, x, y
    <3>3. (x + i) - 1 <= recorded
      BY <1>2, <3>1, <3>2
    <3>4. QED
      BY <3>3 DEF x
  <2>6. QED
    BY <2>2, <2>3, <2>5
<1>9. \A p \in Kept : p \in Packets /\ p.number <= recorded
  BY <1>8 DEF Kept
<1>10. ASSUME chunks[Replayed] # <<>>
       PROVE  Packet \in Kept /\ Packet \in Packets /\ Packet.number = replayed + 1
  <2>1. Chunk(completed) \in Seq(Packets) /\ Chunk(completed) # <<>>
    BY <1>3, <1>5, <1>6, <1>10
  <2>2. 1 \in DOMAIN Chunk(completed) /\ Packet = Chunk(completed)[1]
    BY <2>1, <1>6 DEF Packet
  <2>3. Packet \in Kept /\ Packet \in Packets
    BY <2>2, <1>3, <1>8 DEF Kept
  <2>4. Chunk(completed)[1].number = (b[completed] + 1) - 1 /\ b[completed] = replayed + 1
    BY <1>1, <1>3, <2>2 DEF Numbers
  <2>5. QED
    BY <1>2, <2>2, <2>3, <2>4
<1>11. ASSUME Drained, Chunk(published) = <<>>
       PROVE  replayed = recorded /\ Kept = {}
  <2>1. completed = published
    BY <1>11 DEF Drained
  <2>2. Chunks = {published}
    BY <1>2, <2>1 DEF Chunks
  <2>3. Kept = {}
    BY <1>11, <2>2 DEF Kept
  <2>4. b[published] + Len(<<>>) = b[published + 1]
    BY <1>1, <1>3, <1>11 DEF Numbers
  <2>5. b[published] = replayed + 1 /\ b[published + 1] = recorded + 1
    BY <1>1, <2>1 DEF Numbers
  <2>6. QED
    BY <1>2, <2>3, <2>4, <2>5
<1>12. QED
  BY <1>6, <1>7, <1>9, <1>10, <1>11

\* Only a packet that is appended is new.
LEMMA KeptStep ==
  ASSUME StreamOK, NumbersOK, StreamStep
  PROVE  \A q \in Kept' : q \in Kept \/ Appends(q)
<1> SUFFICES ASSUME NEW k \in Chunks', NEW i \in DOMAIN Chunk(k)'
             PROVE  Chunk(k)'[i] \in Kept \/ Appends(Chunk(k)'[i])
  BY DEF Kept
<1>1. /\ completed \in Nat /\ published \in Nat /\ ChunkCount \in Nat \ {0}
      /\ completed <= published /\ published <= completed + ChunkCount
  BY RecordingStreamAssumption DEF StreamOK
<1>2. ASSUME k \in Chunks, Chunk(k)' = Chunk(k)
      PROVE  Chunk(k)'[i] \in Kept
  BY <1>2 DEF Kept
<1>3. ASSUME NEW p \in Packets, Appends(p)
      PROVE  Chunk(k)'[i] \in Kept \/ Appends(Chunk(k)'[i])
  <2>1. published < completed + ChunkCount /\ completed' = completed
        /\ published' \in {published, published + 1}
    BY <1>1, <1>3 DEF Appends, HasRoom
  <2>2. k \in completed..completed + ChunkCount /\ k <= published + 1
    BY <1>1, <2>1 DEF Chunks
  <2>3. CASE k = published
    <3>1. Chunk(k)' = Append(Chunk(k), p) /\ Chunk(k) \in Seq(Packets)
      BY <2>2, <2>3, <1>3, ChunkAppends, ChunkTypes
    <3>2. i \in 1..Len(Chunk(k)) + 1 /\ Len(Chunk(k)) \in Nat
      BY <3>1
    <3>3. CASE i = Len(Chunk(k)) + 1
      <4>1. Chunk(k)'[i] = p
        BY <3>1, <3>3
      <4>2. QED
        BY <4>1, <1>3
    <3>4. CASE i # Len(Chunk(k)) + 1
      <4>1. i \in DOMAIN Chunk(k) /\ Chunk(k)'[i] = Chunk(k)[i]
        BY <3>1, <3>2, <3>4
      <4>2. k \in Chunks
        BY <1>1, <2>3 DEF Chunks
      <4>3. QED
        BY <4>1, <4>2 DEF Kept
    <3>5. QED
      BY <3>3, <3>4
  <2>4. CASE k = published + 1
    <3>1. Chunk(k)' = Chunk(k)
      BY <1>1, <2>2, <2>4, <1>3, ChunkAppends
    <3>2. Chunk(k) = <<>>
      <4>1. CASE k = completed + ChunkCount
        BY <4>1, <1>1 DEF Chunk
      <4>2. CASE k # completed + ChunkCount
        <5>1. k \in published + 1..(completed + ChunkCount) - 1
          BY <4>2, <1>1, <2>2, <2>4
        <5>2. QED
          BY <5>1 DEF NumbersOK
      <4>3. QED
        BY <4>1, <4>2
    <3>3. QED
      BY <3>1, <3>2
  <2>5. CASE k < published
    <3>1. k \in Chunks /\ k # published
      BY <1>1, <2>2, <2>5 DEF Chunks
    <3>2. QED
      BY <1>2, <1>3, <2>2, <3>1, ChunkAppends
  <2>6. QED
    BY <1>1, <2>2, <2>3, <2>4, <2>5
<1>4. CASE Closes
  <2>1. completed' = completed /\ chunks' = chunks /\ Chunk(k)' = Chunk(k)
        /\ published' = published + 1 /\ published < completed + ChunkCount
    BY <1>1, <1>4 DEF Closes, Chunk, HasRoom
  <2>2. k \in Chunks \/ k = published + 1
    BY <1>1, <2>1 DEF Chunks
  <2>3. ASSUME k = published + 1 PROVE Chunk(k) = <<>>
    <3>1. CASE k = completed + ChunkCount
      BY <3>1, <1>1 DEF Chunk
    <3>2. CASE k # completed + ChunkCount
      <4>1. k \in published + 1..(completed + ChunkCount) - 1
        BY <3>2, <1>1, <2>1, <2>3
      <4>2. QED
        BY <4>1 DEF NumbersOK
    <3>3. QED
      BY <3>1, <3>2
  <2>4. QED
    BY <1>2, <2>1, <2>2, <2>3
<1>5. CASE Executes \/ Unmoved
  BY <1>2, <1>5 DEF Executes, Unmoved, Chunk, Chunks
<1>6. CASE ReplaysOne
  <2>1. completed' = completed /\ published' = published /\ k \in Chunks
        /\ k \in completed..completed + ChunkCount
    BY <1>1, <1>6 DEF ReplaysOne, Chunks
  <2>2. CASE k = completed
    <3>1. Chunk(k)' = Tail(Chunk(k)) /\ Chunk(k) \in Seq(Packets)
      BY <1>6, <2>1, <2>2, ChunkReplays, ChunkTypes
    <3>2. Chunk(k) # <<>>
      BY <1>6, <2>2, NumbersFacts DEF ReplaysOne
    <3>3. i + 1 \in DOMAIN Chunk(k) /\ Chunk(k)'[i] = Chunk(k)[i + 1]
      BY <3>1, <3>2
    <3>4. QED
      BY <3>3, <2>1 DEF Kept
  <2>3. CASE k # completed
    BY <1>2, <1>6, <2>1, <2>3, ChunkReplays
  <2>4. QED
    BY <2>2, <2>3
<1>7. CASE CompletesOne
  <2>1. k \in completed + 1..completed + ChunkCount /\ k \in Chunks
    BY <1>1, <1>7 DEF CompletesOne, Chunks
  <2>2. QED
    BY <1>2, <1>7, <2>1, ChunkCompletes
<1>8. QED
  BY <1>3, <1>4, <1>5, <1>6, <1>7 DEF StreamStep

\* A chunk that is begun is empty.
LEMMA NextChunkIsEmpty ==
  ASSUME StreamOK, NumbersOK, HasRoom
  PROVE  /\ published < completed + ChunkCount
         /\ published + 1 \in completed..completed + ChunkCount
         /\ Chunk(published + 1) = <<>>
<1>1. /\ completed \in Nat /\ published \in Nat /\ ChunkCount \in Nat \ {0}
      /\ completed <= published
  BY RecordingStreamAssumption DEF StreamOK
<1>2. published < completed + ChunkCount
  BY <1>1 DEF HasRoom
<1>3. CASE published + 1 = completed + ChunkCount
  BY <1>1, <1>2, <1>3 DEF Chunk
<1>4. CASE published + 1 # completed + ChunkCount
  <2>1. published + 1 \in published + 1..(completed + ChunkCount) - 1
    BY <1>1, <1>2, <1>4
  <2>2. QED
    BY <1>1, <1>2, <2>1 DEF NumbersOK
<1>5. QED
  BY <1>3, <1>4

LEMMA AppendKeepsNumbers ==
  ASSUME StreamOK, NumbersOK, NEW p \in Packets, Appends(p)
  PROVE  NumbersOK'
<1>1. PICK b \in [Nat -> Nat] : Numbers(b)
  BY DEF NumbersOK
<1>2. /\ completed \in Nat /\ published \in Nat /\ ChunkCount \in Nat \ {0}
      /\ completed <= published /\ published < completed + ChunkCount
      /\ recorded \in Nat /\ replayed \in Nat
  BY RecordingStreamAssumption DEF StreamOK, NumbersOK, Appends, HasRoom
<1>3. /\ completed' = completed /\ published' \in {published, published + 1}
      /\ recorded' = recorded + 1 /\ replayed' = replayed /\ p.number = recorded + 1
  BY DEF Appends
<1>4. Chunk(published + 1) = <<>> /\ replayed <= recorded
  BY NextChunkIsEmpty, NumbersFacts DEF Appends
<1>5. \A k \in Chunks' : k \in Nat /\ k \in completed..completed + ChunkCount /\ k <= published + 1
  BY <1>2, <1>3 DEF Chunks
<1>6. PICK new : new = [k \in Nat |-> IF k > published THEN recorded + 2 ELSE b[k]]
  OBVIOUS
<1>7. /\ new \in [Nat -> Nat]
      /\ \A k \in Nat : k > published => new[k] = recorded + 2
      /\ \A k \in Nat : k <= published => new[k] = b[k]
  BY <1>2, <1>6
<1>8. /\ b[completed] = replayed + 1 /\ b[published + 1] = recorded + 1
      /\ b[published] + Len(Chunk(published)) = b[published + 1]
      /\ \A i \in DOMAIN Chunk(published) : Chunk(published)[i].number = (b[published] + i) - 1
  <2>1. published \in Chunks
    BY <1>2 DEF Chunks
  <2>2. QED
    BY <1>1, <2>1 DEF Numbers
<1>9. new[completed] = replayed' + 1
  BY <1>2, <1>3, <1>7, <1>8
<1>10. ASSUME NEW n \in Nat, n = published' PROVE new[n + 1] = recorded' + 1
  <2>1. n + 1 \in Nat /\ n + 1 > published
    <3>1. CASE n = published
      BY <1>2, <3>1
    <3>2. CASE n = published + 1
      BY <1>2, <3>2
    <3>3. QED
      BY <1>3, <1>10, <3>1, <3>2
  <2>2. new[n + 1] = recorded + 2
    BY <1>7, <2>1
  <2>3. QED
    BY <1>2, <1>3, <2>2
<1>11. ASSUME NEW k \in Chunks'
       PROVE  /\ new[k] + Len(Chunk(k)') = new[k + 1]
              /\ new[k + 1] <= recorded' + 1
              /\ \A i \in DOMAIN Chunk(k)' : Chunk(k)'[i].number = (new[k] + i) - 1
  <2>1. k \in Nat /\ k \in completed..completed + ChunkCount /\ k <= published + 1
    BY <1>5
  <2>2. Chunk(k)' = IF k = published THEN Append(Chunk(k), p) ELSE Chunk(k)
    BY <2>1, ChunkAppends
  <2>3. CASE k = published
    <3>1. Chunk(k)' = Append(Chunk(k), p) /\ Chunk(k) \in Seq(Packets)
      BY <2>1, <2>2, <2>3, ChunkTypes
    <3>2. new[k] = b[published] /\ new[k + 1] = recorded + 2 /\ b[published] \in Nat
      BY <1>2, <1>7, <2>3
    <3>3. Len(Chunk(k)') = Len(Chunk(k)) + 1 /\ Len(Chunk(k)) \in Nat
      BY <3>1
    <3>4. b[published] + Len(Chunk(k)) = recorded + 1
      BY <1>8, <2>3
    <3>5. new[k] + Len(Chunk(k)') = new[k + 1]
      <4> DEFINE x == b[published]
      <4> DEFINE l == Len(Chunk(k))
      <4>1. x \in Nat /\ l \in Nat /\ x + l = recorded + 1
        BY <3>2, <3>3, <3>4
      <4>2. new[k] = x /\ Len(Chunk(k)') = l + 1
        BY <3>2, <3>3
      <4> HIDE DEF x, l
      <4>3. x + (l + 1) = recorded + 2
        BY <1>2, <4>1
      <4>4. QED
        BY <3>2, <4>2, <4>3
    <3>6. ASSUME NEW i \in DOMAIN Chunk(k)'
          PROVE  Chunk(k)'[i].number = (new[k] + i) - 1
      <4>1. i \in 1..Len(Chunk(k)) + 1
        BY <3>1
      <4>2. CASE i = Len(Chunk(k)) + 1
        <5>1. Chunk(k)'[i] = p
          BY <3>1, <4>2
        <5>2. i \in Nat /\ b[published] + i = recorded + 2
          <6> DEFINE x == b[published]
          <6> DEFINE l == Len(Chunk(k))
          <6>1. x \in Nat /\ l \in Nat /\ x + l = recorded + 1 /\ i = l + 1
            BY <3>2, <3>3, <3>4, <4>2
          <6> HIDE DEF x, l
          <6>2. i \in Nat /\ x + i = recorded + 2
            BY <1>2, <6>1
          <6>3. QED
            BY <6>2 DEF x
        <5>3. QED
          BY <1>2, <1>3, <3>2, <5>1, <5>2
      <4>3. CASE i # Len(Chunk(k)) + 1
        <5>1. i \in 1..Len(Chunk(k))
          <6> DEFINE l == Len(Chunk(k))
          <6>1. l \in Nat /\ i \in 1..l + 1 /\ i # l + 1
            BY <3>1, <4>1, <4>3
          <6> HIDE DEF l
          <6>2. i \in 1..l
            BY <6>1
          <6>3. QED
            BY <6>2 DEF l
        <5>2. i \in DOMAIN Chunk(k) /\ Chunk(k)'[i] = Chunk(k)[i]
          BY <3>1, <5>1
        <5>3. QED
          BY <1>8, <2>3, <3>2, <5>2
      <4>4. QED
        BY <4>2, <4>3
    <3>7. new[k + 1] <= recorded' + 1
      BY <1>2, <1>3, <1>8, <3>2
    <3>8. QED
      BY <3>5, <3>6, <3>7
  <2>4. CASE k = published + 1
    <3>1. Chunk(k)' = <<>>
      BY <1>2, <1>4, <2>2, <2>4
    <3>2. new[k] = recorded + 2 /\ new[k + 1] = recorded + 2
      BY <1>2, <1>7, <2>1, <2>4
    <3>3. QED
      BY <1>2, <1>3, <1>4, <3>1, <3>2
  <2>5. CASE k < published
    <3>1. k \in Chunks /\ Chunk(k)' = Chunk(k)
      BY <1>2, <2>1, <2>2, <2>5 DEF Chunks
    <3>2. new[k] = b[k] /\ new[k + 1] = b[k + 1] /\ b[k + 1] \in Nat
      BY <1>2, <1>7, <2>1, <2>5
    <3>3. /\ b[k] + Len(Chunk(k)) = b[k + 1] /\ b[k + 1] <= recorded + 1
          /\ \A i \in DOMAIN Chunk(k) : Chunk(k)[i].number = (b[k] + i) - 1
      BY <1>1, <3>1 DEF Numbers
    <3>4. b[k + 1] <= recorded' + 1
      <4>1. \A y \in Nat : y <= recorded + 1 => y <= recorded' + 1
        BY <1>2, <1>3
      <4>2. QED
        BY <3>2, <3>3, <4>1
    <3>5. QED
      BY <1>3, <3>1, <3>2, <3>3, <3>4
  <2>6. k = published \/ k = published + 1 \/ k < published
    BY <1>2, <2>1
  <2>7. QED
    BY <2>3, <2>4, <2>5, <2>6
<1>12. Numbers(new)'
  <2>1. published' \in Nat
    BY <1>2, <1>3
  <2>2. new[published' + 1] = recorded' + 1
    BY <1>10, <2>1
  <2>3. new[completed'] = replayed' + 1
    BY <1>3, <1>9
  <2>4. QED
    BY <1>11, <2>2, <2>3 DEF Numbers
<1>13. ASSUME NEW k \in published' + 1..(completed' + ChunkCount) - 1
       PROVE  Chunk(k)' = <<>>
  <2>1. k \in published + 1..(completed + ChunkCount) - 1
    <3>1. CASE published' = published
      BY <1>2, <1>3, <3>1
    <3>2. CASE published' = published + 1
      BY <1>2, <1>3, <3>2
    <3>3. QED
      BY <1>3, <3>1, <3>2
  <2>2. k \in completed..completed + ChunkCount /\ k # published
    BY <1>2, <2>1
  <2>3. QED
    BY <2>1, <2>2, ChunkAppends DEF NumbersOK
<1>14. QED
  <2>1. recorded' \in Nat /\ replayed' \in Nat
    BY <1>2, <1>3
  <2>2. QED
    BY <1>7, <1>12, <1>13, <2>1 DEF NumbersOK

LEMMA CloseKeepsNumbers ==
  ASSUME StreamOK, NumbersOK, Closes
  PROVE  NumbersOK'
<1>1. PICK b \in [Nat -> Nat] : Numbers(b)
  BY DEF NumbersOK
<1>2. /\ completed \in Nat /\ published \in Nat /\ ChunkCount \in Nat \ {0}
      /\ completed <= published /\ published < completed + ChunkCount
      /\ recorded \in Nat /\ replayed \in Nat
      /\ published' = published + 1 /\ completed' = completed
      /\ recorded' = recorded /\ replayed' = replayed
  BY RecordingStreamAssumption DEF StreamOK, NumbersOK, Closes, HasRoom
<1>3. \A k : Chunk(k)' = Chunk(k)
  BY <1>2 DEF Closes, Chunk
<1>4. Chunk(published + 1) = <<>> /\ replayed <= recorded
  BY NextChunkIsEmpty, NumbersFacts DEF Closes
<1>5. PICK new : new = [k \in Nat |-> IF k > published THEN recorded + 1 ELSE b[k]]
  OBVIOUS
<1>6. /\ new \in [Nat -> Nat]
      /\ \A k \in Nat : k > published => new[k] = recorded + 1
      /\ \A k \in Nat : k <= published => new[k] = b[k]
  BY <1>2, <1>5
<1>7. \A k \in Chunks : new[k] = b[k] /\ new[k + 1] = b[k + 1]
  <2>1. b[published + 1] = recorded + 1
    BY <1>1 DEF Numbers
  <2>2. ASSUME NEW k \in Chunks
        PROVE  k \in Nat /\ k <= published
    BY <1>2 DEF Chunks
  <2>3. ASSUME NEW k \in Chunks
        PROVE  new[k] = b[k] /\ new[k + 1] = b[k + 1]
    <3>1. CASE k = published
      BY <1>2, <1>6, <2>1, <3>1
    <3>2. CASE k # published
      <4>1. k \in Nat /\ k + 1 \in Nat /\ k <= published /\ k + 1 <= published
        BY <1>2, <2>2, <3>2
      <4>2. QED
        BY <1>6, <4>1
    <3>3. QED
      BY <3>1, <3>2
  <2>4. QED
    BY <2>3
<1>8. ASSUME NEW k \in Chunks'
      PROVE  /\ new[k] + Len(Chunk(k)') = new[k + 1]
             /\ new[k + 1] <= recorded' + 1
             /\ \A i \in DOMAIN Chunk(k)' : Chunk(k)'[i].number = (new[k] + i) - 1
  <2>1. CASE k \in Chunks
    BY <1>1, <1>2, <1>3, <1>7, <2>1 DEF Numbers
  <2>2. CASE k \notin Chunks
    <3>1. k = published + 1
      BY <1>2, <2>2 DEF Chunks
    <3>2. Chunk(k)' = <<>>
      BY <1>3, <1>4, <3>1
    <3>3. new[k] = recorded + 1 /\ new[k + 1] = recorded + 1
      BY <1>2, <1>6, <3>1
    <3>4. QED
      BY <1>2, <1>4, <3>2, <3>3
  <2>3. QED
    BY <2>1, <2>2
<1>9. Numbers(new)'
  <2>1. completed \in Chunks
    BY <1>2 DEF Chunks
  <2>2. new[completed'] = replayed' + 1
    BY <1>1, <1>2, <1>7, <2>1 DEF Numbers
  <2>3. new[published' + 1] = recorded' + 1
    BY <1>2, <1>6
  <2>4. QED
    BY <1>8, <2>2, <2>3 DEF Numbers
<1>10. \A k \in published' + 1..(completed' + ChunkCount) - 1 : Chunk(k)' = <<>>
  <2>1. \A k \in published' + 1..(completed' + ChunkCount) - 1 :
           k \in published + 1..(completed + ChunkCount) - 1
    BY <1>2
  <2>2. QED
    BY <1>3, <2>1 DEF NumbersOK
<1>11. QED
  BY <1>2, <1>6, <1>9, <1>10 DEF NumbersOK

LEMMA ExecuteKeepsNumbers ==
  ASSUME StreamOK, NumbersOK, Executes
  PROVE  NumbersOK'
<1>1. /\ completed \in Nat /\ published = completed /\ ChunkCount \in Nat \ {0} /\ recorded \in Nat
      /\ completed' = completed /\ published' = published
      /\ recorded' = recorded + 1 /\ replayed' = recorded + 1
      /\ Chunk(published) = <<>>
  BY RecordingStreamAssumption DEF StreamOK, NumbersOK, Executes, Drained
<1>2. \A k : Chunk(k)' = Chunk(k)
  BY <1>1 DEF Executes, Chunk
<1>3. PICK new : new = [k \in Nat |-> recorded + 2]
  OBVIOUS
<1>4. new \in [Nat -> Nat] /\ \A k \in Nat : new[k] = recorded + 2
  BY <1>1, <1>3
<1>5. ASSUME NEW k \in Chunks'
      PROVE  /\ new[k] + Len(Chunk(k)') = new[k + 1]
             /\ new[k + 1] <= recorded' + 1
             /\ \A i \in DOMAIN Chunk(k)' : Chunk(k)'[i].number = (new[k] + i) - 1
  <2>1. k = completed /\ Chunk(k)' = <<>>
    BY <1>1, <1>2 DEF Chunks
  <2>2. QED
    BY <1>1, <1>4, <2>1
<1>6. Numbers(new)'
  <2>1. new[completed'] = replayed' + 1 /\ new[published' + 1] = recorded' + 1
    BY <1>1, <1>4
  <2>2. QED
    BY <1>5, <2>1 DEF Numbers
<1>7. \A k \in published' + 1..(completed' + ChunkCount) - 1 : Chunk(k)' = <<>>
  BY <1>1, <1>2 DEF NumbersOK
<1>8. /\ recorded' \in Nat /\ replayed' \in Nat
      /\ \E b \in [Nat -> Nat] : Numbers(b)'
  <2>1. recorded' \in Nat /\ replayed' \in Nat
    BY <1>1
  <2>2. new \in [Nat -> Nat]
    BY <1>4
  <2>3. QED
    BY <1>6, <2>1, <2>2
<1>9. QED
  BY <1>7, <1>8 DEF NumbersOK

LEMMA ReplayKeepsNumbers ==
  ASSUME StreamOK, NumbersOK, ReplaysOne
  PROVE  NumbersOK' /\ replayed' = replayed + 1
<1>1. PICK b \in [Nat -> Nat] : Numbers(b)
  BY DEF NumbersOK
<1>2. /\ completed \in Nat /\ published \in Nat /\ ChunkCount \in Nat \ {0}
      /\ completed < published /\ published <= completed + ChunkCount
      /\ recorded \in Nat /\ replayed \in Nat
      /\ completed' = completed /\ published' = published /\ recorded' = recorded
  BY RecordingStreamAssumption DEF StreamOK, NumbersOK, ReplaysOne
<1>3. \A k \in Chunks : k \in Nat /\ k \in completed..completed + ChunkCount /\ completed <= k
  BY <1>2 DEF Chunks
<1>4. replayed' = replayed + 1 /\ Chunk(completed) # <<>>
  BY NumbersFacts DEF ReplaysOne
<1>5. PICK new : new = [b EXCEPT ![completed] = replayed + 2]
  OBVIOUS
<1>6. /\ new \in [Nat -> Nat] /\ new[completed] = replayed + 2
      /\ \A k \in Nat : k # completed => new[k] = b[k]
  BY <1>2, <1>5
<1>7. ASSUME NEW k \in Chunks
      PROVE  /\ new[k] + Len(Chunk(k)') = new[k + 1]
             /\ new[k + 1] <= recorded' + 1
             /\ \A i \in DOMAIN Chunk(k)' : Chunk(k)'[i].number = (new[k] + i) - 1
  <2>1. /\ b[completed] = replayed + 1
        /\ b[k] + Len(Chunk(k)) = b[k + 1] /\ b[k + 1] <= recorded + 1
        /\ \A i \in DOMAIN Chunk(k) : Chunk(k)[i].number = (b[k] + i) - 1
    BY <1>1 DEF Numbers
  <2>2. Chunk(k) \in Seq(Packets) /\ k \in Nat /\ completed <= k
    BY <1>3, ChunkTypes
  <2>3. k + 1 # completed /\ k + 1 \in Nat
    BY <1>2, <2>2
  <2>4. new[k + 1] = b[k + 1] /\ b[k + 1] \in Nat
    BY <1>6, <2>3
  <2>5. CASE k = completed
    <3>1. Chunk(k)' = Tail(Chunk(k)) /\ Chunk(k) # <<>>
      BY <1>3, <1>4, <2>5, ChunkReplays
    <3>2. Len(Chunk(k)') = Len(Chunk(k)) - 1 /\ Len(Chunk(k)) \in Nat
      BY <2>2, <3>1
    <3>3. replayed + 1 + Len(Chunk(k)) = b[k + 1]
      BY <2>1, <2>5
    <3>4. new[k] + Len(Chunk(k)') = new[k + 1]
      <4> DEFINE l == Len(Chunk(k))
      <4> DEFINE y == b[k + 1]
      <4>1. l \in Nat /\ y \in Nat /\ replayed + 1 + l = y
        BY <2>4, <3>2, <3>3
      <4>2. new[k] = replayed + 2 /\ Len(Chunk(k)') = l - 1 /\ new[k + 1] = y
        BY <1>6, <2>4, <2>5, <3>2
      <4> HIDE DEF l, y
      <4>3. (replayed + 2) + (l - 1) = y
        BY <1>2, <4>1
      <4>4. QED
        BY <4>2, <4>3
    <3>5. ASSUME NEW i \in DOMAIN Chunk(k)'
          PROVE  Chunk(k)'[i].number = (new[k] + i) - 1
      <4>1. Chunk(k)' = Tail(Chunk(k)) /\ Chunk(k) \in Seq(Packets) /\ Chunk(k) # <<>>
        BY <2>2, <3>1
      <4>2. i + 1 \in DOMAIN Chunk(k) /\ Chunk(k)'[i] = Chunk(k)[i + 1]
        BY <4>1
      <4>3. i \in Nat
        BY <4>1
      <4>4. Chunk(k)[i + 1].number = (b[k] + (i + 1)) - 1
        BY <2>1, <4>2
      <4>5. b[k] = replayed + 1 /\ new[k] = replayed + 2
        BY <1>6, <2>1, <2>5
      <4>6. QED
        BY <1>2, <4>2, <4>4, <4>5, <4>3
    <3>6. QED
      BY <1>2, <1>4, <1>6, <2>1, <2>4, <2>5, <3>4, <3>5
  <2>6. CASE k # completed
    <3>1. Chunk(k)' = Chunk(k) /\ new[k] = b[k] /\ b[k] \in Nat
      BY <1>3, <1>6, <2>2, <2>6, ChunkReplays
    <3>2. QED
      BY <1>2, <1>4, <2>1, <2>4, <3>1
  <2>7. QED
    BY <2>5, <2>6
<1>8. Numbers(new)'
  <2>1. new[completed'] = replayed' + 1
    BY <1>2, <1>4, <1>6
  <2>2. new[published' + 1] = recorded' + 1
    <3>1. published + 1 \in Nat /\ published + 1 # completed
      BY <1>2
    <3>2. QED
      BY <1>1, <1>2, <1>6, <3>1 DEF Numbers
  <2>3. Chunks' = Chunks
    BY <1>2 DEF Chunks
  <2>4. QED
    BY <1>7, <2>1, <2>2, <2>3 DEF Numbers
<1>9. ASSUME NEW k \in published' + 1..(completed' + ChunkCount) - 1
      PROVE  Chunk(k)' = <<>>
  <2>1. k \in published + 1..(completed + ChunkCount) - 1
    BY <1>2
  <2>2. k \in completed..completed + ChunkCount /\ k # completed
    BY <1>2, <2>1
  <2>3. QED
    BY <2>1, <2>2, ChunkReplays DEF NumbersOK
<1>10. QED
  <2>1. recorded' \in Nat /\ replayed' \in Nat
    BY <1>2, <1>4
  <2>2. QED
    BY <1>4, <1>6, <1>8, <1>9, <2>1 DEF NumbersOK

LEMMA CompleteKeepsNumbers ==
  ASSUME StreamOK, NumbersOK, CompletesOne
  PROVE  NumbersOK'
<1>1. PICK b \in [Nat -> Nat] : Numbers(b)
  BY DEF NumbersOK
<1>2. /\ completed \in Nat /\ published \in Nat /\ ChunkCount \in Nat \ {0}
      /\ completed < published /\ published <= completed + ChunkCount
      /\ recorded \in Nat /\ replayed \in Nat
      /\ completed' = completed + 1 /\ published' = published
      /\ recorded' = recorded /\ replayed' = replayed
  BY RecordingStreamAssumption DEF StreamOK, NumbersOK, CompletesOne
<1>3. Chunk(completed) = <<>>
  BY NumbersFacts DEF CompletesOne
<1>4. b[completed + 1] = replayed + 1
  <2>1. completed \in Chunks
    BY <1>2 DEF Chunks
  <2>2. b[completed] + Len(<<>>) = b[completed + 1] /\ b[completed] = replayed + 1
    BY <1>1, <1>3, <2>1 DEF Numbers
  <2>3. QED
    BY <1>2, <2>2
<1>5. ASSUME NEW k \in Chunks'
      PROVE  k \in Chunks /\ Chunk(k)' = Chunk(k)
  <2>1. k \in completed + 1..completed + ChunkCount /\ k \in Chunks
    BY <1>2 DEF Chunks
  <2>2. QED
    BY <2>1, ChunkCompletes
<1>6. Numbers(b)'
  <2>1. b[completed'] = replayed' + 1 /\ b[published' + 1] = recorded' + 1
    BY <1>1, <1>2, <1>4 DEF Numbers
  <2>2. ASSUME NEW k \in Chunks'
        PROVE  /\ b[k] + Len(Chunk(k)') = b[k + 1] /\ b[k + 1] <= recorded' + 1
               /\ \A i \in DOMAIN Chunk(k)' : Chunk(k)'[i].number = (b[k] + i) - 1
    <3>1. k \in Chunks /\ Chunk(k)' = Chunk(k)
      BY <1>5
    <3>2. /\ b[k] + Len(Chunk(k)) = b[k + 1] /\ b[k + 1] <= recorded + 1
          /\ \A i \in DOMAIN Chunk(k) : Chunk(k)[i].number = (b[k] + i) - 1
      BY <1>1, <3>1 DEF Numbers
    <3>3. recorded' = recorded
      BY <1>2
    <3>4. QED
      BY <3>1, <3>2, <3>3
  <2>3. QED
    BY <2>1, <2>2 DEF Numbers
<1>7. ASSUME NEW k \in published' + 1..(completed' + ChunkCount) - 1
      PROVE  Chunk(k)' = <<>>
  <2>1. /\ k \in completed + 1..completed + ChunkCount /\ k >= published + 1
        /\ k <= completed + ChunkCount
    BY <1>2
  <2>2. Chunk(k)' = Chunk(k)
    BY <2>1, ChunkCompletes
  <2>3. CASE k = completed + ChunkCount
    <3>1. ~(k < completed + ChunkCount)
      BY <1>2, <2>3
    <3>2. Chunk(k) = <<>>
      BY <3>1 DEF Chunk
    <3>3. QED
      BY <2>2, <3>2
  <2>4. CASE k # completed + ChunkCount
    <3>1. k \in published + 1..(completed + ChunkCount) - 1
      BY <1>2, <2>1, <2>4
    <3>2. QED
      BY <2>2, <3>1 DEF NumbersOK
  <2>5. QED
    BY <2>3, <2>4
<1>8. QED
  BY <1>2, <1>6, <1>7 DEF NumbersOK

LEMMA UnmovedNumbers ==
  ASSUME NumbersOK, Unmoved
  PROVE  NumbersOK'
<1>1. /\ chunks' = chunks /\ published' = published /\ completed' = completed
      /\ recorded' = recorded /\ replayed' = replayed
  BY DEF Unmoved
<1>2. Chunks' = Chunks /\ \A k : Chunk(k)' = Chunk(k)
  BY <1>1 DEF Chunks, Chunk
<1>3. PICK b \in [Nat -> Nat] : Numbers(b)
  BY DEF NumbersOK
<1>4. Numbers(b)'
  BY <1>1, <1>2, <1>3 DEF Numbers
<1>5. \A k \in published' + 1..(completed' + ChunkCount) - 1 : Chunk(k)' = <<>>
  BY <1>1, <1>2 DEF NumbersOK
<1>6. recorded' \in Nat /\ replayed' \in Nat
  BY <1>1 DEF NumbersOK
<1>7. QED
  BY <1>4, <1>5, <1>6 DEF NumbersOK

LEMMA StreamStepKeepsNumbers ==
  ASSUME StreamOK, NumbersOK, StreamStep
  PROVE  NumbersOK'
BY AppendKeepsNumbers, CloseKeepsNumbers, ExecuteKeepsNumbers, ReplayKeepsNumbers,
   CompleteKeepsNumbers, UnmovedNumbers DEF StreamStep

(***************************************************************************)
(* Promises.                                                               *)
(***************************************************************************)

Promises == [copies : Nat, packets : Nat]

LEMMA AppendKeepsPromises ==
  ASSUME StreamOK, NumbersOK, PromisesOK, NEW p \in Packets, Appends(p)
  PROVE  PromisesOK'
<1>1. recorded \in Nat /\ recorded' = recorded + 1 /\ replayed' = replayed /\ handed' = handed
  BY DEF NumbersOK, Appends
<1>2. /\ replayed \in Nat /\ replayed <= recorded
      /\ \A q \in Kept : q \in Packets /\ q.number \in Nat /\ q.number <= recorded
  <2>1. \A q \in Kept : q \in Packets /\ q.number <= recorded
    BY NumbersFacts
  <2>2. \A q \in Packets : q.number \in Nat
    BY DEF Packets
  <2>3. QED
    BY <2>1, <2>2, NumbersFacts DEF NumbersOK
<1>3. /\ promised \in Seq(Promises) /\ handed \in 0..Len(promised) /\ Len(promised) \in Nat
      /\ DOMAIN promised = 1..Len(promised)
  BY DEF PromisesOK, Promises
<1>4. \A m \in DOMAIN promised : promised[m].packets \in Nat
  <2>1. \A m \in DOMAIN promised : promised[m] \in Promises
    BY <1>3
  <2>2. QED
    BY <2>1 DEF Promises
<1>5. /\ \A i, j \in DOMAIN promised : i < j => promised[i].packets < promised[j].packets
      /\ \A i \in DOMAIN promised :
           promised[i].packets < recorded /\ (i <= handed <=> promised[i].packets < replayed)
  BY DEF PromisesOK
<1>6. p.number = recorded + 1 /\ p.submits \in BOOLEAN /\ p.copies \in Nat
  BY DEF Appends, Packets
<1>7. CASE ~ p.submits
  <2>1. promised' = promised
    BY <1>7 DEF Appends
  <2>2. ASSUME NEW q \in Kept' PROVE Keeps(q)'
    <3>1. CASE q \in Kept
      BY <3>1, <2>1 DEF PromisesOK, Keeps
    <3>2. CASE Appends(q)
      <4>1. q.number = recorded + 1 /\ promised' = IF q.submits THEN Append(promised,
               [copies |-> q.copies, packets |-> recorded]) ELSE promised
        BY <3>2 DEF Appends
      <4>2. q \in Packets /\ q.submits \in BOOLEAN
        BY <3>2 DEF Appends, Packets
      <4>3. ~ q.submits
        <5>1. Len(Append(promised, [copies |-> q.copies, packets |-> recorded])) = Len(promised) + 1
          BY <1>3
        <5>2. QED
          BY <1>3, <2>1, <4>1, <4>2, <5>1
      <4>4. \A m \in DOMAIN promised : promised[m].packets # q.number - 1
        BY <1>1, <1>4, <1>5, <4>1
      <4>5. QED
        BY <2>1, <4>3, <4>4 DEF Keeps
    <3>3. QED
      BY <3>1, <3>2, KeptStep DEF StreamStep
  <2>3. \A i \in DOMAIN promised : promised[i].packets < recorded'
    BY <1>1, <1>4, <1>5
  <2>4. QED
    BY <1>1, <1>3, <1>5, <2>1, <2>2, <2>3 DEF PromisesOK, Promises
<1>8. CASE p.submits
  <2> DEFINE last == [copies |-> p.copies, packets |-> recorded]
  <2> DEFINE n == Len(promised) + 1
  <2>1. promised' = Append(promised, last) /\ last \in Promises
    BY <1>1, <1>6, <1>8 DEF Appends, Promises
  <2>2. /\ promised' \in Seq(Promises) /\ DOMAIN promised' = 1..n /\ Len(promised') = n
        /\ promised'[n] = last /\ \A m \in 1..Len(promised) : promised'[m] = promised[m]
    BY <1>3, <2>1
  <2>3. n \in Nat /\ \A m \in 1..n : m = n \/ m \in DOMAIN promised
    BY <1>3
  <2>4. last.packets = recorded /\ last.copies = p.copies
    OBVIOUS
  <2> HIDE DEF last, n
  <2>5. ASSUME NEW q \in Kept' PROVE Keeps(q)'
    <3>1. CASE q \in Kept
      <4>1. q.number - 1 # recorded
        BY <1>1, <1>2, <3>1
      <4>2. Keeps(q)
        BY <3>1 DEF PromisesOK
      <4>3. \A m \in DOMAIN promised' : promised'[m].packets = q.number - 1 =>
              m \in DOMAIN promised /\ promised'[m] = promised[m]
        BY <1>3, <2>2, <2>3, <2>4, <4>1
      <4>4. \A m \in DOMAIN promised : m \in DOMAIN promised' /\ promised'[m] = promised[m]
        <5>1. \A m \in 1..Len(promised) : m \in 1..n
          BY <1>3 DEF n
        <5>2. QED
          BY <1>3, <2>2, <5>1
      <4>5. QED
        BY <4>2, <4>3, <4>4 DEF Keeps
    <3>2. CASE Appends(q)
      <4>1. q.number = recorded + 1 /\ promised' = IF q.submits THEN Append(promised,
               [copies |-> q.copies, packets |-> recorded]) ELSE promised
        BY <3>2 DEF Appends
      <4>2. q \in Packets /\ q.submits \in BOOLEAN
        BY <3>2 DEF Appends, Packets
      <4>3. q.submits
        BY <1>3, <2>2, <4>1, <4>2 DEF n
      <4>4. promised'[n].copies = q.copies
        <5>1. promised' = Append(promised, [copies |-> q.copies, packets |-> recorded])
          BY <4>1, <4>3
        <5>2. promised'[n] = [copies |-> q.copies, packets |-> recorded]
          BY <1>3, <5>1 DEF n
        <5>3. QED
          BY <5>2
      <4>5. q.number - 1 = recorded
        BY <1>1, <4>1
      <4>6. \A m \in DOMAIN promised' : promised'[m].packets = recorded <=> m = n
        <5>1. \A m \in DOMAIN promised : promised[m].packets # recorded
          BY <1>1, <1>4, <1>5
        <5>2. QED
          BY <1>3, <2>2, <2>3, <2>4, <5>1
      <4>7. n \in DOMAIN promised'
        BY <2>2, <2>3, <1>3 DEF n
      <4>8. QED
        BY <4>3, <4>4, <4>5, <4>6, <4>7 DEF Keeps
    <3>3. QED
      BY <3>1, <3>2, KeptStep DEF StreamStep
  <2>6. ASSUME NEW i \in DOMAIN promised', NEW j \in DOMAIN promised', i < j
        PROVE  promised'[i].packets < promised'[j].packets
    <3>1. i \in DOMAIN promised /\ i \in 1..Len(promised)
      BY <1>3, <2>2, <2>6 DEF n
    <3>2. CASE j = n
      BY <1>5, <2>2, <2>4, <3>1, <3>2
    <3>3. CASE j # n
      <4>1. j \in DOMAIN promised /\ j \in 1..Len(promised)
        BY <1>3, <2>2, <2>3, <3>3
      <4>2. QED
        BY <1>5, <2>2, <2>6, <3>1, <4>1
    <3>4. QED
      BY <3>2, <3>3
  <2>7. ASSUME NEW i \in DOMAIN promised'
        PROVE  promised'[i].packets < recorded' /\ (i <= handed <=> promised'[i].packets < replayed)
    <3>1. CASE i = n
      <4>1. promised'[i].packets = recorded /\ ~ (i <= handed)
        BY <1>3, <2>2, <2>4, <3>1 DEF n
      <4>2. QED
        BY <1>1, <1>2, <4>1
    <3>2. CASE i # n
      <4>1. i \in DOMAIN promised /\ promised'[i] = promised[i]
        BY <1>3, <2>2, <2>3, <3>2
      <4>2. promised[i].packets \in Nat /\ promised[i].packets < recorded
        BY <1>4, <1>5, <4>1
      <4>3. QED
        BY <1>1, <1>5, <4>1, <4>2
    <3>3. QED
      BY <3>1, <3>2
  <2>8. handed' \in 0..Len(promised')
    BY <1>1, <1>3, <2>2 DEF n
  <2>9. QED
    BY <1>1, <2>2, <2>5, <2>6, <2>7, <2>8 DEF PromisesOK, Promises
<1>9. QED
  BY <1>6, <1>7, <1>8

LEMMA PromisesFacts ==
  ASSUME PromisesOK
  PROVE  /\ promised \in Seq(Promises) /\ handed \in 0..Len(promised) /\ Len(promised) \in Nat
         /\ DOMAIN promised = 1..Len(promised)
         /\ \A m \in DOMAIN promised : promised[m] \in Promises /\ promised[m].packets \in Nat
<1>1. /\ promised \in Seq(Promises) /\ handed \in 0..Len(promised) /\ Len(promised) \in Nat
      /\ DOMAIN promised = 1..Len(promised)
  BY DEF PromisesOK, Promises
<1>2. \A m \in DOMAIN promised : promised[m] \in Promises
  BY <1>1
<1>3. QED
  BY <1>1, <1>2 DEF Promises

\* When all packets are replayed, the driver has all that was promised.
LEMMA ExecuteFindsAll ==
  ASSUME StreamOK, NumbersOK, PromisesOK, Executes
  PROVE  handed = Len(promised)
<1>1. replayed = recorded
  BY NumbersFacts DEF Executes
<1>2. handed \in 0..Len(promised) /\ Len(promised) \in Nat /\ DOMAIN promised = 1..Len(promised)
  BY PromisesFacts
<1>3. \A m \in DOMAIN promised : m <= handed
  BY <1>1 DEF PromisesOK
<1>4. QED
  <2>1. CASE Len(promised) = 0
    BY <1>2, <2>1
  <2>2. CASE Len(promised) # 0
    <3>1. Len(promised) \in DOMAIN promised
      BY <1>2, <2>2
    <3>2. Len(promised) <= handed
      BY <1>3, <3>1
    <3>3. \A l \in Nat : handed \in 0..l /\ l <= handed => handed = l
      OBVIOUS
    <3>4. QED
      BY <1>2, <3>2, <3>3
  <2>3. QED
    BY <2>1, <2>2

\* What is executed at once is executed when all packets are, and the driver has
\* all that was promised.
LEMMA ExecuteKeepsPromises ==
  ASSUME StreamOK, UploadOK, NumbersOK, PromisesOK, Executes
  PROVE  PromisesOK'
<1>1. /\ recorded \in Nat /\ replayed = recorded /\ Kept = {}
      /\ recorded' = recorded + 1 /\ replayed' = recorded + 1
  BY NumbersFacts DEF NumbersOK, Executes
<1>2. /\ promised \in Seq(Promises) /\ handed \in 0..Len(promised) /\ Len(promised) \in Nat
      /\ DOMAIN promised = 1..Len(promised)
      /\ \A m \in DOMAIN promised : promised[m] \in Promises /\ promised[m].packets \in Nat
  BY PromisesFacts
<1>3. \A m \in DOMAIN promised : m <= handed /\ promised[m].packets < recorded
  BY <1>1 DEF PromisesOK
<1>4. handed = Len(promised)
  BY ExecuteFindsAll
<1>5. Kept' = {}
  <2>1. ASSUME NEW q \in Kept' PROVE FALSE
    <3>1. Appends(q)
      BY <1>1, KeptStep DEF StreamStep
    <3>2. replayed' = replayed
      BY <3>1 DEF Appends
    <3>3. QED
      BY <1>1, <3>2
  <2>2. QED
    BY <2>1
<1>6. \A i, j \in DOMAIN promised : i < j => promised[i].packets < promised[j].packets
  BY DEF PromisesOK
<1>7. CASE UNCHANGED <<promised, handed>>
  <2>1. \A m \in DOMAIN promised : promised[m].packets < recorded + 1
    BY <1>1, <1>2, <1>3
  <2>2. QED
    BY <1>1, <1>2, <1>3, <1>5, <1>6, <1>7, <2>1 DEF PromisesOK, Promises
<1>8. CASE promised' = Promise /\ handed' = handed + 1
  <2> DEFINE last == [copies |-> head, packets |-> recorded]
  <2> DEFINE n == Len(promised) + 1
  <2>1. promised' = Append(promised, last) /\ last \in Promises
    BY <1>1, <1>8 DEF Promise, Promises, UploadOK
  <2>2. /\ promised' \in Seq(Promises) /\ DOMAIN promised' = 1..n /\ Len(promised') = n
        /\ promised'[n] = last /\ \A m \in 1..Len(promised) : promised'[m] = promised[m]
    BY <1>2, <2>1
  <2>3. n \in Nat /\ (\A m \in 1..n : m = n \/ m \in DOMAIN promised) /\ handed' = n
    BY <1>2, <1>4, <1>8
  <2>4. last.packets = recorded
    OBVIOUS
  <2> HIDE DEF last, n
  <2>5. ASSUME NEW i \in DOMAIN promised', NEW j \in DOMAIN promised', i < j
        PROVE  promised'[i].packets < promised'[j].packets
    <3>1. i \in DOMAIN promised /\ i \in 1..Len(promised)
      BY <1>2, <2>2, <2>5 DEF n
    <3>2. CASE j = n
      BY <1>3, <2>2, <2>4, <3>1, <3>2
    <3>3. CASE j # n
      <4>1. j \in DOMAIN promised /\ j \in 1..Len(promised)
        BY <1>2, <2>2, <2>3, <3>3
      <4>2. QED
        BY <1>6, <2>2, <2>5, <3>1, <4>1
    <3>4. QED
      BY <3>2, <3>3
  <2>6. ASSUME NEW i \in DOMAIN promised'
        PROVE  promised'[i].packets < recorded + 1 /\ i <= n
    <3>1. i \in 1..n
      BY <2>2
    <3>2. CASE i = n
      BY <1>1, <2>2, <2>3, <2>4, <3>2
    <3>3. CASE i # n
      <4>1. i \in DOMAIN promised /\ promised'[i] = promised[i]
        BY <1>2, <2>2, <2>3, <3>1, <3>3
      <4>2. promised[i].packets \in Nat /\ promised[i].packets < recorded
        BY <1>2, <1>3, <4>1
      <4>3. QED
        BY <1>1, <2>3, <3>1, <4>1, <4>2
    <3>4. QED
      BY <3>2, <3>3
  <2>7. QED
    BY <1>1, <1>5, <2>2, <2>3, <2>5, <2>6 DEF PromisesOK, Promises
<1>9. QED
  BY <1>7, <1>8 DEF Executes

\* The submission of a packet that is replayed is the next one of the driver.
LEMMA ReplayKeepsPromises ==
  ASSUME StreamOK, NumbersOK, PromisesOK, ReplaysOne
  PROVE  /\ PromisesOK'
         /\ handed' # handed => /\ handed' \in DOMAIN promised /\ promised' = promised
                                /\ promised[handed'] = [copies |-> Packet.copies, packets |-> replayed]
<1>1. /\ recorded \in Nat /\ replayed \in Nat /\ replayed <= recorded /\ recorded' = recorded
      /\ replayed' = replayed + 1 /\ promised' = promised
  BY NumbersFacts, ReplayKeepsNumbers DEF NumbersOK, ReplaysOne
<1>2. /\ promised \in Seq(Promises) /\ handed \in 0..Len(promised) /\ Len(promised) \in Nat
      /\ DOMAIN promised = 1..Len(promised)
      /\ \A m \in DOMAIN promised : promised[m] \in Promises /\ promised[m].packets \in Nat
  BY PromisesFacts
<1>3. /\ \A i, j \in DOMAIN promised : i < j => promised[i].packets < promised[j].packets
      /\ \A i \in DOMAIN promised :
           promised[i].packets < recorded /\ (i <= handed <=> promised[i].packets < replayed)
  BY DEF PromisesOK
<1>4. /\ Packet \in Packets /\ Packet.number - 1 = replayed /\ Keeps(Packet)
      /\ Packet.submits \in BOOLEAN
  <2>1. Packet \in Packets /\ Packet.number = replayed + 1 /\ Packet \in Kept
    BY NumbersFacts DEF ReplaysOne
  <2>2. QED
    BY <1>1, <2>1 DEF PromisesOK, Packets
<1>5. ASSUME NEW q \in Kept' PROVE Keeps(q)'
  <2>1. q \in Kept
    <3>1. ~ Appends(q)
      BY <1>1 DEF Appends
    <3>2. QED
      BY <3>1, KeptStep DEF StreamStep
  <2>2. QED
    BY <1>1, <2>1 DEF PromisesOK, Keeps
<1>6. CASE Packet.submits
  <2>1. PICK m \in DOMAIN promised : promised[m].packets = replayed
    BY <1>4, <1>6 DEF Keeps
  <2>2. promised[m].copies = Packet.copies
    BY <1>4, <2>1 DEF Keeps
  <2>3. m = handed + 1
    <3>1. ~ (m <= handed)
      BY <1>1, <1>3, <2>1
    <3>2. ~ (handed + 1 < m)
      <4>1. SUFFICES ASSUME handed + 1 < m PROVE FALSE
        OBVIOUS
      <4>2. handed + 1 \in DOMAIN promised
        BY <1>2, <4>1
      <4>3. promised[handed + 1].packets < replayed
        BY <1>3, <2>1, <4>1, <4>2
      <4>4. QED
        BY <1>2, <1>3, <4>2, <4>3
    <3>3. QED
      BY <1>2, <3>1, <3>2
  <2>4. handed' = m
    BY <1>6, <2>3 DEF ReplaysOne
  <2>5. \A i \in DOMAIN promised : i <= m <=> promised[i].packets < replayed + 1
    <3>1. SUFFICES ASSUME NEW i \in DOMAIN promised
                   PROVE  i <= m <=> promised[i].packets < replayed + 1
      OBVIOUS
    <3>2. CASE i < m
      BY <1>1, <1>2, <1>3, <2>1, <3>2
    <3>3. CASE i = m
      <4>1. i <= m
        BY <1>2, <3>3
      <4>2. QED
        BY <1>1, <2>1, <3>3, <4>1
    <3>4. CASE m < i
      <4>1. replayed < promised[i].packets
        BY <1>3, <2>1, <3>4
      <4>2. QED
        BY <1>1, <1>2, <3>4, <4>1
    <3>5. QED
      BY <1>2, <3>2, <3>3, <3>4
  <2>6. PromisesOK'
    BY <1>1, <1>2, <1>3, <1>5, <2>4, <2>5 DEF PromisesOK, Promises
  <2>7. promised[m] = [copies |-> Packet.copies, packets |-> replayed]
    BY <1>2, <2>1, <2>2 DEF Promises
  <2>8. QED
    BY <1>1, <2>4, <2>6, <2>7
<1>7. CASE ~ Packet.submits
  <2>1. handed' = handed
    BY <1>7 DEF ReplaysOne
  <2>2. \A i \in DOMAIN promised : promised[i].packets # replayed
    BY <1>4, <1>7 DEF Keeps
  <2>3. \A i \in DOMAIN promised : i <= handed <=> promised[i].packets < replayed + 1
    BY <1>1, <1>2, <1>3, <2>2
  <2>4. PromisesOK'
    BY <1>1, <1>2, <1>3, <1>5, <2>1, <2>3 DEF PromisesOK, Promises
  <2>5. QED
    BY <2>1, <2>4
<1>8. QED
  BY <1>4, <1>6, <1>7

LEMMA StreamStepKeepsPromises ==
  ASSUME StreamOK, UploadOK, NumbersOK, PromisesOK, StreamStep
  PROVE  PromisesOK'
<1>1. ASSUME Closes \/ CompletesOne \/ Unmoved PROVE PromisesOK'
  <2>1. UNCHANGED <<promised, handed, recorded, replayed>>
    BY <1>1 DEF Closes, CompletesOne, Unmoved
  <2>2. recorded' # recorded + 1
    BY <2>1 DEF NumbersOK
  <2>3. \A q \in Kept' : q \in Kept
    BY <2>2, KeptStep DEF Appends
  <2>4. QED
    BY <2>1, <2>3 DEF PromisesOK, Keeps
<1>2. QED
  BY <1>1, AppendKeepsPromises, ExecuteKeepsPromises, ReplayKeepsPromises DEF StreamStep

(***************************************************************************)
(* The steps of the specification.                                         *)
(***************************************************************************)

LEMMA PendingOnBounds ==
  ASSUME UploadOK, NEW area \in Areas
  PROVE  /\ PendingOn(area) \in Nat
         /\ \A m \in done + 1..head : slots[Slot(m - 1)].area = area => m <= PendingOn(area)
<1> DEFINE on == {n \in done..head - 1 : slots[Slot(n)].area = area}
<1>1. head \in Nat /\ done \in Nat
  BY DEF UploadOK
<1>2. \A m \in done + 1..head : slots[Slot(m - 1)].area = area => m - 1 \in on
  BY <1>1
<1>3. CASE on = {}
  <2>1. PendingOn(area) = 0
    BY <1>3 DEF PendingOn
  <2>2. QED
    BY <1>2, <1>3, <2>1
<1>4. CASE on # {}
  <2>1. on \in SUBSET (0..head)
    BY <1>1
  <2>2. \E n \in on : \A m \in on : m <= n
    <3> HIDE DEF on
    <3>1. QED
      BY <1>1, <1>4, <2>1, GreatestElement
  <2> DEFINE last == CHOOSE n \in on : \A m \in on : m <= n
  <2>3. last \in on /\ \A m \in on : m <= last
    <3> HIDE DEF on
    <3>1. QED
      BY <2>2
  <2>4. PendingOn(area) = 1 + last
    BY <1>4 DEF PendingOn
  <2> HIDE DEF last
  <2>5. last \in Nat
    BY <1>1, <2>3
  <2>6. ASSUME NEW m \in done + 1..head, slots[Slot(m - 1)].area = area
        PROVE  m <= PendingOn(area)
    <3>1. m - 1 <= last
      BY <1>2, <2>3, <2>6
    <3>2. QED
      BY <1>1, <2>4, <2>5, <3>1
  <2>7. QED
    BY <2>4, <2>5, <2>6
<1>5. QED
  BY <1>3, <1>4

LEMMA NextIsUploadStep ==
  ASSUME IInv, [Next]_vars
  PROVE  UploadStep
<1> USE DEF IInv, UploadStep
<1>1. CASE UNCHANGED vars
  BY <1>1 DEF vars
<1>2. CASE UploadRuns
  BY <1>2 DEF UploadRuns
<1>3. CASE RecorderRuns
  <2>1. CASE ReplaySubmit
    <3>1. Packet.copies \in Nat
      <4>1. Packet \in Packets
        BY <2>1, NumbersFacts DEF ReplaySubmit
      <4>2. QED
        BY <4>1 DEF Packets
    <3>2. WaitStarts
      BY <2>1, <3>1, SubmitPathAssumption DEF ReplaySubmit, WaitStarts, ring, run
    <3>3. QED
      BY <3>2
  <2>2. CASE Waits(Recorder)
    BY <2>2, SubmitPathAssumption
  <2>3. CASE Replays \/ Submits \/ UNCHANGED uploadVars
    BY <2>3 DEF Replays, Submits
  <2>4. QED
    BY <1>3, <2>1, <2>2, <2>3 DEF RecorderRuns
<1>4. CASE RenderGoesOn
  <2>1. CASE PushWaits \/ Pushed
    BY <2>1 DEF PushWaits, Pushed
  <2>2. CASE Published \/ ExecutesInline \/ SubmitsDirect
    BY <2>2 DEF Published, ExecutesInline, SubmitsDirect
  <2>3. CASE DrainsUploads
    <3>1. head \in Nat
      BY DEF UploadOK
    <3>2. WaitStarts
      BY <2>3, <3>1, SubmitPathAssumption DEF DrainsUploads, SubmitSequence, WaitStarts, ring, run
    <3>3. QED
      BY <3>2
  <2>4. ASSUME NEW area \in Areas, Unmap(area) PROVE UploadStep
    <3>1. PICK n \in Nat : /\ Awaits(Render, n)
                           /\ \A m \in done + 1..head : slots[Slot(m - 1)].area = todo => m <= n
      BY <2>4 DEF UploadingOK, Unmap
    <3>2. done >= n /\ done \in Nat /\ current \in Nat /\ head \in Nat /\ done <= current
      BY <2>4, <3>1 DEF Awaits, Unmap, UploadOK
    <3>3. ASSUME NEW m \in Pending PROVE slots[Slot(m - 1)].area \in mapped'
      <4>1. m \in done + 1..head /\ m > n
        BY <3>2 DEF Pending
      <4>2. slots[Slot(m - 1)].area # area
        BY <2>4, <3>1, <3>2, <4>1 DEF Unmap
      <4>3. slots[Slot(m - 1)].area \in mapped
        BY DEF MappedOK, JobsAreMapped
      <4>4. QED
        BY <2>4, <4>2, <4>3 DEF Unmap
    <3>4. Remaps
      BY <2>4, <3>3 DEF Remaps, Unmap, MappedOK, ring, run
    <3>5. QED
      BY <3>4
  <2>5. CASE Waits(Render)
    BY <2>5, SubmitPathAssumption
  <2>6. QED
    BY <1>4, <2>1, <2>2, <2>3, <2>4, <2>5 DEF RenderGoesOn
<1>5. CASE RenderCalls
  <2>1. CASE Record \/ SubmitDeferred \/ RecordInline \/ SubmitDirect
    BY <2>1 DEF Record, SubmitDeferred, RecordInline, SubmitDirect, Drains
  <2>2. ASSUME NEW area \in Areas, Push(area) PROVE UploadStep
    BY <2>2 DEF Push
  <2>3. ASSUME NEW area \in Areas, UnmapBegins(area) PROVE UploadStep
    <3>1. PendingOn(area) \in Nat
      BY PendingOnBounds
    <3>2. WaitStarts
      BY <2>3, <3>1, SubmitPathAssumption DEF UnmapBegins, WaitStarts, ring, run
    <3>3. QED
      BY <3>2
  <2>4. ASSUME NEW area \in Areas, Map(area) PROVE UploadStep
    <3>1. Remaps
      BY <2>4 DEF Map, Remaps, MappedOK, JobsAreMapped, ring, run
    <3>2. QED
      BY <3>1
  <2>5. QED
    BY <1>5, <2>1, <2>2, <2>3, <2>4 DEF RenderCalls
<1>6. QED
  BY <1>1, <1>2, <1>3, <1>4, <1>5 DEF Next

LEMMA NextIsStreamStep ==
  ASSUME IInv, [Next]_vars
  PROVE  StreamStep
<1> USE DEF IInv, StreamStep
<1>1. ASSUME \/ UNCHANGED vars \/ UploadRuns \/ ReplaySubmit \/ PushWaits \/ Pushed \/ Published
             \/ DrainsUploads
             \/ (Waits(Recorder) \/ Waits(Render)) /\ UNCHANGED <<streamVars, todo, work>>
             \/ (RecorderRests \/ RecorderStarts) /\ UNCHANGED <<uploadVars, todo, work>>
             \/ \E area \in Areas : Push(area) \/ UnmapBegins(area) \/ Map(area) \/ Unmap(area)
      PROVE  Unmoved
  BY <1>1 DEF vars, streamVars, work, UploadRuns, ReplaySubmit, PushWaits, Pushed, Published,
              DrainsUploads, RecorderRests, RecorderStarts, RingsAndGoes, Push, UnmapBegins,
              Map, Unmap, Unmoved
<1>2. CASE RecorderRuns
  <2>1. CASE Completes /\ UNCHANGED <<uploadVars, todo, work>>
    <3>1. CompletesOne
      BY <2>1 DEF Completes, work, CompletesOne, StreamOK
    <3>2. QED
      BY <3>1
  <2>2. CASE Replays
    <3>1. Packet.submits = FALSE
      <4>1. Packet \in Packets
        BY <2>2, NumbersFacts DEF Replays
      <4>2. QED
        BY <2>2, <4>1 DEF Replays, Packets
    <3>2. ReplaysOne
      BY <2>2, <3>1 DEF Replays, Replay, ReplaysOne, StreamOK
    <3>3. QED
      BY <3>2
  <2>3. CASE Submits
    <3>1. ReplaysOne
      BY <2>3 DEF Submits, Replay, ReplaysOne, StreamOK, SubmittingOK
    <3>2. QED
      BY <3>1
  <2>4. QED
    BY <1>1, <1>2, <2>1, <2>2, <2>3 DEF RecorderRuns
<1>3. CASE RenderGoesOn
  <2>1. CASE ExecutesInline
    <3>1. Chunk(published) = <<>>
      BY <2>1 DEF ExecutesInline, TodoOK
    <3>2. Executes
      BY <2>1, <3>1 DEF ExecutesInline, Number, Executes
    <3>3. QED
      BY <3>2
  <2>2. CASE SubmitsDirect
    <3>1. Chunk(published) = <<>> /\ Drained
      BY <2>2 DEF SubmitsDirect, TodoOK, Drained
    <3>2. Executes
      BY <2>2, <3>1 DEF SubmitsDirect, Number, Executes
    <3>3. QED
      BY <3>2
  <2>3. QED
    BY <1>1, <1>3, <2>1, <2>2 DEF RenderGoesOn
<1>4. CASE RenderCalls
  <2>1. CASE Record
    <3> DEFINE p == [number |-> Number, copies |-> 0, submits |-> FALSE]
    <3>1. p \in Packets /\ p.number = recorded + 1 /\ p.submits = FALSE
      BY DEF NumbersOK, Number, Packets
    <3>2. Appends(p)
      BY <2>1, <3>1 DEF Record, Enqueue, Number, Appends
    <3>3. QED
      BY <3>1, <3>2
  <2>2. CASE SubmitDeferred
    <3> DEFINE p == [number |-> Number, copies |-> head, submits |-> TRUE]
    <3>1. p \in Packets /\ p.number = recorded + 1 /\ p.submits = TRUE /\ p.copies = head
      BY DEF NumbersOK, Number, Packets, UploadOK
    <3>2. Appends(p)
      BY <2>2, <3>1 DEF SubmitDeferred, SubmitSequence, Enqueue, Number, Promise, Appends
    <3>3. QED
      BY <3>1, <3>2
  <2>3. CASE RecordInline \/ SubmitDirect
    <3>1. HasRoom /\ published' \in {published, published + 1}
          /\ UNCHANGED <<chunks, completed, recorded, replayed, promised, handed>>
      BY <2>3 DEF RecordInline, SubmitDirect, Drains, Publish, work
    <3>2. QED
      BY <3>1 DEF Closes, Unmoved
  <2>4. QED
    BY <1>1, <1>4, <2>1, <2>2, <2>3 DEF RenderCalls
<1>5. QED
  BY <1>1, <1>2, <1>3, <1>4 DEF Next

\* Waiting goes on until the copies are done.
LEMMA AwaitsKept ==
  ASSUME UploadOK, WaitsOK, NEW t \in Waiters, NEW n \in Nat, Awaits(t, n),
         \/ Worker
         \/ \E s \in Waiters : Waits(s)
         \/ wait'[t] = wait[t] /\ done' = done
  PROVE  Awaits(t, n)'
<1> USE DEF Awaits
<1>1. CASE wait'[t] = wait[t] /\ done' = done
  BY <1>1
<1>2. CASE Worker
  <2>1. done' >= done /\ done' \in Nat /\ done \in Nat
    BY <1>2 DEF Worker, WorkerRests, WorkerStarts, RunJob, Publishes, Notifies, UploadOK
  <2>2. wait'[t].at = "no" <=> wait[t].at = "no"
    BY <1>2 DEF Worker, WorkerRests, WorkerStarts, RunJob, Publishes, Notifies, WaitsOK
  <2>3. wait'[t].seq = wait[t].seq
    BY <1>2 DEF Worker, WorkerRests, WorkerStarts, RunJob, Publishes, Notifies, WaitsOK
  <2>4. QED
    BY <2>1, <2>2, <2>3
<1>3. ASSUME NEW s \in Waiters, Waits(s) PROVE Awaits(t, n)'
  <2> USE <1>3 DEF Waits, NoWait, WaitsOK
  <2>1. CASE s # t
    BY <2>1 DEF WaitSpins, WaitLooks, WaitParks
  <2>2. CASE s = t /\ WaitSpins(s)
    <3>1. \/ done >= wait[t].seq /\ wait' = [wait EXCEPT ![t] = NoWait]
          \/ wait' = [wait EXCEPT ![t].at = "looks"]
      BY <2>2 DEF WaitSpins
    <3>2. CASE done >= wait[t].seq /\ wait' = [wait EXCEPT ![t] = NoWait]
      BY <2>2, <3>2 DEF WaitSpins
    <3>3. CASE wait' = [wait EXCEPT ![t].at = "looks"]
      BY <2>2, <3>3 DEF WaitSpins
    <3>4. QED
      BY <3>1, <3>2, <3>3
  <2>3. CASE s = t /\ WaitLooks(s)
    <3>1. \/ done >= wait[t].seq /\ wait' = [wait EXCEPT ![t] = NoWait]
          \/ wait' = [wait EXCEPT ![t] = [@ EXCEPT !.at = "parking", !.seen = done]]
      BY <2>3 DEF WaitLooks
    <3>2. CASE done >= wait[t].seq /\ wait' = [wait EXCEPT ![t] = NoWait]
      <4>1. wait[t].seq = n
        BY <2>3 DEF WaitLooks
      <4>2. wait'[t].at = "no" /\ done' = done
        BY <3>2
      <4>3. QED
        BY <3>2, <4>1, <4>2
    <3>3. CASE wait' = [wait EXCEPT ![t] = [@ EXCEPT !.at = "parking", !.seen = done]]
      <4>1. wait[t].at # "no" /\ wait[t].seq = n
        BY <2>3 DEF WaitLooks
      <4>2. wait'[t] = [wait[t] EXCEPT !.at = "parking", !.seen = done]
        BY <3>3
      <4>3. DOMAIN wait[t] = {"at", "seq", "seen"}
        OBVIOUS
      <4>4. wait'[t].at = "parking" /\ wait'[t].seq = wait[t].seq
        BY <4>2, <4>3
      <4>5. QED
        BY <4>1, <4>4
    <3>4. QED
      BY <3>1, <3>2, <3>3
  <2>4. CASE s = t /\ WaitParks(s)
    BY <2>4 DEF WaitParks
  <2>5. QED
    BY <2>1, <2>2, <2>3, <2>4
<1>4. QED
  BY <1>1, <1>2, <1>3

LEMMA AwaitsBegins ==
  ASSUME UploadOK, WaitsOK, NEW t \in Waiters, NEW n \in Nat, WaitBegins(t, n), done' = done
  PROVE  Awaits(t, n)' /\ \A s \in Waiters : s # t => wait'[s] = wait[s]
BY DEF Awaits, WaitBegins, NoWait, WaitsOK, UploadOK

LEMMA RangeShrinks ==
  ASSUME NEW a \in Nat, NEW b \in Nat, NEW h \in Nat, a <= b
  PROVE  \A m \in b + 1..h : m \in a + 1..h
OBVIOUS

\* The render thread waits while the others go on.
LEMMA UploadingKept ==
  ASSUME IInv, producer = "uploading", UNCHANGED <<producer, todo>>, UNCHANGED ring,
         \/ Worker
         \/ \E s \in Waiters : Waits(s)
         \/ wait'[Render] = wait[Render] /\ done' = done
  PROVE  UploadingOK'
<1> USE DEF IInv
<1>1. PICK n \in Nat : /\ Awaits(Render, n)
                       /\ todo = "submit" => n = head
                       /\ \A m \in done + 1..head : slots[Slot(m - 1)].area = todo => m <= n
  BY DEF UploadingOK
<1>2. Awaits(Render, n)'
  BY <1>1, AwaitsKept, SubmitPathAssumption
<1>3. done <= done' /\ done \in Nat /\ done' \in Nat /\ head \in Nat
  BY DEF UploadOK, Worker, WorkerRests, WorkerStarts, RunJob, Publishes, Notifies, Waits
<1>4. head' = head /\ slots' = slots
  BY DEF ring
<1>5. \A m \in done' + 1..head' : slots'[Slot(m - 1)].area = todo' => m <= n
  <2>2. \A m \in done' + 1..head : m \in done + 1..head
    BY <1>3, RangeShrinks
  <2>3. QED
    BY <1>1, <1>4, <2>2
<1>6. QED
  BY <1>1, <1>2, <1>4, <1>5 DEF UploadingOK

LEMMA UploadingStep ==
  ASSUME IInv, [Next]_vars
  PROVE  UploadingOK'
<1> USE DEF IInv
<1>1. CASE UNCHANGED vars
  <2>1. wait' = wait /\ done' = done /\ UNCHANGED <<producer, todo>> /\ UNCHANGED ring
    BY <1>1 DEF vars, uploadVars, streamVars, ring
  <2>2. QED
    BY <2>1, UploadingKept DEF UploadingOK
<1>2. CASE UploadRuns
  <2>1. Worker /\ UNCHANGED <<producer, todo>> /\ UNCHANGED ring
    BY <1>2 DEF UploadRuns, streamVars, Worker, WorkerRests, WorkerStarts, RunJob, Publishes,
                Notifies
  <2>2. QED
    BY <2>1, UploadingKept DEF UploadingOK
<1>3. CASE RecorderRuns
  <2>1. UNCHANGED <<producer, todo>> /\ UNCHANGED ring
    BY <1>3 DEF RecorderRuns, RecorderRests, RecorderStarts, Completes, Replays, ReplaySubmit,
                Submits, Replay, Waits, streamVars, uploadVars, ring
  <2>2. \/ \E s \in Waiters : Waits(s)
        \/ wait'[Render] = wait[Render] /\ done' = done
    <3>1. CASE ReplaySubmit
      <4>1. Packet.copies \in Nat
        <5>1. Packet \in Packets
          BY <3>1, NumbersFacts DEF ReplaySubmit
        <5>2. QED
          BY <5>1 DEF Packets
      <4>2. QED
        BY <3>1, <4>1, AwaitsBegins, SubmitPathAssumption DEF ReplaySubmit
    <3>2. CASE Waits(Recorder)
      BY <3>2, SubmitPathAssumption
    <3>3. CASE UNCHANGED uploadVars
      BY <3>3 DEF uploadVars
    <3>4. QED
      BY <1>3, <3>1, <3>2, <3>3 DEF RecorderRuns, Replays, Submits
  <2>3. QED
    BY <2>1, <2>2, UploadingKept DEF UploadingOK
<1>4. CASE DrainsUploads
  <2>1. head \in Nat /\ head' = head /\ done' = done /\ todo' = todo /\ todo = "submit"
    BY <1>4 DEF DrainsUploads, UploadOK, ring
  <2>2. Awaits(Render, head)'
    <3>1. \A n \in Nat : n = head => Awaits(Render, n)'
      BY <1>4, <2>1, AwaitsBegins, SubmitPathAssumption DEF DrainsUploads, SubmitSequence
    <3>2. QED
      BY <2>1, <3>1 DEF Awaits
  <2>3. QED
    BY <2>1, <2>2 DEF UploadingOK, Awaits
<1>5. ASSUME NEW area \in Areas, UnmapBegins(area) PROVE UploadingOK'
  <2>1. head' = head /\ slots' = slots /\ done' = done /\ todo' = area /\ area # "submit"
    BY <1>5, SubmitPathAssumption DEF UnmapBegins, ring
  <2>2. PICK n \in Nat : /\ n = PendingOn(area)
                         /\ \A m \in done + 1..head : slots[Slot(m - 1)].area = area => m <= n
    BY PendingOnBounds
  <2>3. Awaits(Render, n)'
    BY <1>5, <2>1, <2>2, AwaitsBegins, SubmitPathAssumption DEF UnmapBegins
  <2>4. QED
    BY <2>1, <2>2, <2>3 DEF UploadingOK
<1>6. CASE Waits(Render) /\ UNCHANGED <<streamVars, todo, work>>
  <2>1. (\E s \in Waiters : Waits(s)) /\ UNCHANGED <<producer, todo>> /\ UNCHANGED ring
    BY <1>6, SubmitPathAssumption DEF Waits, streamVars
  <2>2. QED
    BY <2>1, UploadingKept DEF UploadingOK
<1>7. ASSUME \/ PushWaits \/ Pushed \/ Published \/ ExecutesInline \/ SubmitsDirect
             \/ Record \/ SubmitDeferred \/ RecordInline \/ SubmitDirect
             \/ \E area \in Areas : Push(area) \/ Map(area) \/ Unmap(area)
      PROVE  producer' # "uploading"
  BY <1>7 DEF PushWaits, Pushed, Published, ExecutesInline, SubmitsDirect, Record, SubmitDeferred,
              RecordInline, SubmitDirect, Push, Map, Unmap, streamVars, Enqueue, Drains, Publish,
              RingsAndGoes
<1>8. QED
  BY <1>1, <1>2, <1>3, <1>4, <1>5, <1>6, <1>7 DEF Next, RenderGoesOn, RenderCalls, UploadingOK

LEMMA SubmittingStep ==
  ASSUME IInv, [Next]_vars
  PROVE  SubmittingOK'
<1> USE DEF IInv
<1>1. ASSUME recorder = "submitting", UNCHANGED <<recorder, completed>>,
             chunks'[Replayed] # <<>>, Head(chunks'[Replayed]) = Packet,
             \/ Worker
             \/ \E s \in Waiters : Waits(s)
             \/ wait'[Recorder] = wait[Recorder] /\ done' = done
      PROVE  SubmittingOK'
  <2>1. PICK n \in Nat : n = Packet.copies
    <3>1. Packet \in Packets
      BY <1>1, NumbersFacts DEF SubmittingOK
    <3>2. QED
      BY <3>1 DEF Packets
  <2>2. Awaits(Recorder, n)'
    BY <1>1, <2>1, AwaitsKept, SubmitPathAssumption DEF SubmittingOK
  <2>3. Replayed' = Replayed
    BY <1>1 DEF Replayed
  <2>4. Packet' = Packet
    BY <1>1, <2>3 DEF Packet
  <2>5. QED
    BY <1>1, <2>1, <2>2, <2>3, <2>4 DEF SubmittingOK
<1>2. CASE ReplaySubmit
  <2>1. Packet \in Packets /\ Packet.copies \in Nat
    <3>1. Packet \in Packets
      BY <1>2, NumbersFacts DEF ReplaySubmit
    <3>2. QED
      BY <3>1 DEF Packets
  <2>2. PICK n \in Nat : n = Packet.copies
    BY <2>1
  <2>3. Awaits(Recorder, n)'
    BY <1>2, <2>2, AwaitsBegins, SubmitPathAssumption DEF ReplaySubmit
  <2>4. chunks' = chunks /\ Replayed' = Replayed /\ Packet' = Packet
    BY <1>2 DEF ReplaySubmit, Replayed, Packet
  <2>5. QED
    BY <1>2, <2>2, <2>3, <2>4 DEF ReplaySubmit, SubmittingOK
<1>3. SUFFICES ASSUME ~ ReplaySubmit, recorder' = "submitting"
               PROVE  SubmittingOK'
  BY <1>2 DEF SubmittingOK
<1>4. recorder = "submitting" /\ completed' = completed
  BY <1>3 DEF Next, vars, streamVars, uploadVars, UploadRuns, RecorderRuns, RecorderRests,
              RecorderStarts, Completes, Replays, Submits, Replay, RenderGoesOn, PushWaits,
              Pushed, Published, RingsAndGoes, ExecutesInline, DrainsUploads, SubmitsDirect,
              Unmap, RenderCalls, Record, SubmitDeferred, Enqueue, RecordInline, SubmitDirect,
              Drains, Publish, Push, UnmapBegins, Map, Ring!Rests, Ring!Tires, Ring!Announces,
              Ring!Checks, Ring!Parks, Ring!Wakes, Ring!Step, Ring!Rings
<1>5. chunks[Replayed] # <<>> /\ completed < published
  BY <1>4 DEF SubmittingOK, StreamOK
<1>6. chunks'[Replayed] = chunks[Replayed]
  <2>1. \/ chunks' = chunks
        \/ HasRoom /\ \E p : chunks' = [chunks EXCEPT ![Open] = Append(@, p)]
    BY <1>3 DEF Next, vars, streamVars, uploadVars, UploadRuns, RecorderRuns, RecorderRests,
                RecorderStarts, Completes, Replays, Submits, Replay, RenderGoesOn, PushWaits,
                Pushed, Published, RingsAndGoes, ExecutesInline, DrainsUploads, SubmitsDirect,
                Unmap, RenderCalls, Record, SubmitDeferred, Enqueue, RecordInline, SubmitDirect,
                Drains, Publish, Push, UnmapBegins, Map
  <2>2. ASSUME HasRoom PROVE Open # Replayed
    <3>1. /\ completed \in Nat /\ published \in Nat /\ ChunkCount \in Nat
          /\ published < completed + ChunkCount /\ completed < completed + ChunkCount
          /\ completed <= published /\ completed # published
      BY <1>5, <2>2, RecordingStreamAssumption DEF StreamOK, HasRoom
    <3>2. QED
      BY <3>1, ChunksDiffer DEF Open, Replayed
  <2>3. ASSUME HasRoom, NEW p, chunks' = [chunks EXCEPT ![Open] = Append(@, p)]
        PROVE  chunks'[Replayed] = chunks[Replayed]
    <3>1. Replayed \in 0..ChunkCount - 1
      BY SlotIsFree, RecordingStreamAssumption DEF Replayed, StreamOK
    <3>2. QED
      BY <2>2, <2>3, <3>1 DEF StreamOK
  <2>4. QED
    BY <2>1, <2>3
<1>7. \/ Worker
      \/ \E s \in Waiters : Waits(s)
      \/ wait'[Recorder] = wait[Recorder] /\ done' = done
  <2>1. CASE UNCHANGED vars \/ UploadRuns
    BY <2>1 DEF vars, uploadVars, UploadRuns
  <2>2. CASE RecorderRuns
    BY <1>3, <2>2, SubmitPathAssumption DEF RecorderRuns, Replays, Submits, uploadVars
  <2>3. CASE Waits(Render)
    BY <2>3, SubmitPathAssumption
  <2>4. CASE DrainsUploads
    <3>1. head \in Nat
      BY DEF UploadOK
    <3>2. QED
      BY <2>4, <3>1, AwaitsBegins, SubmitPathAssumption DEF DrainsUploads, SubmitSequence
  <2>5. ASSUME NEW area \in Areas, UnmapBegins(area)
        PROVE  wait'[Recorder] = wait[Recorder] /\ done' = done
    BY <2>5, PendingOnBounds, AwaitsBegins, SubmitPathAssumption DEF UnmapBegins
  <2>6. ASSUME \/ PushWaits \/ Pushed \/ Published \/ ExecutesInline \/ SubmitsDirect
               \/ Record \/ SubmitDeferred \/ RecordInline \/ SubmitDirect
               \/ \E area \in Areas : Push(area) \/ Map(area) \/ Unmap(area)
        PROVE  wait' = wait /\ done' = done
    BY <2>6 DEF PushWaits, Pushed, Published, ExecutesInline, SubmitsDirect, Record,
                SubmitDeferred, RecordInline, SubmitDirect, Push, Map, Unmap, Drains, Add, Kick,
                uploadVars
  <2>7. QED
    BY <2>1, <2>2, <2>3, <2>4, <2>5, <2>6 DEF Next, RenderGoesOn, RenderCalls
<1>8. QED
  BY <1>1, <1>3, <1>4, <1>5, <1>6, <1>7 DEF Packet

LEMMA StreamKept ==
  ASSUME IInv, [Next]_vars
  PROVE  StreamOK'
<1> USE DEF IInv
<1>1. /\ completed \in Nat /\ published \in Nat /\ ChunkCount \in Nat \ {0}
      /\ completed <= published /\ published <= completed + ChunkCount
  BY RecordingStreamAssumption DEF StreamOK
<1>2. StreamStep
  BY NextIsStreamStep
<1>3. /\ completed' \in Nat /\ published' \in Nat
      /\ completed' <= published' /\ published' <= completed' + ChunkCount
  <2>1. \/ completed' = completed /\ published' = published
        \/ completed' = completed /\ published' = published + 1 /\ published < completed + ChunkCount
        \/ completed' = completed + 1 /\ published' = published /\ completed < published
    <3>1. CASE (\E p \in Packets : Appends(p)) \/ Closes
      <4>1. HasRoom /\ completed' = completed /\ published' \in {published, published + 1}
        BY <3>1 DEF Appends, Closes
      <4>2. published < completed + ChunkCount
        BY <1>1, <4>1 DEF HasRoom
      <4>3. QED
        BY <4>1, <4>2
    <3>2. CASE Executes \/ ReplaysOne \/ CompletesOne \/ Unmoved
      BY <3>2 DEF Executes, ReplaysOne, CompletesOne, Unmoved
    <3>3. QED
      BY <1>2, <3>1, <3>2 DEF StreamStep
  <2>2. QED
    BY <1>1, <2>1
<1>4. chunks' \in [0..ChunkCount - 1 -> Seq(Packets)]
  <2>1. chunks \in [0..ChunkCount - 1 -> Seq(Packets)]
    BY DEF StreamOK
  <2>2. Open \in 0..ChunkCount - 1 /\ Replayed \in 0..ChunkCount - 1
    BY <1>1, SlotIsFree DEF Open, Replayed
  <2>3. ASSUME NEW p \in Packets, Appends(p)
        PROVE  chunks' \in [0..ChunkCount - 1 -> Seq(Packets)]
    <3>1. Append(chunks[Open], p) \in Seq(Packets)
      BY <2>1, <2>2
    <3>2. QED
      BY <2>1, <2>2, <2>3, <3>1 DEF Appends
  <2>4. CASE ReplaysOne
    <3>1. Tail(chunks[Replayed]) \in Seq(Packets)
      BY <2>1, <2>2, <2>4 DEF ReplaysOne
    <3>2. QED
      BY <2>1, <2>2, <2>4, <3>1 DEF ReplaysOne
  <2>5. CASE Closes \/ Executes \/ CompletesOne \/ Unmoved
    BY <2>1, <2>5 DEF Closes, Executes, CompletesOne, Unmoved
  <2>6. QED
    BY <1>2, <2>3, <2>4, <2>5 DEF StreamStep
<1>5. /\ dozing' \in BOOLEAN /\ recorder' \in Ring!Places \cup {"submitting"}
      /\ recorder' \in {"running", "submitting"} => completed' < published'
      /\ recorder' \in {"checking", "parking", "parked"} => dozing'
  <2>1. /\ dozing \in BOOLEAN /\ recorder \in Ring!Places \cup {"submitting"}
        /\ recorder \in {"running", "submitting"} => completed < published
        /\ recorder \in {"checking", "parking", "parked"} => dozing
    BY DEF StreamOK
  <2>2. published' \in {published, published + 1}
    BY <1>2 DEF StreamStep, Appends, Closes, Executes, ReplaysOne, CompletesOne, Unmoved
  <2>3. CASE recorder' = recorder /\ dozing' = dozing /\ completed' = completed
    BY <1>1, <2>1, <2>2, <2>3
  <2>4. CASE RecorderRests
    BY <1>1, <2>1, <2>4 DEF RecorderRests, Ring!Rests, Ring!Tires, Ring!Announces, Ring!Checks,
                            Ring!Parks, Ring!Wakes, Ring!Step, Ring!Places
  <2>5. CASE RecorderStarts
    <3>1. completed < published
      BY <1>1, <2>5 DEF RecorderStarts
    <3>2. QED
      BY <2>1, <2>5, <3>1 DEF RecorderStarts, Ring!Places
  <2>6. CASE Completes
    BY <2>1, <2>6 DEF Completes, Ring!Places
  <2>7. CASE Replays \/ Submits \/ ReplaySubmit
    BY <2>1, <2>7 DEF Replays, Submits, ReplaySubmit, Replay, Ring!Places
  <2>8. CASE Published
    BY <2>1, <2>8 DEF Published, RingsAndGoes, Ring!Rings, Ring!Places
  <2>9. ASSUME \/ UNCHANGED vars \/ UploadRuns \/ PushWaits \/ Pushed \/ ExecutesInline
               \/ (Waits(Recorder) \/ Waits(Render)) /\ UNCHANGED <<streamVars, todo, work>>
               \/ DrainsUploads \/ SubmitsDirect \/ RenderCalls
               \/ \E area \in Areas : Unmap(area)
        PROVE  recorder' = recorder /\ dozing' = dozing /\ completed' = completed
    BY <2>9 DEF vars, streamVars, UploadRuns, PushWaits, Pushed, ExecutesInline, DrainsUploads,
                SubmitsDirect, Unmap, RenderCalls, Record, SubmitDeferred, Enqueue, RecordInline,
                SubmitDirect, Drains, Publish, Push, UnmapBegins, Map
  <2>10. QED
    BY <2>3, <2>4, <2>5, <2>6, <2>7, <2>8, <2>9 DEF Next, RecorderRuns, RenderGoesOn
<1>6. QED
  BY <1>3, <1>4, <1>5 DEF StreamOK

\* What was drained stays empty while the recording worker goes on.
LEMMA OpenStaysEmpty ==
  ASSUME IInv, ReplaysOne \/ CompletesOne \/ Unmoved, Chunk(published) = <<>>
  PROVE  published' = published /\ \A k \in Nat : k = published' => Chunk(k)' = <<>>
<1> USE DEF IInv
<1>1. /\ completed \in Nat /\ published \in Nat /\ ChunkCount \in Nat
      /\ completed <= published /\ published <= completed + ChunkCount
  BY RecordingStreamAssumption DEF StreamOK
<1>2. published' = published
  BY DEF ReplaysOne, CompletesOne, Unmoved
<1>3. CASE ReplaysOne
  <2>1. published \in completed..completed + ChunkCount /\ published # completed
    BY <1>1, <1>3 DEF ReplaysOne
  <2>2. \A k \in completed..completed + ChunkCount : k = published => Chunk(k)' = Chunk(k)
    BY <1>3, <2>1, ChunkReplays
  <2>3. QED
    BY <1>2, <2>1, <2>2
<1>4. CASE CompletesOne
  <2>1. published \in completed + 1..completed + ChunkCount
    BY <1>1, <1>4 DEF CompletesOne
  <2>2. QED
    BY <1>2, <1>4, <2>1, ChunkCompletes
<1>5. CASE Unmoved
  BY <1>2, <1>5 DEF Unmoved, Chunk
<1>6. QED
  BY <1>3, <1>4, <1>5

LEMMA TodoKept ==
  ASSUME IInv, [Next]_vars
  PROVE  TodoOK'
<1> USE DEF IInv
<1>1. published \in Nat /\ published' \in Nat
  BY StreamKept DEF StreamOK
<1>2. CASE UNCHANGED <<chunks, published, completed, producer, todo>>
  BY <1>2 DEF TodoOK, Chunk
<1>3. CASE RecorderRuns
  <2>1. UNCHANGED <<producer, todo, published>>
    BY <1>3 DEF RecorderRuns, RecorderRests, RecorderStarts, Completes, Replays, ReplaySubmit,
                Submits, Replay, streamVars
  <2>2. CASE ~ (ReplaysOne \/ CompletesOne \/ Unmoved)
    <3>1. UNCHANGED recorded
      BY <1>3 DEF RecorderRuns, Replays, ReplaySubmit, Submits, work
    <3>2. published' = published /\ recorded \in Nat
      BY <2>1 DEF NumbersOK
    <3>3. published' # published + 1 /\ recorded' # recorded + 1
      BY <1>1, <3>1, <3>2
    <3>4. QED
      BY <2>2, <3>3, NextIsStreamStep DEF StreamStep, Appends, Closes, Executes
  <2>3. CASE ReplaysOne \/ CompletesOne \/ Unmoved
    <3>1. todo \in {"inline", "submit"} => Chunk(published)' = <<>>
      BY <1>1, <2>1, <2>3, OpenStaysEmpty DEF TodoOK
    <3>2. completed = published => completed' = published'
      BY <2>3 DEF ReplaysOne, CompletesOne, Unmoved, StreamOK
    <3>3. QED
      BY <2>1, <3>1, <3>2 DEF TodoOK
  <2>4. QED
    BY <2>2, <2>3
<1>4. ASSUME NEW area \in Areas, UnmapBegins(area) \/ Unmap(area)
      PROVE  TodoOK'
  BY <1>4, SubmitPathAssumption DEF UnmapBegins, Unmap, TodoOK
<1>5. CASE ExecutesInline \/ SubmitsDirect
  BY <1>5 DEF ExecutesInline, SubmitsDirect, TodoOK
<1>6. CASE DrainsUploads
  BY <1>6 DEF DrainsUploads, Drained, TodoOK, Chunk
<1>7. CASE Published
  BY <1>7 DEF Published, RingsAndGoes, TodoOK, Chunk
<1>8. CASE PushWaits \/ Pushed \/ \E area \in Areas : Push(area)
  BY <1>8 DEF PushWaits, Pushed, Push, streamVars, TodoOK, Chunk
<1>9. CASE Record \/ SubmitDeferred
  BY <1>9 DEF Record, SubmitDeferred, Enqueue, TodoOK
<1>10. CASE RecordInline \/ SubmitDirect
  <2>1. /\ HasRoom /\ UNCHANGED <<chunks, completed>> /\ todo' \in {"inline", "submit"}
        /\ IF chunks[Open] = <<>> THEN published' = published /\ producer' = "draining"
                                  ELSE published' = published + 1 /\ producer' = "ringing"
    BY <1>10 DEF RecordInline, SubmitDirect, Drains, Publish
  <2>2. published < completed + ChunkCount /\ Chunk(published + 1) = <<>>
    BY <2>1, NextChunkIsEmpty
  <2>3. \A k \in Nat : k = published' => Chunk(k)' = <<>>
    <3>1. CASE chunks[Open] = <<>>
      BY <2>1, <2>2, <3>1 DEF Chunk, Open
    <3>2. CASE chunks[Open] # <<>>
      BY <2>1, <2>2, <3>2 DEF Chunk
    <3>3. QED
      BY <3>1, <3>2
  <2>4. Chunk(published)' = <<>>
    BY <1>1, <2>3
  <2>5. QED
    BY <2>1, <2>4 DEF TodoOK
<1>11. ASSUME \/ UNCHANGED vars \/ UploadRuns
              \/ Waits(Render) /\ UNCHANGED <<streamVars, todo, work>>
              \/ \E area \in Areas : Map(area)
       PROVE  UNCHANGED <<chunks, published, completed, producer, todo>>
  BY <1>11 DEF vars, streamVars, UploadRuns, Map
<1>12. QED
  BY <1>2, <1>3, <1>4, <1>5, <1>6, <1>7, <1>8, <1>9, <1>10, <1>11
     DEF Next, RenderGoesOn, RenderCalls

\* Whoever raised a counter rings, and a worker that is asleep or about to be
\* looks at the counter again.
LEMMA BellsKept ==
  ASSUME IInv, [Next]_vars
  PROVE  BellsOK'
<1> USE DEF IInv
<1>1. (Bell!Attends \/ producer = "pushed")'
  <2> USE DEF Bell!Attends, BellsOK
  <2>1. CASE UploadRuns
    <3>1. UNCHANGED producer /\ head' = head
      BY <2>1 DEF UploadRuns, streamVars, Worker, WorkerRests, WorkerStarts, RunJob, Publishes,
                  Notifies, ring
    <3>2. CASE WorkerRests
      BY <3>1, <3>2 DEF WorkerRests, run, Bell!Rests, Bell!Tires, Bell!Announces, Bell!Checks,
                        Bell!Parks, Bell!Wakes, Bell!Step
    <3>3. CASE WorkerStarts \/ RunJob \/ Publishes \/ Notifies
      BY <3>3 DEF WorkerStarts, RunJob, Publishes, Notifies
    <3>4. QED
      BY <2>1, <3>2, <3>3 DEF UploadRuns, Worker
  <2>2. CASE PushWaits \/ Pushed
    BY <2>2 DEF PushWaits, Pushed, Kick, Bell!Rings, UploadOK
  <2>3. ASSUME NEW area \in Areas, Push(area)
        PROVE  producer' = "pushed"
    BY <2>3 DEF Push
  <2>4. ASSUME ~ UploadRuns, ~ PushWaits, ~ Pushed, ~ \E area \in Areas : Push(area)
        PROVE  UNCHANGED <<head, current, worker>> /\ (producer = "pushed" => producer' = "pushed")
    BY <2>4 DEF Next, vars, streamVars, uploadVars, ring, run, RecorderRuns, RecorderRests,
                RecorderStarts, Completes, Replays, ReplaySubmit, Submits, Replay, RenderGoesOn,
                Published, RingsAndGoes, ExecutesInline, DrainsUploads, SubmitsDirect, Unmap,
                Waits, RenderCalls, Record, SubmitDeferred, RecordInline, SubmitDirect, Drains,
                UnmapBegins, Map
  <2>5. QED
    BY <2>1, <2>2, <2>3, <2>4
<1>2. (Ring!Attends \/ producer = "ringing")'
  <2> USE DEF Ring!Attends, BellsOK
  <2>1. CASE RecorderRuns
    <3>1. UNCHANGED producer
      BY <2>1 DEF RecorderRuns, RecorderRests, RecorderStarts, Completes, Replays, ReplaySubmit,
                  Submits, Replay, streamVars
    <3>2. CASE RecorderRests
      BY <3>1, <3>2 DEF RecorderRests, Ring!Rests, Ring!Tires, Ring!Announces, Ring!Checks,
                        Ring!Parks, Ring!Wakes, Ring!Step
    <3>3. CASE RecorderStarts \/ Completes \/ Replays \/ ReplaySubmit \/ Submits
      BY <3>3 DEF RecorderStarts, Completes, Replays, ReplaySubmit, Submits, Replay
    <3>4. CASE UNCHANGED streamVars
      BY <3>4 DEF streamVars
    <3>5. QED
      BY <2>1, <3>2, <3>3, <3>4 DEF RecorderRuns
  <2>2. CASE Published
    BY <2>2 DEF Published, RingsAndGoes, Ring!Rings, StreamOK
  <2>3. CASE Record \/ SubmitDeferred
    BY <2>3 DEF Record, SubmitDeferred, Enqueue
  <2>4. CASE RecordInline \/ SubmitDirect
    BY <2>4 DEF RecordInline, SubmitDirect, Drains, Publish
  <2>5. ASSUME ~ RecorderRuns, ~ Published, ~ Record, ~ SubmitDeferred, ~ RecordInline,
               ~ SubmitDirect
        PROVE  /\ UNCHANGED <<published, completed, recorder>>
               /\ producer = "ringing" => producer' = "ringing"
    BY <2>5 DEF Next, vars, streamVars, UploadRuns, RenderGoesOn, PushWaits, Pushed,
                ExecutesInline, DrainsUploads, SubmitsDirect, Unmap, RenderCalls, Push,
                UnmapBegins, Map
  <2>6. QED
    BY <2>1, <2>2, <2>3, <2>4, <2>5
<1>3. QED
  BY <1>1, <1>2 DEF BellsOK

-----------------------------------------------------------------------------

LEMMA StepKeeps ==
  ASSUME IInv, [Next]_vars
  PROVE  IInv'
<1>1. UploadOK' /\ WaitsOK' /\ MappedOK'
  BY NextIsUploadStep, UploadStepKeeps DEF IInv
<1>2. NumbersOK' /\ PromisesOK'
  BY NextIsStreamStep, StreamStepKeepsNumbers, StreamStepKeepsPromises DEF IInv
<1>3. QED
  BY <1>1, <1>2, UploadingStep, SubmittingStep, StreamKept, TodoKept, BellsKept DEF IInv

\* Only two steps hand a submission to the driver.
LEMMA Handing ==
  ASSUME [Next]_vars, handed' # handed
  PROVE  Submits \/ SubmitsDirect
BY DEF Next, vars, work, uploadVars, streamVars, UploadRuns, RecorderRuns, Replays, ReplaySubmit,
       RenderGoesOn, PushWaits, Pushed, Published, ExecutesInline, DrainsUploads, Unmap,
       RenderCalls, Record, SubmitDeferred, RecordInline, SubmitDirect, Drains, Push,
       UnmapBegins, Map

LEMMA IInvHolds == Spec => []IInv
<1>1. IInv /\ [Next]_vars => IInv'
  BY StepKeeps
<1>2. QED
  BY <1>1, InitHolds, PTL DEF Spec

\* The rings keep what was put in them, no worker or waiter sleeps that nobody
\* wakes, and no pending copy works on memory that was unmapped.
THEOREM RingsAreKept == Spec => []SubmitInv
<1>1. IInv => SubmitInv
  <2> SUFFICES ASSUME IInv PROVE SubmitInv
    OBVIOUS
  <2> USE DEF IInv
  <2>2. head \in 0..MaxJobs /\ done \in 0..current /\ current \in 0..head
    BY DEF UploadOK
  <2>3. limit \in current..head \/ worker # "running"
    BY DEF UploadOK
  <2>4. published - completed \in 0..ChunkCount
    BY RecordingStreamAssumption DEF StreamOK
  <2>5. JobsAreKept
    <3>1. \A n \in Pending : n \in done + 1..head
      BY DEF Pending, UploadOK
    <3>2. QED
      BY <3>1 DEF JobsAreKept, UploadOK
  <2>6. QED
    BY <2>2, <2>3, <2>4, <2>5 DEF SubmitInv, TypeOK, CopiesAreMapped, BellsOK, WaitsOK, MappedOK
<1>2. QED
  BY <1>1, IInvHolds, PTL

\* Every packet is executed once and in order, and a submission reaches the
\* driver after the packets and the copies before it.
THEOREM SubmissionsInOrder == Spec => InOrder
<1>1. ASSUME IInv, [Next]_vars
      PROVE  HandsOver /\ (replayed' = replayed \/ replayed' = replayed + 1)
  <2> USE <1>1 DEF IInv
  <2>1. StreamStep
    BY NextIsStreamStep
  <2>2. replayed' = replayed \/ replayed' = replayed + 1
    <3>1. CASE Executes
      BY <3>1, NumbersFacts DEF Executes
    <3>2. CASE ReplaysOne
      BY <3>2, ReplayKeepsNumbers
    <3>3. QED
      BY <2>1, <3>1, <3>2 DEF StreamStep, Appends, Closes, CompletesOne, Unmoved
  <2>3. SUFFICES ASSUME handed' # handed PROVE HandsOver
    BY <2>2 DEF HandsOver
  <2>4. /\ done \in Nat /\ current \in Nat /\ done <= current /\ head \in Nat
    BY DEF UploadOK
  <2>5. CASE ReplaysOne
    <3>1. /\ promised'[handed'] = [copies |-> Packet.copies, packets |-> replayed]
          /\ replayed \in Nat
      BY <2>3, <2>5, ReplayKeepsPromises DEF NumbersOK
    <3>2. Packet.copies \in Nat
      <4>1. Packet \in Packets
        BY <2>5, NumbersFacts DEF ReplaysOne
      <4>2. QED
        BY <4>1 DEF Packets
    <3>3. Submits
      <4>1. ~ SubmitsDirect
        BY <2>5 DEF SubmitsDirect, TodoOK, ReplaysOne, StreamOK
      <4>2. QED
        BY <1>1, <2>3, <4>1, Handing
    <3>4. current >= Packet.copies
      BY <2>4, <3>2, <3>3 DEF Submits, SubmittingOK, Awaits
    <3>5. QED
      BY <3>1, <3>4 DEF HandsOver
  <2>6. CASE Executes
    <3>1. promised' = Promise /\ handed' = handed + 1
      BY <2>3, <2>6 DEF Executes
    <3>2. SubmitsDirect
      <4>1. replayed' = recorded + 1 /\ recorded' = recorded + 1 /\ recorded \in Nat
        BY <2>6 DEF Executes, NumbersOK
      <4>2. ~ Submits
        BY <4>1 DEF Submits
      <4>3. QED
        BY <2>3, <4>2, Handing
    <3>3. /\ promised'[handed'] = [copies |-> head, packets |-> recorded]
          /\ replayed = recorded /\ recorded \in Nat
      <4>1. replayed = recorded /\ recorded \in Nat
        BY <2>6, NumbersFacts DEF Executes, NumbersOK
      <4>2. handed = Len(promised)
        BY <2>6, ExecuteFindsAll
      <4>3. promised \in Seq(Promises)
        BY PromisesFacts
      <4>4. QED
        BY <3>1, <4>1, <4>2, <4>3 DEF Promise
    <3>4. current >= head
      <4>1. PICK n \in Nat : Awaits(Render, n) /\ (todo = "submit" => n = head)
        BY <3>2 DEF SubmitsDirect, UploadingOK
      <4>2. QED
        BY <2>4, <3>2, <4>1 DEF SubmitsDirect, Awaits
    <3>5. QED
      BY <3>3, <3>4 DEF HandsOver
  <2>7. QED
    BY <2>1, <2>3, <2>5, <2>6 DEF StreamStep, Appends, Closes, CompletesOne, Unmoved
<1>2. QED
  BY <1>1, IInvHolds, PTL DEF Spec, InOrder


(***************************************************************************)
(* Deferred operations.                                                    *)
(***************************************************************************)

\* Operations of a behaviour that defers them run after the GPU and after the
\* priority operations before them, and a shutdown drops none (CommandScheduler).
THEOREM OperationsRunInTime == CommandsSpec => []DeferredInv
<1>1. CommandsInit => Operations!IInv
  BY OperationsAssumption, Operations!InitHolds DEF CommandsInit
<1>2. Operations!IInv /\ [CommandsNext]_allVars => Operations!IInv'
  <2>1. SUFFICES ASSUME Operations!IInv, [CommandsNext]_allVars PROVE Operations!IInv'
    OBVIOUS
  <2>2. [Operations!Next]_(Operations!vars)
    BY <2>1 DEF CommandsNext, OfSubmissions, OfOperations, allVars, operationVars, Operations!vars
  <2>3. QED
    BY <2>1, <2>2, OperationsAssumption, Operations!StepKeeps
<1>3. Operations!IInv => DeferredInv
  BY OperationsAssumption, Operations!InvariantImplies DEF DeferredInv
<1>4. QED
  BY <1>1, <1>2, <1>3, PTL DEF CommandsSpec
=============================================================================
