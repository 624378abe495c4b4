-------------------------- MODULE GuestGpu_proofs --------------------------
(***************************************************************************)
(* Proofs about GuestGpu, for any number of guest threads, compute queues, *)
(* submissions and frames: the frames of the guest are kept apart.         *)
(*                                                                         *)
(* The argument: at most one frame boundary is outstanding, queued or with *)
(* the GPU thread; it is of the frame that is consumed, and whatever is    *)
(* queued behind it is of the next, because Done holds m_submission_mutex  *)
(* until it has counted the boundary.  Each queue is in the order of its   *)
(* serials and of its frames, also after a submission was put back.        *)
(***************************************************************************)
EXTENDS GuestGpu, SequenceTheorems, FiniteSetTheorems, TLAPS

Places == {"idle", "waits", "drains", "published", "spins", "tests", "sleeps"}

InDone == {"waits", "drains", "published"}

Packets == [op : {"write", "wait"}, label : Labels]

Submissions == [type : {"graphics", "compute", "flip", "boundary"}, queue : Queues,
                rest : Seq(Packets), blocked : BOOLEAN, epoch : Nat, serial : Nat]

GpuStates == [at : {"loop", "after command", "backs off", "complete", "stopped"}]
             \cup [at : {"command"}, of : Guests]
             \cup [at : {"runs"}, sub : Submissions, progressed : BOOLEAN]
             \cup [at : {"blocked"}, sub : Submissions]

Typed == /\ queues \in [Queues -> Seq(Submissions)] /\ serials \in [Queues -> Nat]
         /\ commands \in Seq(Guests)
         /\ submitted \in Nat /\ consumed \in Nat
         /\ guest \in [Guests -> Places]
         /\ gpu \in GpuStates
         /\ owner \in Guests \cup {None}

\* Whoever is inside Done holds m_submission_mutex.
OwnerInDone == \A t \in Guests : guest[t] \in InDone => owner = t

(***************************************************************************)
(* Sequences of submissions.                                               *)
(***************************************************************************)

\* Clearing `blocked' at the front of the queues changes nothing else.
LEMMA UnblockedKeeps ==
  ASSUME Typed
  PROVE  /\ Unblocked \in [Queues -> Seq(Submissions)]
         /\ \A q \in Queues :
              /\ DOMAIN Unblocked[q] = DOMAIN queues[q]
              /\ \A i \in DOMAIN queues[q] :
                   /\ Unblocked[q][i].type = queues[q][i].type
                   /\ Unblocked[q][i].queue = queues[q][i].queue
                   /\ Unblocked[q][i].epoch = queues[q][i].epoch
                   /\ Unblocked[q][i].serial = queues[q][i].serial
  <1> DEFINE U(q) == IF queues[q] = <<>> THEN <<>>
                     ELSE <<[Head(queues[q]) EXCEPT !.blocked = FALSE]>> \o Tail(queues[q])
  <1>1. ASSUME NEW q \in Queues
        PROVE  /\ U(q) \in Seq(Submissions) /\ DOMAIN U(q) = DOMAIN queues[q]
               /\ \A i \in DOMAIN queues[q] :
                    /\ U(q)[i].type = queues[q][i].type /\ U(q)[i].queue = queues[q][i].queue
                    /\ U(q)[i].epoch = queues[q][i].epoch /\ U(q)[i].serial = queues[q][i].serial
    <2>1. CASE queues[q] = <<>>
          BY <2>1
    <2>2. CASE queues[q] # <<>>
      <3> DEFINE h == Head(queues[q])
                 g == [h EXCEPT !.blocked = FALSE]
                 s == queues[q]
      <3>1. s \in Seq(Submissions) /\ Len(s) \in Nat \ {0} /\ h \in Submissions /\ h = s[1]
            BY <2>2 DEF Typed
      <3>2. g \in Submissions /\ g.type = h.type /\ g.queue = h.queue /\ g.epoch = h.epoch /\ g.serial = h.serial
            BY <3>1 DEF Submissions
      <3> HIDE DEF g, h
      <3>3. Tail(s) \in Seq(Submissions) /\ Len(Tail(s)) = Len(s) - 1
            /\ \A i \in 1 .. Len(s) - 1 : Tail(s)[i] = s[i + 1]
            BY <3>1
      <3>4. /\ <<g>> \o Tail(s) \in Seq(Submissions) /\ Len(<<g>> \o Tail(s)) = Len(s)
            /\ (<<g>> \o Tail(s))[1] = g
            /\ \A i \in 2 .. Len(s) : (<<g>> \o Tail(s))[i] = s[i]
            BY <3>1, <3>2, <3>3
      <3>5. U(q) = <<g>> \o Tail(s)
            BY <2>2 DEF g, h
      <3>6. DOMAIN U(q) = 1 .. Len(s) /\ DOMAIN s = 1 .. Len(s)
            BY <3>1, <3>4, <3>5
      <3>7. ASSUME NEW i \in 1 .. Len(s)
            PROVE  /\ U(q)[i].type = s[i].type /\ U(q)[i].queue = s[i].queue
                   /\ U(q)[i].epoch = s[i].epoch /\ U(q)[i].serial = s[i].serial
        <4> HIDE DEF U
        <4>1. CASE i = 1
              BY <4>1, <3>1, <3>2, <3>4, <3>5
        <4>2. CASE i # 1
          <5> HIDE DEF s
          <5>1. i \in 2 .. Len(s)
                BY <4>2, <3>1
          <5>2. U(q)[i] = s[i]
                BY <5>1, <3>4, <3>5
          <5> QED
              BY <5>2
        <4> QED
            BY <4>1, <4>2
      <3> QED
          BY <3>4, <3>5, <3>6, <3>7
    <2> QED
        BY <2>1, <2>2
  <1>2. Unblocked = [q \in Queues |-> U(q)]
        BY DEF Unblocked
  <1> HIDE DEF U
  <1> QED
      BY <1>1, <1>2

\* A submission goes to the end of its queue.
LEMMA EnqueueAppends ==
  ASSUME Typed, NEW q \in Queues, NEW type \in {"graphics", "compute", "flip", "boundary"},
         NEW program \in Seq(Packets), Enqueue(q, type, program)
  PROVE  /\ queues' \in [Queues -> Seq(Submissions)]
         /\ serials' = [serials EXCEPT ![q] = serials[q] + 1]
         /\ serials' \in [Queues -> Nat]
         /\ \A p \in Queues \ {q} : queues'[p] = queues[p]
         /\ Len(queues'[q]) = Len(queues[q]) + 1
         /\ \A i \in DOMAIN queues[q] : queues'[q][i] = queues[q][i]
         /\ LET s == queues'[q][Len(queues[q]) + 1]
            IN s.type = type /\ s.queue = q /\ s.epoch = submitted /\ s.serial = serials[q] + 1
  <1> DEFINE s == [type |-> type, queue |-> q, rest |-> program, blocked |-> FALSE,
                   epoch |-> submitted, serial |-> serials[q] + 1]
  <1>1. s \in Submissions
        BY DEF Submissions, Typed
  <1>2. queues[q] \in Seq(Submissions) /\ queues' = [queues EXCEPT ![q] = Append(queues[q], s)]
        BY DEF Enqueue, Typed
  <1>3. s.type = type /\ s.queue = q /\ s.epoch = submitted /\ s.serial = serials[q] + 1
        OBVIOUS
  <1> HIDE DEF s
  <1>4. queues'[q] = Append(queues[q], s) /\ \A p \in Queues \ {q} : queues'[p] = queues[p]
        BY <1>2 DEF Typed
  <1>5. Append(queues[q], s) \in Seq(Submissions)
        BY <1>1, <1>2
  <1>6. /\ Len(queues'[q]) = Len(queues[q]) + 1
        /\ \A i \in DOMAIN queues[q] : queues'[q][i] = queues[q][i]
        /\ queues'[q][Len(queues[q]) + 1] = s
        BY <1>1, <1>2, <1>4
  <1>7. serials' = [serials EXCEPT ![q] = serials[q] + 1]
        BY DEF Enqueue
  <1>8. serials' \in [Queues -> Nat]
        BY <1>7 DEF Typed
  <1>9. queues' \in [Queues -> Seq(Submissions)]
        BY <1>2, <1>5 DEF Typed
  <1> QED
      BY <1>3, <1>4, <1>6, <1>7, <1>8, <1>9

(***************************************************************************)
(* Types, and who holds m_submission_mutex.                                *)
(***************************************************************************)

\* What a step of one guest thread may do to the places of the guests.
LEMMA OwnerKept ==
  ASSUME Typed, OwnerInDone, NEW t \in Guests, NEW place \in Places,
         guest' = [guest EXCEPT ![t] = place],
         \/ owner' = owner /\ (place \in InDone => guest[t] \in InDone)
         \/ owner' = None /\ guest[t] \in InDone /\ place \notin InDone
         \/ owner = None /\ owner' = t
  PROVE  OwnerInDone' /\ guest' \in [Guests -> Places]
  <1>1. \A u \in Guests : guest'[u] = IF u = t THEN place ELSE guest[u]
        BY DEF Typed
  <1>2. guest' \in [Guests -> Places]
        BY DEF Typed
  <1>3. None \notin Guests
        BY GpuAssumption
  <1> QED
      BY <1>1, <1>2, <1>3 DEF OwnerInDone

\* The program starts well typed, with nobody inside Done.
LEMMA InitIsTyped == Init => Typed /\ OwnerInDone
  <1> SUFFICES ASSUME Init PROVE Typed /\ OwnerInDone
      OBVIOUS
  <1>1. gpu \in GpuStates
        BY DEF Init, GpuStates
  <1>2. queues \in [Queues -> Seq(Submissions)] /\ serials \in [Queues -> Nat]
        BY DEF Init
  <1>3. guest \in [Guests -> Places] /\ OwnerInDone
        BY DEF Init, Places, OwnerInDone, InDone
  <1> QED
      BY <1>1, <1>2, <1>3 DEF Init, Typed

\* What the GPU thread has, by where it is.
LEMMA GpuIsTyped ==
  ASSUME Typed
  PROVE  /\ gpu.at = "runs" => gpu \in [at : {"runs"}, sub : Submissions, progressed : BOOLEAN]
         /\ gpu.at = "blocked" => gpu \in [at : {"blocked"}, sub : Submissions]
         /\ gpu.at = "command" => gpu \in [at : {"command"}, of : Guests]
  BY DEF Typed, GpuStates

\* A command that is run moves its caller from "sleeps" to "tests" at most.
LEMMA RunCommandKeeps ==
  ASSUME Typed, OwnerInDone, NEW t \in Guests, RunCommand(t), owner' = owner
  PROVE  /\ OwnerInDone' /\ guest' \in [Guests -> Places]
         /\ \A u \in Guests : (guest'[u] = "published") <=> (guest[u] = "published")
  <1>1. CASE guest' = guest
        BY <1>1 DEF Typed, OwnerInDone
  <1>2. CASE guest' = [guest EXCEPT ![t] = "tests"] /\ guest[t] = "sleeps"
    <2>1. "tests" \in Places /\ "tests" \notin InDone
          BY DEF Places, InDone
    <2>2. OwnerInDone' /\ guest' \in [Guests -> Places]
          BY <1>2, <2>1, OwnerKept
    <2> QED
        BY <1>2, <2>2 DEF Typed
  <1> QED
      BY <1>1, <1>2 DEF RunCommand

\* A submission that leaves the front of its queue.
LEMMA TakenFrom ==
  ASSUME Typed, NEW q \in Queues, queues[q] # <<>>
  PROVE  /\ Head(queues[q]) \in Submissions /\ Head(queues[q]) = queues[q][1]
         /\ 1 \in DOMAIN queues[q]
         /\ [queues EXCEPT ![q] = Tail(@)] \in [Queues -> Seq(Submissions)]
         /\ Len(Tail(queues[q])) = Len(queues[q]) - 1
         /\ \A i \in DOMAIN Tail(queues[q]) :
              /\ Tail(queues[q])[i] = queues[q][i + 1] /\ i + 1 \in DOMAIN queues[q] /\ i + 1 > 1
  <1>1. queues[q] \in Seq(Submissions) /\ Len(queues[q]) \in Nat \ {0}
        BY DEF Typed
  <1>2. Tail(queues[q]) \in Seq(Submissions)
        BY <1>1
  <1> QED
      BY <1>1, <1>2 DEF Typed

\* A submission that is put back to the front of its queue.
LEMMA PutBack ==
  ASSUME Typed, NEW s \in Submissions,
         NEW r, r = <<[s EXCEPT !.blocked = TRUE]>> \o queues[s.queue]
  PROVE  /\ [queues EXCEPT ![s.queue] = r] \in [Queues -> Seq(Submissions)]
         /\ Len(r) = Len(queues[s.queue]) + 1
         /\ r[1].type = s.type /\ r[1].queue = s.queue /\ r[1].epoch = s.epoch /\ r[1].serial = s.serial
         /\ \A i \in DOMAIN r : i = 1 \/ (i - 1 \in DOMAIN queues[s.queue] /\ r[i] = queues[s.queue][i - 1])
  <1> DEFINE b == [s EXCEPT !.blocked = TRUE]
             w == queues[s.queue]
  <1>1. b \in Submissions /\ b.type = s.type /\ b.queue = s.queue /\ b.epoch = s.epoch /\ b.serial = s.serial
        BY DEF Submissions
  <1>2. s.queue \in Queues /\ w \in Seq(Submissions)
        BY DEF Submissions, Typed
  <1> HIDE DEF b
  <1>3. r = <<b>> \o w
        BY DEF b
  <1> HIDE DEF w
  <1>4. r \in Seq(Submissions) /\ Len(r) = Len(w) + 1 /\ r[1] = b
    <2>1. <<b>> \in Seq(Submissions) /\ Len(<<b>>) = 1 /\ <<b>>[1] = b /\ Len(w) \in Nat
          BY <1>1, <1>2
    <2>2. r \in Seq(Submissions)
          BY <1>2, <1>3, <2>1, ConcatProperties
    <2>3. Len(r) = Len(w) + 1
          BY <1>2, <1>3, <2>1
    <2>4. r[1] = b
          BY <1>2, <1>3, <2>1
    <2> QED
        BY <2>2, <2>3, <2>4
  <1>6. ASSUME NEW i \in DOMAIN r, i # 1
        PROVE  i - 1 \in DOMAIN w /\ r[i] = w[i - 1]
    <2>1. i \in 2 .. Len(w) + 1 /\ Len(w) \in Nat
          BY <1>2, <1>4, <1>6
    <2>2. i - 1 \in DOMAIN w
          BY <1>2, <2>1
    <2>3. r[i] = w[i - 1]
          BY <1>1, <1>2, <1>3, <2>1
    <2> QED
        BY <2>2, <2>3
  <1>5. [queues EXCEPT ![s.queue] = r] \in [Queues -> Seq(Submissions)]
        BY <1>2, <1>4 DEF Typed
  <1> QED
      BY <1>1, <1>4, <1>5, <1>6 DEF w

\* Every step keeps the types and the owner of m_submission_mutex.
LEMMA TypesStep ==
  ASSUME Typed, OwnerInDone, [Next]_vars
  PROVE  Typed' /\ OwnerInDone'
  <1> USE GpuAssumption
  <1> DEFINE SameGuest == guest' = guest /\ owner' = owner
             SameWork == UNCHANGED <<queues, serials, submitted, consumed, commands>>
             Same == SameWork /\ gpu' = gpu
  <1>0. SameGuest => OwnerInDone' /\ guest' \in [Guests -> Places] /\ owner' \in Guests \cup {None}
        BY DEF OwnerInDone, Typed
  <1>1. CASE UNCHANGED vars
        BY <1>1 DEF vars, frames, host, Typed, OwnerInDone
  <1>2. ASSUME NEW t \in Submitters, NEW q \in Queues, NEW program \in Programs, Submit(t, q, program)
        PROVE  Typed' /\ OwnerInDone'
    <2>1. program \in Seq(Packets)
          BY DEF Packets
    <2>2. PICK type \in {"graphics", "compute"} : Enqueue(q, type, program)
          BY <1>2 DEF Submit
    <2>3. queues' \in [Queues -> Seq(Submissions)] /\ serials' \in [Queues -> Nat]
          BY <2>1, <2>2, EnqueueAppends
    <2> QED
        BY <1>0, <1>2, <2>3 DEF Submit, Typed, frames
  <1>3. ASSUME NEW t \in Submitters, SubmitFlipPreparation(t)
        PROVE  Typed' /\ OwnerInDone'
    <2>1. <<>> \in Seq(Packets) /\ 0 \in Queues
          BY DEF Queues
    <2>2. Enqueue(0, "flip", <<>>)
          BY <1>3 DEF SubmitFlipPreparation
    <2>3. queues' \in [Queues -> Seq(Submissions)] /\ serials' \in [Queues -> Nat]
          BY <2>1, <2>2, EnqueueAppends
    <2> QED
        BY <1>0, <1>3, <2>3 DEF SubmitFlipPreparation, Typed, frames
  <1>4. ASSUME NEW t \in Submitters, NEW pipelined \in BOOLEAN, DoneBegins(t, pipelined)
        PROVE  Typed' /\ OwnerInDone'
    <2>1. t \in Guests /\ guest' = [guest EXCEPT ![t] = IF pipelined THEN "waits" ELSE "drains"]
          /\ owner = None /\ owner' = t
          BY <1>4 DEF DoneBegins, Guests
    <2>2. (IF pipelined THEN "waits" ELSE "drains") \in Places
          BY DEF Places
    <2>3. OwnerInDone' /\ guest' \in [Guests -> Places]
          BY <2>1, <2>2, OwnerKept
    <2> QED
        BY <1>4, <2>1, <2>3 DEF DoneBegins, Typed, frames
  <1>5. ASSUME NEW t \in Guests, PublishBoundary(t)
        PROVE  Typed' /\ OwnerInDone'
    <2>1. <<>> \in Seq(Packets) /\ 0 \in Queues
          BY DEF Queues
    <2>2. Enqueue(0, "boundary", <<>>)
          BY <1>5 DEF PublishBoundary
    <2>3. queues' \in [Queues -> Seq(Submissions)] /\ serials' \in [Queues -> Nat]
          BY <2>1, <2>2, EnqueueAppends
    <2>4. "published" \in Places /\ guest[t] \in InDone /\ guest' = [guest EXCEPT ![t] = "published"]
          /\ owner' = owner
          BY <1>5 DEF PublishBoundary, Places, InDone
    <2>5. OwnerInDone' /\ guest' \in [Guests -> Places]
          BY <2>4, OwnerKept
    <2> QED
        BY <1>5, <2>3, <2>4, <2>5 DEF PublishBoundary, Typed, frames
  <1>6. ASSUME NEW t \in Guests, DonePublished(t)
        PROVE  Typed' /\ OwnerInDone'
    <2>1. "idle" \in Places \ InDone /\ guest[t] \in InDone /\ guest' = [guest EXCEPT ![t] = "idle"]
          /\ owner' = None
          BY <1>6 DEF DonePublished, Places, InDone
    <2>2. OwnerInDone' /\ guest' \in [Guests -> Places]
          BY <2>1, OwnerKept
    <2> QED
        BY <1>6, <2>1, <2>2 DEF DonePublished, Typed, frames
  <1>7. ASSUME NEW t \in Submitters, DoneDrained(t)
        PROVE  Typed' /\ OwnerInDone'
    <2>1. "idle" \in Places \ InDone /\ guest[t] \in InDone /\ guest' = [guest EXCEPT ![t] = "idle"]
          /\ owner' = None /\ t \in Guests
          BY <1>7 DEF DoneDrained, Places, InDone, Guests
    <2>2. OwnerInDone' /\ guest' \in [Guests -> Places]
          BY <2>1, OwnerKept
    <2> QED
        BY <1>7, <2>1, <2>2 DEF DoneDrained, Typed, frames
  <1>8. ASSUME NEW t \in Callers, SendCommandSync(t)
        PROVE  Typed' /\ OwnerInDone'
    <2>1. "spins" \in Places \ InDone /\ guest' = [guest EXCEPT ![t] = "spins"]
          /\ owner' = owner /\ t \in Guests
          BY <1>8 DEF SendCommandSync, Places, InDone, Guests
    <2>2. OwnerInDone' /\ guest' \in [Guests -> Places]
          BY <2>1, OwnerKept
    <2>3. commands' \in Seq(Guests)
          BY <1>8, <2>1 DEF SendCommandSync, Typed
    <2> QED
        BY <1>8, <2>1, <2>2, <2>3 DEF SendCommandSync, Typed, frames
  <1>9. ASSUME NEW t \in Guests, SpinSees(t) \/ SpinGivesUp(t) \/ CallerTests(t)
        PROVE  Typed' /\ OwnerInDone'
    <2>1. PICK place \in Places \ InDone : guest' = [guest EXCEPT ![t] = place] /\ owner' = owner
          BY <1>9 DEF SpinSees, SpinGivesUp, CallerTests, Places, InDone
    <2>2. OwnerInDone' /\ guest' \in [Guests -> Places]
          BY <2>1, OwnerKept
    <2>3. Same
          BY <1>9 DEF SpinSees, SpinGivesUp, CallerTests, frames
    <2> QED
        BY <2>1, <2>2, <2>3 DEF Typed
  <1>10. CASE GpuStops \/ GpuEndsCommand \/ GpuBacksOff
    <2>1. gpu' = [at |-> "stopped"] \/ gpu' = [at |-> "loop"] \/ gpu' = [at |-> "backs off"]
          BY <1>10 DEF GpuStops, GpuEndsCommand, GpuBacksOff
    <2>4. [at |-> "stopped"] \in GpuStates /\ [at |-> "loop"] \in GpuStates /\ [at |-> "backs off"] \in GpuStates
          BY DEF GpuStates
    <2>3. gpu' \in GpuStates
          BY <2>1, <2>4
    <2>2. SameGuest /\ SameWork
          BY <1>10 DEF GpuStops, GpuEndsCommand, GpuBacksOff, frames
    <2> QED
        BY <1>0, <2>2, <2>3 DEF Typed
  <1>11. CASE GpuTakesCommand
    <2>1. commands' \in Seq(Guests) /\ Head(commands) \in Guests
          BY <1>11 DEF GpuTakesCommand, Typed
    <2>2. gpu' \in GpuStates
          BY <1>11, <2>1 DEF GpuTakesCommand, GpuStates
    <2> QED
        BY <1>0, <1>11, <2>1, <2>2 DEF GpuTakesCommand, Typed, frames
  <1>12. CASE GpuRunsCommand
    <2>1. gpu.of \in Guests /\ RunCommand(gpu.of) /\ owner' = owner
          BY <1>12, GpuIsTyped DEF GpuRunsCommand
    <2>2. OwnerInDone' /\ guest' \in [Guests -> Places]
          BY <2>1, RunCommandKeeps
    <2>3. gpu' \in GpuStates
          BY <1>12 DEF GpuRunsCommand, GpuStates
    <2> QED
        BY <1>12, <2>2, <2>3 DEF GpuRunsCommand, Typed, frames
  <1>13. CASE ProcessCommands
    <2>1. Head(commands) \in Guests /\ RunCommand(Head(commands)) /\ owner' = owner /\ commands' \in Seq(Guests)
          BY <1>13 DEF ProcessCommands, Typed
    <2>2. OwnerInDone' /\ guest' \in [Guests -> Places]
          BY <2>1, RunCommandKeeps
    <2> QED
        BY <1>13, <2>1, <2>2 DEF ProcessCommands, Typed, frames
  <1>14. ASSUME NEW q \in Queues, GpuTakes(q)
         PROVE  Typed' /\ OwnerInDone'
    <2>1. queues[q] # <<>>
          BY <1>14 DEF GpuTakes, Selected, Selectable
    <2>2. gpu' \in GpuStates
          BY <1>14, <2>1, TakenFrom DEF GpuTakes, GpuStates
    <2>3. queues' \in [Queues -> Seq(Submissions)]
          BY <1>14, <2>1, TakenFrom DEF GpuTakes
    <2> QED
        BY <1>0, <1>14, <2>2, <2>3 DEF GpuTakes, Typed, frames
  <1>15. CASE GpuRetries \/ GpuCompletes
    <2>1. gpu' = [at |-> "loop"]
          BY <1>15 DEF GpuRetries, GpuCompletes
    <2>3. gpu' \in GpuStates
          BY <2>1 DEF GpuStates
    <2>2. queues' \in [Queues -> Seq(Submissions)]
          BY <1>15, UnblockedKeeps DEF GpuRetries, GpuCompletes
    <2> QED
        BY <1>0, <1>15, <2>3, <2>2 DEF GpuRetries, GpuCompletes, Typed, frames
  <1>16. CASE PassBoundary
    <2>1. consumed' \in Nat
          BY <1>16 DEF PassBoundary, Typed
    <2>2. gpu' \in GpuStates
          BY <1>16 DEF PassBoundary, GpuStates
    <2> QED
        BY <1>0, <1>16, <2>1, <2>2 DEF PassBoundary, Typed
  <1>17. CASE ProcessPacket
    <2>1. gpu \in [at : {"runs"}, sub : Submissions, progressed : BOOLEAN] /\ gpu.sub.rest # <<>>
          BY <1>17, GpuIsTyped DEF ProcessPacket
    <2>2. Tail(gpu.sub.rest) \in Seq(Packets)
          BY <2>1 DEF Submissions
    <2>3. [gpu EXCEPT !.sub.rest = Tail(@), !.progressed = TRUE]
            \in [at : {"runs"}, sub : Submissions, progressed : BOOLEAN]
          BY <2>1, <2>2 DEF Submissions
    <2>4. gpu' \in GpuStates
          BY <1>17, <2>3 DEF ProcessPacket, GpuStates
    <2> QED
        BY <1>0, <1>17, <2>4 DEF ProcessPacket, Typed, frames
  <1>18. CASE ProcessBlocks
    <2>1. gpu' \in GpuStates
          BY <1>18, GpuIsTyped DEF ProcessBlocks, GpuStates
    <2> QED
        BY <1>0, <1>18, <2>1 DEF ProcessBlocks, Typed, frames
  <1>19. CASE ProcessCompletes
    <2>1. gpu' \in GpuStates
          BY <1>19 DEF ProcessCompletes, GpuStates
    <2> QED
        BY <1>0, <1>19, <2>1 DEF ProcessCompletes, Typed, frames
  <1>20. CASE GpuPutsBack
    <2>1. gpu.sub \in Submissions
          BY <1>20, GpuIsTyped DEF GpuPutsBack
    <2>2. queues' \in [Queues -> Seq(Submissions)]
          BY <1>20, <2>1, PutBack DEF GpuPutsBack
    <2>3. gpu' \in GpuStates
          BY <1>20 DEF GpuPutsBack, GpuStates
    <2> QED
        BY <1>0, <1>20, <2>2, <2>3 DEF GpuPutsBack, Typed, frames
  <1>21. CASE (\E l \in Labels : LabelWritten(l)) \/ Shutdown
    <2>1. SameGuest /\ Same
          BY <1>21 DEF LabelWritten, Shutdown, frames
    <2> QED
        BY <1>0, <2>1 DEF Typed
  <1> QED
      BY <1>1, <1>2, <1>3, <1>4, <1>5, <1>6, <1>7, <1>8, <1>9, <1>10, <1>11, <1>12, <1>13, <1>14,
         <1>15, <1>16, <1>17, <1>18, <1>19, <1>20, <1>21 DEF Next, Continues, GpuThread

(***************************************************************************)
(* The frames.                                                             *)
(***************************************************************************)

\* Somebody has queued a boundary and not counted it yet.
Published == \E t \in Guests : guest[t] = "published"

\* The GPU thread has taken a submission.
Holding == gpu.at \in {"runs", "blocked"}

\* A boundary is queued, or with the GPU thread.
Outstanding == \/ \E i \in DOMAIN queues[0] : queues[0][i].type = "boundary"
               \/ Holding /\ gpu.sub.type = "boundary"

QueueOK(q) ==
  \A i \in DOMAIN queues[q] :
    /\ queues[q][i].queue = q /\ queues[q][i].serial <= serials[q]
    /\ consumed <= queues[q][i].epoch /\ queues[q][i].epoch <= submitted
    /\ queues[q][i].type = "boundary" => q = 0 /\ queues[q][i].epoch = consumed
    /\ \A j \in DOMAIN queues[q] : i < j =>
         /\ queues[q][i].serial < queues[q][j].serial
         /\ queues[q][i].epoch <= queues[q][j].epoch
         /\ queues[q][i].type = "boundary" => queues[q][i].epoch < queues[q][j].epoch

QueuesOK == \A q \in Queues : QueueOK(q)

HeldOK ==
  Holding =>
    /\ gpu.sub.epoch = consumed /\ consumed <= submitted
    /\ gpu.sub.serial <= serials[gpu.sub.queue]
    /\ \A i \in DOMAIN queues[gpu.sub.queue] : gpu.sub.serial < queues[gpu.sub.queue][i].serial
    /\ gpu.sub.type = "boundary" =>
         /\ gpu.sub.queue = 0
         /\ \A q \in Queues : \A i \in DOMAIN queues[q] : consumed < queues[q][i].epoch

FramesOK == submitted = (IF Published THEN consumed - 1 ELSE consumed) + (IF Outstanding THEN 1 ELSE 0)

FrameInv == QueuesOK /\ HeldOK /\ FramesOK

Inv == Typed /\ OwnerInDone /\ FrameInv

\* Submissions that differ in what is left of them at most.
Alike(r, s) == r.type = s.type /\ r.queue = s.queue /\ r.epoch = s.epoch /\ r.serial = s.serial

\* A step that neither queues nor takes, passes or counts a boundary.
Quiet ==
  /\ serials' = serials /\ submitted' = submitted /\ consumed' = consumed
  /\ Published' = Published
  /\ \A q \in Queues : /\ DOMAIN queues'[q] = DOMAIN queues[q]
                       /\ \A i \in DOMAIN queues[q] : Alike(queues'[q][i], queues[q][i])
  /\ Holding' => Holding /\ Alike(gpu'.sub, gpu.sub)
  /\ Holding /\ gpu.sub.type = "boundary" => Holding'

\* While the GPU thread runs or is about to put back, it has a submission.
LEMMA HeldIsSubmission == Typed /\ Holding => gpu.sub \in Submissions
  BY GpuIsTyped DEF Holding

\* A quiet step keeps the frames.
LEMMA QuietKeeps ==
  ASSUME Inv, Quiet
  PROVE  FrameInv'
  <1> USE DEF Inv, FrameInv
  <1>1. QueuesOK'
        BY DEF QueuesOK, QueueOK, Quiet, Alike
  <1>2. HeldOK'
    <2> SUFFICES ASSUME Holding' PROVE HeldOK'
        BY DEF HeldOK
    <2>1. Holding /\ Alike(gpu'.sub, gpu.sub) /\ gpu.sub.queue \in Queues
          BY HeldIsSubmission DEF Quiet, Submissions
    <2> QED
        BY <2>1 DEF HeldOK, Quiet, Alike
  <1>3. Outstanding' = Outstanding
    <2>1. 0 \in Queues
          BY GpuAssumption DEF Queues
    <2> QED
        BY <2>1 DEF Outstanding, Quiet, Alike
  <1>4. FramesOK'
        BY <1>3 DEF FramesOK, Quiet
  <1> QED
      BY <1>1, <1>2, <1>4

\* Enqueue keeps the frames: the new submission is of the frame being prepared
\* and the last of its queue, and a boundary is queued only when none is outstanding.
LEMMA EnqueueKeeps ==
  ASSUME Inv, NEW q \in Queues, NEW type \in {"graphics", "compute", "flip", "boundary"},
         NEW program \in Seq(Packets), Enqueue(q, type, program),
         UNCHANGED <<submitted, consumed, gpu>>,
         ~Published, Published' <=> type = "boundary",
         type = "boundary" => q = 0 /\ submitted = consumed
  PROVE  FrameInv'
  <1> USE DEF Inv, FrameInv
  <1> DEFINE n == Len(queues[q])
             new == queues'[q][n + 1]
             Old(i) == queues[q][i]
  <1>1. /\ \A p \in Queues \ {q} : queues'[p] = queues[p] /\ serials'[p] = serials[p]
        /\ serials'[q] = serials[q] + 1
        BY EnqueueAppends DEF Typed
  <1>2. /\ new.type = type /\ new.queue = q /\ new.epoch = submitted /\ new.serial = serials[q] + 1
        BY EnqueueAppends
  <1>3. /\ n \in Nat /\ DOMAIN queues[q] = 1 .. n /\ DOMAIN queues'[q] = 1 .. n + 1
        /\ \A i \in 1 .. n : queues'[q][i] = queues[q][i]
    <2>1. queues[q] \in Seq(Submissions) /\ queues'[q] \in Seq(Submissions) /\ Len(queues'[q]) = n + 1
          BY EnqueueAppends DEF Typed
    <2>2. \A i \in DOMAIN queues[q] : queues'[q][i] = queues[q][i]
          BY EnqueueAppends
    <2> HIDE DEF n
    <2>3. n \in Nat /\ DOMAIN queues[q] = 1 .. n
          BY <2>1 DEF n
    <2> QED
        BY <2>1, <2>2, <2>3
  <1>4. serials[q] \in Nat /\ submitted \in Nat /\ consumed \in Nat
        BY DEF Typed
  <1>5. submitted = consumed + (IF Outstanding THEN 1 ELSE 0) /\ consumed <= submitted
        BY <1>4 DEF FramesOK
  <1> HIDE DEF new, n
  <1>6. ASSUME NEW i \in 1 .. n
        PROVE  /\ Old(i).epoch \in Nat /\ Old(i).serial \in Nat
               /\ Old(i).queue = q /\ Old(i).serial <= serials[q]
               /\ consumed <= Old(i).epoch /\ Old(i).epoch <= submitted
               /\ Old(i).type = "boundary" => q = 0 /\ Old(i).epoch = consumed /\ submitted = consumed + 1
    <2>1. Old(i) \in Submissions
          BY <1>3 DEF Typed
    <2>2. QueueOK(q) /\ i \in DOMAIN queues[q]
          BY <1>3 DEF QueuesOK
    <2>3. Old(i).type = "boundary" => q = 0 /\ Outstanding
          BY <2>2 DEF QueueOK, Outstanding
    <2> QED
        BY <2>1, <2>2, <2>3, <1>5 DEF QueueOK, Submissions
  <1>7. QueueOK(q)'
    <2>1. ASSUME NEW i \in 1 .. n + 1
          PROVE  /\ queues'[q][i].queue = q /\ queues'[q][i].serial <= serials'[q]
                 /\ consumed <= queues'[q][i].epoch /\ queues'[q][i].epoch <= submitted
                 /\ queues'[q][i].type = "boundary" => q = 0 /\ queues'[q][i].epoch = consumed
      <3>1. CASE i = n + 1
            BY <3>1, <1>1, <1>2, <1>4, <1>5 DEF new
      <3>2. CASE i \in 1 .. n
        <4>1. queues'[q][i] = Old(i)
              BY <3>2, <1>3
        <4>2. serials[q] <= serials'[q] /\ serials'[q] \in Nat
              BY <1>1, <1>4
        <4>3. Old(i).serial <= serials'[q]
              BY <3>2, <4>2, <1>4, <1>6
        <4>4. /\ Old(i).queue = q /\ consumed <= Old(i).epoch /\ Old(i).epoch <= submitted
              /\ Old(i).type = "boundary" => q = 0 /\ Old(i).epoch = consumed
              BY <3>2, <1>6
        <4> QED
            BY <4>1, <4>3, <4>4
      <3> QED
          BY <3>1, <3>2, <1>3
    <2>2. ASSUME NEW i \in 1 .. n + 1, NEW j \in 1 .. n + 1, i < j
          PROVE  /\ queues'[q][i].serial < queues'[q][j].serial
                 /\ queues'[q][i].epoch <= queues'[q][j].epoch
                 /\ queues'[q][i].type = "boundary" => queues'[q][i].epoch < queues'[q][j].epoch
      <3>1. i \in 1 .. n /\ queues'[q][i] = Old(i)
            BY <2>2, <1>3
      <3>2. CASE j = n + 1
        <4>1. queues'[q][j] = new
              BY <3>2 DEF new
        <4>2. Old(i).serial < new.serial /\ Old(i).epoch <= new.epoch
              /\ (Old(i).type = "boundary" => Old(i).epoch < new.epoch)
              BY <3>1, <1>2, <1>4, <1>6
        <4> QED
            BY <3>1, <4>1, <4>2
      <3>3. CASE j \in 1 .. n
        <4>1. queues'[q][j] = Old(j)
              BY <3>3, <1>3
        <4>2. Old(i).serial < Old(j).serial /\ Old(i).epoch <= Old(j).epoch
              /\ (Old(i).type = "boundary" => Old(i).epoch < Old(j).epoch)
              BY <3>1, <3>3, <2>2, <1>3 DEF QueuesOK, QueueOK
        <4> QED
            BY <3>1, <4>1, <4>2
      <3> QED
          BY <3>2, <3>3, <1>3
    <2> QED
        BY <2>1, <2>2, <1>3 DEF QueueOK
  <1>8. QueuesOK'
        BY <1>1, <1>7 DEF QueuesOK, QueueOK
  <1>9. \A p \in Queues : \A i \in DOMAIN queues'[p] :
          \/ i \in DOMAIN queues[p] /\ queues'[p][i] = queues[p][i]
          \/ p = q /\ queues'[p][i] = new
    <2>1. \A i \in 1 .. n + 1 : i \in 1 .. n \/ i = n + 1
          BY <1>3
    <2> QED
        BY <2>1, <1>1, <1>3 DEF new
  <1>10. HeldOK'
    <2> SUFFICES ASSUME Holding PROVE HeldOK'
        BY DEF HeldOK, Holding
    <2>1. gpu.sub.queue \in Queues /\ gpu.sub.serial \in Nat /\ gpu'.sub = gpu.sub
          BY HeldIsSubmission DEF Submissions
    <2>2. gpu.sub.type = "boundary" => submitted = consumed + 1
          BY <1>5 DEF Outstanding
    <2>3. gpu.sub.serial <= serials'[gpu.sub.queue]
          BY <2>1, <1>1, <1>4 DEF HeldOK
    <2>4. gpu.sub.queue = q => gpu.sub.serial < new.serial
          BY <2>1, <1>2, <1>4 DEF HeldOK
    <2>5. \A i \in DOMAIN queues'[gpu.sub.queue] : gpu.sub.serial < queues'[gpu.sub.queue][i].serial
          BY <2>1, <2>4, <1>9 DEF HeldOK
    <2>6. ASSUME gpu.sub.type = "boundary"
          PROVE  \A p \in Queues : \A i \in DOMAIN queues'[p] : consumed < queues'[p][i].epoch
      <3>1. consumed < new.epoch
            BY <2>2, <2>6, <1>2, <1>4
      <3> QED
          BY <2>6, <3>1, <1>9 DEF HeldOK
    <2> QED
        BY <2>3, <2>5, <2>6 DEF HeldOK
  <1>11. FramesOK'
    <2>1. Holding' = Holding /\ gpu' = gpu /\ 0 \in Queues
          BY GpuAssumption DEF Holding, Queues
    <2>2. CASE type = "boundary"
      <3>1. n + 1 \in DOMAIN queues'[0] /\ queues'[0][n + 1].type = "boundary"
            BY <2>2, <1>2, <1>3 DEF new
      <3>2. Outstanding' /\ Published'
            BY <2>2, <3>1 DEF Outstanding
      <3>3. submitted = consumed
            BY <2>2
      <3>4. submitted' = consumed' - 1 + 1
            BY <3>3, <1>4
      <3> QED
          BY <3>2, <3>4 DEF FramesOK
    <2>3. CASE type # "boundary"
      <3>1. \A i \in DOMAIN queues[0] : i \in DOMAIN queues'[0] /\ queues'[0][i] = queues[0][i]
            BY <2>1, <1>1, <1>3
      <3>2. \A i \in DOMAIN queues'[0] : queues'[0][i].type = "boundary" => i \in DOMAIN queues[0] /\ queues'[0][i] = queues[0][i]
            BY <2>1, <2>3, <1>2, <1>9
      <3>3. Outstanding' = Outstanding
            BY <2>1, <3>1, <3>2 DEF Outstanding
      <3>4. ~Published' /\ ~Published
            BY <2>3
      <3> QED
          BY <3>3, <3>4 DEF FramesOK
    <2> QED
        BY <2>2, <2>3
  <1> QED
      BY <1>8, <1>10, <1>11

\* The GPU thread takes the first submission of a queue.
LEMMA TakeKeeps ==
  ASSUME Inv, NEW q \in Queues, GpuTakes(q)
  PROVE  FrameInv'
  <1> USE DEF Inv, FrameInv
  <1> DEFINE h == queues[q][1]
             n == Len(queues[q])
  <1>1. queues[q] # <<>> /\ h.epoch = consumed /\ gpu.at = "loop"
        /\ (h.type = "boundary" =>
              \A p \in Queues \ {0} : queues[p] # <<>> => Head(queues[p]).epoch # h.epoch)
        BY TakenFrom DEF GpuTakes, Selected, Selectable, CanProcessSubmission
  <1>2. /\ h \in Submissions /\ 1 \in DOMAIN queues[q]
        /\ queues'[q] = Tail(queues[q]) /\ \A p \in Queues \ {q} : queues'[p] = queues[p]
        /\ \A i \in DOMAIN queues'[q] :
             queues'[q][i] = queues[q][i + 1] /\ i + 1 \in DOMAIN queues[q] /\ i + 1 > 1
        BY <1>1, TakenFrom DEF GpuTakes, Typed
  <1>3. ~Holding /\ Holding' /\ gpu'.sub = h
        BY <1>1, TakenFrom DEF GpuTakes, Holding
  <1>4. serials' = serials /\ submitted' = submitted /\ consumed' = consumed /\ guest' = guest
        BY DEF GpuTakes, frames
  <1>5. /\ h.queue = q /\ h.serial <= serials[q] /\ consumed <= submitted
        /\ (h.type = "boundary" => q = 0)
        /\ \A j \in DOMAIN queues[q] : 1 < j =>
             /\ h.serial < queues[q][j].serial
             /\ h.type = "boundary" => consumed < queues[q][j].epoch
        BY <1>1, <1>2 DEF QueuesOK, QueueOK
  <1>6. ASSUME NEW i \in DOMAIN queues'[q], NEW j \in DOMAIN queues'[q], i < j
        PROVE  i + 1 < j + 1
    <2>1. i \in Nat /\ j \in Nat
      <3>1. queues[q] \in Seq(Submissions)
            BY DEF Typed
      <3>2. Tail(queues[q]) \in Seq(Submissions)
            BY <1>1, <3>1
      <3> QED
          BY <1>2, <3>2
    <2> QED
        BY <2>1, <1>6
  <1>7. QueueOK(q)'
    <2> SUFFICES ASSUME NEW i \in DOMAIN queues'[q]
                 PROVE  /\ queues'[q][i].queue = q /\ queues'[q][i].serial <= serials'[q]
                        /\ consumed' <= queues'[q][i].epoch /\ queues'[q][i].epoch <= submitted'
                        /\ queues'[q][i].type = "boundary" => q = 0 /\ queues'[q][i].epoch = consumed'
                        /\ \A j \in DOMAIN queues'[q] : i < j =>
                             /\ queues'[q][i].serial < queues'[q][j].serial
                             /\ queues'[q][i].epoch <= queues'[q][j].epoch
                             /\ queues'[q][i].type = "boundary" => queues'[q][i].epoch < queues'[q][j].epoch
        BY DEF QueueOK
    <2> QED
        BY <1>2, <1>4, <1>6 DEF QueuesOK, QueueOK
  <1>8. QueuesOK'
    <2>1. ASSUME NEW p \in Queues \ {q} PROVE QueueOK(p)'
      <3>1. QueueOK(p) /\ queues'[p] = queues[p]
            BY <1>2 DEF QueuesOK
      <3> QED
          BY <3>1, <1>4 DEF QueueOK
    <2> QED
        BY <2>1, <1>7 DEF QueuesOK
  <1>9. ASSUME h.type = "boundary", NEW p \in Queues, NEW i \in DOMAIN queues'[p]
        PROVE  consumed < queues'[p][i].epoch
    <2>1. CASE p = q
          BY <2>1, <1>2, <1>5, <1>9
    <2>2. CASE p # q
      <3>1. queues[p] \in Seq(Submissions) /\ i \in DOMAIN queues[p] /\ queues'[p][i] = queues[p][i]
            BY <2>2, <1>2, <1>9 DEF Typed
      <3>2. queues[p] # <<>> /\ 1 \in DOMAIN queues[p] /\ Head(queues[p]) = queues[p][1] /\ (i = 1 \/ 1 < i)
            BY <3>1
      <3>3. queues[p][1].epoch # consumed /\ p # 0
            BY <2>2, <3>2, <1>1, <1>5, <1>9
      <3>4. queues[p][1].epoch \in Nat /\ queues[p][i].epoch \in Nat /\ consumed \in Nat
        <4>1. queues[p][1] \in Submissions /\ queues[p][i] \in Submissions
              BY <3>1, <3>2
        <4> QED
            BY <4>1 DEF Typed, Submissions
      <3>5. consumed <= queues[p][1].epoch /\ (i = 1 \/ queues[p][1].epoch <= queues[p][i].epoch)
            BY <3>1, <3>2 DEF QueuesOK, QueueOK
      <3> QED
          BY <3>1, <3>3, <3>4, <3>5
    <2> QED
        BY <2>1, <2>2
  <1>10. HeldOK'
    <2>1. h.epoch = consumed' /\ consumed' <= submitted' /\ h.serial <= serials'[h.queue]
          BY <1>1, <1>4, <1>5
    <2>2. \A i \in DOMAIN queues'[h.queue] : h.serial < queues'[h.queue][i].serial
          BY <1>2, <1>5
    <2>3. h.type = "boundary" =>
            h.queue = 0 /\ \A p \in Queues : \A i \in DOMAIN queues'[p] : consumed' < queues'[p][i].epoch
          BY <1>4, <1>5, <1>9
    <2> HIDE DEF h
    <2> QED
        BY <1>3, <2>1, <2>2, <2>3 DEF HeldOK
  <1>11. FramesOK'
    <2>1. Published' = Published
          BY <1>4 DEF Published
    <2>2. 0 \in Queues
          BY GpuAssumption DEF Queues
    <2>3. ASSUME Outstanding' PROVE Outstanding
      <3>1. CASE gpu'.sub.type = "boundary"
            BY <3>1, <1>2, <1>3, <1>5 DEF Outstanding
      <3>2. CASE \E i \in DOMAIN queues'[0] : queues'[0][i].type = "boundary"
        <4>1. PICK i \in DOMAIN queues'[0] : queues'[0][i].type = "boundary"
              BY <3>2
        <4>2. CASE q = 0
          <5>1. queues[0][i + 1].type = "boundary" /\ i + 1 \in DOMAIN queues[0]
                BY <4>1, <4>2, <1>2
          <5> QED
              BY <5>1 DEF Outstanding
        <4>3. CASE q # 0
          <5>1. queues'[0] = queues[0]
                BY <4>3, <2>2, <1>2
          <5> QED
              BY <4>1, <5>1 DEF Outstanding
        <4> QED
            BY <4>2, <4>3
      <3> QED
          BY <2>3, <3>1, <3>2 DEF Outstanding
    <2>4. ASSUME Outstanding PROVE Outstanding'
      <3>1. PICK i \in DOMAIN queues[0] : queues[0][i].type = "boundary"
            BY <2>4, <1>3 DEF Outstanding
      <3>2. CASE q = 0 /\ i = 1
            BY <3>1, <3>2, <1>3 DEF Outstanding
      <3>3. CASE q # 0
            BY <3>1, <3>3, <2>2, <1>2 DEF Outstanding
      <3>4. CASE q = 0 /\ i # 1
        <4>1. queues[q] \in Seq(Submissions)
              BY DEF Typed
        <4>2. i - 1 \in DOMAIN Tail(queues[q]) /\ i \in Nat
              BY <4>1, <3>1, <3>4, <1>1
        <4>3. queues'[0][i - 1] = queues[0][i] /\ i - 1 \in DOMAIN queues'[0]
              BY <4>2, <3>4, <1>2
        <4> QED
            BY <3>1, <4>3 DEF Outstanding
      <3> QED
          BY <3>2, <3>3, <3>4
    <2> QED
        BY <2>1, <2>3, <2>4, <1>4 DEF FramesOK
  <1> QED
      BY <1>8, <1>10, <1>11

\* A blocked submission goes back to the front of its queue.
LEMMA PutBackKeeps ==
  ASSUME Inv, GpuPutsBack
  PROVE  FrameInv'
  <1> USE DEF Inv, FrameInv
  <1>0. PICK s \in Submissions, q \in Queues : s = gpu.sub /\ q = s.queue
        BY HeldIsSubmission DEF GpuPutsBack, Holding, Submissions
  <1>1. Holding /\ ~Holding' /\ gpu.at = "blocked"
        BY DEF GpuPutsBack, Holding
  <1>2. serials' = serials /\ submitted' = submitted /\ consumed' = consumed /\ guest' = guest
        BY DEF GpuPutsBack, frames
  <1>3. /\ \A p \in Queues \ {q} : queues'[p] = queues[p]
        /\ queues'[q] = <<[s EXCEPT !.blocked = TRUE]>> \o queues[q]
        BY <1>0 DEF GpuPutsBack, Typed
  <1>4. /\ queues'[q][1].type = s.type /\ queues'[q][1].queue = q
        /\ queues'[q][1].epoch = s.epoch /\ queues'[q][1].serial = s.serial
        /\ \A i \in DOMAIN queues'[q] :
             i = 1 \/ (i - 1 \in DOMAIN queues[q] /\ queues'[q][i] = queues[q][i - 1])
    <2>1. queues'[q] = <<[s EXCEPT !.blocked = TRUE]>> \o queues[s.queue]
          BY <1>0, <1>3
    <2>2. /\ queues'[q][1].type = s.type /\ queues'[q][1].queue = s.queue
          /\ queues'[q][1].epoch = s.epoch /\ queues'[q][1].serial = s.serial
          /\ \A i \in DOMAIN queues'[q] :
               i = 1 \/ (i - 1 \in DOMAIN queues[s.queue] /\ queues'[q][i] = queues[s.queue][i - 1])
          BY <2>1, PutBack
    <2> QED
        BY <2>2, <1>0
  <1>5. /\ DOMAIN queues[q] \subseteq Nat \ {0} /\ DOMAIN queues'[q] \subseteq Nat \ {0}
        /\ 1 \in DOMAIN queues'[q]
        /\ \A i \in DOMAIN queues[q] : i + 1 \in DOMAIN queues'[q] /\ queues'[q][i + 1] = queues[q][i]
    <2>1. queues[q] \in Seq(Submissions) /\ Len(queues[q]) \in Nat
          BY <1>1 DEF Typed
    <2>2. queues'[q] \in Seq(Submissions) /\ Len(queues'[q]) = Len(queues[q]) + 1
      <3>1. [queues EXCEPT ![q] = queues'[q]] \in [Queues -> Seq(Submissions)]
            /\ Len(queues'[q]) = Len(queues[q]) + 1
            BY <1>0, <1>3, PutBack
      <3> QED
          BY <3>1, <1>1 DEF Typed
    <2>3. ASSUME NEW i \in DOMAIN queues[q]
          PROVE  i + 1 \in DOMAIN queues'[q] /\ queues'[q][i + 1] = queues[q][i]
      <3>1. i \in 1 .. Len(queues[q]) /\ i + 1 \in 1 .. Len(queues'[q])
            BY <2>1, <2>2
      <3>2. i + 1 \in DOMAIN queues'[q] /\ i + 1 # 1 /\ i + 1 - 1 = i
            BY <2>2, <3>1
      <3>3. PICK k \in DOMAIN queues'[q] : k = i + 1
            BY <3>2
      <3>4. k # 1 /\ k - 1 = i
            BY <3>1, <3>3, <2>1
      <3>5. queues'[q][k] = queues[q][i]
            BY <3>4, <1>4
      <3> QED
          BY <3>3, <3>5
    <2> QED
        BY <2>1, <2>2, <2>3
  <1>6. /\ s.epoch = consumed /\ consumed <= submitted /\ s.serial <= serials[q]
        /\ \A i \in DOMAIN queues[q] : s.serial < queues[q][i].serial /\ consumed <= queues[q][i].epoch
        /\ s.type = "boundary" =>
             q = 0 /\ \A i \in DOMAIN queues[q] : consumed < queues[q][i].epoch
        BY <1>0, <1>1 DEF HeldOK, QueuesOK, QueueOK
  <1>7. QueueOK(q)'
    <2>1. ASSUME NEW i \in DOMAIN queues'[q]
          PROVE  /\ queues'[q][i].queue = q /\ queues'[q][i].serial <= serials'[q]
                 /\ consumed' <= queues'[q][i].epoch /\ queues'[q][i].epoch <= submitted'
                 /\ queues'[q][i].type = "boundary" => q = 0 /\ queues'[q][i].epoch = consumed'
      <3>1. CASE i = 1
        <4>1. consumed <= consumed
              BY DEF Typed
        <4> QED
            BY <3>1, <4>1, <1>2, <1>4, <1>6
      <3>2. CASE i # 1
            BY <3>2, <1>1, <1>2, <1>4 DEF QueuesOK, QueueOK
      <3> QED
          BY <3>1, <3>2
    <2>2. ASSUME NEW i \in DOMAIN queues'[q], NEW j \in DOMAIN queues'[q], i < j
          PROVE  /\ queues'[q][i].serial < queues'[q][j].serial
                 /\ queues'[q][i].epoch <= queues'[q][j].epoch
                 /\ queues'[q][i].type = "boundary" => queues'[q][i].epoch < queues'[q][j].epoch
      <3>1. j # 1 /\ j - 1 \in DOMAIN queues[q] /\ queues'[q][j] = queues[q][j - 1]
            BY <2>2, <1>4, <1>5
      <3>2. CASE i = 1
            BY <3>1, <3>2, <1>4, <1>6
      <3>3. CASE i # 1
        <4>1. i - 1 \in DOMAIN queues[q] /\ queues'[q][i] = queues[q][i - 1] /\ i - 1 < j - 1
              BY <3>3, <2>2, <1>4, <1>5
        <4> QED
            BY <3>1, <4>1, <1>1 DEF QueuesOK, QueueOK
      <3> QED
          BY <3>2, <3>3
    <2> QED
        BY <2>1, <2>2 DEF QueueOK
  <1>8. QueuesOK'
    <2>1. ASSUME NEW p \in Queues \ {q} PROVE QueueOK(p)'
      <3>1. QueueOK(p) /\ queues'[p] = queues[p]
            BY <1>3 DEF QueuesOK
      <3> QED
          BY <3>1, <1>2 DEF QueueOK
    <2> QED
        BY <2>1, <1>7 DEF QueuesOK
  <1>9. HeldOK'
        BY <1>1 DEF HeldOK
  <1>10. FramesOK'
    <2>1. Published' = Published
          BY <1>2 DEF Published
    <2>2. 0 \in Queues
          BY GpuAssumption DEF Queues
    <2>3. ASSUME Outstanding' PROVE Outstanding
      <3>1. PICK i \in DOMAIN queues'[0] : queues'[0][i].type = "boundary"
            BY <2>3, <1>1 DEF Outstanding
      <3>2. CASE q = 0 /\ i = 1
            BY <3>1, <3>2, <1>0, <1>1, <1>4 DEF Outstanding
      <3>3. CASE q = 0 /\ i # 1
            BY <3>1, <3>3, <1>4 DEF Outstanding
      <3>4. CASE q # 0
            BY <3>1, <3>4, <2>2, <1>3 DEF Outstanding
      <3> QED
          BY <3>2, <3>3, <3>4
    <2>4. ASSUME Outstanding PROVE Outstanding'
      <3>1. CASE s.type = "boundary"
            BY <3>1, <1>4, <1>5, <1>6 DEF Outstanding
      <3>2. CASE \E i \in DOMAIN queues[0] : queues[0][i].type = "boundary"
        <4>1. PICK i \in DOMAIN queues[0] : queues[0][i].type = "boundary"
              BY <3>2
        <4>2. CASE q = 0
              BY <4>1, <4>2, <1>5 DEF Outstanding
        <4>3. CASE q # 0
              BY <4>1, <4>3, <2>2, <1>3 DEF Outstanding
        <4> QED
            BY <4>2, <4>3
      <3> QED
          BY <2>4, <3>1, <3>2, <1>0 DEF Outstanding
    <2> QED
        BY <2>1, <2>3, <2>4, <1>2 DEF FramesOK
  <1> QED
      BY <1>8, <1>9, <1>10

\* A boundary is passed.
LEMMA PassKeeps ==
  ASSUME Inv, PassBoundary
  PROVE  FrameInv'
  <1> USE DEF Inv, FrameInv
  <1>1. Holding /\ gpu.sub.type = "boundary" /\ ~Holding' /\ Outstanding /\ 0 \in Queues
        BY GpuAssumption DEF PassBoundary, Holding, Outstanding, Queues
  <1>2. /\ queues' = queues /\ serials' = serials /\ submitted' = submitted /\ guest' = guest
        /\ consumed' = consumed + 1
        /\ submitted \in Nat /\ consumed \in Nat
        BY DEF PassBoundary, Typed
  <1>3. ASSUME NEW q \in Queues, NEW i \in DOMAIN queues[q]
        PROVE  consumed + 1 <= queues[q][i].epoch /\ queues[q][i].type # "boundary"
    <2>1. queues[q][i].epoch \in Nat
      <3>1. queues[q] \in Seq(Submissions)
            BY DEF Typed
      <3>2. queues[q][i] \in Submissions
            BY <3>1
      <3> QED
          BY <3>2 DEF Submissions
    <2>2. consumed < queues[q][i].epoch
          BY <1>1 DEF HeldOK
    <2>3. queues[q][i].type = "boundary" => queues[q][i].epoch = consumed
          BY DEF QueuesOK, QueueOK
    <2> QED
        BY <2>1, <2>2, <2>3, <1>2
  <1>4. QueuesOK'
        BY <1>2, <1>3 DEF QueuesOK, QueueOK
  <1>5. HeldOK'
        BY <1>1 DEF HeldOK
  <1>6. ~Outstanding'
        BY <1>1, <1>2, <1>3 DEF Outstanding
  <1>7. FramesOK'
    <2>1. Published' <=> Published
          BY <1>2 DEF Published
    <2>2. CASE Published
      <3>1. submitted = consumed - 1 + 1
            BY <1>1, <2>2 DEF FramesOK
      <3>2. submitted' = consumed' - 1 + 0
            BY <3>1, <1>2
      <3> QED
          BY <2>1, <2>2, <3>2, <1>6 DEF FramesOK
    <2>3. CASE ~Published
      <3>1. submitted = consumed + 1
            BY <1>1, <2>3 DEF FramesOK
      <3>2. submitted' = consumed' + 0
            BY <3>1, <1>2
      <3> QED
          BY <2>1, <2>3, <3>2, <1>6 DEF FramesOK
    <2> QED
        BY <2>2, <2>3
  <1> QED
      BY <1>4, <1>5, <1>7

\* Done counts the boundary it has queued.
LEMMA CountKeeps ==
  ASSUME Inv, NEW t \in Guests, DonePublished(t)
  PROVE  FrameInv'
  <1> USE DEF Inv, FrameInv
  <1>1. /\ queues' = queues /\ serials' = serials /\ consumed' = consumed /\ gpu' = gpu
        /\ submitted' = submitted + 1 /\ submitted \in Nat /\ consumed \in Nat
        BY DEF DonePublished, Typed
  <1>2. Published /\ ~Published'
    <2>1. guest[t] = "published" /\ guest' = [guest EXCEPT ![t] = "idle"]
          BY DEF DonePublished
    <2>2. \A u \in Guests : guest[u] = "published" => u = t
          BY <2>1 DEF OwnerInDone, InDone
    <2> QED
        BY <2>1, <2>2 DEF Published, Typed
  <1>3. Outstanding' <=> Outstanding
        BY <1>1 DEF Outstanding, Holding
  <1>4. QueuesOK'
    <2>1. ASSUME NEW q \in Queues, NEW i \in DOMAIN queues[q]
          PROVE  queues[q][i].epoch <= submitted + 1
      <3>1. queues[q] \in Seq(Submissions)
            BY DEF Typed
      <3>2. queues[q][i] \in Submissions
            BY <3>1
      <3>3. queues[q][i].epoch \in Nat
            BY <3>2 DEF Submissions
      <3>4. queues[q][i].epoch <= submitted
            BY DEF QueuesOK, QueueOK
      <3> QED
          BY <3>3, <3>4, <1>1
    <2> QED
        BY <2>1, <1>1 DEF QueuesOK, QueueOK
  <1>5. HeldOK'
    <2>1. consumed <= submitted => consumed <= submitted + 1
          BY <1>1
    <2> QED
        BY <2>1, <1>1 DEF HeldOK, Holding
  <1>6. FramesOK'
    <2>1. CASE Outstanding
      <3>1. submitted = consumed - 1 + 1
            BY <2>1, <1>2 DEF FramesOK
      <3>2. submitted' = consumed' + 1
            BY <3>1, <1>1
      <3> QED
          BY <2>1, <3>2, <1>2, <1>3 DEF FramesOK
    <2>2. CASE ~Outstanding
      <3>1. submitted = consumed - 1 + 0
            BY <2>2, <1>2 DEF FramesOK
      <3>2. submitted' = consumed' + 0
            BY <3>1, <1>1
      <3> QED
          BY <2>2, <3>2, <1>2, <1>3 DEF FramesOK
    <2> QED
        BY <2>1, <2>2
  <1> QED
      BY <1>4, <1>5, <1>6

\* A guest thread goes where it is not inside Done with a boundary, or was.
LEMMA PublishedKept ==
  ASSUME Typed, NEW t \in Guests, NEW place \in Places \ {"published"},
         guest[t] # "published", guest' = [guest EXCEPT ![t] = place]
  PROVE  Published' = Published
  <1>1. \A u \in Guests : guest'[u] = "published" <=> guest[u] = "published"
        BY DEF Typed
  <1> QED
      BY <1>1 DEF Published

\* What the steps with an empty hand have in common.
LEMMA QuietWhenUnchanged ==
  ASSUME Typed, UNCHANGED <<queues, serials, submitted, consumed>>, Published' = Published,
         \/ gpu' = gpu
         \/ ~Holding /\ ~Holding'
         \/ Holding /\ ~Holding' /\ gpu.sub.type # "boundary"
         \/ Holding /\ Holding' /\ Alike(gpu'.sub, gpu.sub)
  PROVE  Quiet
  <1>1. Holding' => Holding /\ Alike(gpu'.sub, gpu.sub)
        BY DEF Holding, Alike
  <1>2. Holding /\ gpu.sub.type = "boundary" => Holding'
        BY DEF Holding
  <1> QED
      BY <1>1, <1>2 DEF Quiet, Alike

\* Every step keeps the frames.
LEMMA FrameStep ==
  ASSUME Inv, [Next]_vars
  PROVE  FrameInv'
  <1> USE DEF Inv
  <1>0. guest' = guest => Published' = Published
        BY DEF Published
  <1>1. CASE UNCHANGED vars
    <2>1. Quiet
          BY <1>0, <1>1, QuietWhenUnchanged DEF vars, frames
    <2> QED
        BY <2>1, QuietKeeps
  <1>2. ASSUME NEW t \in Submitters, NEW q \in Queues, NEW program \in Programs, Submit(t, q, program)
        PROVE  FrameInv'
    <2>1. program \in Seq(Packets)
          BY GpuAssumption DEF Packets
    <2>2. PICK type \in {"graphics", "compute"} : Enqueue(q, type, program)
          BY <1>2 DEF Submit
    <2>3. ~Published /\ ~Published' /\ type # "boundary"
          BY <1>0, <1>2, GpuAssumption DEF Submit, Published, OwnerInDone, InDone
    <2>4. UNCHANGED <<submitted, consumed, gpu>>
          BY <1>2 DEF Submit, frames
    <2>5. type \in {"graphics", "compute", "flip", "boundary"} /\ (Published' <=> type = "boundary")
          BY <2>3
    <2> QED
        BY <2>1, <2>2, <2>3, <2>4, <2>5, EnqueueKeeps
  <1>3. ASSUME NEW t \in Submitters, SubmitFlipPreparation(t)
        PROVE  FrameInv'
    <2>1. <<>> \in Seq(Packets) /\ 0 \in Queues
          BY GpuAssumption DEF Queues
    <2>2. Enqueue(0, "flip", <<>>) /\ UNCHANGED <<submitted, consumed, gpu>>
          BY <1>3 DEF SubmitFlipPreparation, frames
    <2>3. ~Published /\ ~Published'
          BY <1>0, <1>3, GpuAssumption DEF SubmitFlipPreparation, Published, OwnerInDone, InDone
    <2>4. Published' <=> "flip" = "boundary"
          BY <2>3
    <2> QED
        BY <2>1, <2>2, <2>3, <2>4, EnqueueKeeps
  <1>4. ASSUME NEW t \in Submitters, NEW pipelined \in BOOLEAN, DoneBegins(t, pipelined)
        PROVE  FrameInv'
    <2>1. t \in Guests /\ guest[t] # "published" /\ gpu' = gpu
          /\ guest' = [guest EXCEPT ![t] = IF pipelined THEN "waits" ELSE "drains"]
          /\ UNCHANGED <<queues, serials, submitted, consumed>>
          BY <1>4 DEF DoneBegins, Guests, frames
    <2>2. (IF pipelined THEN "waits" ELSE "drains") \in Places \ {"published"}
          BY DEF Places
    <2>3. Published' = Published
          BY <2>1, <2>2, PublishedKept
    <2>4. Quiet
          BY <2>1, <2>3, QuietWhenUnchanged
    <2> QED
        BY <2>4, QuietKeeps
  <1>5. ASSUME NEW t \in Guests, PublishBoundary(t)
        PROVE  FrameInv'
    <2>1. <<>> \in Seq(Packets) /\ 0 \in Queues
          BY GpuAssumption DEF Queues
    <2>2. Enqueue(0, "boundary", <<>>) /\ UNCHANGED <<submitted, consumed, gpu>> /\ submitted = consumed
          BY <1>5 DEF PublishBoundary, frames
    <2>3. guest[t] = "waits" /\ guest' = [guest EXCEPT ![t] = "published"]
          BY <1>5 DEF PublishBoundary
    <2>4. ~Published
          BY <2>3 DEF Published, OwnerInDone, InDone
    <2>5. Published'
      <3>1. guest'[t] = "published"
            BY <2>3 DEF Typed
      <3> QED
          BY <3>1 DEF Published
    <2> QED
        BY <2>1, <2>2, <2>4, <2>5, EnqueueKeeps
  <1>6. ASSUME NEW t \in Guests, DonePublished(t)
        PROVE  FrameInv'
        BY <1>6, CountKeeps
  <1>7. ASSUME NEW t \in Guests, NEW place \in Places \ {"published"},
               guest[t] # "published", guest' = [guest EXCEPT ![t] = place],
               UNCHANGED <<queues, serials, submitted, consumed, gpu>>
        PROVE  FrameInv'
    <2>1. Published' = Published
          BY <1>7, PublishedKept
    <2>2. Quiet
          BY <1>7, <2>1, QuietWhenUnchanged
    <2> QED
        BY <2>2, QuietKeeps
  <1>8. ASSUME NEW t \in Submitters, DoneDrained(t)
        PROVE  FrameInv'
        BY <1>7, <1>8 DEF DoneDrained, Places, Guests, frames
  <1>9. ASSUME NEW t \in Callers, SendCommandSync(t)
        PROVE  FrameInv'
        BY <1>7, <1>9 DEF SendCommandSync, Places, Guests, frames
  <1>10. ASSUME NEW t \in Guests, SpinSees(t) \/ SpinGivesUp(t) \/ CallerTests(t)
         PROVE  FrameInv'
    <2>1. PICK place \in Places \ {"published"} : guest' = [guest EXCEPT ![t] = place] /\ guest[t] # "published"
          BY <1>10 DEF SpinSees, SpinGivesUp, CallerTests, Places
    <2>2. UNCHANGED <<queues, serials, submitted, consumed, gpu>>
          BY <1>10 DEF SpinSees, SpinGivesUp, CallerTests, frames
    <2> QED
        BY <1>7, <2>1, <2>2
  <1>11. CASE GpuStops \/ GpuEndsCommand \/ GpuBacksOff \/ GpuTakesCommand
    <2>1. guest' = guest /\ UNCHANGED <<queues, serials, submitted, consumed>>
          BY <1>11 DEF GpuStops, GpuEndsCommand, GpuBacksOff, GpuTakesCommand, frames
    <2>2. ~Holding
          BY <1>11 DEF GpuStops, GpuEndsCommand, GpuBacksOff, GpuTakesCommand, Holding
    <2>3. gpu'.at \in {"stopped", "loop", "backs off", "command"}
      <3>1. CASE GpuTakesCommand
            BY <3>1 DEF GpuTakesCommand
      <3>2. CASE GpuStops
            BY <3>2 DEF GpuStops
      <3>3. CASE GpuEndsCommand
            BY <3>3 DEF GpuEndsCommand
      <3>4. CASE GpuBacksOff
            BY <3>4 DEF GpuBacksOff
      <3> QED
          BY <1>11, <3>1, <3>2, <3>3, <3>4
    <2>4. ~Holding'
          BY <2>3 DEF Holding
    <2>5. Quiet
          BY <1>0, <2>1, <2>2, <2>4, QuietWhenUnchanged
    <2> QED
        BY <2>5, QuietKeeps
  <1>12. CASE GpuRunsCommand
    <2>1. gpu.of \in Guests /\ RunCommand(gpu.of) /\ owner' = owner
          BY <1>12, GpuIsTyped DEF GpuRunsCommand
    <2>2. \A u \in Guests : (guest'[u] = "published") <=> (guest[u] = "published")
          BY <2>1, RunCommandKeeps
    <2>3. Published' = Published
          BY <2>2 DEF Published
    <2>4. ~Holding /\ ~Holding' /\ UNCHANGED <<queues, serials, submitted, consumed>>
          BY <1>12 DEF GpuRunsCommand, Holding, frames
    <2>5. Quiet
          BY <2>3, <2>4, QuietWhenUnchanged
    <2> QED
        BY <2>5, QuietKeeps
  <1>13. CASE ProcessCommands
    <2>1. Head(commands) \in Guests /\ RunCommand(Head(commands)) /\ owner' = owner
          BY <1>13 DEF ProcessCommands, Typed
    <2>2. \A u \in Guests : (guest'[u] = "published") <=> (guest[u] = "published")
          BY <2>1, RunCommandKeeps
    <2>3. Published' = Published
          BY <2>2 DEF Published
    <2>4. gpu' = gpu /\ UNCHANGED <<queues, serials, submitted, consumed>>
          BY <1>13 DEF ProcessCommands, frames
    <2>5. Quiet
          BY <2>3, <2>4, QuietWhenUnchanged
    <2> QED
        BY <2>5, QuietKeeps
  <1>14. ASSUME NEW q \in Queues, GpuTakes(q)
         PROVE  FrameInv'
         BY <1>14, TakeKeeps
  <1>15. CASE GpuRetries \/ GpuCompletes
    <2>1. guest' = guest /\ UNCHANGED <<serials, submitted, consumed>> /\ queues' = Unblocked
          /\ gpu' = [at |-> "loop"] /\ gpu.at \in {"backs off", "complete"}
          BY <1>15 DEF GpuRetries, GpuCompletes, frames
    <2>4. ~Holding /\ ~Holding'
          BY <2>1 DEF Holding
    <2>2. \A q \in Queues : /\ DOMAIN queues'[q] = DOMAIN queues[q]
                            /\ \A i \in DOMAIN queues[q] : Alike(queues'[q][i], queues[q][i])
          BY <2>1, UnblockedKeeps DEF Alike
    <2>3. Quiet
          BY <1>0, <2>1, <2>2, <2>4 DEF Quiet
    <2> QED
        BY <2>3, QuietKeeps
  <1>16. CASE PassBoundary
         BY <1>16, PassKeeps
  <1>17. CASE ProcessPacket
    <2>1. gpu \in [at : {"runs"}, sub : Submissions, progressed : BOOLEAN] /\ Holding
          BY <1>17, GpuIsTyped DEF ProcessPacket, Holding
    <2>2. gpu' = [gpu EXCEPT !.sub.rest = Tail(@), !.progressed = TRUE]
          BY <1>17 DEF ProcessPacket
    <2>3. gpu'.at = gpu.at /\ gpu'.sub = [gpu.sub EXCEPT !.rest = Tail(@)]
          BY <2>1, <2>2
    <2>4. Holding' /\ Alike(gpu'.sub, gpu.sub)
          BY <2>1, <2>3 DEF Holding, Alike, Submissions
    <2>5. guest' = guest /\ UNCHANGED <<queues, serials, submitted, consumed>>
          BY <1>17 DEF ProcessPacket, frames
    <2>6. Quiet
          BY <1>0, <2>1, <2>4, <2>5, QuietWhenUnchanged
    <2> QED
        BY <2>6, QuietKeeps
  <1>18. CASE ProcessBlocks
    <2>1. Holding /\ Holding' /\ gpu'.sub = gpu.sub
          BY <1>18 DEF ProcessBlocks, Holding
    <2>2. guest' = guest /\ UNCHANGED <<queues, serials, submitted, consumed>>
          BY <1>18 DEF ProcessBlocks, frames
    <2>3. Quiet
          BY <1>0, <2>1, <2>2, QuietWhenUnchanged DEF Alike
    <2> QED
        BY <2>3, QuietKeeps
  <1>19. CASE ProcessCompletes
    <2>1. Holding /\ ~Holding' /\ gpu.sub.type # "boundary"
          BY <1>19 DEF ProcessCompletes, Holding
    <2>2. guest' = guest /\ UNCHANGED <<queues, serials, submitted, consumed>>
          BY <1>19 DEF ProcessCompletes, frames
    <2>3. Quiet
          BY <1>0, <2>1, <2>2, QuietWhenUnchanged
    <2> QED
        BY <2>3, QuietKeeps
  <1>20. CASE GpuPutsBack
         BY <1>20, PutBackKeeps
  <1>21. CASE (\E l \in Labels : LabelWritten(l)) \/ Shutdown
    <2>1. guest' = guest /\ gpu' = gpu /\ UNCHANGED <<queues, serials, submitted, consumed>>
          BY <1>21 DEF LabelWritten, Shutdown, frames
    <2>2. Quiet
          BY <1>0, <2>1, QuietWhenUnchanged
    <2> QED
        BY <2>2, QuietKeeps
  <1> QED
      BY <1>1, <1>2, <1>3, <1>4, <1>5, <1>6, <1>8, <1>9, <1>10, <1>11, <1>12, <1>13, <1>14,
         <1>15, <1>16, <1>17, <1>18, <1>19, <1>20, <1>21 DEF Next, Continues, GpuThread

\* At first nothing is queued and no frame is ended.
LEMMA InitHasFrames == Init => FrameInv
  <1> SUFFICES ASSUME Init PROVE FrameInv
      OBVIOUS
  <1>1. \A q \in Queues : queues[q] = <<>>
        BY DEF Init
  <1>2. ~Published /\ ~Holding /\ 0 \in Queues
        BY GpuAssumption DEF Init, Published, Holding, Queues
  <1>3. ~Outstanding
        BY <1>1, <1>2 DEF Outstanding
  <1> QED
      BY <1>1, <1>2, <1>3 DEF FrameInv, QueuesOK, QueueOK, HeldOK, FramesOK, Init

\* Types, who holds m_submission_mutex and the frames, together inductive.
THEOREM InvHolds == Spec => []Inv
  <1>1. Init => Inv
        BY InitIsTyped, InitHasFrames DEF Inv
  <1>2. Inv /\ [Next]_vars => Inv'
        BY TypesStep, FrameStep DEF Inv
  <1> QED
      BY <1>1, <1>2, PTL DEF Spec

\* No submission is processed before one that its queue had before it or that
\* is of an earlier frame, and a frame's boundary after all of the frame.
THEOREM NothingIsOvertaken == Spec => []NothingOvertakes
  <1>1. Inv => NothingOvertakes
    <2> SUFFICES ASSUME Inv, gpu.at = "runs", NEW q \in Queues, NEW i \in DOMAIN queues[q]
                 PROVE  /\ queues[q][i].epoch >= gpu.sub.epoch
                        /\ q = gpu.sub.queue => queues[q][i].serial > gpu.sub.serial
                        /\ gpu.sub.type = "boundary" => queues[q][i].epoch > gpu.sub.epoch
        BY DEF NothingOvertakes
    <2> USE DEF Inv, FrameInv
    <2>1. gpu.sub \in Submissions /\ Holding
          BY HeldIsSubmission DEF Holding
    <2>2. queues[q][i] \in Submissions
      <3>1. queues[q] \in Seq(Submissions)
            BY DEF Typed
      <3> QED
          BY <3>1
    <2>3. /\ queues[q][i].epoch \in Nat /\ queues[q][i].serial \in Nat
          /\ gpu.sub.epoch \in Nat /\ gpu.sub.serial \in Nat
          BY <2>1, <2>2 DEF Submissions
    <2>4. gpu.sub.epoch = consumed /\ consumed <= queues[q][i].epoch
          BY <2>1 DEF HeldOK, QueuesOK, QueueOK
    <2>5. q = gpu.sub.queue => gpu.sub.serial < queues[q][i].serial
          BY <2>1 DEF HeldOK
    <2>6. gpu.sub.type = "boundary" => consumed < queues[q][i].epoch
          BY <2>1 DEF HeldOK
    <2> QED
        BY <2>3, <2>4, <2>5, <2>6
  <1> QED
      BY <1>1, InvHolds, PTL

\* The guest threads are one frame ahead of the GPU thread at most.
THEOREM FramesAreOneAhead == Spec => []OneFrameAhead
  <1>1. Inv => OneFrameAhead
    <2> SUFFICES ASSUME Inv PROVE OneFrameAhead
        OBVIOUS
    <2> USE DEF Inv, FrameInv
    <2>1. submitted - consumed \in {-1, 0, 1}
          BY DEF FramesOK, Typed
    <2>2. ASSUME NEW q \in Queues, NEW i \in DOMAIN queues[q]
          PROVE  queues[q][i].epoch \in consumed .. submitted
      <3>1. queues[q] \in Seq(Submissions)
            BY DEF Typed
      <3>2. queues[q][i] \in Submissions
            BY <3>1
      <3>3. consumed <= queues[q][i].epoch /\ queues[q][i].epoch <= submitted
            BY DEF QueuesOK, QueueOK
      <3> QED
          BY <3>2, <3>3 DEF Submissions, Typed
    <2> QED
        BY <2>1, <2>2 DEF OneFrameAhead
  <1> QED
      BY <1>1, InvHolds, PTL

(***************************************************************************)
(* The count, the mutex of Done and m_processing.                          *)
(***************************************************************************)

CountOK == IsFiniteSet(Queued) /\ count = Cardinality(Queued)

\* Whoever holds m_submission_mutex is inside Done.
HolderInDone == owner # None => guest[owner] \in InDone

\* m_processing is set wherever the GPU thread has something, and it backs off
\* only when something is queued.
ProcessingOK ==
  /\ gpu.at \in {"runs", "blocked", "command", "after command", "complete"} => processing
  /\ gpu.at = "backs off" => count # 0

Steady == CountOK /\ HolderInDone /\ ProcessingOK

LEMMA QueuedIs ==
  /\ \A p, i : <<p, i>> \in Queued <=> p \in Queues /\ i \in DOMAIN queues[p]
  /\ \A e \in Queued : e = <<e[1], e[2]>>
  BY DEF Queued

\* The queues are as long as they were.
LEMMA SameLengths ==
  ASSUME \A p \in Queues : DOMAIN queues'[p] = DOMAIN queues[p]
  PROVE  Queued' = Queued
  BY DEF Queued

\* A queue got a submission.
LEMMA OneMore ==
  ASSUME Typed, Typed', CountOK, NEW q \in Queues, Len(queues'[q]) = Len(queues[q]) + 1,
         \A p \in Queues \ {q} : queues'[p] = queues[p], count' = count + 1
  PROVE  CountOK' /\ count' # 0
  <1> DEFINE n == Len(queues[q]) + 1
  <1>1. n \in Nat \ {0} /\ DOMAIN queues[q] = 1 .. n - 1 /\ DOMAIN queues'[q] = 1 .. n
    <2>1. queues[q] \in Seq(Submissions) /\ queues'[q] \in Seq(Submissions)
          BY DEF Typed
    <2> QED
        BY <2>1
  <1> HIDE DEF n
  <1>2. DOMAIN queues'[q] = DOMAIN queues[q] \cup {n} /\ n \notin DOMAIN queues[q]
        BY <1>1
  <1>3. Queued' = Queued \cup {<<q, n>>}
        BY <1>2 DEF Queued
  <1>4. <<q, n>> \notin Queued
        BY <1>2, QueuedIs
  <1>5. IsFiniteSet(Queued') /\ Cardinality(Queued') = Cardinality(Queued) + 1
        BY <1>3, <1>4, FS_AddElement DEF CountOK
  <1>6. Cardinality(Queued) \in Nat
        BY FS_CardinalityType DEF CountOK
  <1> QED
      BY <1>5, <1>6 DEF CountOK

\* A queue lost a submission.
LEMMA OneLess ==
  ASSUME Typed, Typed', CountOK, NEW q \in Queues, queues[q] # <<>>,
         Len(queues'[q]) = Len(queues[q]) - 1,
         \A p \in Queues \ {q} : queues'[p] = queues[p], count' = count - 1
  PROVE  CountOK'
  <1> DEFINE n == Len(queues[q])
  <1>1. n \in Nat \ {0} /\ DOMAIN queues[q] = 1 .. n /\ DOMAIN queues'[q] = 1 .. n - 1
    <2>1. queues[q] \in Seq(Submissions) /\ queues'[q] \in Seq(Submissions)
          BY DEF Typed
    <2> QED
        BY <2>1
  <1> HIDE DEF n
  <1>2. DOMAIN queues'[q] = DOMAIN queues[q] \ {n} /\ n \in DOMAIN queues[q]
        BY <1>1
  <1>3. Queued' = Queued \ {<<q, n>>}
    <2>1. ASSUME NEW p \in Queues PROVE {p} \X DOMAIN queues'[p] = ({p} \X DOMAIN queues[p]) \ {<<q, n>>}
          BY <1>2
    <2> QED
        BY <2>1 DEF Queued
  <1>4. <<q, n>> \in Queued
        BY <1>2, QueuedIs
  <1>5. IsFiniteSet(Queued') /\ Cardinality(Queued') = Cardinality(Queued) - 1
        BY <1>3, <1>4, FS_RemoveElement DEF CountOK
  <1> QED
      BY <1>5 DEF CountOK

\* At first nothing is queued.
LEMMA InitIsSteady == Init => Steady
  <1> SUFFICES ASSUME Init PROVE Steady
      OBVIOUS
  <1>1. \A q \in Queues : queues[q] = <<>>
        BY DEF Init
  <1>2. Queued = {}
        BY <1>1 DEF Queued
  <1>3. CountOK
        BY <1>2, FS_EmptySet DEF CountOK, Init
  <1> QED
      BY <1>3 DEF Steady, HolderInDone, ProcessingOK, Init

\* A step keeps the count in step with the queues.
LEMMA CountStep ==
  ASSUME Typed, Typed', CountOK, [Next]_vars
  PROVE  /\ CountOK'
         /\ \/ count' = count
            \/ gpu.at = "loop"
            \/ count' = count + 1 /\ count' # 0
  <1>0. UNCHANGED <<queues, count>> => CountOK' /\ count' = count
        BY SameLengths DEF CountOK
  <1>1. CASE UNCHANGED vars
        BY <1>0, <1>1 DEF vars
  <1>2. ASSUME NEW q \in Queues, NEW type \in {"graphics", "compute", "flip", "boundary"},
               NEW program \in Seq(Packets), Enqueue(q, type, program)
        PROVE  CountOK' /\ count' = count + 1 /\ count' # 0
    <2>1. Len(queues'[q]) = Len(queues[q]) + 1 /\ \A p \in Queues \ {q} : queues'[p] = queues[p]
          BY <1>2, EnqueueAppends
    <2> QED
        BY <1>2, <2>1, OneMore DEF Enqueue
  <1>3. <<>> \in Seq(Packets) /\ 0 \in Queues
        BY GpuAssumption DEF Queues
  <1>4. ASSUME NEW t \in Submitters, NEW q \in Queues, NEW program \in Programs, Submit(t, q, program)
        PROVE  CountOK' /\ count' = count + 1 /\ count' # 0
    <2>1. program \in Seq(Packets)
          BY GpuAssumption DEF Packets
    <2> QED
        BY <1>2, <1>4, <2>1 DEF Submit
  <1>5. ASSUME NEW t \in Guests, SubmitFlipPreparation(t) \/ PublishBoundary(t)
        PROVE  CountOK' /\ count' = count + 1 /\ count' # 0
        BY <1>2, <1>3, <1>5 DEF SubmitFlipPreparation, PublishBoundary
  <1>6. CASE \E t \in Submitters : \/ SubmitFlipPreparation(t) \/ DoneDrained(t)
                                   \/ \E pipelined \in BOOLEAN : DoneBegins(t, pipelined)
        BY <1>0, <1>5, <1>6 DEF Guests, DoneDrained, DoneBegins
  <1>7. CASE \/ \E t \in Callers : SendCommandSync(t)
             \/ \E t \in Guests : Continues(t)
        BY <1>0, <1>5, <1>7 DEF SendCommandSync, Continues, DonePublished, SpinSees, SpinGivesUp, CallerTests
  <1>8. CASE \/ GpuStops \/ GpuTakesCommand \/ GpuRunsCommand \/ GpuEndsCommand \/ GpuBacksOff
             \/ PassBoundary \/ ProcessCommands \/ ProcessPacket \/ ProcessBlocks \/ ProcessCompletes
        BY <1>0, <1>8 DEF GpuStops, GpuTakesCommand, GpuRunsCommand, GpuEndsCommand, GpuBacksOff,
             PassBoundary, ProcessCommands, ProcessPacket, ProcessBlocks, ProcessCompletes
  <1>9. ASSUME NEW q \in Queues, GpuTakes(q)
        PROVE  CountOK' /\ gpu.at = "loop"
    <2>1. queues[q] # <<>> /\ queues' = [queues EXCEPT ![q] = Tail(@)] /\ count' = count - 1
          BY <1>9 DEF GpuTakes, Selected, Selectable
    <2>2. Len(queues'[q]) = Len(queues[q]) - 1 /\ \A p \in Queues \ {q} : queues'[p] = queues[p]
          BY <2>1, TakenFrom DEF Typed
    <2>3. CountOK'
          BY <2>1, <2>2, OneLess
    <2> QED
        BY <1>9, <2>3 DEF GpuTakes
  <1>10. CASE GpuRetries \/ GpuCompletes
    <2>1. queues' = Unblocked /\ count' = count
          BY <1>10 DEF GpuRetries, GpuCompletes
    <2>2. Queued' = Queued
          BY <2>1, UnblockedKeeps, SameLengths
    <2> QED
        BY <2>1, <2>2 DEF CountOK
  <1>11. CASE GpuPutsBack
    <2> DEFINE s == gpu.sub
               r == <<[s EXCEPT !.blocked = TRUE]>> \o queues[s.queue]
    <2>1. s \in Submissions
          BY <1>11, HeldIsSubmission DEF GpuPutsBack, Holding
    <2>2. queues' = [queues EXCEPT ![s.queue] = r] /\ count' = count + 1
          BY <1>11 DEF GpuPutsBack
    <2>3. Len(r) = Len(queues[s.queue]) + 1
          BY <2>1, PutBack
    <2>4. s.queue \in Queues
          BY <2>1 DEF Submissions
    <2> HIDE DEF s, r
    <2>5. queues'[s.queue] = r /\ \A p \in Queues \ {s.queue} : queues'[p] = queues[p]
          BY <2>2, <2>4 DEF Typed
    <2> QED
        BY <2>2, <2>3, <2>4, <2>5, OneMore
  <1>12. CASE (\E l \in Labels : LabelWritten(l)) \/ Shutdown
         BY <1>0, <1>12 DEF LabelWritten, Shutdown
  <1> QED
      BY <1>1, <1>4, <1>6, <1>7, <1>8, <1>9, <1>10, <1>11, <1>12 DEF Next, GpuThread

\* A guest thread that goes on leaves m_submission_mutex to its holder, or is
\* the holder.
LEMMA HolderStep ==
  ASSUME Typed, Typed', OwnerInDone, HolderInDone, [Next]_vars
  PROVE  HolderInDone'
  <1>0. guest' = guest /\ owner' = owner => HolderInDone'
        BY DEF HolderInDone
  <1>00. None \notin Guests
        BY GpuAssumption
  <1>1. CASE UNCHANGED vars
        BY <1>0, <1>1 DEF vars
  <1>2. ASSUME NEW t \in Guests, owner' = owner, guest[t] \notin InDone,
               NEW place, guest' = [guest EXCEPT ![t] = place]
        PROVE  HolderInDone'
        BY <1>2 DEF HolderInDone, Typed
  <1>3. ASSUME NEW t \in Guests, RunCommand(t), owner' = owner
        PROVE  HolderInDone'
    <2>1. guest' = guest \/ (guest' = [guest EXCEPT ![t] = "tests"] /\ guest[t] \notin InDone)
          BY <1>3 DEF RunCommand, InDone
    <2> QED
        BY <1>0, <1>2, <1>3, <2>1
  <1>4. CASE \E t \in Submitters : \/ \E q \in Queues, program \in Programs : Submit(t, q, program)
                                   \/ SubmitFlipPreparation(t)
        BY <1>0, <1>4 DEF Submit, SubmitFlipPreparation
  <1>5. ASSUME NEW t \in Submitters, NEW pipelined \in BOOLEAN, DoneBegins(t, pipelined)
        PROVE  HolderInDone'
    <2>1. owner' = t /\ t \in Guests /\ guest' = [guest EXCEPT ![t] = IF pipelined THEN "waits" ELSE "drains"]
          BY <1>5 DEF DoneBegins, Guests
    <2> QED
        BY <2>1 DEF HolderInDone, InDone, Typed
  <1>6. ASSUME NEW t \in Guests, PublishBoundary(t)
        PROVE  HolderInDone'
    <2>1. owner' = owner /\ guest' = [guest EXCEPT ![t] = "published"] /\ guest[t] \in InDone
          BY <1>6 DEF PublishBoundary, InDone
    <2>2. owner = t
          BY <2>1 DEF OwnerInDone
    <2> QED
        BY <2>1, <2>2 DEF HolderInDone, InDone, Typed
  <1>7. CASE \/ \E t \in Guests : DonePublished(t)
             \/ \E t \in Submitters : DoneDrained(t)
        BY <1>7 DEF DonePublished, DoneDrained, HolderInDone
  <1>8. ASSUME NEW t \in Guests, SpinSees(t) \/ SpinGivesUp(t) \/ CallerTests(t) \/ SendCommandSync(t)
        PROVE  HolderInDone'
    <2>1. guest[t] \notin InDone /\ owner' = owner
          BY <1>8 DEF SpinSees, SpinGivesUp, CallerTests, SendCommandSync, InDone
    <2>2. \E place : guest' = [guest EXCEPT ![t] = place]
          BY <1>8 DEF SpinSees, SpinGivesUp, CallerTests, SendCommandSync
    <2> QED
        BY <1>2, <2>1, <2>2
  <1>9. CASE \E t \in Callers : SendCommandSync(t)
        BY <1>8, <1>9 DEF Guests
  <1>10. CASE \/ GpuStops \/ GpuTakesCommand \/ GpuEndsCommand \/ GpuBacksOff \/ GpuRetries
              \/ PassBoundary \/ ProcessPacket \/ ProcessBlocks \/ ProcessCompletes
              \/ GpuPutsBack \/ GpuCompletes \/ Shutdown
              \/ \E q \in Queues : GpuTakes(q)
              \/ \E l \in Labels : LabelWritten(l)
         BY <1>0, <1>10 DEF GpuStops, GpuTakesCommand, GpuEndsCommand, GpuBacksOff, GpuRetries,
              PassBoundary, ProcessPacket, ProcessBlocks, ProcessCompletes, GpuPutsBack,
              GpuCompletes, Shutdown, GpuTakes, LabelWritten
  <1>11. CASE GpuRunsCommand
    <2>1. gpu.of \in Guests /\ RunCommand(gpu.of) /\ owner' = owner
          BY <1>11, GpuIsTyped DEF GpuRunsCommand
    <2> QED
        BY <1>3, <2>1
  <1>12. CASE ProcessCommands
    <2>1. Head(commands) \in Guests /\ RunCommand(Head(commands)) /\ owner' = owner
          BY <1>12 DEF ProcessCommands, Typed
    <2> QED
        BY <1>3, <2>1
  <1> QED
      BY <1>1, <1>4, <1>5, <1>6, <1>7, <1>8, <1>9, <1>10, <1>11, <1>12 DEF Next, Continues, GpuThread

\* The GPU thread clears m_processing only when it has nothing.
LEMMA ProcessingStep ==
  ASSUME Typed, Typed', CountOK, ProcessingOK, [Next]_vars
  PROVE  ProcessingOK'
  <1>0. ASSUME gpu' = gpu, processing' = processing, gpu.at = "backs off" => count' # 0
        PROVE  ProcessingOK'
        BY <1>0 DEF ProcessingOK
  <1>1. CASE UNCHANGED <<gpu, processing>>
    <2>1. \/ count' = count
          \/ gpu.at = "loop"
          \/ count' = count + 1 /\ count' # 0
          BY CountStep
    <2> QED
        BY <1>0, <1>1, <2>1 DEF ProcessingOK
  <1>2. CASE \/ UNCHANGED vars
             \/ \E t \in Submitters : \/ \E q \in Queues, program \in Programs : Submit(t, q, program)
                                      \/ SubmitFlipPreparation(t)
                                      \/ \E pipelined \in BOOLEAN : DoneBegins(t, pipelined)
                                      \/ DoneDrained(t)
             \/ \E t \in Callers : SendCommandSync(t)
             \/ \E t \in Guests : Continues(t)
             \/ \E l \in Labels : LabelWritten(l)
             \/ Shutdown \/ ProcessCommands
        BY <1>1, <1>2 DEF vars, Submit, SubmitFlipPreparation, DoneBegins, DoneDrained,
             SendCommandSync, Continues, PublishBoundary, DonePublished, SpinSees, SpinGivesUp,
             CallerTests, LabelWritten, Shutdown, ProcessCommands
  <1>3. CASE GpuStops \/ GpuEndsCommand \/ GpuRetries \/ GpuPutsBack \/ GpuCompletes
    <2>1. gpu' = [at |-> "stopped"] \/ gpu' = [at |-> "loop"]
          BY <1>3 DEF GpuStops, GpuEndsCommand, GpuRetries, GpuPutsBack, GpuCompletes
    <2>2. gpu'.at \in {"stopped", "loop"}
          BY <2>1
    <2> QED
        BY <2>2 DEF ProcessingOK
  <1>4. CASE GpuTakesCommand \/ \E q \in Queues : GpuTakes(q)
    <2>1. gpu'.at \in {"command", "runs"} /\ processing'
          BY <1>4 DEF GpuTakesCommand, GpuTakes
    <2> QED
        BY <2>1 DEF ProcessingOK
  <1>5. CASE GpuBacksOff
        BY <1>5 DEF ProcessingOK, GpuBacksOff
  <1>6. CASE GpuRunsCommand
        BY <1>6 DEF ProcessingOK, GpuRunsCommand
  <1>7. CASE PassBoundary \/ ProcessBlocks \/ ProcessCompletes
    <2>1. gpu.at = "runs" /\ gpu'.at \in {"complete", "blocked"} /\ processing' = processing
      <3>1. CASE PassBoundary
            BY <3>1 DEF PassBoundary
      <3>2. CASE ProcessBlocks
            BY <3>2 DEF ProcessBlocks
      <3>3. CASE ProcessCompletes
            BY <3>3 DEF ProcessCompletes
      <3> QED
          BY <1>7, <3>1, <3>2, <3>3
    <2> QED
        BY <2>1 DEF ProcessingOK
  <1>8. CASE ProcessPacket
    <2>1. gpu \in [at : {"runs"}, sub : Submissions, progressed : BOOLEAN]
          BY <1>8, GpuIsTyped DEF ProcessPacket
    <2>2. gpu'.at = "runs" /\ processing' = processing /\ gpu.at = "runs"
          BY <1>8, <2>1 DEF ProcessPacket
    <2> QED
        BY <2>2 DEF ProcessingOK
  <1> QED
      BY <1>2, <1>3, <1>4, <1>5, <1>6, <1>7, <1>8 DEF Next, GpuThread

\* All of it, for every number of threads and queues.
THEOREM SteadyHolds == Spec => [](Inv /\ Steady)
  <1>1. Init => Inv /\ Steady
        BY InitIsTyped, InitHasFrames, InitIsSteady DEF Inv
  <1>2. Inv /\ Steady /\ [Next]_vars => (Inv /\ Steady)'
    <2> SUFFICES ASSUME Inv, Steady, [Next]_vars PROVE Inv' /\ Steady'
        OBVIOUS
    <2>1. Inv'
          BY TypesStep, FrameStep DEF Inv
    <2>2. CountOK'
          BY <2>1, CountStep DEF Inv, Steady
    <2>3. HolderInDone'
          BY <2>1, HolderStep DEF Inv, Steady
    <2>4. ProcessingOK'
          BY <2>1, ProcessingStep DEF Inv, Steady
    <2> QED
        BY <2>1, <2>2, <2>3, <2>4 DEF Steady
  <1> QED
      BY <1>1, <1>2, PTL DEF Spec

\* m_submission_count counts what is queued, m_submission_mutex is held by who
\* is in Done, and m_processing is set while the GPU thread has something.
THEOREM WorkIsCounted == Spec => []TypeOK
  <1>1. Inv /\ Steady /\ OneFrameAhead => TypeOK
    <2> SUFFICES ASSUME Inv, Steady, OneFrameAhead PROVE TypeOK
        OBVIOUS
    <2>1. ASSUME owner # None PROVE \E t \in Guests : guest[t] \in {"waits", "drains", "published"}
          BY <2>1 DEF Inv, Typed, Steady, HolderInDone, InDone
    <2>2. ASSUME NEW t \in Guests, guest[t] \in {"waits", "drains", "published"} PROVE owner # None
          BY <2>2, GpuAssumption DEF Inv, OwnerInDone, InDone
    <2> QED
        BY <2>1, <2>2 DEF TypeOK, Steady, CountOK, ProcessingOK
  <1> QED
      BY <1>1, SteadyHolds, FramesAreOneAhead, PTL

\* A count of zero means that every queue is empty.
LEMMA NothingQueued ==
  ASSUME Typed, CountOK, count = 0
  PROVE  \A q \in Queues : queues[q] = <<>>
  <1> SUFFICES ASSUME NEW q \in Queues PROVE queues[q] = <<>>
      OBVIOUS
  <1>1. Queued = {}
        BY FS_EmptySet DEF CountOK
  <1>2. DOMAIN queues[q] = {}
        BY <1>1, QueuedIs
  <1>3. queues[q] \in Seq(Submissions)
        BY DEF Typed
  <1>4. Len(queues[q]) \in Nat /\ DOMAIN queues[q] = 1 .. Len(queues[q])
        BY <1>3
  <1>5. Len(queues[q]) = 0
    <2>1. Len(queues[q]) > 0 => 1 \in DOMAIN queues[q]
          BY <1>4
    <2> QED
        BY <1>2, <1>4, <2>1
  <1> QED
      BY <1>3, <1>5

\* Done of a thread that drains ends when nothing is queued or being processed.
THEOREM DoneDrains == Spec => DoneMeansIdle
  <1> DEFINE Drained == \A t \in Guests : guest[t] = "drains" /\ guest'[t] # "drains" =>
                          /\ gpu.at \in {"loop", "stopped"}
                          /\ \A q \in Queues : queues[q] = <<>>
  <1>1. Inv /\ Steady /\ Inv' /\ [Next]_vars => [Drained]_vars
    <2> SUFFICES ASSUME Inv, Steady, Next, NEW t \in Guests, guest[t] = "drains", guest'[t] # "drains"
                 PROVE  /\ gpu.at \in {"loop", "stopped"}
                        /\ \A q \in Queues : queues[q] = <<>>
        OBVIOUS
    <2>0. ASSUME NEW u \in Guests, guest[u] # "drains", NEW place, guest' = [guest EXCEPT ![u] = place]
          PROVE  FALSE
          BY <2>0 DEF Inv, Typed
    <2>00. ASSUME NEW u \in Guests, RunCommand(u) PROVE FALSE
      <3>1. guest' = guest \/ (guest' = [guest EXCEPT ![u] = "tests"] /\ guest[u] # "drains")
            BY <2>00 DEF RunCommand
      <3> QED
          BY <2>0, <3>1
    <2>1. guest' # guest
          OBVIOUS
    <2>2. ASSUME NEW u \in Submitters, DoneDrained(u)
          PROVE  /\ gpu.at \in {"loop", "stopped"}
                 /\ \A q \in Queues : queues[q] = <<>>
      <3>1. ~processing /\ count = 0
            BY <2>2 DEF DoneDrained, IdleNow
      <3>2. gpu.at \in {"loop", "stopped"}
        <4>1. gpu.at \in {"loop", "after command", "backs off", "complete", "stopped", "command", "runs", "blocked"}
              BY DEF Inv, Typed, GpuStates
        <4> QED
            BY <3>1, <4>1 DEF Steady, ProcessingOK
      <3> QED
          BY <3>1, <3>2, NothingQueued DEF Inv, Steady
    <2>3. CASE \E u \in Submitters : \/ \E q \in Queues, program \in Programs : Submit(u, q, program)
                                     \/ SubmitFlipPreparation(u)
          BY <2>1, <2>3 DEF Submit, SubmitFlipPreparation
    <2>4. ASSUME NEW u \in Guests,
                 \/ \E pipelined \in BOOLEAN : DoneBegins(u, pipelined)
                 \/ SendCommandSync(u) \/ Continues(u)
          PROVE  FALSE
      <3>1. guest[u] # "drains" /\ \E place : guest' = [guest EXCEPT ![u] = place]
            BY <2>4 DEF DoneBegins, SendCommandSync, Continues, PublishBoundary, DonePublished,
                 SpinSees, SpinGivesUp, CallerTests
      <3> QED
          BY <2>0, <3>1
    <2>5. CASE GpuRunsCommand
      <3>1. gpu.of \in Guests /\ RunCommand(gpu.of)
            BY <2>5, GpuIsTyped DEF GpuRunsCommand, Inv
      <3> QED
          BY <2>00, <3>1
    <2>6. CASE ProcessCommands
      <3>1. Head(commands) \in Guests /\ RunCommand(Head(commands))
            BY <2>6 DEF ProcessCommands, Inv, Typed
      <3> QED
          BY <2>00, <3>1
    <2>7. CASE \/ GpuStops \/ GpuTakesCommand \/ GpuEndsCommand \/ GpuBacksOff \/ GpuRetries
               \/ PassBoundary \/ ProcessPacket \/ ProcessBlocks \/ ProcessCompletes
               \/ GpuPutsBack \/ GpuCompletes \/ Shutdown
               \/ \E q \in Queues : GpuTakes(q)
               \/ \E l \in Labels : LabelWritten(l)
          BY <2>1, <2>7 DEF GpuStops, GpuTakesCommand, GpuEndsCommand, GpuBacksOff, GpuRetries,
               PassBoundary, ProcessPacket, ProcessBlocks, ProcessCompletes, GpuPutsBack,
               GpuCompletes, Shutdown, GpuTakes, LabelWritten
    <2> QED
        BY <2>2, <2>3, <2>4, <2>5, <2>6, <2>7 DEF Next, GpuThread, Guests
  <1> QED
      BY <1>1, SteadyHolds, PTL DEF Spec, DoneMeansIdle
=============================================================================
