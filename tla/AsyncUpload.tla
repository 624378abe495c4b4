----------------------------- MODULE AsyncUpload ----------------------------
(***************************************************************************)
(* The upload worker, src/local/async-upload.h: a ring of copies that the  *)
(* render thread pushes and one worker runs in order, and the waits of the *)
(* threads that need them done.  m_head and m_done only grow; a job is     *)
(* known by its sequence number, and a slot of the ring by the number of   *)
(* the job written there last.  Sizes, addresses and the bytes are left    *)
(* out, except the area of guest memory a job works on.                    *)
(*                                                                         *)
(* The worker is never stopped (Get leaks it), so m_stop is left out.      *)
(***************************************************************************)
EXTENDS Integers

CONSTANTS Waiters,   \* threads that wait for copies
          Areas,     \* guest memory
          Capacity,  \* Worker::Capacity
          MaxJobs    \* bound: jobs pushed

ASSUME AsyncUploadAssumption ==
  /\ Capacity \in Nat \ {0} /\ MaxJobs \in Nat

VARIABLES
  head,      \* m_head
  done,      \* m_done
  slots,     \* m_jobs: the sequence number and area of the job in each slot
  current,   \* Run's `done': jobs it has run
  limit,     \* Run's `head'
  sleeping,  \* m_sleeping
  worker,    \* where Run is
  wait,      \* what each waiter waits for, and where it is in Wait
  mapped     \* areas the guest has mapped (gpuResourceManager.cpp)

ring == <<head, slots>>
run == <<current, limit>>
uploadVars == <<ring, run, done, sleeping, worker, wait, mapped>>

Bell == INSTANCE Doorbell WITH
  raised <- head, reached <- current, at <- worker

NoWait == [at |-> "no", seq |-> 0, seen |-> 0]
NoJob == [seq |-> 0, area |-> "none"]
Slot(n) == n % Capacity

UploadInit ==
  /\ head = 0 /\ done = 0 /\ current = 0 /\ limit = 0
  /\ slots = [i \in 0..Capacity - 1 |-> NoJob]
  /\ sleeping = FALSE /\ worker = "polling"
  /\ wait = [t \in Waiters |-> NoWait]
  /\ mapped = Areas

(***************************************************************************)
(* The render thread.                                                      *)
(***************************************************************************)

Full == head - done >= Capacity

\* Mutant: Add does not wait for room.
AddAnyway(area) ==
  /\ head < MaxJobs
  /\ slots' = [slots EXCEPT ![Slot(head)] = [seq |-> head + 1, area |-> area]]
  /\ head' = head + 1
  /\ UNCHANGED <<run, done, sleeping, worker, wait, mapped>>

\* Add; a full ring is kicked (Kick) until a job is done.
Add(area) ==
  /\ ~Full /\ head < MaxJobs
  /\ slots' = [slots EXCEPT ![Slot(head)] = [seq |-> head + 1, area |-> area]]
  /\ head' = head + 1
  /\ UNCHANGED <<run, done, sleeping, worker, wait, mapped>>

\* Mutant: the worker is believed to be awake.
KickNot == UNCHANGED uploadVars

Kick == Bell!Rings /\ UNCHANGED <<ring, run, done, wait, mapped>>

\* Mutant: the unmap does not wait for copies.
PendingNone(area) == 0

\* The sequence number of the last pending job on the area, or 0.
PendingOn(area) ==
  LET on == {n \in done..head - 1 : slots[Slot(n)].area = area}
  IN IF on = {} THEN 0 ELSE 1 + CHOOSE n \in on : \A m \in on : m <= n

(***************************************************************************)
(* Wait, by any thread.  Between fetch_add and fetch_sub of m_waiters the  *)
(* waiter is registered ("looks", "parking" or "parked").                  *)
(***************************************************************************)

Registered(t) == wait[t].at \in {"looks", "parking", "parked"}

WaitBegins(t, seq) ==
  wait' = [wait EXCEPT ![t] = IF done >= seq THEN NoWait
                              ELSE [at |-> "spins", seq |-> seq, seen |-> 0]]

\* The spins end: with the copies done, or with m_waiters raised.
WaitSpins(t) ==
  /\ wait[t].at = "spins"
  /\ \/ done >= wait[t].seq /\ wait' = [wait EXCEPT ![t] = NoWait]
     \/ wait' = [wait EXCEPT ![t].at = "looks"]

WaitLooks(t) ==
  /\ wait[t].at = "looks"
  /\ wait' = [wait EXCEPT ![t] = IF done >= wait[t].seq THEN NoWait
                                 ELSE [@ EXCEPT !.at = "parking", !.seen = done]]

WaitParks(t) ==
  /\ wait[t].at = "parking"
  /\ wait' = [wait EXCEPT ![t].at = IF done = wait[t].seen THEN "parked" ELSE "looks"]

Waits(t) == /\ WaitSpins(t) \/ WaitLooks(t) \/ WaitParks(t)
            /\ UNCHANGED <<ring, run, done, sleeping, worker, mapped>>

(***************************************************************************)
(* Run.                                                                    *)
(***************************************************************************)

WorkerRests == Bell!Rests /\ UNCHANGED <<ring, run, done, wait, mapped>>

WorkerStarts ==
  /\ worker = "polling" /\ head # current
  /\ limit' = head /\ worker' = "running"
  /\ UNCHANGED <<ring, current, done, sleeping, wait, mapped>>

RunJob ==
  /\ worker = "running" /\ current < limit
  /\ current' = current + 1
  /\ UNCHANGED <<ring, limit, done, sleeping, worker, wait, mapped>>

\* Mutant: m_done is raised when a batch is taken.
PublishesEarly ==
  /\ worker = "running" /\ done' = limit
  /\ worker' = IF current = limit THEN "told" ELSE worker
  /\ UNCHANGED <<ring, run, sleeping, wait, mapped>>

Publishes ==
  /\ worker = "running" /\ current = limit
  /\ done' = current /\ worker' = "told"
  /\ UNCHANGED <<ring, run, sleeping, wait, mapped>>

\* m_waiters is read after m_done was raised.
Notifies ==
  /\ worker = "told" /\ worker' = "polling"
  /\ wait' = [t \in Waiters |-> IF wait[t].at = "parked"
                                  THEN [wait[t] EXCEPT !.at = "parking"] ELSE wait[t]]
  /\ UNCHANGED <<ring, run, done, sleeping, mapped>>

Worker == WorkerRests \/ WorkerStarts \/ RunJob \/ Publishes \/ Notifies

-----------------------------------------------------------------------------

\* Jobs not run yet, by sequence number.
Pending == current + 1..head

\* The slot of every pending job still holds it.
JobsAreKept == \A n \in Pending : slots[Slot(n - 1)].seq = n

\* A job works on memory the guest still has there.
JobsAreMapped == \A n \in Pending : slots[Slot(n - 1)].area \in mapped

\* A parked waiter is owed a notification: its copies are not done, or the
\* worker is about to tell.
WaitersAreTold ==
  \A t \in Waiters : wait[t].at = "parked" =>
    (worker = "told" \/ done = wait[t].seen)
=============================================================================
