----------------------------- MODULE EventQueue -----------------------------
(***************************************************************************)
(* One kernel event queue: class KernelEqueuePrivate and the functions on  *)
(* its handle in src/kernel/eventQueue.cpp.                                *)
(*                                                                         *)
(* A function finds the queue by its handle (and keeps it alive), then     *)
(* works under m_mutex in one step; the queue may be deleted in between.   *)
(* A waiter looks for triggered events and sleeps on m_cond_var until it   *)
(* is notified, its own timeout or the next timer it knows of has passed,  *)
(* or, waiting for neither, 10 ms are over (CondVar::Wait).                *)
(*                                                                         *)
(* An event is a user event, added with or without EV_CLEAR, one that      *)
(* queues its triggers (those of the file loader, of interrupts and of     *)
(* video-out ports) or a one-shot timer.  A trigger's data is its number.  *)
(* User data is left out.                                                  *)
(***************************************************************************)
EXTENDS Integers, Sequences, FiniteSets, Functions

CONSTANTS Waiters,       \* threads that call KernelWaitEqueue
          User, Queued, Timers,  \* events, by kind
          Nums,          \* how many events a waiter takes at most
          MaxTriggers, MaxOthers   \* bounds of the two counters below

Keys == User \cup Queued \cup Timers

EventAssumption ==
  /\ IsFiniteSet(Waiters) /\ IsFiniteSet(Keys)
  /\ User \cap (Queued \cup Timers) = {} /\ Queued \cap Timers = {}
  /\ Nums \subseteq Nat \ {0} /\ MaxTriggers \in Nat /\ MaxOthers \in Nat

VARIABLES
  registered,   \* the handle is in g_equeues
  closed,       \* m_closed
  events,       \* m_events
  waiter,       \* what each waiter does
  triggers,     \* triggers so far
  others,       \* timers and events without EV_CLEAR added so far
  sent, got     \* data of each queued event since it was added: triggered, received

vars == <<registered, closed, events, waiter, triggers, others, sent, got>>

Idle == [at |-> "idle"]

Init == /\ registered = TRUE /\ closed = FALSE
        /\ events = <<>>
        /\ waiter = [w \in Waiters |-> Idle]
        /\ triggers = 0 /\ others = 0
        /\ sent = [k \in Queued |-> <<>>] /\ got = [k \in Queued |-> <<>>]

\* The events of keys are gone or added anew.
Forget(keys) == /\ sent' = [q \in Queued |-> IF q \in keys THEN <<>> ELSE sent[q]]
                /\ got' = [q \in Queued |-> IF q \in keys THEN <<>> ELSE got[q]]

Added == {events[i].key : i \in DOMAIN events}

\* The position of the event of key k.
At(k) == CHOOSE i \in DOMAIN events : events[i].key = k

\* What is left of a list of events when only those at some places stay.
Kept(list, places) ==
  LET n == Cardinality(places)
  IN {[i \in 1 .. n |-> list[at[i]]] :
        at \in {a \in [1 .. n -> places] : \A i, j \in 1 .. n : i < j => a[i] < a[j]}}

Sleepers == {w \in Waiters : waiter[w].at = "sleeps"}
Awake == {w \in Waiters : waiter[w].at = "looks"}

\* A waiter with a timeout may find it elapsed, whatever woke it.
Woken(w, late) == [waiter[w] EXCEPT !.at = "looks", !.elapsed = late /\ waiter[w].timed]

\* Signal: one sleeper is woken, if there is one.
Signal == IF Sleepers = {} THEN UNCHANGED waiter
          ELSE \E w \in Sleepers, late \in BOOLEAN :
                 waiter' = [waiter EXCEPT ![w] = Woken(w, late)]

SignalAll == \E late \in [Waiters -> BOOLEAN] :
               waiter' = [w \in Waiters |-> IF w \in Sleepers THEN Woken(w, late[w])
                                            ELSE waiter[w]]

(***************************************************************************)
(* Adding, triggering and deleting an event.                               *)
(***************************************************************************)

\* An event that is there keeps its state and flags and gets the new deadline.
AddEvent(k, clear) ==
  LET deadline == IF k \in Timers THEN "set" ELSE "none"
      other == k \in Timers \/ ~clear
  IN /\ ~closed
     /\ ~clear => k \in User
     /\ other => others < MaxOthers
     /\ others' = others + IF other THEN 1 ELSE 0
     /\ IF k \in Added
        THEN /\ events' = [events EXCEPT ![At(k)].deadline = deadline]
             /\ UNCHANGED <<sent, got>>
        ELSE /\ events' = Append(events, [key |-> k, clear |-> clear, triggered |-> FALSE, data |-> 0,
                                          pending |-> <<>>, deadline |-> deadline])
             /\ Forget({k})
     /\ Signal
     /\ UNCHANGED <<registered, closed, triggers>>

\* Mutant: a trigger overwrites the one before, whatever the event's kind.
TriggeredOver(e, data) == [e EXCEPT !.triggered = TRUE, !.data = data]

\* The trigger functions: a queued event keeps what was not received yet.
Triggered(e, data) ==
  IF e.triggered /\ e.key \in Queued
  THEN [e EXCEPT !.pending = Append(@, data)]
  ELSE [e EXCEPT !.triggered = TRUE, !.data = data]

\* Mutant: only an event that was not triggered yet wakes a waiter.
TriggerEventOnce(k) ==
  /\ ~closed /\ k \in Added \ Timers /\ triggers < MaxTriggers
  /\ triggers' = triggers + 1
  /\ events' = [events EXCEPT ![At(k)] = Triggered(@, triggers + 1)]
  /\ sent' = [q \in Queued |-> IF q = k THEN Append(sent[q], triggers + 1) ELSE sent[q]]
  /\ IF events[At(k)].triggered THEN UNCHANGED waiter ELSE Signal
  /\ UNCHANGED <<registered, closed, others, got>>

TriggerEvent(k) ==
  /\ ~closed /\ k \in Added \ Timers /\ triggers < MaxTriggers
  /\ triggers' = triggers + 1
  /\ events' = [events EXCEPT ![At(k)] = Triggered(@, triggers + 1)]
  /\ sent' = [q \in Queued |-> IF q = k THEN Append(sent[q], triggers + 1) ELSE sent[q]]
  /\ Signal
  /\ UNCHANGED <<registered, closed, others, got>>

DeleteEvent(k) ==
  /\ ~closed /\ k \in Added
  /\ events' \in Kept(events, {i \in DOMAIN events : events[i].key # k})
  /\ Forget({k})
  /\ UNCHANGED <<registered, closed, waiter, triggers, others>>

\* The deadline of a timer passes.
Expire(k) ==
  /\ k \in Added /\ events[At(k)].deadline = "set"
  /\ events' = [events EXCEPT ![At(k)].deadline = "past"]
  /\ UNCHANGED <<registered, closed, waiter, triggers, others, sent, got>>

(***************************************************************************)
(* Deleting the queue.                                                     *)
(***************************************************************************)

DeleteEqueue ==
  /\ registered
  /\ registered' = FALSE
  /\ UNCHANGED <<closed, events, waiter, triggers, others, sent, got>>

\* Mutant: one waiter is told.
CloseTellsOne ==
  /\ ~registered /\ ~closed
  /\ closed' = TRUE /\ events' = <<>>
  /\ Forget(Queued)
  /\ Signal
  /\ UNCHANGED <<registered, triggers, others>>

Close ==
  /\ ~registered /\ ~closed
  /\ closed' = TRUE /\ events' = <<>>
  /\ Forget(Queued)
  /\ SignalAll
  /\ UNCHANGED <<registered, triggers, others>>

(***************************************************************************)
(* Waiting.                                                                *)
(***************************************************************************)

\* KernelWaitEqueue: without a timeout, with one, or with a timeout of zero,
\* whose time is over from the start.
WaitEqueue(w, num, timed, elapsed) ==
  /\ registered /\ waiter[w] = Idle
  /\ elapsed => timed
  /\ waiter' = [waiter EXCEPT ![w] = [at |-> "looks", num |-> num, timed |-> timed,
                                      elapsed |-> elapsed]]
  /\ UNCHANGED <<registered, closed, events, triggers, others, sent, got>>

\* TriggerExpiredTimers.
Expired(e) == IF e.deadline = "past" THEN [e EXCEPT !.triggered = TRUE] ELSE e

\* An event after n of its data were taken: one without EV_CLEAR is as
\* before, the others go on to the data that is pending.
Left(e, n) ==
  LET all == <<e.data>> \o e.pending
  IN IF ~e.clear \/ n = 0 THEN e
     ELSE IF n = Len(all) THEN [e EXCEPT !.triggered = FALSE, !.data = 0, !.pending = <<>>]
     ELSE [e EXCEPT !.data = all[n + 1], !.pending = SubSeq(all, n + 2, Len(all))]

\* What a waiter with room for so many takes of an event: one
\* without EV_CLEAR is still triggered when it was taken and fills the room.
Taken(e, room) ==
  LET all == <<e.data>> \o e.pending
  IN IF ~e.triggered THEN <<>>
     ELSE IF ~e.clear THEN [i \in 1 .. room |-> e.data]
     ELSE SubSeq(all, 1, IF room < Len(all) THEN room ELSE Len(all))

\* GetTriggeredEvents: the room that is left of num when it is each event's turn.
Rooms(num) ==
  {rooms \in [DOMAIN events -> 0 .. num] :
     \A i \in DOMAIN events :
       rooms[i] = IF i = 1 THEN num
                  ELSE rooms[i - 1] - Len(Taken(Expired(events[i - 1]), rooms[i - 1]))}

\* It finds something.
Found == \E i \in DOMAIN events : Expired(events[i]).triggered

\* The queue was closed: EBADF.
WaitIsRefused(w) ==
  /\ waiter[w].at = "looks" /\ closed
  /\ waiter' = [waiter EXCEPT ![w] = Idle]
  /\ UNCHANGED <<registered, closed, events, triggers, others, sent, got>>

\* What was found is taken, and with it the timers among it.
WaitReturns(w) ==
  /\ waiter[w].at = "looks" /\ ~closed
  /\ Found \/ waiter[w].elapsed
  /\ \E rooms \in Rooms(waiter[w].num) :
       LET taken == [i \in DOMAIN events |-> Taken(Expired(events[i]), rooms[i])]
           left == [i \in DOMAIN events |-> Left(Expired(events[i]), Len(taken[i]))]
       IN /\ events' \in Kept(left, {i \in DOMAIN events :
                                     events[i].key \in Timers => taken[i] = <<>>})
          /\ got' = [k \in Queued |-> IF k \in Added THEN got[k] \o taken[At(k)] ELSE got[k]]
  /\ waiter' = [waiter EXCEPT ![w] = Idle]
  /\ UNCHANGED <<registered, closed, triggers, others, sent>>

WaitSleeps(w) ==
  /\ waiter[w].at = "looks" /\ ~closed /\ ~waiter[w].elapsed
  /\ ~Found
  /\ waiter' = [waiter EXCEPT ![w].at = "sleeps"]
  /\ UNCHANGED <<registered, closed, events, triggers, others, sent, got>>

\* After its timeout, at the timer it knew of when it went to sleep, or, with
\* neither, after 10 ms.
WaitWakes(w) ==
  /\ waiter[w].at = "sleeps"
  /\ \E late \in BOOLEAN : waiter' = [waiter EXCEPT ![w] = Woken(w, late)]
  /\ UNCHANGED <<registered, closed, events, triggers, others, sent, got>>

Next == \/ \E k \in Keys, clear \in BOOLEAN : AddEvent(k, clear)
        \/ \E k \in Keys : TriggerEvent(k) \/ DeleteEvent(k) \/ Expire(k)
        \/ DeleteEqueue \/ Close
        \/ \E w \in Waiters, num \in Nums, timed, elapsed \in BOOLEAN :
             WaitEqueue(w, num, timed, elapsed)
        \/ \E w \in Waiters : WaitIsRefused(w) \/ WaitReturns(w) \/ WaitSleeps(w) \/ WaitWakes(w)

Spec == Init /\ [][Next]_vars

(***************************************************************************)
(* Properties.                                                             *)
(***************************************************************************)

\* An event is in the list once, and data is pending only behind data that
\* can be received: no waiter leaves an event with pending triggers idle.
TypeOK ==
  /\ IsInjective([i \in DOMAIN events |-> events[i].key])
  /\ \A i \in DOMAIN events :
       /\ events[i].pending # <<>> => events[i].triggered /\ events[i].key \in Queued
       /\ (events[i].deadline = "none") = (events[i].key \notin Timers)
  /\ closed => ~registered /\ events = <<>>
  /\ \A w \in Sleepers : ~waiter[w].elapsed

\* The triggers that wait to be received: of each event, the one whose data it
\* has and those pending.
Unreceived ==
  LET Waits(e) == e.triggered /\ e.clear /\ e.key \notin Timers
  IN UNION {{events[i].key} \X (0 .. Len(events[i].pending)) :
              i \in {j \in DOMAIN events : Waits(events[j])}}

\* Although a trigger notifies one waiter: as long as a waiter sleeps, there
\* is for each trigger that was not received one that is about to look.
\* (That is so until a timer or an event without EV_CLEAR is added: a waiter
\* that was woken for a trigger may take one of these instead.)
TriggersAreServed == others = 0 /\ Sleepers # {} => Cardinality(Unreceived) <= Cardinality(Awake)

\* The triggers of a queued event are received in order, each once, however
\* many waiters take how many of them at a time.
ReceivedInOrder ==
  \A i \in DOMAIN events :
    LET e == events[i]
    IN e.key \in Queued =>
         sent[e.key] = got[e.key] \o (IF e.triggered THEN <<e.data>> \o e.pending ELSE <<>>)

\* Both: the list is sound, and no trigger is lost, doubled or overtaken.
QueueInv == TypeOK /\ ReceivedInOrder

\* Nobody sleeps on a closed queue, so every waiter returns with EBADF.
ClosedWakesAll == closed => Sleepers = {}

\* All of it: every trigger and the end of the queue reach who waits for them.
EventsInv == QueueInv /\ TriggersAreServed /\ ClosedWakesAll

=============================================================================
