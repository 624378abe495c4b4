----------------------------- MODULE Interrupts -----------------------------
(***************************************************************************)
(* Who is told of the graphics processor's interrupts: the registrations   *)
(* of RenderContext (renderContext.cpp) and the events they stand for in   *)
(* kernel event queues (sync.cpp, eventQueue.cpp).                         *)
(*                                                                         *)
(* An event and its registration are made and removed by two steps, each   *)
(* under a mutex of its own, and an interrupt copies the registrations     *)
(* first and triggers the events without either: the priority thread and   *)
(* the GPU thread do so while guest threads add and delete.  A handle of a *)
(* queue is never given out again.  An operation that found a queue just   *)
(* before it was deleted counts as made before.                            *)
(***************************************************************************)
EXTENDS Naturals, Sequences

CONSTANTS Guests,     \* threads that add and delete events
          Raisers,    \* threads that call TriggerInterrupt
          Queues, Ids

\* What the constants have to be; the instances assume it.
InterruptsAssumption == Guests \cap Raisers = {}

Events == Queues \X Ids
Threads == Guests \cup Raisers

VARIABLES
  open,     \* queues that were not deleted
  present,  \* events in their queue's m_events
  eqs,      \* m_interrupt_eqs
  thread,   \* what each thread does, and to which events
  raced     \* events added while an erasure of their registration was due (history)

vars == <<open, present, eqs, thread, raced>>

Idle == [at |-> "idle", events |-> <<>>]

Init ==
  /\ open = Queues /\ present = {} /\ eqs = <<>>
  /\ thread = [t \in Threads |-> Idle] /\ raced = {}

Goes(t, where, events) == thread' = [thread EXCEPT ![t] = [at |-> where, events |-> events]]

Registered == {eqs[i] : i \in DOMAIN eqs}

\* Threads that will erase the registration of e whatever happens now.
Erasing(e) == {t \in Threads : thread[t].at \in {"unregisters", "erases"}
                               /\ Head(thread[t].events) = e}

(***************************************************************************)
(* The guest: AddEqEvent and DeleteEqEvent.  On a deleted queue both fail  *)
(* and change nothing.                                                     *)
(***************************************************************************)

AddEvent(g, e) ==
  /\ thread[g] = Idle /\ e[1] \in open
  /\ present' = present \cup {e}
  /\ raced' = IF e \in present THEN raced
              ELSE IF Erasing(e) = {} THEN raced \ {e} ELSE raced \cup {e}
  /\ Goes(g, "registers", <<e>>)
  /\ UNCHANGED <<open, eqs>>

\* KERNEL_ERROR_EBADF of either.
IsRefused(g, e) == thread[g] = Idle /\ e[1] \notin open /\ UNCHANGED vars

AddInterruptEq(g) ==
  LET e == thread[g].events[1]
  IN /\ thread[g].at = "registers"
     /\ eqs' = IF e \in Registered THEN eqs ELSE Append(eqs, e)
     /\ thread' = [thread EXCEPT ![g] = Idle]
     /\ UNCHANGED <<open, present, raced>>

DeleteEvent(g, e) ==
  /\ thread[g] = Idle /\ e[1] \in open
  /\ present' = present \ {e}
  /\ Goes(g, "unregisters", <<e>>)
  /\ UNCHANGED <<open, eqs, raced>>

\* The first of the registrations at I, if there is one, is erased.
EraseFirst(I) ==
  LET at == CHOOSE i \in I : \A j \in I : i <= j
  IN eqs' = IF I = {} THEN eqs
            ELSE [i \in 1 .. (Len(eqs) - 1) |-> eqs[IF i < at THEN i ELSE i + 1]]

\* Mutant: the event is compared, the queue is not.
EraseOfAny(e) == EraseFirst({i \in DOMAIN eqs : eqs[i][2] = e[2]})

\* DeleteInterruptEq.
Erase(e) == EraseFirst({i \in DOMAIN eqs : eqs[i] = e})

Unregister(g) ==
  /\ thread[g].at = "unregisters"
  /\ Erase(thread[g].events[1])
  /\ thread' = [thread EXCEPT ![g] = Idle]
  /\ UNCHANGED <<open, present, raced>>

DeleteEqueue(g, q) ==
  /\ thread[g] = Idle /\ q \in open
  /\ open' = open \ {q} /\ present' = {e \in present : e[1] # q}
  /\ UNCHANGED <<eqs, thread, raced>>

(***************************************************************************)
(* TriggerInterrupt.                                                       *)
(***************************************************************************)

\* The registrations of the event id are copied, in their order.
CopyRegistrations(t, id) ==
  /\ thread[t] = Idle
  /\ \E n \in DOMAIN eqs : \E at \in [1 .. n -> DOMAIN eqs] :
       /\ \A i, j \in 1 .. n : i < j => at[i] < at[j]
       /\ \A k \in DOMAIN eqs : eqs[k][2] = id <=> \E i \in 1 .. n : at[i] = k
       /\ Goes(t, "triggers", [i \in 1 .. n |-> eqs[at[i]]])
  /\ UNCHANGED <<open, present, eqs, raced>>

\* The first of the copies is done with.
GoesOn(t) ==
  LET rest == Tail(thread[t].events)
  IN IF rest = <<>> THEN thread' = [thread EXCEPT ![t] = Idle] ELSE Goes(t, "triggers", rest)

\* The event is triggered (EventQueue), or its queue or it is gone.
Trigger(t) ==
  /\ thread[t].at = "triggers"
  /\ IF Head(thread[t].events) \in present THEN GoesOn(t)
     ELSE Goes(t, "erases", thread[t].events)
  /\ UNCHANGED <<open, present, eqs, raced>>

EraseStale(t) ==
  /\ thread[t].at = "erases"
  /\ Erase(Head(thread[t].events)) /\ GoesOn(t)
  /\ UNCHANGED <<open, present, raced>>

-----------------------------------------------------------------------------

Next ==
  \/ \E g \in Guests :
       \/ \E e \in Events : AddEvent(g, e) \/ DeleteEvent(g, e) \/ IsRefused(g, e)
       \/ \E q \in Queues : DeleteEqueue(g, q)
       \/ AddInterruptEq(g) \/ Unregister(g)
  \/ \E t \in Raisers :
       \/ \E id \in Ids : CopyRegistrations(t, id)
       \/ Trigger(t) \/ EraseStale(t)

Spec == Init /\ [][Next]_vars

-----------------------------------------------------------------------------

TypeOK ==
  /\ open \subseteq Queues /\ present \subseteq Events /\ raced \subseteq Events
  /\ eqs \in Seq(Events)
  /\ thread \in [Threads -> [at : {"idle", "registers", "unregisters", "triggers", "erases"},
                             events : Seq(Events)]]

\* An event is registered once, so that an interrupt triggers it once.
RegisteredOnce == \A i, j \in DOMAIN eqs : eqs[i] = eqs[j] => i = j

\* An event that is there hears of interrupts, or is about to: the one way to
\* lose its registration for good is to be added while another thread, which
\* found it missing or deleted it, has still to erase the registration.
EventsAreRegistered ==
  \A e \in present : e \in Registered \cup raced
    \/ \E g \in Guests : thread[g].at = "registers" /\ thread[g].events[1] = e

\* Types; and who added an event is told of each interrupt once.
InterruptsInv == TypeOK /\ RegisteredOnce /\ EventsAreRegistered
=============================================================================
