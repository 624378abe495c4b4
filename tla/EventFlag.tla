----------------------------- MODULE EventFlag -----------------------------
(***************************************************************************)
(* The kernel event flag, class KernelEventFlagPrivate of                  *)
(* src/kernel/eventFlag.cpp.  A method is one action up to where it gives  *)
(* m_mutex up: in m_cond_var ("parked", then "awake" until m_mutex is      *)
(* taken again), while it polls for m_status = Set before it may modify    *)
(* the flag ("blocked"), and while Cancel and the destructor poll for      *)
(* m_waiting_threads = 0 ("cancel", "delete").  The infinite wait is       *)
(* CondVar::Wait, which the installed poll callback ends every 10 ms.      *)
(*                                                                         *)
(* Set, Clear and Cancel on a Deleted flag end the emulator                *)
(* (EXIT_NOT_IMPLEMENTED), so the guest is taken not to call them then.    *)
(***************************************************************************)
EXTENDS Integers, FiniteSets

CONSTANTS Threads,
          Bits,        \* the bit positions in use
          WaitArgs,    \* the argument lists Wait and Poll are called with
          ModifyArgs,  \* the calls of Set, Clear, Cancel and the destructor
          InitPatterns \* init_pattern arguments of KernelCreateEventFlag

VARIABLES
  status,   \* m_status, "Freed" when there is no object
  single,   \* m_single_thread
  bits,     \* m_bits, the set of bits that are one
  waiting,  \* m_waiting_threads
  pc,       \* where each thread is
  call,     \* the arguments of the call each thread is in
  result    \* what the last Wait of each thread returned

vars == <<status, single, bits, waiting, pc, call, result>>

Patterns == SUBSET Bits
WaitCalls == [op : {"wait"}, bits : Patterns \ {{}}, mode : {"And", "Or"},
              clear : {"None", "All", "Bits"}, timed : BOOLEAN]
ModifyCalls == [op : {"set", "clear", "cancel", "delete"}, bits : Patterns]
NoCall == [op |-> "none"]

\* What the constants have to be; the instances assume it.
EventFlagAssumption ==
  /\ WaitArgs \subseteq WaitCalls /\ ModifyArgs \subseteq ModifyCalls
  /\ InitPatterns \subseteq Patterns

Results == {"Ok", "AlreadyWaiting", "TimedOut", "Canceled", "Deleted"}
Locations == {"idle", "parked", "awake", "blocked", "cancel", "delete"}

\* Threads counted in m_waiting_threads.
Waiters == {t \in Threads : pc[t] \in {"parked", "awake"}}

Satisfied(c) == IF c.mode = "And" THEN c.bits \subseteq bits
                                  ELSE c.bits \cap bits # {}

\* What a satisfied Wait does to the bits.
Consume(c) == bits' = CASE c.clear = "All"  -> {}
                        [] c.clear = "Bits" -> bits \ c.bits
                        [] c.clear = "None" -> bits

\* m_cond_var.SignalAll.
Awakened == [u \in Threads |-> IF pc[u] = "parked" THEN "awake" ELSE pc[u]]

Returns(t, r) == /\ pc' = [pc EXCEPT ![t] = "idle"]
                 /\ call' = [call EXCEPT ![t] = NoCall]
                 /\ result' = [result EXCEPT ![t] = r]

Init ==
  /\ status = "Freed" /\ single = FALSE /\ bits = {} /\ waiting = 0
  /\ pc = [t \in Threads |-> "idle"]
  /\ call = [t \in Threads |-> NoCall]
  /\ result = [t \in Threads |-> "Ok"]

Create(t, one, pattern) ==
  /\ status = "Freed" /\ pc[t] = "idle"
  /\ status' = "Set" /\ single' = one /\ bits' = pattern
  /\ UNCHANGED <<waiting, pc, call, result>>

(***************************************************************************)
(* Wait and Poll.  The status is looked at only after a sleep.             *)
(***************************************************************************)

Enters(t) == pc[t] = "idle" /\ status # "Freed"

Denied == single /\ waiting > 0

WaitDenied(t) ==
  /\ Enters(t) /\ Denied
  /\ Returns(t, "AlreadyWaiting")
  /\ UNCHANGED <<status, single, bits, waiting>>

WaitPasses(t, c) ==
  /\ Enters(t) /\ ~Denied /\ Satisfied(c)
  /\ Consume(c)
  /\ Returns(t, "Ok")
  /\ UNCHANGED <<status, single, waiting>>

\* Poll, or a timeout of zero.
PollFails(t, c) ==
  /\ Enters(t) /\ ~Denied /\ ~Satisfied(c) /\ c.timed
  /\ Returns(t, "TimedOut")
  /\ UNCHANGED <<status, single, bits, waiting>>

WaitParks(t, c) ==
  /\ Enters(t) /\ ~Denied /\ ~Satisfied(c)
  /\ waiting' = waiting + 1
  /\ call' = [call EXCEPT ![t] = c]
  /\ pc' = [pc EXCEPT ![t] = "parked"]
  /\ UNCHANGED <<status, single, bits, result>>

\* The slice or the timeout is over, or the wakeup is spurious.
Wakes(t) ==
  /\ pc[t] = "parked"
  /\ pc' = [pc EXCEPT ![t] = "awake"]
  /\ UNCHANGED <<status, single, bits, waiting, call, result>>

\* Mutants: a satisfied waiter returns whatever the status; a canceled waiter
\* stays counted.
SucceedsAnyway(t) ==
  /\ pc[t] = "awake" /\ Satisfied(call[t])
  /\ waiting' = waiting - 1 /\ Consume(call[t]) /\ Returns(t, "Ok")
  /\ UNCHANGED <<status, single>>
LeavesUncounted(t) ==
  /\ pc[t] = "awake" /\ status # "Set"
  /\ Returns(t, status)
  /\ UNCHANGED <<status, single, bits, waiting>>

\* The waiter finds the flag canceled or deleted.
WaitLeaves(t) ==
  /\ pc[t] = "awake" /\ status # "Set"
  /\ waiting' = waiting - 1
  /\ Returns(t, status)
  /\ UNCHANGED <<status, single, bits>>

WaitSucceeds(t) ==
  /\ pc[t] = "awake" /\ status = "Set" /\ Satisfied(call[t])
  /\ waiting' = waiting - 1
  /\ Consume(call[t])
  /\ Returns(t, "Ok")
  /\ UNCHANGED <<status, single>>

WaitTimesOut(t) ==
  /\ pc[t] = "awake" /\ status = "Set" /\ ~Satisfied(call[t]) /\ call[t].timed
  /\ waiting' = waiting - 1
  /\ Returns(t, "TimedOut")
  /\ UNCHANGED <<status, single, bits>>

WaitSleepsAgain(t) ==
  /\ pc[t] = "awake" /\ status = "Set" /\ ~Satisfied(call[t])
  /\ pc' = [pc EXCEPT ![t] = "parked"]
  /\ UNCHANGED <<status, single, bits, waiting, call, result>>

(***************************************************************************)
(* Set, Clear, Cancel and deletion.  They poll until the status is Set.    *)
(***************************************************************************)

\* The guest does not modify a Deleted flag, and deletes a flag only when no
\* other thread is inside Set, Clear or Cancel.
GuestMay(t, c) ==
  /\ status # "Deleted"
  /\ c.op = "delete" => \A u \in Threads \ {t} : pc[u] \notin {"blocked", "cancel"}
  /\ \A u \in Threads \ {t} : pc[u] = "blocked" => call[u].op # "delete"

\* A call that has to wait for the end of a Cancel.
Blocks(t, c) ==
  /\ Enters(t) /\ GuestMay(t, c) /\ status # "Set"
  /\ pc' = [pc EXCEPT ![t] = "blocked"]
  /\ call' = [call EXCEPT ![t] = c]
  /\ UNCHANGED <<status, single, bits, waiting, result>>

\* Mutant: the status is looked at once only.
ReadyAtOnce(t, c) == status = "Set" /\ Enters(t) /\ GuestMay(t, c)

\* A call that finds the status Set, at once or after polling.
Ready(t, c) == /\ status = "Set"
               /\ \/ Enters(t) /\ GuestMay(t, c)
                  \/ pc[t] = "blocked" /\ call[t] = c

Done(t) == call' = [call EXCEPT ![t] = NoCall]

Set(t, c) ==
  /\ c.op = "set" /\ Ready(t, c)
  /\ bits' = bits \cup c.bits
  /\ pc' = [Awakened EXCEPT ![t] = "idle"]
  /\ Done(t)
  /\ UNCHANGED <<status, single, waiting, result>>

Clear(t, c) ==
  /\ c.op = "clear" /\ Ready(t, c)
  /\ bits' = bits \cap c.bits
  /\ pc' = [pc EXCEPT ![t] = "idle"]
  /\ Done(t)
  /\ UNCHANGED <<status, single, waiting, result>>

CancelBegins(t, c) ==
  /\ c.op = "cancel" /\ Ready(t, c)
  /\ status' = "Canceled" /\ bits' = c.bits
  /\ pc' = [Awakened EXCEPT ![t] = "cancel"]
  /\ Done(t)
  /\ UNCHANGED <<single, waiting, result>>

\* Mutant: Cancel does not wait for the waiters to leave.
CancelEndsEarly(t) ==
  /\ pc[t] = "cancel"
  /\ status' = "Set"
  /\ pc' = [pc EXCEPT ![t] = "idle"]
  /\ UNCHANGED <<single, bits, waiting, call, result>>

CancelEnds(t) ==
  /\ pc[t] = "cancel" /\ waiting = 0
  /\ status' = "Set"
  /\ pc' = [pc EXCEPT ![t] = "idle"]
  /\ UNCHANGED <<single, bits, waiting, call, result>>

DeleteBegins(t, c) ==
  /\ c.op = "delete" /\ Ready(t, c)
  /\ status' = "Deleted"
  /\ pc' = [Awakened EXCEPT ![t] = "delete"]
  /\ Done(t)
  /\ UNCHANGED <<single, bits, waiting, result>>

DeleteEnds(t) ==
  /\ pc[t] = "delete" /\ waiting = 0
  /\ status' = "Freed"
  /\ pc' = [pc EXCEPT ![t] = "idle"]
  /\ UNCHANGED <<single, bits, waiting, call, result>>

-----------------------------------------------------------------------------

Modify(t, c) == Set(t, c) \/ Clear(t, c) \/ CancelBegins(t, c) \/ DeleteBegins(t, c)

\* A Set, Clear, Cancel or destructor that met a Cancel looks again.
Retries(t) == pc[t] = "blocked" /\ Modify(t, call[t])

Calls(t) ==
  \/ \E one \in BOOLEAN, pattern \in InitPatterns : Create(t, one, pattern)
  \/ WaitDenied(t)
  \/ \E c \in WaitArgs : WaitPasses(t, c) \/ PollFails(t, c) \/ WaitParks(t, c)
  \/ \E c \in ModifyArgs : Blocks(t, c) \/ Modify(t, c)

Relocks(t) == WaitLeaves(t) \/ WaitSucceeds(t) \/ WaitTimesOut(t) \/ WaitSleepsAgain(t)

Next == \E t \in Threads :
          Calls(t) \/ Wakes(t) \/ Relocks(t) \/ CancelEnds(t) \/ DeleteEnds(t)

Spec == Init /\ [][Next]_vars

\* A waiter wakes every 10 ms and gets m_mutex; a poll of the status every
\* 10 us sees it if it is Set again and again.
Fairness ==
  \A t \in Threads :
    /\ WF_vars(Wakes(t)) /\ WF_vars(Relocks(t))
    /\ WF_vars(CancelEnds(t)) /\ WF_vars(DeleteEnds(t))
    /\ SF_vars(WaitTimesOut(t))
    /\ SF_vars(Retries(t))

FairSpec == Spec /\ Fairness

-----------------------------------------------------------------------------

\* Types; and m_waiting_threads counts the threads between its increment and
\* its decrement, on every way out of Wait: a leak would hang Cancel for ever.
TypeOK ==
  /\ waiting = Cardinality(Waiters)
  /\ status \in {"Set", "Canceled", "Deleted", "Freed"}
  /\ single \in BOOLEAN /\ bits \subseteq Bits
  /\ pc \in [Threads -> Locations]
  /\ call \in [Threads -> WaitArgs \cup ModifyArgs \cup {NoCall}]
  /\ result \in [Threads -> Results]

\* No lost wakeup: a parked waiter's condition does not hold, and when it was
\* canceled or deleted after it parked it has been woken; who still sleeps
\* then came later.
ParkedIsUnsatisfied == \A t \in Threads : pc[t] = "parked" => ~Satisfied(call[t])

\* Both: the count Cancel and the destructor wait for is right on every way
\* out of Wait, and nobody sleeps through a Set.
FlagInv == TypeOK /\ ParkedIsUnsatisfied

\* Cancel is exclusive: until it is over Set and Clear do not touch its bits,
\* and every thread that waits in the meantime leaves with Canceled.
CancelIsExclusive ==
  status = "Canceled" =>
    /\ bits' \subseteq bits
    /\ \A t \in Waiters : t \notin Waiters' => result'[t] = "Canceled"

\* When Cancel or the destructor returns, nobody is left waiting.
CancelLeavesNobody ==
  status' # status /\ status \in {"Canceled", "Deleted"} => Waiters = {}

\* Both: what a step may not do to a Cancel or a deletion under way.
CancelIsTotal == [][CancelIsExclusive /\ CancelLeavesNobody]_vars

\* Cancel returns once threads stop entering the wait (each entry may be
\* canceled and repeated, so without that it need not).
CancelCompletes ==
  <>[][Waiters' \subseteq Waiters]_vars => (status = "Canceled" ~> status = "Set")

\* A Set or Clear that met a Cancel is carried out once cancels end.
ModifyCompletes ==
  []<>(status = "Set") => \A t \in Threads : []<>(pc[t] # "blocked")

\* No call on the flag polls for ever.
FlagCallsComplete == CancelCompletes /\ ModifyCompletes
=============================================================================
