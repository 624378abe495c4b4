---------------------------- MODULE CountingSema ----------------------------
(***************************************************************************)
(* What a counting semaphore promises its callers, without lists, locks or *)
(* sleeping.  A call that waits is undecided until it is granted (and only *)
(* then charged for what it asked), canceled or deleted.  A decided call   *)
(* returns what was decided: a granted one cannot report a timeout and     *)
(* keep the units, and one that times out was charged nothing.             *)
(***************************************************************************)
EXTENDS Integers

CONSTANT Threads

VARIABLES units,   \* units available
          limit,   \* most units there may be
          inside,  \* the threads whose call waits
          answer,  \* per thread: the decision, or what its last call returned
          asks     \* per thread: the units its waiting call asks for

vars == <<units, limit, inside, answer, asks>>

Answers == {"undecided", "Ok", "TimedOut", "Canceled", "Deleted", "InvalCount"}

Undecided == {t \in inside : answer[t] = "undecided"}

Init ==
  /\ units = 0 /\ limit = 0 /\ inside = {}
  /\ answer \in [Threads -> Answers \ {"undecided"}]
  /\ asks \in [Threads -> Int]

\* A new semaphore; nobody is still inside a call on the old one.
New == /\ inside = {}
       /\ limit' \in Nat /\ units' \in 0..limit'
       /\ UNCHANGED <<inside, answer, asks>>

\* A call that finds enough units takes them and returns.
Take(t) == /\ t \notin inside
           /\ units' < units /\ units' >= 0
           /\ answer' = [answer EXCEPT ![t] = "Ok"]
           /\ UNCHANGED <<limit, inside, asks>>

\* A call that returns at once without taking anything.
Refuse(t) == /\ t \notin inside
             /\ \E a \in {"TimedOut", "Deleted", "InvalCount"} :
                  answer' = [answer EXCEPT ![t] = a]
             /\ UNCHANGED <<units, limit, inside, asks>>

\* A call that asks for more than there is, waits.
Block(t) == /\ t \notin inside
            /\ asks' = [asks EXCEPT ![t] = asks'[t]] /\ asks'[t] > units
            /\ inside' = inside \cup {t}
            /\ answer' = [answer EXCEPT ![t] = "undecided"]
            /\ UNCHANGED <<units, limit>>

\* Units are put back, never beyond the limit.
Release == /\ units' >= units /\ units' <= limit
           /\ UNCHANGED <<limit, inside, answer, asks>>

\* Exactly what a waiting call asks for goes to that call.
Grant(t) == /\ t \in Undecided /\ asks[t] <= units
            /\ units' = units - asks[t]
            /\ answer' = [answer EXCEPT ![t] = "Ok"]
            /\ UNCHANGED <<limit, inside, asks>>

\* Every undecided call is decided at once, and only undecided ones.
Decide(a) == /\ answer' = [t \in Threads |->
                             IF t \in Undecided THEN a ELSE answer[t]]
             /\ UNCHANGED <<limit, inside, asks>>

CancelAll == Decide("Canceled") /\ units' \in 0..limit
DeleteAll == Decide("Deleted") /\ units' = units

\* A call leaves with its decision, or undecided because its time is over.
Leave(t) == /\ t \in inside
            /\ inside' = inside \ {t}
            /\ asks' = [asks EXCEPT ![t] = asks'[t]]
            /\ answer' = [answer EXCEPT ![t] =
                            IF t \in Undecided THEN "TimedOut" ELSE answer[t]]
            /\ UNCHANGED <<units, limit>>

Next == \/ New \/ Release \/ CancelAll \/ DeleteAll
        \/ \E t \in Threads : Take(t) \/ Refuse(t) \/ Block(t) \/ Grant(t)
                              \/ Leave(t)

Spec == Init /\ [][Next]_vars
=============================================================================
