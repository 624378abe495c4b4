------------------------------ MODULE Monitor -------------------------------
(***************************************************************************)
(* What a mutex and a condition variable promise together: one holder, who *)
(* may hold more than once; a sleeper that gives the monitor up and has it *)
(* back with the same number of holds; every wakeup given to one sleeper,  *)
(* the one asleep longest unless it was named, and answered with Ok.       *)
(***************************************************************************)
EXTENDS Naturals, Sequences

CONSTANTS Threads, NoOne

VARIABLES
  holder,   \* the thread inside, or NoOne
  holds,    \* how many times each thread has entered and not left
  asleep,   \* the threads that wait for a wakeup, in the order they came
  woken,    \* the threads that were given a wakeup and have not left
  answer    \* what the last sleep of each thread returned

vars == <<holder, holds, asleep, woken, answer>>

Init == /\ holder = NoOne /\ holds = [t \in Threads |-> 0]
        /\ asleep = <<>> /\ woken = {} /\ answer \in [Threads -> {"Ok"}]

\* A thread that had the monitor before it slept comes back with its holds.
Enter(t) ==
  /\ holder = NoOne /\ holder' = t
  /\ t \notin woken /\ \A i \in DOMAIN asleep : asleep[i] # t
  /\ \/ holds[t] = 0 /\ holds' = [holds EXCEPT ![t] = 1]
     \/ holds[t] > 0 /\ UNCHANGED holds
  /\ UNCHANGED <<asleep, woken, answer>>

Reenter(t) == /\ holder = t
              /\ holds' = [holds EXCEPT ![t] = @ + 1]
              /\ UNCHANGED <<holder, asleep, woken, answer>>

Leave(t) == /\ holder = t
            /\ holds' = [holds EXCEPT ![t] = @ - 1]
            /\ holder' = IF holds[t] = 1 THEN NoOne ELSE t
            /\ UNCHANGED <<asleep, woken, answer>>

Sleep(t) == /\ holder = t /\ holder' = NoOne
            /\ asleep' = Append(asleep, t)
            /\ UNCHANGED <<holds, woken, answer>>

\* A sleep of no time: the monitor is given up, nobody can wake the thread.
Yield(t) == /\ holder = t /\ holder' = NoOne
            /\ answer' = [answer EXCEPT ![t] = "TimedOut"]
            /\ UNCHANGED <<holds, asleep, woken>>

Without(t) == LET at == CHOOSE i \in DOMAIN asleep : asleep[i] = t
              IN [i \in 1..(Len(asleep) - 1) |-> asleep[IF i < at THEN i ELSE i + 1]]

Wake(t) == /\ asleep # <<>> /\ t = Head(asleep)
           /\ asleep' = Tail(asleep) /\ woken' = woken \cup {t}
           /\ UNCHANGED <<holder, holds, answer>>

WakeNamed(t) == /\ \E i \in DOMAIN asleep : asleep[i] = t
                /\ asleep' = Without(t) /\ woken' = woken \cup {t}
                /\ UNCHANGED <<holder, holds, answer>>

WakeAll == /\ asleep # <<>> /\ asleep' = <<>>
           /\ woken' = woken \cup {asleep[i] : i \in DOMAIN asleep}
           /\ UNCHANGED <<holder, holds, answer>>

Awake(t) == /\ t \in woken /\ woken' = woken \ {t}
            /\ answer' = [answer EXCEPT ![t] = "Ok"]
            /\ UNCHANGED <<holder, holds, asleep>>

TimesOut(t) == /\ \E i \in DOMAIN asleep : asleep[i] = t
               /\ asleep' = Without(t)
               /\ answer' = [answer EXCEPT ![t] = "TimedOut"]
               /\ UNCHANGED <<holder, holds, woken>>

Next == \/ WakeAll
        \/ \E t \in Threads :
             \/ Enter(t) \/ Reenter(t) \/ Leave(t)
             \/ Sleep(t) \/ Yield(t) \/ Wake(t) \/ WakeNamed(t)
             \/ Awake(t) \/ TimesOut(t)

Spec == Init /\ [][Next]_vars
=============================================================================
