--------------------------- MODULE SyncOnAddress ----------------------------
(***************************************************************************)
(* Waiting on the value of a guest word, src/kernel/syncOnAddress.cpp: the *)
(* futex of a Linux host (WaitLinux, WakeLinux), and the registry of       *)
(* waiters of every other host (WaitPortable, WakePortable).  One word is  *)
(* modelled; the words of a program share the registry's map only.         *)
(*                                                                         *)
(* A waiter sleeps 10 ms at most and polls for signals between two sleeps. *)
(* On Linux it is off the futex then ("polling", "checked"), so a wake     *)
(* finds nobody.  In the registry it stays listed from RegisterPortable-   *)
(* Waiter to UnregisterPortableWaiter, in one location "waiting", and its  *)
(* entry's mutex is held whenever it looks at anything; the second part of *)
(* the unregistration, which may drop the entry, is "sweeping".            *)
(***************************************************************************)
EXTENDS Naturals, Sequences, FiniteSets

CONSTANTS Threads, Entries, None,
          Platforms,  \* hosts: "futex", "portable"
          Values,     \* values of the word
          Counts      \* count arguments of Wake, not zero

\* What the constants have to be; the instances assume it.
SyncOnAddressAssumption ==
  /\ None \notin Entries /\ IsFiniteSet(Entries) /\ IsFiniteSet(Threads)
  /\ Cardinality(Entries) > Cardinality(Threads)
  /\ Platforms \subseteq {"futex", "portable"} /\ Counts \subseteq Nat \ {0}

VARIABLES
  platform,
  word,      \* *address
  queue,     \* the futex's sleepers, in the order they came
  registry,  \* the entry the registry has for the address
  waiters,   \* entry->waiters
  requested, \* waiters whose wake_requested is set
  pc,        \* where each thread is
  entry,     \* the entry each waiter holds
  expected,  \* the value it expects
  timed,     \* it has a deadline
  outcome,   \* what its last wait returned
  owed       \* threads inside a wait that a Wake meant for all of them found

host == <<queue, registry, waiters, requested>>
local == <<entry, expected, timed>>
vars == <<platform, word, host, pc, local, outcome, owed>>

Locations == {"idle", "checked", "parked", "polling", "waiting", "sweeping"}

Init ==
  /\ platform \in Platforms /\ word \in Values
  /\ queue = <<>> /\ registry = None
  /\ waiters = [e \in Entries |-> <<>>] /\ requested = {}
  /\ pc = [t \in Threads |-> "idle"]
  /\ entry = [t \in Threads |-> None]
  /\ expected \in {[t \in Threads |-> v] : v \in Values}
  /\ timed = [t \in Threads |-> FALSE]
  /\ outcome = [t \in Threads |-> "Ok"]
  /\ owed = {}

\* The guest writes the word.
Store(v) == /\ word' = v /\ v # word
            /\ UNCHANGED <<platform, host, pc, local, outcome, owed>>

Goes(t, where) == pc' = [pc EXCEPT ![t] = where]

Calls(t, v, hasTimeout) ==
  /\ expected' = [expected EXCEPT ![t] = v]
  /\ timed' = [timed EXCEPT ![t] = hasTimeout]

\* The wait is decided.
Answers(t, r) == /\ outcome' = [outcome EXCEPT ![t] = r]
                 /\ timed' = [timed EXCEPT ![t] = FALSE]
                 /\ owed' = owed \ {t}

\* std::list::remove, of a thread that is listed once.
Without(s, t) ==
  IF \A i \in DOMAIN s : s[i] # t THEN s
  ELSE LET at == CHOOSE i \in DOMAIN s : s[i] = t
       IN [i \in 1 .. (Len(s) - 1) |-> s[IF i < at THEN i ELSE i + 1]]

\* Threads inside a wait that have slept, and what a Wake of n owes them.
Asleep == {t \in Threads : pc[t] \in {"parked", "polling", "waiting"}}
Owes(n) == IF n >= Cardinality(Asleep) THEN owed \cup Asleep ELSE owed

(***************************************************************************)
(* Linux.  A wait that finds another value at once changes nothing.        *)
(***************************************************************************)

FutexChecks(t, v, hasTimeout) ==
  /\ platform = "futex" /\ pc[t] = "idle" /\ word = v
  /\ Calls(t, v, hasTimeout) /\ Goes(t, "checked")
  /\ UNCHANGED <<platform, word, host, entry, outcome, owed>>

\* FUTEX_WAIT compares and sleeps at once, or returns EAGAIN.
FutexParks(t) ==
  /\ pc[t] = "checked" /\ word = expected[t]
  /\ queue' = Append(queue, t) /\ Goes(t, "parked")
  /\ UNCHANGED <<platform, word, registry, waiters, requested, local, outcome, owed>>

\* The slice is over, or a signal interrupts the sleep.
FutexSliceEnds(t) ==
  /\ pc[t] = "parked"
  /\ queue' = Without(queue, t) /\ Goes(t, "polling")
  /\ UNCHANGED <<platform, word, registry, waiters, requested, local, outcome, owed>>

FutexSleepsAgain(t) ==
  /\ pc[t] = "polling" /\ word = expected[t] /\ Goes(t, "checked")
  /\ UNCHANGED <<platform, word, host, local, outcome, owed>>

\* EAGAIN, or the word has changed between two sleeps; or the deadline passed.
FutexReturns(t) ==
  /\ \/ /\ pc[t] \in {"checked", "polling"} /\ word # expected[t]
        /\ Answers(t, "Ok")
     \/ /\ pc[t] = "polling" /\ word = expected[t] /\ timed[t]
        /\ Answers(t, "TimedOut")
  /\ Goes(t, "idle")
  /\ UNCHANGED <<platform, word, host, entry, expected>>

\* FUTEX_WAKE: the first n sleepers of the queue return 0.
WakeLinux(n) ==
  LET k == IF n < Len(queue) THEN n ELSE Len(queue)
      woken == {queue[i] : i \in 1..k}
  IN /\ platform = "futex"
     /\ queue' = SubSeq(queue, k + 1, Len(queue))
     /\ pc' = [t \in Threads |-> IF t \in woken THEN "idle" ELSE pc[t]]
     /\ outcome' = [t \in Threads |-> IF t \in woken THEN "Ok" ELSE outcome[t]]
     /\ timed' = [t \in Threads |-> timed[t] /\ t \notin woken]
     /\ owed' = Owes(n) \ woken
     /\ UNCHANGED <<platform, word, registry, waiters, requested, entry, expected>>

(***************************************************************************)
(* Other hosts.                                                            *)
(***************************************************************************)

\* A new entry is one that nobody holds.
NewEntry == CHOOSE e \in Entries : \A t \in Threads : entry[t] # e
Registered == IF registry # None THEN registry ELSE NewEntry

\* RegisterPortableWaiter, and the first look at the word.
PortableWaits(t, v, hasTimeout) ==
  /\ platform = "portable" /\ pc[t] = "idle" /\ word = v
  /\ registry' = Registered
  /\ waiters' = [waiters EXCEPT ![Registered] = Append(@, t)]
  /\ entry' = [entry EXCEPT ![t] = Registered]
  /\ Calls(t, v, hasTimeout) /\ Goes(t, "waiting")
  /\ UNCHANGED <<platform, word, queue, requested, outcome, owed>>

\* The word has another value: listed and taken off in one go.
PortablePasses(t) ==
  /\ platform = "portable" /\ pc[t] = "idle" /\ Cardinality(Values) > 1
  /\ registry' = Registered
  /\ IF waiters[Registered] = <<>>
       THEN Goes(t, "sweeping") /\ entry' = [entry EXCEPT ![t] = Registered]
       ELSE UNCHANGED <<pc, entry>>
  /\ UNCHANGED <<platform, word, queue, waiters, requested, expected, timed, outcome, owed>>

\* Mutant: the waiter listens to the word only.
LeavesByWord(t) ==
  LET left == Without(waiters[entry[t]], t)
  IN /\ pc[t] = "waiting"
     /\ \/ word # expected[t] /\ Answers(t, "Ok")
        \/ word = expected[t] /\ timed[t] /\ Answers(t, "TimedOut")
     /\ waiters' = [waiters EXCEPT ![entry[t]] = left]
     /\ requested' = requested \ {t}
     /\ IF left = <<>> THEN Goes(t, "sweeping") /\ UNCHANGED entry
                       ELSE Goes(t, "idle") /\ entry' = [entry EXCEPT ![t] = None]
     /\ UNCHANGED <<platform, word, queue, registry, expected>>

\* The loop ends, and the first part of UnregisterPortableWaiter.
PortableLeaves(t) ==
  LET left == Without(waiters[entry[t]], t)
  IN /\ pc[t] = "waiting"
     /\ \/ (word # expected[t] \/ t \in requested) /\ Answers(t, "Ok")
        \/ word = expected[t] /\ t \notin requested /\ timed[t] /\ Answers(t, "TimedOut")
     /\ waiters' = [waiters EXCEPT ![entry[t]] = left]
     /\ requested' = requested \ {t}
     /\ IF left = <<>> THEN Goes(t, "sweeping") /\ UNCHANGED entry
                       ELSE Goes(t, "idle") /\ entry' = [entry EXCEPT ![t] = None]
     /\ UNCHANGED <<platform, word, queue, registry, expected>>

\* Mutant: the entry is not looked at again.
SweepsBlindly(t) ==
  /\ pc[t] = "sweeping" /\ Goes(t, "idle")
  /\ registry' = IF registry = entry[t] THEN None ELSE registry
  /\ entry' = [entry EXCEPT ![t] = None]
  /\ UNCHANGED <<platform, word, queue, waiters, requested, expected, timed, outcome, owed>>

\* The second part: the entry is dropped if it is still the registered one
\* and still empty.
PortableSweeps(t) ==
  /\ pc[t] = "sweeping" /\ Goes(t, "idle")
  /\ registry' = IF registry = entry[t] /\ waiters[entry[t]] = <<>>
                   THEN None ELSE registry
  /\ entry' = [entry EXCEPT ![t] = None]
  /\ UNCHANGED <<platform, word, queue, waiters, requested, expected, timed, outcome, owed>>

\* WakePortable: the first n waiters that have no wake yet.
WakePortable(n) ==
  LET list == IF registry = None THEN <<>> ELSE waiters[registry]
      fresh == {i \in DOMAIN list : list[i] \notin requested}
  IN /\ platform = "portable"
     /\ requested' = requested \cup
          {list[i] : i \in {j \in fresh : Cardinality({k \in fresh : k < j}) < n}}
     /\ owed' = Owes(n)
     /\ UNCHANGED <<platform, word, queue, registry, waiters, pc, local, outcome>>

Polls(t) == pc[t] = "waiting" /\ UNCHANGED vars

-----------------------------------------------------------------------------

Wake(n) == (\E t \in Threads : pc[t] = "idle") /\ (WakeLinux(n) \/ WakePortable(n))

Next ==
  \/ \E v \in Values : Store(v)
  \/ \E n \in Counts : Wake(n)
  \/ \E t \in Threads :
       \/ \E v \in Values, hasTimeout \in BOOLEAN :
            FutexChecks(t, v, hasTimeout) \/ PortableWaits(t, v, hasTimeout)
       \/ FutexParks(t) \/ FutexSliceEnds(t) \/ FutexSleepsAgain(t) \/ FutexReturns(t)
       \/ PortablePasses(t) \/ PortableLeaves(t) \/ PortableSweeps(t) \/ Polls(t)

Spec == Init /\ [][Next]_vars

-----------------------------------------------------------------------------

\* Types; a wake can reach every waiter: the futex has who sleeps on it, the
\* registry's entry of the address has who waits, whatever entries were
\* dropped and made again meanwhile.
WaitersAreReachable ==
  /\ pc \in [Threads -> Locations] /\ outcome \in [Threads -> {"Ok", "TimedOut"}]
  /\ timed \in [Threads -> BOOLEAN] /\ registry \in Entries \cup {None}
  /\ \A t \in Threads :
       /\ pc[t] = "parked" <=> \E i \in DOMAIN queue : queue[i] = t
       /\ pc[t] = "waiting" =>
            /\ registry = entry[t] /\ entry[t] \in Entries
            /\ \E i \in DOMAIN waiters[registry] : waiters[registry][i] = t
  /\ requested \subseteq {t \in Threads : pc[t] = "waiting"}

KeepsWakes(p) == platform = p => \A t \in owed \ owed' : outcome'[t] = "Ok"

\* A wake meant for everybody reaches everybody who waits, between two sleeps
\* too: none of them reports a timeout afterwards (the registry).
PortableKeepsWakes == [][KeepsWakes("portable")]_vars

\* The same of the futex (tests/SyncOnAddressTests.cpp says so of either).
FutexKeepsWakes == [][KeepsWakes("futex")]_vars
=============================================================================
