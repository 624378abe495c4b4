------------------------------- MODULE MCMemory -------------------------------
(***************************************************************************)
(* Memory for TLC, and two parts more that share no state with it: the     *)
(* table of the ranges and the calls that keep every ledger in step.       *)
(***************************************************************************)
EXTENDS Memory, TLC

CONSTANTS t1, t2, t3, p1, p2, f1, f2, n1, n2

MCThread == {t1, t2, t3}
MCGuests == {t1, t2}
MCBuffers == {f1, f2}
MCModes == [engine : {TRUE}, detach : {TRUE}, slots : {1, 2}]

VARIABLES ranges, writer, odd, clamps, ledgers

\* Four pages, ranges that merge and ranges that do not, two names.
Table == INSTANCE VirtualRanges WITH
  LastPage <- 4, Prot <- {p1}, Name <- {n1, n2},
  Kinds <- {[type |-> "Reserved", lone |-> FALSE], [type |-> "Flexible", lone |-> TRUE],
            [type |-> "Direct", lone |-> FALSE]},
  cached <- clamps

\* Two pages of addresses and a host that refuses, or three and a host that does not;
\* two pages of direct and one of flexible memory.
Calls(last, refuses) == INSTANCE GuestMemory WITH
  LastPage <- last, DirectPages <- 2, FlexiblePages <- 1, Prot <- {1},
  Name <- {n1}, Anon <- n1, HostRefuses <- refuses, ReleasesSplit <- FALSE, mem <- ledgers

tableVars == <<ranges, writer, odd, clamps>>
allVars == <<memoryVars, tableVars, ledgers>>

NoTable == ranges = 0 /\ writer = 0 /\ odd = 0 /\ clamps = 0

AllInit ==
  \/ MemoryInit /\ NoTable /\ ledgers = 0
  \/ /\ Init /\ (\A a \in Addr : maps[a] = NoOne) /\ Residency!Init /\ Readback!Init
     /\ rMode = [engine |-> TRUE, detach |-> TRUE, slots |-> 1]
     /\ \/ used = "table" /\ Table!Init /\ ledgers = 0
        \/ used = "calls" /\ NoTable /\ Calls(3, FALSE)!Init
        \/ used = "refusals" /\ NoTable /\ Calls(2, TRUE)!Init

AllNext ==
  \/ MemoryNext /\ UNCHANGED <<tableVars, ledgers>>
  \/ used = "table" /\ Table!Next /\ UNCHANGED <<memoryVars, ledgers>>
  \/ used = "calls" /\ Calls(3, FALSE)!Next /\ UNCHANGED <<memoryVars, tableVars>>
  \/ used = "refusals" /\ Calls(2, TRUE)!Next /\ UNCHANGED <<memoryVars, tableVars>>

AllSpec == AllInit /\ [][AllNext]_allVars

Symmetry == Permutations({t1, t2}) \cup Permutations({f1, f2})

\* Updates and queries of the table of ranges are what they are page by page.
UpdatesArePagewise == used = "table" => Table!UpdatesArePagewise
QueriesArePagewise == used = "table" => Table!QueriesArePagewise

\* Every ledger of guest memory tells the same of each page.
MemoryInStep ==
  /\ used = "calls" => Calls(3, FALSE)!MemoryInStep
  /\ used = "refusals" => Calls(2, TRUE)!MemoryInStep

\* A call that the host refuses halfway leaves the ledgers as they were.
RollbackIsTotal ==
  /\ used = "calls" => Calls(3, TRUE)!RollbackIsTotal
  /\ used = "refusals" => Calls(2, TRUE)!RollbackIsTotal
===============================================================================
