--------------------------- MODULE PthreadThreads ---------------------------
(***************************************************************************)
(* The life of a guest thread: PthreadCreate, PthreadJoin, PthreadDetach,  *)
(* RunThread and the thread that frees detached threads (pthread.cpp).     *)
(*                                                                         *)
(* The pool's records are found and taken under its mutex, and the reaper  *)
(* scans them under it; PthreadCreate fills in a record and PthreadJoin    *)
(* gives it back without it.  The flags are atomic, each load and store a  *)
(* step of its own.  A record that was never used counts as free.          *)
(***************************************************************************)
EXTENDS Naturals

CONSTANTS Guests,    \* threads that create and join others
          None,
          Records,   \* 1 .. the records of the pool
          MaxLives   \* bound: threads created

\* What the constants have to be; the instances assume it.
ThreadsAssumption ==
  None \notin Records /\ 1 \in Records /\ Records \subseteq Nat /\ MaxLives \in Nat

VARIABLES
  free, detached, almostDone,  \* of each record
  stack,    \* its attr has a mapped stack
  host,     \* the host's thread of each record
  life,     \* how many threads the record has been (history)
  guest,    \* what each guest thread does, and with which record's life
  reaper,   \* what the reaper does, and to which record
  bad,      \* a thread was joined that is joined, or another one (history)
  slipped   \* records filled in between two loads of the reaper (history)

flags == <<free, detached, almostDone>>
vars == <<flags, stack, host, life, guest, reaper, bad, slipped>>

Idle == [at |-> "idle", record |-> None, life |-> 0, detached |-> FALSE]
Sleeps == [at |-> "sleeps", record |-> None]

Init ==
  /\ free = [r \in Records |-> TRUE] /\ detached = [r \in Records |-> FALSE]
  /\ almostDone = [r \in Records |-> FALSE] /\ stack = [r \in Records |-> FALSE]
  /\ host = [r \in Records |-> "none"] /\ life = [r \in Records |-> 0]
  /\ guest = [g \in Guests |-> Idle] /\ reaper = Sleeps
  /\ bad = FALSE /\ slipped = {}

Goes(g, where) == guest' = [guest EXCEPT ![g].at = where]
Returns(g) == guest' = [guest EXCEPT ![g] = Idle]

(***************************************************************************)
(* PthreadCreate.                                                          *)
(***************************************************************************)

\* PthreadPool::Create: the first free record, while the reaper does not scan.
Take(g, wantsDetached) ==
  /\ guest[g] = Idle /\ reaper = Sleeps
  /\ \E r \in Records :
       /\ free[r] /\ \A q \in Records : q < r => ~free[q]
       /\ life[r] < MaxLives
       /\ free' = [free EXCEPT ![r] = FALSE]
       /\ life' = [life EXCEPT ![r] = @ + 1]
       /\ guest' = [guest EXCEPT ![g] = [at |-> "maps", record |-> r, life |-> life[r] + 1,
                                         detached |-> wantsDetached]]
  /\ UNCHANGED <<detached, almostDone, stack, host, reaper, bad, slipped>>

\* CreateGuestStack, which fails when the stack area is exhausted.
MapStack(g) ==
  /\ guest[g].at = "maps"
  /\ \/ stack' = [stack EXCEPT ![guest[g].record] = TRUE] /\ Goes(g, "clears") /\ UNCHANGED free
     \/ free' = [free EXCEPT ![guest[g].record] = TRUE] /\ Returns(g) /\ UNCHANGED stack
  /\ UNCHANGED <<detached, almostDone, host, life, reaper, bad, slipped>>

ClearDone(g) ==
  /\ guest[g].at = "clears"
  /\ almostDone' = [almostDone EXCEPT ![guest[g].record] = FALSE]
  /\ Goes(g, "marks")
  /\ UNCHANGED <<free, detached, stack, host, life, reaper, bad, slipped>>

SetDetached(g) ==
  LET r == guest[g].record
  IN /\ guest[g].at = "marks"
     /\ detached' = [detached EXCEPT ![r] = guest[g].detached]
     /\ slipped' = IF reaper.record = r /\ reaper.at # "looks" THEN slipped \cup {r} ELSE slipped
     /\ Goes(g, "starts")
     /\ UNCHANGED <<free, almostDone, stack, host, life, reaper, bad>>

\* The host's pthread_create, or its failure, which gives all of it back.
Start(g) ==
  LET r == guest[g].record
  IN /\ guest[g].at = "starts"
     /\ \/ /\ host' = [host EXCEPT ![r] = "runs"] /\ UNCHANGED <<free, stack>>
           /\ IF guest[g].detached THEN Returns(g) ELSE Goes(g, "holds")
        \/ /\ stack' = [stack EXCEPT ![r] = FALSE] /\ free' = [free EXCEPT ![r] = TRUE]
           /\ Returns(g) /\ UNCHANGED host
     /\ UNCHANGED <<detached, almostDone, life, reaper, bad, slipped>>

(***************************************************************************)
(* RunThread and CleanupThread.                                            *)
(***************************************************************************)

Cleanup(r) ==
  /\ host[r] = "runs" /\ host' = [host EXCEPT ![r] = "ends"]
  /\ almostDone' = [almostDone EXCEPT ![r] = TRUE]
  /\ UNCHANGED <<free, detached, stack, life, guest, reaper, bad, slipped>>

Exit(r) ==
  /\ host[r] = "ends" /\ host' = [host EXCEPT ![r] = "ended"]
  /\ UNCHANGED <<flags, stack, life, guest, reaper, bad, slipped>>

(***************************************************************************)
(* PthreadJoin and PthreadDetach, of a thread the guest made joinable.     *)
(***************************************************************************)

\* Mutant: the reaper frees detached threads that are not done, too.
DoneAlways(r) == TRUE

\* One of the loads of the reaper's test.
Done(r) == almostDone[r]

\* The host's pthread_join of record r, as its thread number n.
HostJoins(r, n) ==
  IF host[r] \in {"none", "joined"} \/ life[r] # n
    THEN bad' = TRUE /\ UNCHANGED host
    ELSE host[r] = "ended" /\ host' = [host EXCEPT ![r] = "joined"] /\ UNCHANGED bad

\* Mutant: the record is free before its thread has ended.
JoinBeforeEnd(g) ==
  /\ guest[g].at = "holds" /\ Goes(g, "frees")
  /\ UNCHANGED <<flags, stack, host, life, reaper, bad, slipped>>

Join(g) ==
  /\ guest[g].at = "holds" /\ HostJoins(guest[g].record, guest[g].life)
  /\ Goes(g, "frees")
  /\ UNCHANGED <<flags, stack, life, reaper, slipped>>

\* FreeGuestStack and almost_done.
FreesStack(r) == /\ stack' = [stack EXCEPT ![r] = FALSE]
                 /\ almostDone' = [almostDone EXCEPT ![r] = FALSE]

JoinFreesStack(g) ==
  /\ guest[g].at = "frees" /\ FreesStack(guest[g].record) /\ Goes(g, "gives")
  /\ UNCHANGED <<free, detached, host, life, reaper, bad, slipped>>

JoinReturns(g) ==
  /\ guest[g].at = "gives" /\ free' = [free EXCEPT ![guest[g].record] = TRUE]
  /\ Returns(g)
  /\ UNCHANGED <<detached, almostDone, stack, host, life, reaper, bad, slipped>>

Detach(g) ==
  /\ guest[g].at = "holds" /\ detached' = [detached EXCEPT ![guest[g].record] = TRUE]
  /\ Returns(g)
  /\ UNCHANGED <<free, almostDone, stack, host, life, reaper, bad, slipped>>

(***************************************************************************)
(* FreeDetachedThreads: for each record it loads detached, almost_done and *)
(* free, and joins.                                                        *)
(***************************************************************************)

Looks(r) == reaper' = [at |-> "looks", record |-> r]
Passes == LET r == reaper.record
          IN IF r + 1 \in Records THEN Looks(r + 1) ELSE reaper' = Sleeps

ReaperScans == /\ reaper = Sleeps /\ Looks(1)
               /\ UNCHANGED <<flags, stack, host, life, guest, bad, slipped>>

Loads(where, next, flag) ==
  /\ reaper.at = where
  /\ IF flag THEN reaper' = [reaper EXCEPT !.at = next] ELSE Passes
  /\ UNCHANGED <<flags, stack, host, life, guest, bad, slipped>>

ReaperReads == LET r == reaper.record
               IN \/ reaper.at = "looks" /\ Loads("looks", "sees", detached[r])
                  \/ reaper.at = "sees" /\ Loads("sees", "tests", Done(r))
                  \/ reaper.at = "tests" /\ Loads("tests", "joins", ~free[r])

ReaperJoins ==
  /\ reaper.at = "joins" /\ HostJoins(reaper.record, life[reaper.record])
  /\ reaper' = [reaper EXCEPT !.at = "frees"]
  /\ UNCHANGED <<flags, stack, life, guest, slipped>>

ReaperFreesStack ==
  /\ reaper.at = "frees" /\ FreesStack(reaper.record)
  /\ reaper' = [reaper EXCEPT !.at = "gives"]
  /\ UNCHANGED <<free, detached, host, life, guest, bad, slipped>>

ReaperGives ==
  /\ reaper.at = "gives" /\ free' = [free EXCEPT ![reaper.record] = TRUE] /\ Passes
  /\ UNCHANGED <<detached, almostDone, stack, host, life, guest, bad, slipped>>

Reaper == ReaperScans \/ ReaperReads \/ ReaperJoins \/ ReaperFreesStack \/ ReaperGives

-----------------------------------------------------------------------------

Next ==
  \/ Reaper
  \/ \E r \in Records : Cleanup(r) \/ Exit(r)
  \/ \E g \in Guests :
       \/ \E wantsDetached \in BOOLEAN : Take(g, wantsDetached)
       \/ MapStack(g) \/ ClearDone(g) \/ SetDetached(g) \/ Start(g)
       \/ Join(g) \/ JoinFreesStack(g) \/ JoinReturns(g) \/ Detach(g)

Spec == Init /\ [][Next]_vars

-----------------------------------------------------------------------------

\* The guest threads that have a record, and the reaper.
Users(r) == {g \in Guests : guest[g].record = r}
            \cup {None : x \in {y \in {reaper} : y.record = r /\ y.at \in {"joins", "frees", "gives"}}}

\* A thread has its stack until it is over; a record belongs to one life until
\* it is given back; and each thread is joined once, by the reaper only if it
\* is detached.  The one exception is a record that PthreadCreate fills in
\* after the reaper has read `detached' of its former life: a new thread that
\* is to be joined and is done when the reaper goes on is joined by it too.
ThreadsInv ==
  /\ reaper.at \in {"sleeps", "looks", "sees", "tests", "joins", "frees", "gives"}
  /\ slipped = {} =>
       /\ ~bad
       /\ \A r \in Records :
            /\ host[r] \in {"runs", "ends"} => stack[r] /\ ~free[r]
            /\ free[r] => ~stack[r] /\ Users(r) = {}
            /\ \A u, v \in Users(r) : u = v
=============================================================================
