------------------------------- MODULE Commands ------------------------------
(***************************************************************************)
(* What the render thread leaves to others: copies, packets and            *)
(* submissions to two workers (SubmitPath), and operations to the thread   *)
(* that runs them (DeferredOperations).  They share no state: a behaviour  *)
(* is of one of them, and the other stays as it was made.                  *)
(***************************************************************************)
EXTENDS SubmitPath

CONSTANTS Threads, Owner, Deferrers, Closers, Runner, None, MaxTick, MaxOps,
          OperationWaiters  \* those that call WaitPriorityOperations

VARIABLES
  used,  \* "submissions" or "operations"
  dTick, dDone, dKnown, dOps, dPending, dPriority, dActive, dPhase, dStop, dRunner,
  dPc, dArg, dCloser, dAsleep, dOwes

\* An instance of the module that has its proofs, whose lemmas it takes along.
Operations == INSTANCE DeferredOperations_proofs WITH
  Waiters <- OperationWaiters,
  tick <- dTick, done <- dDone, known <- dKnown, ops <- dOps, pending <- dPending,
  priority <- dPriority, active <- dActive, phase <- dPhase, stop <- dStop,
  runner <- dRunner, pc <- dPc, arg <- dArg, closer <- dCloser, asleep <- dAsleep,
  owes <- dOwes

ASSUME OperationsAssumption == Operations!DeferredAssumption

operationVars == <<dTick, dDone, dKnown, dOps, dPending, dPriority, dActive, dPhase,
                   dStop, dRunner, dPc, dArg, dCloser, dAsleep, dOwes>>
allVars == <<used, vars, operationVars>>

OfSubmissions(A) == used = "submissions" /\ A /\ UNCHANGED <<used, operationVars>>
OfOperations(A) == used = "operations" /\ A /\ UNCHANGED <<used, vars>>

CommandsInit ==
  /\ used \in {"submissions", "operations"}
  /\ Init /\ Operations!Init
  /\ used # "submissions" => deferred = TRUE

CommandsNext ==
  \/ OfSubmissions(Next)
  \/ OfOperations(Operations!Next)
  \/ used = "operations" /\ UNCHANGED allVars \* shut down, or the bounds end it

\* The fairness of both: as one of them runs, theirs is joined by threads.
CommandsFairness ==
  /\ WF_allVars(OfSubmissions(UploadRuns) \/ OfOperations(Operations!GpuFinishes))
  /\ WF_allVars(OfSubmissions(RecorderRuns) \/ OfOperations(Operations!RunnerStep))
  /\ WF_allVars(OfSubmissions(RenderGoesOn) \/ OfOperations(Operations!PopBegins))
  /\ \A e \in Threads \cup {Runner} : WF_allVars(OfOperations(Operations!NotifyOne(e)))
  /\ \A t \in Threads : WF_allVars(OfOperations(Operations!Continues(t)))

CommandsSpec == CommandsInit /\ [][CommandsNext]_allVars /\ CommandsFairness

\* What is deferred runs after the GPU, priority operations first, and none is
\* dropped by the shutdown.
DeferredInv == Operations!DeferredInv

\* Every submission reaches the driver, what was deferred in one runs, and who
\* waits for it returns.
WorkCompletes == SubmissionsArrive /\ Operations!OperationsComplete
=============================================================================
