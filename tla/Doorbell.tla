------------------------------ MODULE Doorbell ------------------------------
(***************************************************************************)
(* How the workers of src/local/async-upload.h and                         *)
(* src/local/vulkan-recording.cpp sleep and are woken.  A producer raises  *)
(* the counter; the worker follows it with a counter of its own.  When     *)
(* they are equal the worker says that it will sleep, looks once more, and *)
(* waits for the counter to change (std::atomic::wait compares before it   *)
(* sleeps and again when it is notified).  The producer notifies only if   *)
(* it finds the worker's word.  Every access is a step of its own.         *)
(***************************************************************************)
VARIABLES
  raised,   \* the counter of the producer
  reached,  \* the worker's own
  sleeping, \* the worker's word
  at        \* where the worker is

Places == {"polling", "tired", "checking", "parking", "parked", "waking", "running", "told"}

Step(from, to) == at = from /\ at' = to

\* The worker polled long enough.
Tires == Step("polling", "tired") /\ raised = reached /\ UNCHANGED sleeping

Announces == Step("tired", "checking") /\ sleeping' = TRUE

\* Mutant: it does not look again.
ChecksNot == Step("checking", "parked") /\ UNCHANGED sleeping

Checks ==
  /\ at = "checking" /\ UNCHANGED sleeping
  /\ at' = IF raised = reached THEN "parking" ELSE "waking"

Parks ==
  /\ at = "parking" /\ UNCHANGED sleeping
  /\ at' = IF raised = reached THEN "parked" ELSE "waking"

Wakes == Step("waking", "polling") /\ sleeping' = FALSE

\* The worker's part, from the last piece of work to the next.
Rests == Tires \/ Announces \/ Checks \/ Parks \/ Wakes

\* The producer's part: a look at the word and, if need be, notify_one.
Rings == /\ at' = IF sleeping /\ at = "parked" THEN "parking" ELSE at
         /\ UNCHANGED sleeping

\* The producer need not ring: the worker will look by itself.
Attends == at = "parked" => raised = reached
=============================================================================
