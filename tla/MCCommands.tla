----------------------------- MODULE MCCommands -----------------------------
(* Instance of Commands for TLC: the recording thread defers, a guest waits, *)
(* and two threads shut down.                                                *)
EXTENDS Commands

CONSTANTS rt, rw

MCWaiters == {rt, rw}
=============================================================================
