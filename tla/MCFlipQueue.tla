---------------------------- MODULE MCFlipQueue ----------------------------
(***************************************************************************)
(* FlipQueue for TLC.                                                      *)
(***************************************************************************)
EXTENDS FlipQueue

\* Three flips of a port that stays open.
MCLimits == {<<3, 1>>}
=============================================================================
