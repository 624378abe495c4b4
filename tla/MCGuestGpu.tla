----------------------------- MODULE MCGuestGpu -----------------------------
(* Instance of GuestGpu for TLC: one label, written or waited for. *)
EXTENDS GuestGpu
CONSTANTS l
Write == [op |-> "write", label |-> l]
Wait == [op |-> "wait", label |-> l]
MCLabels == {l}
MCPrograms == {<<Wait>>, <<Write, Wait>>}
=============================================================================
