--------------------------- MODULE MCPageTracking ---------------------------
(* An instance of PageTracking for TLC: protections queued, image copies not. *)
EXTENDS PageTracking

CONSTANTS p1, p2

LateModes == {[reprotect |-> TRUE, upload |-> 1, pages |-> {p1, p2}, image |-> {p2},
               mprotect |-> FALSE, alone |-> FALSE]}
EachPage == {{p1}, {p2}}
=============================================================================
