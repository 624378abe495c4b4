----------------------------- MODULE MCRenderer -----------------------------
(***************************************************************************)
(* Renderer for TLC.                                                       *)
(***************************************************************************)
EXTENDS Renderer, TLC

CONSTANTS viewer,
          t1, t2,  \* guest threads
          v1, v2,  \* ports or event queues
          f1, f2   \* frames or pages

MCOthers == {viewer}
MCGuests == {t1, t2}
MCRaisers == {"priority", "gpu"}
MCQueues == {v1, v2}
MCPages == {f1, f2}
MCBacked == {{f1}}

\* Pages of a region: immediate protection with mprotect, and with images; protection
\* queued behind earlier copies; images and queued protection together.  Two guest
\* threads share one page, or one has two.
Immediate == [reprotect |-> FALSE, upload |-> 0, pages |-> {f1}, image |-> {},
              mprotect |-> FALSE, alone |-> FALSE]
ModesOf(base, image) ==
  {[base EXCEPT !.mprotect = TRUE], [base EXCEPT !.upload = 1, !.image = image],
   [base EXCEPT !.reprotect = TRUE, !.upload = 1]}
MCModes ==
  ModesOf(Immediate, {f1})
    \cup {[Immediate EXCEPT !.reprotect = TRUE, !.upload = 2, !.image = {f1}]}
    \cup ModesOf([Immediate EXCEPT !.pages = {f1, f2}, !.alone = TRUE], {f2})

\* Three flips of a port, or two of ports that are opened again.
MCPorts == {v1, v2}
MCFrames == {f1, f2}
MCLimits == {<<3, 1>>, <<2, 2>>}

Symmetry == Permutations({t1, t2}) \cup Permutations({v1, v2})
=============================================================================
