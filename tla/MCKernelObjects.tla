-------------------------- MODULE MCKernelObjects --------------------------
(***************************************************************************)
(* Three threads and one object of the kernel, whichever it is.            *)
(***************************************************************************)
EXTENDS KernelObjects, TLC

CONSTANTS t1, t2, t3

\* The semaphore.
MCThreads == {t1, t2, t3}
MCInits == {-1, 0, 2}
MCMaxes == {0, 2}
MCNeeds == {0, 1, 2, 3}
MCSignalCounts == {1, 2, 3}
MCCancelCounts == {-1, 1, 3}
MCPriorities == {1, 2}

\* The event flag: two bits, waits for both, for any and with a reset.
W(b, m, c, x) == [op |-> "wait", bits |-> b, mode |-> m, clear |-> c, timed |-> x]
M(o, b) == [op |-> o, bits |-> b]
MCFlagWaits == {W({1, 2}, "And", "None", FALSE), W({1, 2}, "Or", "Bits", TRUE),
                W({1}, "And", "All", FALSE)}
MCFlagChanges == {M("set", {1}), M("set", {2}), M("clear", {1}), M("cancel", {2}),
                  M("delete", {})}
MCFlagPatterns == {{}, {1}}

Symmetry == Permutations(Threads)
=============================================================================
