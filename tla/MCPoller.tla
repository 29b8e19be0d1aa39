------------------------------ MODULE MCPoller ------------------------------
(* An instance of Poller for TLC. *)
EXTENDS Poller, TLC

CONSTANTS fd1, fd2, fd3

MCFDs == {fd1, fd2}
MCThreeFDs == {fd1, fd2, fd3}
MCRequests == {"in", "out"}
MCOneRequest == {"in"}
MCErrors == {"hup"}

\* File descriptors are interchangeable.
MCSymmetry == Permutations(MCFDs)
MCThreeSymmetry == Permutations(MCThreeFDs)
=============================================================================
