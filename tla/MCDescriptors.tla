--------------------------- MODULE MCDescriptors ---------------------------
(* Instances of Descriptors for TLC. *)
EXTENDS Descriptors, TLC

CONSTANTS s1, s2, s3, s4, s5

MCSockets == {s1, s2, s3, s4, s5}
MCFDs == 4..6

\* Sockets are interchangeable.
MCSymmetry == Permutations(MCSockets)
=============================================================================
