--------------------------- MODULE MCRecordStream ---------------------------
(* Instances of RecordStream for TLC. *)
EXTENDS RecordStream, TLC

CONSTANTS c1, c2

MCClients == {c1, c2}
MCOneClient == {c1}
MCSizes == {1, 2}
MCThreeSizes == {1, 2, 3}

\* Clients are interchangeable.
MCSymmetry == Permutations(MCClients)
=============================================================================
