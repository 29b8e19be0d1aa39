---------------------------- MODULE MCCacheIndex ----------------------------
(* Instances of CacheIndex for TLC. *)
EXTENDS CacheIndex, TLC

CONSTANTS c1, c2, c3, u1

MCClients == {c1, c2, c3}
MCTwoClients == {c1, c2}
MCURIs == {u1}

\* Clients are interchangeable.
MCSymmetry == Permutations(MCClients)
MCTwoSymmetry == Permutations(MCTwoClients)
=============================================================================
