---------------------------- MODULE MCServerLife ----------------------------
(* Instances of ServerLife for TLC. *)
EXTENDS ServerLife, TLC

CONSTANTS c1, c2, r1, r2

MCClients == {c1, c2}
MCRemotes == {r1, r2}
MCOneClient == {c1}
MCOneRemote == {r1}

\* Clients, and remotes, are interchangeable.
MCSymmetry == Permutations(MCClients) \cup Permutations(MCRemotes)
=============================================================================
