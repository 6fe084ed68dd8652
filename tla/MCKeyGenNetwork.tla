-------------------------- MODULE MCKeyGenNetwork --------------------------
EXTENDS KeyGenNetwork, TLC

CONSTANTS h1, h2, h3, f

MCHonest == {h1, h2, h3}
MCParticipants == {h1, h2, h3, f}

\* h3 is not a member of the genesis group.
MCConfigured == [e \in 0 .. 3 |-> IF e = Genesis THEN {h1, h2, f} ELSE MCParticipants]

Symmetric == Permutations({h1, h2})
=============================================================================
