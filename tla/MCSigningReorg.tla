-------------------------- MODULE MCSigningReorg --------------------------
(* The validator and one peer; two messages compete for a signature id.    *)
EXTENDS SigningReorg, TLC

CONSTANTS me, peer, m1, m2, x1, x2

MCMessages == {m1, m2}
MCSamples == {x1, x2}
MCSymmetry == Permutations(MCMessages) \cup Permutations(MCSamples)
=============================================================================
