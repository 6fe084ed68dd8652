------------------------- MODULE MCSigningNetwork -------------------------
(* Three members, of which one may do anything.                            *)
EXTENDS SigningNetwork, TLC

CONSTANTS a, b, c, tx, epoch

MCSymmetry == Permutations({a, b})
=============================================================================
