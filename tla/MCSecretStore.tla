--------------------------- MODULE MCSecretStore ---------------------------
(* The secret store under every order of calls, on a small instance.       *)
EXTENDS SecretStore, TLC

CONSTANTS g1, g2, c1, c2, x1, x2, x3

MCGroups == {g1, g2}
MCSignatureIds == {c1, c2}
MCSamples == {x1, x2, x3}

\* Groups, ceremonies and samples are only compared for equality.
MCSymmetry == Permutations(MCGroups) \cup Permutations(MCSignatureIds)
                  \cup Permutations(MCSamples)
=============================================================================
