--------------------------- MODULE MCFrostCeremony ---------------------------
EXTENDS FrostCeremony

\* The identifiers are in another order than the addresses.
MCIdentifier == <<3, 1, 5>>

Secret(a, b, key) == [coefficients |-> <<a, b>>, encryption_key |-> key]
MCSecrets == <<{Secret(1, 2, 2), Secret(4, 0, 3)},
               {Secret(2, 6, 5)},
               {Secret(3, 5, 4), Secret(5, 1, 6)}>>

Pair(d, e) == [d |-> d, e |-> e]
MCNonces == <<{Pair(1, 3), Pair(5, 2)}, {Pair(2, 4), Pair(0, 1), Pair(1, 7)}, {Pair(6, 1), Pair(3, 3)}>>

MCBindingFactors == {<<1, 2, 4>>, <<3, 5, 2>>}

\* Trees larger than the ceremony's: every leaf has a proof, and for no other leaf.
Leaves(n) == [i \in 1 .. n |-> <<i>>]
ASSUME ProofsOfLargerTrees ==
    \A n \in 1 .. 9 : \A i, j \in 1 .. n :
        ProofVerifies(Proof(Build(Leaves(n)), i - 1), Root(Build(Leaves(n))), <<j>>) <=> i = j
=============================================================================
