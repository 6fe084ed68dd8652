----------------------------- MODULE MerkleTree -----------------------------
(***************************************************************************)
(* The Merkle trees of the validator (merkle.rs), and the verification of   *)
(* their proofs by OpenZeppelin's MerkleProof, which the contracts use. A   *)
(* digest is the value that was hashed, so different values never collide.  *)
(* Digests are tuples of different lengths: <<>> is zero, <<leaf>> a leaf   *)
(* and <<"pair", nodes>> a pair.                                            *)
(***************************************************************************)
EXTENDS Naturals, Sequences, SequencesExt

Zero == << >>

\* hash_pair puts the two nodes in ascending order, so it sees a set.
HashPair(a, b) == <<"pair", {a, b}>>

\* level.get(i).copied().unwrap_or(B256::ZERO), with i counted from 0
NodeAt(level, i) == IF i < Len(level) THEN level[i + 1] ELSE Zero

\* MerkleTree::build: the levels, from the leaves to the root
RECURSIVE Build(_)
Build(level) ==
    IF Len(level) <= 1 THEN <<level>>
    ELSE <<level>> \o Build([i \in 1 .. (Len(level) + 1) \div 2 |->
                                HashPair(NodeAt(level, 2 * (i - 1)), NodeAt(level, 2 * (i - 1) + 1))])

Root(tree) == NodeAt(Last(tree), 0)

\* current ^ 1
Sibling(i) == IF i % 2 = 0 THEN i + 1 ELSE i - 1

\* MerkleTree::proof: the siblings of the path from the leaf at index (counted from
\* 0) up to the root.
Proof(tree, index) ==
    [k \in 1 .. Len(tree) - 1 |-> NodeAt(tree[k], Sibling(index \div 2 ^ (k - 1)))]

\* MerkleProof.verifyCalldata
ProofVerifies(proof, root, leaf) == FoldLeft(HashPair, leaf, proof) = root
=============================================================================
