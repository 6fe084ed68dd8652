-------------------------------- MODULE Frost --------------------------------
(***************************************************************************)
(* The arithmetic of the validator's FROST code (frost/*.rs), over a field  *)
(* of Q elements. A point of the curve is written as its discrete logarithm *)
(* to the generator, so that the identity is 0, adding points is adding     *)
(* numbers and multiplying a point by a scalar is multiplying numbers. What *)
(* travels on chain, points and scalars, are words; those from Q on decode  *)
(* to nothing. What is infeasible on the curve (computing logarithms,       *)
(* proving knowledge of one that is unknown, hash collisions) is left out   *)
(* of what dishonest members do, in FrostCeremony.                          *)
(***************************************************************************)
EXTENDS Integers, Sequences, FiniteSetsExt, MerkleTree, Bitwise

CONSTANTS
    Q,              \* the order of the curve, a prime
    WordBits,       \* the bits of a word: 256 in the code
    Participants,   \* the members' addresses, which are numbers
    Identifier,     \* [Participants -> 1 .. Q - 1], participants::identifier
    Threshold

ASSUME FieldAssumption == Q < 2 ^ WordBits /\ \A n \in 2 .. Q - 1 : Q % n # 0
ASSUME IdentifierAssumption ==
    /\ Participants \subseteq Nat /\ Threshold \in 1 .. Cardinality(Participants)
    /\ \A p \in Participants : Identifier[p] \in 1 .. Q - 1
    /\ \A p, q \in Participants : Identifier[p] = Identifier[q] => p = q

Words == 0 .. 2 ^ WordBits - 1

\* marshal::frost_scalar and frost_point: the words that decode
Decodes(word) == word < Q

Total(S, f(_)) == MapThenSumSet(f, S) % Q

Reciprocal(x) == CHOOSE y \in 1 .. Q - 1 : (x * y) % Q = 1

\* The members in the order of a BTreeMap keyed by address, resp. by identifier.
ByAddress(S) == SetToSortSeq(S, LAMBDA p, q : p < q)
ByIdentifier(S) == SetToSortSeq(S, LAMBDA p, q : Identifier[p] < Identifier[q])

\* The position of p in an ascending order, counted from 0: range(..p).count().
IndexIn(order, p) == SelectInSeq(order, LAMBDA q : q = p) - 1

-----------------------------------------------------------------------------
(* Key generation (keygen.rs, ecdh.rs)                                      *)

\* The polynomial with these coefficients, or with these committed coefficients.
Evaluate(coefficients, x) ==
    Total(DOMAIN coefficients, LAMBDA k : coefficients[k] * x ^ (k - 1))

\* compute_proof_of_knowledge: a signature that only who knows the logarithm of the
\* point can make, and for no other identifier.
ProofOfKnowledge(p, point) == <<Identifier[p], point>>
ProofHolds(p, point, proof) == proof = <<Identifier[p], point>>

\* Secrets::commitment
Commitment(p, secrets) ==
    [q   |-> secrets.encryption_key,
     pop |-> ProofOfKnowledge(p, secrets.encryption_key),
     c   |-> secrets.coefficients,
     pok |-> ProofOfKnowledge(p, secrets.coefficients[1])]

\* marshal::frost_commitment
DecodesCommitment(commitment) ==
    Decodes(commitment.q) /\ \A k \in DOMAIN commitment.c : Decodes(commitment.c[k])

\* EncryptionPublicKey::from_point
IsPublicKey(point) == point # 0

\* verify_commitment, which blames p for a commitment that fails it
VerifyCommitment(p, commitment) ==
    /\ DecodesCommitment(commitment)
    /\ IsPublicKey(commitment.q) /\ ProofHolds(p, commitment.q, commitment.pop)
    /\ ProofHolds(p, commitment.c[1], commitment.pok)

\* group_commitment: the sum of everybody's polynomials
GroupCommitment(commitments) ==
    [k \in 1 .. Threshold |-> Total(DOMAIN commitments, LAMBDA p : commitments[p].c[k])]

\* VerifyingKey::from_commitment
GroupKey(commitments) == GroupCommitment(commitments)[1]

\* VerifyingShare::from_commitment
VerifyingShare(commitments, p) == Evaluate(GroupCommitment(commitments), Identifier[p])

\* The affine x coordinate of a point, the same for the point and its opposite.
AffineX(point) == IF point < Q - point THEN point ELSE Q - point

\* ecdh: encrypts and decrypts
Ecdh(private, public, word) == word ^^ AffineX((public * private) % Q)

\* generate_secret_shares: the public key share and the encrypted shares of the
\* peers, in ascending order of their addresses
SecretShare(p, secrets, commitments) ==
    LET peers == ByAddress(Participants \ {p}) IN
    [y |-> VerifyingShare(commitments, p),
     f |-> [i \in DOMAIN peers |->
               Ecdh(secrets.encryption_key, commitments[peers[i]].q,
                    Evaluate(secrets.coefficients, Identifier[peers[i]]))]]

\* verify_secret_share, which blames p for a share that fails it
VerifySecretShare(commitments, p, share) ==
    Decodes(share.y) /\ share.y = VerifyingShare(commitments, p)

\* Faulty variant: the dealer, who has no share of its own in f, is counted.
ShareIndexOfAll(me, dealer) == IndexIn(ByAddress(Participants), me) + 1

\* Where the dealer's f has the share of me, counted from 1.
ShareIndex(me, dealer) == IndexIn(ByAddress(Participants \ {dealer}), me) + 1

\* Faulty variant: any scalar is taken.
ShareVerifiesIfScalar(me, commitment, word) == Decodes(word)

\* VerifiedShare::new: the word is a scalar, and the one that the dealer's committed
\* polynomial has for me. The dealer is blamed if not.
ShareVerifies(me, commitment, word) ==
    Decodes(word) /\ word = Evaluate(commitment.c, Identifier[me])

\* verify_encrypted_secret_share: what me verifies of the dealer's broadcast
DecryptedShare(me, secrets, commitments, dealer, share) ==
    IF dealer = me THEN Evaluate(secrets.coefficients, Identifier[me])
    ELSE IF ShareIndex(me, dealer) \notin DOMAIN share.f THEN Q
    ELSE Ecdh(secrets.encryption_key, commitments[dealer].q, share.f[ShareIndex(me, dealer)])

\* verify_revealed_secret_share, which anybody does for the plaintiff
RevealedShareVerifies(plaintiff, commitments, accused, word) ==
    ShareVerifies(plaintiff, commitments[accused], word)

\* reveal_secret_share
RevealedShare(secrets, peer) == Evaluate(secrets.coefficients, Identifier[peer])

\* finalize: the signing share
Finalized(shares) == Total(DOMAIN shares, LAMBDA p : shares[p])

-----------------------------------------------------------------------------
(* Signing (sign.rs)                                                        *)

\* verify_committed_nonces, which blames whose nonces fail it
VerifyCommittedNonces(nonces) == \A word \in {nonces.d, nonces.e} : Decodes(word) /\ word # 0

\* derive_interpolating_value: the Lagrange coefficient of p in a set of signers
InterpolatingValue(signers, p) ==
    MapThenFoldSet(LAMBDA x, y : (x * y) % Q, 1,
                   LAMBDA j : (Identifier[j] * Reciprocal((Identifier[j] - Identifier[p]) % Q)) % Q,
                   LAMBDA S : CHOOSE j \in S : TRUE, signers \ {p})

\* The commitment share d + rho e of a signer.
CommitmentShare(nonces, rho) == (nonces.d + rho * nonces.e) % Q

\* signer_leaf
SignerLeaf(p, r, l, group_r) == <<<<p, r, l, group_r>>>>

\* Faulty variant: the position among the signers' addresses.
LeafIndexByAddress(signers, p) == IndexIn(ByAddress(signers), p)

\* The position of a signer's leaf: the leaves are in the order of the identifiers.
LeafIndex(signers, p) == IndexIn(ByIdentifier(signers), p)

\* signature_share: what p submits with its signing share and nonces, given the
\* nonces that the signers committed to and the two hashes: the binding factors and
\* the challenge
SignatureShare(p, signing_share, committed, rho, challenge) ==
    LET signers == DOMAIN committed
        r       == [s \in signers |-> CommitmentShare(committed[s], rho[s])]
        l       == [s \in signers |-> InterpolatingValue(signers, s)]
        group_r == Total(signers, LAMBDA s : r[s])
        order   == ByIdentifier(signers)
        tree    == Build([i \in DOMAIN order |->
                             SignerLeaf(order[i], r[order[i]], l[order[i]], group_r)])
    IN  [selection |-> [r |-> group_r, root |-> Root(tree)],
         share     |-> [r |-> r[p], l |-> l[p],
                        z |-> (r[p] + l[p] * signing_share * challenge) % Q],
         proof     |-> Proof(tree, LeafIndex(signers, p))]
=============================================================================
