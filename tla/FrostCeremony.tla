---------------------------- MODULE FrostCeremony ----------------------------
(***************************************************************************)
(* One key generation and one signing ceremony of the resulting group, with *)
(* the values that the members exchange and what the contracts check of     *)
(* them. KeyGenNetwork and SigningNetwork are about who answers when; this  *)
(* module is about what the answers compute. Every validator handles every  *)
(* event as soon as it is logged.                                           *)
(*                                                                          *)
(* Dishonest members publish any words. They prove knowledge of what they   *)
(* chose themselves only, and repeat proofs of others. The constant terms   *)
(* of the polynomials and the nonces come with proofs or are hashed before  *)
(* they are used, so that nobody can make their sums zero: these sums are   *)
(* taken to be other than zero, which otherwise is as unlikely as guessing  *)
(* a key. The other terms come without proof, and a member that commits     *)
(* after the others can make the verifying share of one of them zero.       *)
(***************************************************************************)
EXTENDS Frost

CONSTANTS
    Honest,             \* members that run the validator
    Secrets,            \* bound: [Participants -> the secrets it may generate]
    Nonces,             \* bound: [Participants -> the nonce pairs it may generate]
    BindingFactors,     \* bound: the functions [Participants -> binding factor]
    Challenges          \* bound: the challenges

ASSUME CeremonyAssumption == Honest \subseteq Participants

VARIABLES
    secrets,        \* [member -> its Secrets]
    commitments,    \* the commitments logged so far, by member
    keys,           \* FROSTParticipantMap.keys: the public key shares
    shares,         \* [honest member -> the verified shares it has, by dealer]
    complaints,     \* the complaints so far: <<plaintiff, accused>>
    unresponded,    \* those that await their response
    blamed,         \* whom an honest member found to be a culprit
    key_shares,     \* the signing shares of those that finalized
    committed,      \* nonces logged for the signing ceremony, by signer
    signers,        \* who signs, {} before the signing ceremony
    hashes,         \* [rho, challenge] of the signing ceremony, << >> before
    included,       \* Aggregate.participants: whose shares were registered
    aggregate,      \* Aggregate.signature
    reverted,       \* honest members that had a transaction refused
    signed          \* the ceremony has completed

keyGenVars == <<secrets, commitments, keys, shares, complaints, unresponded, key_shares>>
signVars == <<committed, signers, hashes, included, aggregate, signed>>
vars == <<keyGenVars, blamed, signVars, reverted>>

Init ==
    /\ secrets \in [Participants -> UNION {Secrets[p] : p \in Participants}]
    /\ \A p \in Participants : secrets[p] \in Secrets[p]
    /\ commitments = << >> /\ keys = << >>
    /\ shares = [v \in Honest |-> << >>]
    /\ complaints = {} /\ unresponded = {} /\ blamed = {} /\ key_shares = << >>
    /\ committed = << >> /\ signers = {} /\ hashes = << >>
    /\ included = {} /\ aggregate = [r |-> 0, z |-> 0] /\ reverted = {} /\ signed = FALSE

\* A map with one more entry, or a new value for it.
Put(f, p, value) == (p :> value) @@ f

Complete(f) == DOMAIN f = Participants

\* A culprit ends the ceremony: the validators start over without it.
Going == blamed = {}

-----------------------------------------------------------------------------
(* What the contracts check (FROST.sol, FROSTSignatureShares.sol)           *)

\* Secp256k1.mulmuladd: z G - e P = R, for points other than the identity
MulMulAdd(z, e, p, r) == e % Q # 0 /\ p # 0 /\ r # 0 /\ z = (r + e * p) % Q

\* FROST.verifyProofOfKnowledge; mulmuladd takes no identity and no other point
ProofAccepted(p, phi, proof) == Decodes(phi) /\ phi # 0 /\ ProofHolds(p, phi, proof)

\* The group's participants_tree, and participate_as, which has the proof of
\* participation
ParticipantsTree ==
    Build([i \in 1 .. Cardinality(Participants) |-> <<ByAddress(Participants)[i]>>])
Poap(p) == Proof(ParticipantsTree, IndexIn(ByAddress(Participants), p))

\* keyGenCommit's requirements
CommitmentAccepted(p, poap, commitment) ==
    /\ p \notin DOMAIN commitments
    /\ Len(commitment.c) = Threshold
    /\ ProofAccepted(p, commitment.c[1], commitment.pok)
    /\ ProofAccepted(p, commitment.q, commitment.pop)
    /\ ProofVerifies(poap, Root(ParticipantsTree), <<p>>)

\* keyGenSecretShare's, with those of FROSTParticipantMap.set
SecretShareAccepted(p, share) ==
    /\ Complete(commitments) /\ p \notin DOMAIN keys
    /\ Len(share.f) = Cardinality(Participants) - 1
    /\ Decodes(share.y) /\ share.y # 0

\* signCommitNonces'
NoncesAccepted(nonces) ==
    Decodes(nonces.d) /\ Decodes(nonces.e) /\ nonces.d # 0 /\ nonces.e # 0

\* FROST.verifyShare
SignatureShareVerifies(p, share) ==
    share.z < Q /\ MulMulAdd(share.z, hashes.challenge * share.l, keys[p], share.r)

\* FROST.verify
SignatureVerifies(signature) ==
    signature.z < Q /\ MulMulAdd(signature.z, hashes.challenge, GroupKey(commitments), signature.r)

\* What FROSTSignatureShares.register accumulates
Accumulated(share) == [r |-> (aggregate.r + share.r) % Q, z |-> (aggregate.z + share.z) % Q]

\* The requirements of FROSTSignatureShares.register
Registers(p, s) ==
    /\ p \notin included
    /\ ProofVerifies(s.proof, s.selection.root, SignerLeaf(p, s.share.r, s.share.l, s.selection.r))

\* signShare's requirements: the sum that has the selection's commitment must be a
\* signature.
SignatureShareAccepted(p, s) ==
    /\ SignatureShareVerifies(p, s.share) /\ Registers(p, s)
    /\ Accumulated(s.share).r = s.selection.r => SignatureVerifies(Accumulated(s.share))

-----------------------------------------------------------------------------
(* Key generation                                                           *)

\* Everybody handles a logged commitment.
Committed(p, commitment) ==
    /\ commitments' = Put(commitments, p, commitment)
    /\ blamed' = IF VerifyCommitment(p, commitment) THEN blamed ELSE blamed \cup {p}
    /\ UNCHANGED <<secrets, keys, shares, complaints, unresponded, key_shares, signVars, reverted>>

Commit(p) ==
    /\ Going /\ p \in Honest /\ p \notin DOMAIN commitments
    /\ LET commitment == Commitment(p, secrets[p]) IN
       IF CommitmentAccepted(p, Poap(p), commitment) THEN Committed(p, commitment)
       ELSE /\ reverted' = reverted \cup {p} /\ p \notin reverted
            /\ UNCHANGED <<keyGenVars, blamed, signVars>>

\* Another member may publish coefficients it does not know, such as differences of
\* the others', or that are no points, since only the first is checked, and repeat the
\* key and the proofs of others.
CommitAny(p) ==
    /\ Going /\ p \in Participants \ Honest
    /\ \E unproved \in [1 .. Threshold - 1 -> Words],
          q \in {0, secrets[p].encryption_key} \cup {commitments[o].q : o \in DOMAIN commitments},
          pop \in {ProofOfKnowledge(p, secrets[p].encryption_key)}
                    \cup {commitments[o].pop : o \in DOMAIN commitments} :
        LET commitment == [q |-> q, pop |-> pop, c |-> <<secrets[p].coefficients[1]>> \o unproved,
                           pok |-> ProofOfKnowledge(p, secrets[p].coefficients[1])] IN
        CommitmentAccepted(p, Poap(p), commitment) /\ Committed(p, commitment)

\* The members proved to know their parts of the group key before its sum was known.
Likely == GroupKey(commitments) # 0

\* The dealer's share for v, as v decrypts it
Received(v, p, share) == DecryptedShare(v, secrets[v], commitments, p, share)

\* The members that enough others accuse are left out.
Convicted(filed) == {a \in Participants : Cardinality({c \in filed : c[2] = a}) >= Threshold}

\* Everybody handles a logged secret share: who finds its own share wrong complains.
SecretShared(p, share) ==
    LET valid == VerifySecretShare(commitments, p, share)
        holds == {v \in Honest : ShareVerifies(v, commitments[p], Received(v, p, share))}
        filed == {<<v, p>> : v \in Honest \ holds}
    IN  /\ keys' = Put(keys, p, share.y)
        /\ IF valid
           THEN /\ shares' = [v \in Honest |->
                      IF v \in holds THEN Put(shares[v], p, Received(v, p, share)) ELSE shares[v]]
                /\ complaints' = complaints \cup filed
                /\ unresponded' = unresponded \cup filed
                /\ blamed' = blamed \cup Convicted(complaints')
           ELSE /\ blamed' = blamed \cup {p}
                /\ UNCHANGED <<shares, complaints, unresponded>>
        /\ UNCHANGED <<secrets, commitments, key_shares, signVars, reverted>>

ShareSecret(p) ==
    /\ Going /\ p \in Honest /\ Complete(commitments) /\ Likely /\ p \notin DOMAIN keys
    /\ LET share == SecretShare(p, secrets[p], commitments) IN
       IF SecretShareAccepted(p, share) THEN SecretShared(p, share)
       ELSE /\ reverted' = reverted \cup {p} /\ p \notin reverted
            /\ UNCHANGED <<keyGenVars, blamed, signVars>>

ShareAny(p) ==
    /\ Going /\ p \in Participants \ Honest /\ Complete(commitments) /\ Likely
    /\ \E y \in {VerifyingShare(commitments, p), Q - VerifyingShare(commitments, p), 1},
          f \in [1 .. Cardinality(Participants) - 1 -> Words] :
        SecretShareAccepted(p, [y |-> y, f |-> f]) /\ SecretShared(p, [y |-> y, f |-> f])

\* Another member may accuse anybody once, until the group is complete.
ComplainAny(p) ==
    /\ Going /\ signers = {} /\ p \in Participants \ Honest /\ Complete(commitments)
    /\ \E accused \in Participants \ {p} :
        /\ <<p, accused>> \notin complaints
        /\ complaints' = complaints \cup {<<p, accused>>}
        /\ unresponded' = unresponded \cup {<<p, accused>>}
    /\ blamed' = blamed \cup Convicted(complaints')
    /\ UNCHANGED <<secrets, commitments, keys, shares, key_shares, signVars, reverted>>

\* Everybody handles the response to a complaint, a share in the clear.
Responded(plaintiff, accused, word) ==
    LET valid == RevealedShareVerifies(plaintiff, commitments, accused, word) IN
    /\ unresponded' = unresponded \ {<<plaintiff, accused>>}
    /\ shares' = IF valid /\ plaintiff \in Honest
                 THEN [shares EXCEPT ![plaintiff] = Put(@, accused, word)] ELSE shares
    /\ blamed' = IF valid THEN blamed ELSE blamed \cup {accused}
    /\ UNCHANGED <<secrets, commitments, keys, complaints, key_shares, signVars, reverted>>

Respond(p) ==
    /\ Going /\ p \in Honest
    /\ \E c \in unresponded : c[2] = p /\ Responded(c[1], p, RevealedShare(secrets[p], c[1]))

RespondAny(p) ==
    /\ Going /\ p \in Participants \ Honest
    /\ \E c \in unresponded, word \in Words : c[2] = p /\ Responded(c[1], p, word)

\* finalize, which checks that the member's own share is the one it dealt itself
FinalizeKey(p) ==
    /\ Going /\ p \notin DOMAIN key_shares /\ Complete(shares[p])
    /\ shares[p][p] = Evaluate(secrets[p].coefficients, Identifier[p])
    /\ key_shares' = Put(key_shares, p, Finalized(shares[p]))
    /\ UNCHANGED <<secrets, commitments, keys, shares, complaints, unresponded>>
    /\ UNCHANGED <<blamed, signVars, reverted>>

-----------------------------------------------------------------------------
(* Signing                                                                  *)

Sign ==
    /\ Going /\ signers = {} /\ unresponded = {} /\ DOMAIN key_shares = Honest
    /\ signers' \in {S \in SUBSET Participants : Cardinality(S) >= Threshold}
    /\ UNCHANGED <<keyGenVars, blamed, committed, hashes, included, aggregate, signed, reverted>>

CommitNonces(p, nonces) ==
    /\ Going /\ p \in signers \ DOMAIN committed
    /\ NoncesAccepted(nonces)
    /\ committed' = Put(committed, p, nonces)
    /\ blamed' = IF VerifyCommittedNonces(nonces) THEN blamed ELSE blamed \cup {p}
    /\ UNCHANGED <<keyGenVars, signers, hashes, included, aggregate, signed, reverted>>

\* The hashes depend on all that was committed, so they come after it. No signers'
\* commitment shares sum up to the identity.
Hash ==
    /\ Going /\ signers # {} /\ DOMAIN committed = signers /\ hashes = << >>
    /\ \E rho \in BindingFactors, challenge \in Challenges :
        /\ \A S \in SUBSET signers \ {{}} :
               Total(S, LAMBDA s : CommitmentShare(committed[s], rho[s])) # 0
        /\ hashes' = [rho |-> rho, challenge |-> challenge]
    /\ UNCHANGED <<keyGenVars, blamed, committed, signers, included, aggregate, signed, reverted>>

Ours(p) == SignatureShare(p, key_shares[p], committed, hashes.rho, hashes.challenge)

\* signShare, after its checks
SignShared(p, s) ==
    /\ included' = included \cup {p}
    /\ aggregate' = Accumulated(s.share)
    /\ signed' = (signed \/ Accumulated(s.share).r = s.selection.r)
    /\ UNCHANGED <<keyGenVars, blamed, committed, signers, hashes, reverted>>

SignShare(p) ==
    /\ Going /\ hashes # << >> /\ p \in signers \cap Honest /\ p \notin included
    /\ IF SignatureShareAccepted(p, Ours(p)) THEN SignShared(p, Ours(p))
       ELSE /\ reverted' = reverted \cup {p} /\ p \notin reverted
            /\ UNCHANGED <<keyGenVars, blamed, signVars>>

\* Another signer sends any z for the selection that the honest signers built.
SignShareAny(p) ==
    /\ Going /\ hashes # << >> /\ p \in signers \ Honest
    /\ \E z \in Words :
        LET s == [SignatureShare(p, 0, committed, hashes.rho, hashes.challenge)
                    EXCEPT !.share.z = z]
        IN  SignatureShareAccepted(p, s) /\ SignShared(p, s)

Next ==
    \/ \E p \in Participants :
        \/ Commit(p) \/ CommitAny(p) \/ ShareSecret(p) \/ ShareAny(p)
        \/ ComplainAny(p) \/ Respond(p) \/ RespondAny(p)
        \/ \E nonces \in Nonces[p] : CommitNonces(p, nonces)
        \/ SignShare(p) \/ SignShareAny(p)
    \/ \E p \in Honest : FinalizeKey(p)
    \/ Sign \/ Hash

Spec == Init /\ [][Next]_vars

-----------------------------------------------------------------------------
(* Properties                                                               *)

\* A validator that follows the protocol is never a culprit, whatever the others
\* publish: every honest member finds its commitment, its public key share, the share
\* it encrypted for it and its responses right (the culprits of keygen.rs), so that
\* nobody honest complains about it either, and no false complaints convict it.
HonestNeverBlamed ==
    /\ blamed \cap Honest = {}
    /\ \A c \in complaints : {c[1], c[2]} \cap Honest # {c[1], c[2]}

\* Once a validator has finalized, its signing share is the logarithm of the public
\* key share the contract has for it, and the public key shares of any Threshold
\* members interpolate to the group key the contract has: what a dishonest dealer
\* encrypted wrongly, or answered wrongly, never gets into a key share.
KeyedTogether ==
    \A v \in DOMAIN key_shares :
        /\ key_shares[v] = keys[v]
        /\ \A S \in kSubset(Threshold, Participants) :
              Total(S, LAMBDA p : InterpolatingValue(S, p) * keys[p]) = GroupKey(commitments)

\* The contracts refuse nothing that an honest validator submits, neither its proof of
\* participation nor its signature share with the Merkle proof of its place in the
\* selection, except the public key shares that the commitments make the identity
\* (FROSTParticipantMap.set), which are fewer than Threshold, as KeyGenNetwork has it.
\* And the ceremony completes exactly when all signers' shares are there.
SelectionSigns ==
    /\ \A p \in reverted : p \notin DOMAIN keys /\ VerifyingShare(commitments, p) = 0
    /\ Cardinality(reverted) < Threshold
    /\ signed <=> signers # {} /\ included = signers
=============================================================================
