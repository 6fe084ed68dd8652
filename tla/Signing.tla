------------------------------ MODULE Signing ------------------------------
(***************************************************************************)
(* A validator's signing ceremonies: the pure transition functions of       *)
(* crates/validator/src/state/sign.rs and transactions.rs. Every handler    *)
(* takes the validator's state and returns the next one with the commands   *)
(* it asks for; the modules that use them decide when they run.             *)
(*                                                                          *)
(* A state is [signing, index]: the ceremony of each message, or NoSession, *)
(* and signature_id_to_message. Fields that a stage does not have are       *)
(* blank. A selection root stands for the commitments it was built from.    *)
(***************************************************************************)
EXTENDS Integers, FiniteSets

CONSTANTS
    Messages,       \* messages to sign
    Transactions,   \* the messages that need an oracle's approval; the others
                    \* are epoch rollovers
    CeremonyIds,
    Threshold,      \* key_share.group_threshold()
    SigningTimeout, \* ValidatorConfig::signing_timeout
    OracleTimeout,  \* ValidatorConfig::oracle_timeout
    NoMessage, NoId, NoOne

ASSUME TransactionsAssumption == Transactions \subseteq Messages
ASSUME ThresholdAssumption == Threshold \in Nat \ {0}
ASSUME TimeoutAssumption == SigningTimeout \in Nat \ {0} /\ OracleTimeout \in Nat \ {0}
ASSUME MarkersAssumption == NoId \notin CeremonyIds /\ NoMessage \notin Messages

\* No ceremony for a message.
NoSession == [stage |-> "None"]

NoSessions == [signing |-> [m \in Messages |-> NoSession],
               index   |-> [sid \in CeremonyIds |-> NoMessage]]

\* SigningState
Request(group, approved, responsible, signers, deadline) ==
    [stage |-> "WaitingForRequest", group |-> group, sid |-> NoId, approved |-> approved,
     responsible |-> responsible, signers |-> signers, committed |-> << >>,
     selections |-> << >>, deadline |-> deadline]

Running(stage, w, sid, signers, committed, deadline) ==
    [stage |-> stage, group |-> w.group, sid |-> sid, approved |-> FALSE,
     responsible |-> NoOne, signers |-> signers, committed |-> committed,
     selections |-> << >>, deadline |-> deadline]

InStage(s, m, stage) == s.signing[m] # NoSession /\ s.signing[m].stage = stage

\* The message whose ceremony runs under a signature id.
Ceremony(s, sid) == s.index[sid]
Runs(s, sid, stage) == Ceremony(s, sid) # NoMessage /\ InStage(s, Ceremony(s, sid), stage)

\* Commands
GenerateNonces(w, sid)    == [kind |-> "GenerateNonces", group |-> w.group, sid |-> sid]
UseNonces(m, sid)         == [kind |-> "UseNonces", message |-> m, sid |-> sid]
Sign(group, m)            == [kind |-> "Sign", group |-> group, message |-> m]
CommitNonces(sid, nonces) == [kind |-> "CommitNonces", sid |-> sid, nonces |-> nonces]
SignShare(m, sid, root)   == [kind |-> "SignShare", message |-> m, sid |-> sid, root |-> root]
Attest(m, sid)            == [kind |-> "Attest", message |-> m, sid |-> sid]

Result(s, commands) == [state |-> s, commands |-> commands]
Ignored(s)          == Result(s, {})

SetSession(s, m, w) == [s EXCEPT !.signing[m] = w]
Unlink(s, sid)      == [s EXCEPT !.index[sid] = NoMessage]

-----------------------------------------------------------------------------
(* Events                                                                   *)

\* handle_transaction_proposed, for an epoch the validator takes part in and an
\* oracle it allows.
HandleTransactionProposed(s, block, m, group, participants) ==
    IF s.signing[m] # NoSession THEN Ignored(s)
    ELSE Result(SetSession(s, m, Request(group, FALSE, NoOne, participants,
                                         block + SigningTimeout)), {})

\* Faulty variant: the oracle is not waited for.
HandleSignUnapproved(s, block, m, group, sid) ==
    LET w == s.signing[m] IN
    IF ~ InStage(s, m, "WaitingForRequest") \/ w.group # group THEN Ignored(s)
    ELSE Result([SetSession(s, m, Running("CollectNonceCommitments", w, sid, w.signers, << >>,
                                          block + SigningTimeout))
                   EXCEPT !.index[sid] = m], {GenerateNonces(w, sid)})

\* handle_sign
HandleSign(s, block, m, group, sid) ==
    LET w     == s.signing[m]
        waits == m \in Transactions /\ ~ w.approved
        next  == IF waits
                 THEN Running("WaitingForOracle", w, sid, w.signers, << >>, block + OracleTimeout)
                 ELSE Running("CollectNonceCommitments", w, sid, w.signers, << >>,
                              block + SigningTimeout)
    IN  IF ~ InStage(s, m, "WaitingForRequest") \/ w.group # group THEN Ignored(s)
        ELSE Result([SetSession(s, m, next) EXCEPT !.index[sid] = m],
                    IF waits THEN {} ELSE {GenerateNonces(w, sid)})

\* handle_oracle_result, from the oracle that the packet names.
HandleOracleResult(s, block, m, approved) ==
    LET w == s.signing[m] IN
    IF ~ InStage(s, m, "WaitingForOracle") THEN Ignored(s)
    ELSE IF approved
    THEN Result(SetSession(s, m, Running("CollectNonceCommitments", w, w.sid, w.signers, << >>,
                                         block + SigningTimeout)),
                {GenerateNonces(w, w.sid)})
    ELSE Ignored(Unlink(SetSession(s, m, NoSession), w.sid))

Put(f, x, y) == [z \in DOMAIN f \cup {x} |-> IF z = x THEN y ELSE f[z]]

\* Faulty variant: a later commitment replaces the first one.
FirstCommitmentReplaced(w, p, nonces) ==
    IF p \notin w.signers THEN w.committed ELSE Put(w.committed, p, nonces)

\* Only a signer's first commitment counts.
FirstCommitment(w, p, nonces) ==
    IF p \notin w.signers \/ p \in DOMAIN w.committed THEN w.committed
    ELSE Put(w.committed, p, nonces)

\* handle_sign_committed_nonces
HandleSignCommittedNonces(s, block, sid, p, nonces) ==
    IF ~ Runs(s, sid, "CollectNonceCommitments") THEN Ignored(s)
    ELSE LET m         == Ceremony(s, sid)
             w         == s.signing[m]
             committed == FirstCommitment(w, p, nonces)
         IN  IF DOMAIN committed # w.signers
             THEN Ignored(SetSession(s, m, [w EXCEPT !.committed = committed]))
             ELSE Result(SetSession(s, m, Running("CollectSigningShares", w, w.sid, w.signers,
                                                  committed, block + SigningTimeout)),
                         {UseNonces(m, sid)})

\* handle_sign_shared
HandleSignShared(s, sid, root, p) ==
    IF ~ Runs(s, sid, "CollectSigningShares") THEN Ignored(s)
    ELSE LET m   == Ceremony(s, sid)
             w   == s.signing[m]
             old == IF root \in DOMAIN w.selections THEN w.selections[root].shares_from ELSE {}
         IN  Ignored(SetSession(s, m, [w EXCEPT !.selections =
                 Put(w.selections, root, [shares_from |-> old \cup {p}, last_signer |-> p])]))

\* handle_sign_completed
HandleSignCompleted(s, block, sid) ==
    IF ~ Runs(s, sid, "CollectSigningShares") THEN Ignored(s)
    ELSE LET m == Ceremony(s, sid)
             w == s.signing[m]
         IN  Ignored(SetSession(s, m, Running("WaitingForAttestation", w, w.sid, {}, << >>,
                                              block + SigningTimeout)))

\* Faulty variant: the signature id of the attestation is unlinked, not the one
\* of the validator's own ceremony.
HandleSignAttestedUnlinkingEvent(s, sid, m) ==
    Ignored(Unlink(SetSession(s, m, NoSession), sid))

\* handle_sign_attested, called by handle_transaction_attested and
\* handle_epoch_staged.
HandleSignAttested(s, sid, m) ==
    LET w       == s.signing[m]
        dropped == SetSession(s, m, NoSession)
    IN  Ignored(IF w # NoSession /\ w.sid # NoId THEN Unlink(dropped, w.sid) ELSE dropped)

-----------------------------------------------------------------------------
(* Resumes                                                                  *)

\* handle_nonce_commitments
HandleNonceCommitments(s, sid, nonces) ==
    IF Runs(s, sid, "CollectNonceCommitments") /\ s.signing[Ceremony(s, sid)].sid = sid
    THEN Result(s, {CommitNonces(sid, nonces)}) ELSE Ignored(s)

\* handle_nonces. frost::sign::signature_share refuses nonces other than the ones
\* committed for the validator itself.
HandleNonces(s, v, m, nonces) ==
    LET w == s.signing[m] IN
    IF /\ InStage(s, m, "CollectSigningShares")
       /\ v \in DOMAIN w.committed /\ w.committed[v] = nonces
    THEN Result(s, {SignShare(m, w.sid, w.committed)}) ELSE Ignored(s)

-----------------------------------------------------------------------------
(* handle_signing_timeouts                                                  *)

Empty == [shares_from |-> {}, last_signer |-> NoOne]

\* The largest selection with at least a threshold of shares.
CanonicalSelection(w) ==
    LET large == {r \in DOMAIN w.selections :
                      Cardinality(w.selections[r].shares_from) >= Threshold}
    IN  IF large = {} THEN Empty
        ELSE w.selections[CHOOSE r \in large : \A q \in large :
                 Cardinality(w.selections[q].shares_from) <= Cardinality(w.selections[r].shares_from)]

Enough(signers, v) == Cardinality(signers) >= Threshold /\ v \in signers

\* Faulty variant: a restarted ceremony expects every signer of the failed one.
RestartSignersAll(w) == w.signers

\* A ceremony is restarted with those who shared in it.
RestartSigners(w) == CanonicalSelection(w).shares_from

Moves(session, commands) == [session |-> session, commands |-> commands]
Dropped                  == Moves(NoSession, {})

\* Faulty variant: the same participant is waited for again.
ExpireRequestWaiting(v, m, w, next) ==
    IF ~ Enough(w.signers, v) THEN Dropped
    ELSE Moves(Request(w.group, w.approved, w.responsible, w.signers, next), {Sign(w.group, m)})

\* The responsible participant did not call sign: everybody else does, once.
ExpireRequest(v, m, w, next) ==
    LET others == w.signers \ {w.responsible} IN
    IF w.responsible = NoOne \/ ~ Enough(others, v) THEN Dropped
    ELSE Moves(Request(w.group, w.approved, NoOne, others, next), {Sign(w.group, m)})

\* Faulty variant: the validator counts itself in, committed or not.
ExpireCommitmentsWithSelf(v, m, w, next) ==
    LET committed == [p \in DOMAIN w.committed \cup {v} |->
                         IF p \in DOMAIN w.committed THEN w.committed[p] ELSE NoId] IN
    IF ~ Enough(DOMAIN committed, v) THEN Dropped
    ELSE Moves(Running("CollectSigningShares", w, w.sid, DOMAIN committed, committed, next),
               {UseNonces(m, w.sid)})

\* Those who committed go on alone.
ExpireCommitments(v, m, w, next) ==
    IF ~ Enough(DOMAIN w.committed, v) THEN Dropped
    ELSE Moves(Running("CollectSigningShares", w, w.sid, DOMAIN w.committed, w.committed, next),
               {UseNonces(m, w.sid)})

\* Faulty variant: a ceremony that lacks shares is given up.
ExpireSharesDropping(v, m, w, next) == Dropped

\* Those who shared start again; the last of them calls sign.
ExpireShares(v, m, w, next) ==
    LET last == CanonicalSelection(w).last_signer IN
    IF ~ Enough(RestartSigners(w), v) THEN Dropped
    ELSE Moves(Request(w.group, TRUE, last, RestartSigners(w), next),
               IF last = v THEN {Sign(w.group, m)} ELSE {})

\* Nobody attested what was signed: the validator does it directly, and forgets it.
ExpireAttestation(m, w) == Moves(NoSession, {Attest(m, w.sid)})

\* What becomes of a ceremony past its deadline, and the commands that go with it.
Expire(v, m, w, block) ==
    LET next == block + SigningTimeout IN
    CASE w.stage = "WaitingForRequest"       -> ExpireRequest(v, m, w, next)
      [] w.stage = "WaitingForOracle"        -> Dropped
      [] w.stage = "CollectNonceCommitments" -> ExpireCommitments(v, m, w, next)
      [] w.stage = "CollectSigningShares"    -> ExpireShares(v, m, w, next)
      [] w.stage = "WaitingForAttestation"   -> ExpireAttestation(m, w)

Expired(s, block) == {m \in Messages : s.signing[m] # NoSession /\ s.signing[m].deadline <= block}

\* Every ceremony past its deadline moves on; an index entry lives exactly as long
\* as its ceremony runs under that signature id.
HandleSigningTimeouts(s, v, block) ==
    LET expired  == Expired(s, block)
        after(m) == Expire(v, m, s.signing[m], block)
        ends(m)  == s.signing[m].sid # NoId
                        /\ (after(m).session = NoSession \/ after(m).session.sid = NoId)
        unlinked == {s.signing[m].sid : m \in {x \in expired : ends(x)}}
    IN  Result([signing |-> [m \in Messages |-> IF m \in expired THEN after(m).session
                                                ELSE s.signing[m]],
                index   |-> [sid \in CeremonyIds |-> IF sid \in unlinked THEN NoMessage
                                                      ELSE s.index[sid]]],
               UNION {after(m).commands : m \in expired})

-----------------------------------------------------------------------------
\* The index is exactly the map from the signature ids of running ceremonies to
\* their messages: a stale entry would feed the events of an old ceremony into
\* the one that replaced it, a missing one would leave a ceremony deaf.
IndexExact(s) ==
    \A m \in Messages, sid \in CeremonyIds :
        s.index[sid] = m <=> s.signing[m] # NoSession /\ s.signing[m].sid = sid
=============================================================================
