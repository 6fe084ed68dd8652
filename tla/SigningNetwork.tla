--------------------------- MODULE SigningNetwork ---------------------------
(***************************************************************************)
(* A group of validators signing through the contracts: the signing part of *)
(* FROSTCoordinator, the attestations of Consensus and a SimpleOracle, with *)
(* honest validators that run the handlers of Signing and others that do    *)
(* whatever the contracts accept.                                           *)
(*                                                                          *)
(* The chain does not reorg here. All validators read the same events in    *)
(* the same order, so a slow validator is one whose effects and             *)
(* transactions take long, which they may.                                  *)
(***************************************************************************)
EXTENDS Signing

CONSTANTS
    Participants,   \* the members of the signing group
    Honest,         \* those that run the validator
    Group,          \* the group's id
    Prompt,         \* effects and transactions of honest validators take less
                    \* than a block
    RolloverBlock,  \* the rollover block of the epochs that are proposed
    MaxBlock,       \* bound: blocks
    LastProposal,   \* bound: no proposals after this block
    MaxOutside      \* bound: proposals, and calls of sign from outside

ASSUME HonestAssumption == Honest \subseteq Participants /\ IsFiniteSet(Participants)
\* What a threshold signature presumes: those that do not run the validator cannot
\* sign by themselves.
ASSUME FaultyAssumption == Cardinality(Participants \ Honest) < Threshold
ASSUME IdsAssumption == CeremonyIds \subseteq Nat
ASSUME PromptAssumption == Prompt \in BOOLEAN
ASSUME RolloverAssumption == RolloverBlock \in Nat

VARIABLES
    block,
    message_of,     \* $signatures[sid].message, NoMessage before sign
    shares,         \* $signatures[sid].shares: [sid -> [root -> participants]]
    signed,         \* $signatures[sid].signed: the ids with a complete signature
    attestations,   \* Consensus.$attestations: [message -> sid or NoId]
    requests,       \* SimpleOracle.$sponsors: the messages that wait for a result
    view,           \* [honest validator -> its state]
    effects,        \* the effects they have in progress
    pool,           \* their transactions that are not included yet
    outside,
    approved,       \* history: the messages an oracle approved
    in_time         \* history: approved while every honest validator waited

chainVars == <<block, message_of, shares, signed, attestations, requests>>
vars == <<chainVars, view, effects, pool, outside, approved, in_time>>

Init ==
    /\ block = 0
    /\ message_of = [sid \in CeremonyIds |-> NoMessage]
    /\ shares = [sid \in CeremonyIds |-> << >>]
    /\ signed = {}
    /\ attestations = [m \in Messages |-> NoId]
    /\ requests = {}
    /\ view = [v \in Honest |-> NoSessions]
    /\ effects = {} /\ pool = {} /\ outside = 0
    /\ approved = {} /\ in_time = {}

\* Everyone's nonce commitment is fresh for each ceremony; only who committed
\* matters here.
Nonces == "nonces"
Root(signers) == [p \in signers |-> Nonces]

-----------------------------------------------------------------------------
(* Feeding events to the honest validators                                  *)

IsEffect(c) == c.kind \in {"GenerateNonces", "UseNonces"}

Nobody == [from |-> NoOne]

\* The transaction x is included and emits events, results[v] being what validator
\* v's handlers make of them; their commands go to the effects and to the queue.
Included(x, results) ==
    LET issued == UNION {{[from |-> v, c |-> c] : c \in results[v].commands} : v \in Honest} IN
    /\ view' = [v \in Honest |-> results[v].state]
    /\ effects' = effects \cup {y \in issued : IsEffect(y.c)}
    /\ pool' = (pool \ {x}) \cup {y \in issued : ~ IsEffect(y.c)}

\* The transaction of somebody else, or no transaction at all.
Dispatch(R(_)) == Included(Nobody, [v \in Honest |-> R(v)])

NextId == CHOOSE sid \in CeremonyIds : message_of[sid] = NoMessage
                    /\ \A j \in CeremonyIds : j < sid => message_of[j] # NoMessage
HasNextId == \E sid \in CeremonyIds : message_of[sid] = NoMessage

\* FROSTCoordinator.sign, which anybody may call: the next id of the group.
AllocateId(m) ==
    /\ HasNextId
    /\ message_of' = [message_of EXCEPT ![NextId] = m]

-----------------------------------------------------------------------------
(* Proposals                                                                *)

\* Consensus._requireValidRollover: an epoch is proposed and staged before the block
\* of its rollover, while no other one is staged.
ValidRollover ==
    block < RolloverBlock /\ \A m \in Messages \ Transactions : attestations[m] = NoId

\* attestTransaction and stageEpoch, as far as the message is concerned.
Attestable(m) == IF m \in Transactions THEN attestations[m] = NoId ELSE ValidRollover

MayPropose == outside < MaxOutside /\ block <= LastProposal /\ outside' = outside + 1

\* Consensus.proposeTransaction: the proposal, the ceremony and the oracle's
\* request in one transaction.
ProposeTransaction(m) ==
    /\ MayPropose
    /\ m \in Transactions
    /\ attestations[m] = NoId
    /\ m \notin requests
    /\ AllocateId(m)
    /\ requests' = requests \cup {m}
    /\ LET R(v) == HandleSign(HandleTransactionProposed(view[v], block, m, Group,
                                                        Participants).state,
                              block, m, Group, NextId)
       IN Dispatch(R)
    /\ UNCHANGED <<block, shares, signed, attestations, approved, in_time>>

\* The last confirmation of the next epoch's key generation opens the rollover's
\* ceremony: handle_key_gen_confirmed registers the packet, and proposeEpoch
\* calls sign if participant p passed the callback.
ProposeEpoch(m, p, callback) ==
    /\ MayPropose
    /\ m \in Messages \ Transactions
    /\ ValidRollover
    /\ \A sid \in CeremonyIds : message_of[sid] # m
    /\ \A v \in Honest : view[v].signing[m] = NoSession
    /\ p \in Honest => callback
    /\ LET registered(v) == SetSession(view[v], m,
                                Request(Group, FALSE, p, Participants, block + SigningTimeout))
           R(v) == IF callback THEN HandleSign(registered(v), block, m, Group, NextId)
                   ELSE Ignored(registered(v))
       IN Dispatch(R)
    /\ IF callback THEN AllocateId(m) ELSE UNCHANGED message_of
    /\ UNCHANGED <<block, shares, signed, attestations, requests, approved, in_time>>

\* SimpleOracle.approve and reject
OracleResult(m, ok) ==
    /\ m \in requests
    /\ requests' = requests \ {m}
    /\ approved' = IF ok THEN approved \cup {m} ELSE approved
    /\ in_time' = IF ok /\ \A v \in Honest : InStage(view[v], m, "WaitingForOracle")
                  THEN in_time \cup {m} ELSE in_time
    /\ LET R(v) == HandleOracleResult(view[v], block, m, ok) IN Dispatch(R)
    /\ UNCHANGED <<block, message_of, shares, signed, attestations, outside>>

-----------------------------------------------------------------------------
(* The coordinator's entry points; x is the transaction of an honest        *)
(* validator, or comes from elsewhere                                       *)

CallSign(x, m) ==
    /\ AllocateId(m)
    /\ Included(x, [v \in Honest |-> HandleSign(view[v], block, m, Group, NextId)])
    /\ UNCHANGED <<block, shares, signed, attestations, requests, outside, approved, in_time>>

CallCommitNonces(x, sid, p) ==
    /\ message_of[sid] # NoMessage
    /\ Included(x, [v \in Honest |-> HandleSignCommittedNonces(view[v], block, sid, p, Nonces)])
    /\ UNCHANGED <<chainVars, outside, approved, in_time>>

SharesOf(sid, root) == IF root \in DOMAIN shares[sid] THEN shares[sid][root] ELSE {}

\* The shares add up to the group's signature once every selected signer has
\* given his, if they are enough; else the last one is refused.
Accepted(sid, root, p) ==
    /\ message_of[sid] # NoMessage
    /\ p \in DOMAIN root \ SharesOf(sid, root)
    /\ SharesOf(sid, root) \cup {p} = DOMAIN root => Cardinality(DOMAIN root) >= Threshold

Completes(sid, root, p) ==
    SharesOf(sid, root) \cup {p} = DOMAIN root /\ sid \notin signed

\* signShare and, with a callback, signShareWithCallback: the callback attests
\* the message, and takes the whole transaction down if that is refused.
CallSignShare(x, sid, root, p, callback) ==
    LET m       == message_of[sid]
        done    == Completes(sid, root, p)
        attests == done /\ callback
        Shared(v) == HandleSignShared(view[v], sid, root, p).state
        Done(v) == IF done THEN HandleSignCompleted(Shared(v), block, sid).state ELSE Shared(v)
        R(v)    == IF attests THEN HandleSignAttested(Done(v), sid, m) ELSE Ignored(Done(v))
    IN
    /\ Accepted(sid, root, p)
    /\ attests => Attestable(m)
    /\ shares' = [shares EXCEPT ![sid] = Put(@, root, SharesOf(sid, root) \cup {p})]
    /\ signed' = IF done THEN signed \cup {sid} ELSE signed
    /\ attestations' = IF attests THEN [attestations EXCEPT ![m] = sid] ELSE attestations
    /\ Included(x, [v \in Honest |-> R(v)])
    /\ UNCHANGED <<block, message_of, requests, outside, approved, in_time>>

\* Consensus.attestTransaction and stageEpoch, called directly.
CallAttest(x, sid, m) ==
    /\ Attestable(m) /\ sid \in signed /\ message_of[sid] = m
    /\ attestations' = [attestations EXCEPT ![m] = sid]
    /\ Included(x, [v \in Honest |-> HandleSignAttested(view[v], sid, m)])
    /\ UNCHANGED <<block, message_of, shares, signed, requests, outside, approved, in_time>>

-----------------------------------------------------------------------------
(* Honest validators                                                        *)

\* An effect is performed and its resume is handled. A validator has one nonce
\* pair per ceremony, and takes it once (see SecretStore).
EffectDone ==
    \E x \in effects :
        /\ effects' = effects \ {x}
        /\ LET s == view[x.from]
               r == IF x.c.kind = "GenerateNonces"
                    THEN HandleNonceCommitments(s, x.c.sid, Nonces)
                    ELSE HandleNonces(s, x.from, x.c.message, Nonces)
           IN  pool' = pool \cup {[from |-> x.from, c |-> c] : c \in r.commands}
        /\ UNCHANGED <<chainVars, view, outside, approved, in_time>>

Submit(x) ==
    \/ x.c.kind = "Sign" /\ CallSign(x, x.c.message)
    \/ x.c.kind = "CommitNonces" /\ CallCommitNonces(x, x.c.sid, x.from)
    \/ x.c.kind = "SignShare" /\ CallSignShare(x, x.c.sid, x.c.root, x.from, TRUE)
    \/ x.c.kind = "Attest" /\ CallAttest(x, x.c.sid, x.c.message)

\* The contract refuses the transaction, at the moment it is included.
Refused(x) ==
    \/ x.c.kind = "Sign" /\ ~ HasNextId
    \/ /\ x.c.kind = "SignShare"
       /\ \/ ~ Accepted(x.c.sid, x.c.root, x.from)
          \/ Completes(x.c.sid, x.c.root, x.from) /\ ~ Attestable(x.c.message)
    \/ x.c.kind = "Attest" /\ (~ Attestable(x.c.message) \/ x.c.sid \notin signed)

Include == \E x \in pool : Submit(x)

Revert ==
    \E x \in pool :
        /\ Refused(x)
        /\ pool' = pool \ {x}
        /\ UNCHANGED <<chainVars, view, effects, outside, approved, in_time>>

\* A new block, whose timeouts every validator handles before its events.
NextBlock ==
    /\ block < MaxBlock
    /\ Prompt => effects = {} /\ pool = {}
    /\ block' = block + 1
    /\ LET R(v) == HandleSigningTimeouts(view[v], v, block + 1) IN Dispatch(R)
    /\ UNCHANGED <<message_of, shares, signed, attestations, requests, outside, approved, in_time>>

-----------------------------------------------------------------------------
(* The others: nobody's transaction, in any order, with what the contracts  *)
(* accept from a member of the group and from anybody                       *)

OutsideSign(m) ==
    /\ MayPropose
    /\ AllocateId(m)
    /\ LET R(v) == HandleSign(view[v], block, m, Group, NextId) IN Dispatch(R)
    /\ UNCHANGED <<block, shares, signed, attestations, requests, approved, in_time>>

FaultyCommits ==
    \E p \in Participants \ Honest, sid \in CeremonyIds :
        CallCommitNonces(Nobody, sid, p)

FaultyShares ==
    \E p \in Participants \ Honest, sid \in CeremonyIds, signers \in SUBSET Participants,
       callback \in BOOLEAN :
        CallSignShare(Nobody, sid, Root(signers), p, callback)

AnyoneAttests ==
    \E sid \in CeremonyIds, m \in Messages : CallAttest(Nobody, sid, m)

Proposal ==
    \/ \E m \in Messages : ProposeTransaction(m)
    \/ \E m \in Messages, p \in Participants, callback \in BOOLEAN : ProposeEpoch(m, p, callback)

Outcome == \E m \in Messages, ok \in BOOLEAN : OracleResult(m, ok)

Next ==
    \/ Proposal \/ Outcome
    \/ EffectDone \/ Include \/ Revert
    \/ NextBlock
    \/ \E m \in Messages : OutsideSign(m)
    \/ FaultyCommits \/ FaultyShares \/ AnyoneAttests

Spec == Init /\ [][Next]_vars

\* Blocks keep coming; nobody else has to do anything.
BlocksSpec == Spec /\ WF_vars(NextBlock)

\* Blocks keep coming, effects complete and transactions are included. Members
\* that do not run the validator need not do anything.
FairSpec == Spec /\ WF_vars(NextBlock) /\ WF_vars(EffectDone) /\ WF_vars(Include) /\ WF_vars(Revert)

-----------------------------------------------------------------------------
(* Properties                                                               *)

\* handle_sign and handle_signing_timeouts keep signature_id_to_message exact.
IndexExactEverywhere == \A v \in Honest : IndexExact(view[v])

\* A transaction is attested only if an oracle approved it: with fewer faulty
\* members than the threshold, somebody honest has to share, and nobody honest
\* does before the approval, also in a restarted ceremony.
AttestedOnlyApproved ==
    \A m \in Transactions : attestations[m] # NoId => m \in approved

\* A restarted rollover leaves somebody out: a ceremony that everybody shared in is
\* complete. This is what bounds the number of restarts.
RestartsShrink ==
    [][\A v \in Honest, m \in Messages \ Transactions :
          InStage(view[v], m, "CollectSigningShares") /\ InStage(view'[v], m, "WaitingForRequest") =>
              view'[v].signing[m].signers \subseteq view[v].signing[m].signers
              /\ view'[v].signing[m].signers # view[v].signing[m].signers]_vars

\* Two honest validators that collect shares for the same rollover expect them for
\* the same selection, or neither of them could ever complete it. (A transaction
\* may be proposed again while a part of the group is still at it.)
SameSelection ==
    \A u, v \in Honest, m \in Messages \ Transactions :
        /\ InStage(view[u], m, "CollectSigningShares")
        /\ InStage(view[v], m, "CollectSigningShares")
        /\ view[u].signing[m].sid = view[v].signing[m].sid
        => view[u].signing[m].committed = view[v].signing[m].committed

\* No ceremony stays forever, whatever the others do.
CeremoniesEnd ==
    \A v \in Honest, m \in Messages : <>[](view[v].signing[m] = NoSession)

\* With prompt honest validators, at least a threshold of them, a transaction the
\* oracle approves in time is attested, whatever the other members do.
ApprovedIsAttested ==
    \A m \in Transactions : m \in in_time ~> attestations[m] # NoId
=============================================================================
