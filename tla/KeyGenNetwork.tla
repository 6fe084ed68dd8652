--------------------------- MODULE KeyGenNetwork ---------------------------
(***************************************************************************)
(* Validators generating a group key per epoch through the contracts: the   *)
(* key generation of FROSTCoordinator with its FROSTParticipantMap, and the *)
(* epochs of Consensus. Honest validators run the handlers of KeyGen; the   *)
(* other members do whatever the contracts accept.                          *)
(*                                                                          *)
(* The chain does not reorg here: all validators handle the same events in  *)
(* the same order. Their own effects and transactions may take long. The    *)
(* ceremony that signs a rollover is SigningNetwork's subject; here the     *)
(* signature exists as soon as enough members are willing to sign.          *)
(*                                                                          *)
(* Of the algebra of a group's keys (see FrostCeremony) one fact is kept:   *)
(* only the constant term of a polynomial comes with a proof, so the member *)
(* that commits last can choose its other terms such that the verifying     *)
(* shares of some members become the zero point, which FROSTParticipantMap  *)
(* does not accept.                                                         *)
(***************************************************************************)
EXTENDS KeyGen

CONSTANTS
    Honest,         \* participants that run the validator
    Joiners,        \* those of them that may start it late
    MaxBlock,       \* bound: blocks
    MaxGenesis,     \* bound: blocks until the genesis key generation ends
    MaxTroubles     \* bound: honest validators that are ever slow, plus invalid or
                    \* false messages of the other members

ASSUME HonestAssumption == Honest \subseteq Participants /\ Joiners \subseteq Honest

Faulty == Participants \ Honest

\* The epochs of the blocks up to the bound are configured.
ASSUME BlocksAssumption == MaxBlock \in Nat /\ \A b \in 0 .. MaxBlock : NextNumber(b) \in Epochs

\* No group that can be formed has as many faulty members as sign for it.
ASSUME FaultyAssumption ==
    \A e \in Epochs : \A members \in SUBSET Configured[e] :
        \/ members = Configured[e]
        \/ Cardinality(members) >= MinParticipants(Cardinality(Configured[e]))
        => Cardinality(Faulty \cap members) < GroupThreshold(members)

VARIABLES
    block,
    groups,         \* FROSTCoordinator.$groups, of the groups somebody follows
    consensus,      \* Consensus.$epochs
    group_of,       \* Consensus.$groups
    cancelled,      \* the members of groups whose verifying share is the zero point
    view,           \* [honest validator -> its state]
    effects,        \* the KeyGenSetup effects in progress
    pool,           \* transactions of honest validators, not included yet
    asleep,         \* validators that have not started
    joined,         \* validators that started late
    misdeeds,       \* invalid and false messages so far
    late,           \* history: validators that kept something pending over a block, or
                    \* were not there from the start
    began           \* history: the block where the current epoch's key generation began

chainVars == <<block, groups, consensus, group_of, cancelled>>
vars == <<chainVars, view, effects, pool, asleep, joined, misdeeds, late, began>>

GenesisGroup == GroupOf(Genesis, {})

Init ==
    /\ block = 0
    /\ groups = << >>
    /\ consensus = [active |-> Genesis, staged |-> Genesis, rollover_block |-> 0]
    /\ group_of = [e \in Epochs |-> IF e = Genesis THEN GenesisGroup ELSE NoGroup]
    /\ cancelled = {}
    /\ view = [v \in Honest |-> InitialState]
    /\ effects = {} /\ pool = {}
    /\ asleep \in {{}, Joiners}
    /\ joined = {} /\ misdeeds = 0 /\ late = asleep /\ began = 0

-----------------------------------------------------------------------------
(* Feeding events to the validators                                         *)

\* The outcome of a handler after another.
AndThen(r, next) == Result(next.state, r.commands \cup next.commands)

IsEffect(c) == c.kind = "KeyGenSetup"
Nobody == [from |-> NoGroup]

Target(s) == s.rollover.next_epoch

\* Transactions are included, or given up, and validator v's handlers make seen[v]
\* of the events; their commands go to the effects and to the queue.
Handled(transactions, seen) ==
    LET issued == UNION {{[from |-> v, c |-> c] : c \in seen[v].commands} : v \in Honest} IN
    /\ view' = [v \in Honest |-> seen[v].state]
    /\ effects' = effects \cup {y \in issued : IsEffect(y.c)}
    /\ pool' = (pool \ transactions) \cup {y \in issued : ~ IsEffect(y.c)}
    /\ began' = IF \E v \in Honest : Target(view'[v]) > Target(view[v]) THEN block' ELSE began
    /\ UNCHANGED <<asleep, joined>>

\* A validator that has not started sees nothing.
Seen(R(_)) == [v \in Honest |-> IF v \in asleep THEN Ignored(view[v]) ELSE R(v)]

Included(x, R(_)) == Handled({x}, Seen(R))

Dispatch(R(_)) == Handled({}, Seen(R))

-----------------------------------------------------------------------------
(* Consensus                                                                *)

\* _epochsWithRollover: a staged epoch takes over at its rollover block.
EpochsWithRollover ==
    IF consensus.staged # Genesis /\ consensus.rollover_block <= block
    THEN [active |-> consensus.staged, staged |-> Genesis, rollover_block |-> 0]
    ELSE consensus

RolloverBlock(epoch) == epoch * BlocksPerEpoch

\* _requireValidRollover
IsValidRollover(epoch) ==
    /\ EpochsWithRollover.active < epoch
    /\ RolloverBlock(epoch) > block
    /\ EpochsWithRollover.staged = Genesis

IsFinalized(group) == group \in DOMAIN groups /\ groups[group].status = "FINALIZED"

\* The honest members of the active group that have the rollover packet.
Signers(group) ==
    LET active == EpochsWithRollover.active IN
    {v \in Honest \cap group_of[active].members :
        /\ Follows(view[v], "SigningRollover", group)
        /\ view[v].rollover.active = active
        /\ view[v].epochs[active] = group_of[active]}

\* stageEpoch, with a signature that the active group can produce.
StageEpoch(group) ==
    LET epochs == EpochsWithRollover
        signing == group_of[epochs.active]
        able    == Signers(group) \cup (Faulty \cap signing.members)
        R(v)    == HandleEpochStaged(view[v], group.epoch, group)
    IN
    /\ IsFinalized(group) /\ IsFinalized(signing)
    /\ IsValidRollover(group.epoch)
    /\ Cardinality(able) >= GroupThreshold(signing.members)
    /\ consensus' = [epochs EXCEPT !.staged = group.epoch,
                                   !.rollover_block = RolloverBlock(group.epoch)]
    /\ group_of' = [group_of EXCEPT ![group.epoch] = group]
    /\ UNCHANGED <<block, groups, cancelled, late>>
    /\ Dispatch(R)

-----------------------------------------------------------------------------
(* FROSTCoordinator's key generation; x is the transaction of an honest     *)
(* validator, or comes from elsewhere                                       *)

EmptyGroup == [status |-> "COMMITTING", registered |-> {}, keys |-> {}, confirmed |-> {},
               complaints |-> {}, responded |-> {}]

SetGroup(group, g) == groups' = [h \in DOMAIN groups \cup {group} |-> IF h = group THEN g ELSE groups[h]]

Accusations(g, accused) == Cardinality({c \in g.complaints : c.accused = accused})
OpenComplaints(g, p)    == {c \in g.complaints \ g.responded : c.plaintiff = p}

\* keyGen: deploying the contracts ends with the genesis group's.
CallKeyGen ==
    /\ GenesisGroup \notin DOMAIN groups
    /\ SetGroup(GenesisGroup, EmptyGroup)
    /\ UNCHANGED <<block, consensus, group_of, cancelled, late>>
    /\ LET R(v) == HandleGenesisKeyGen(view[v], v, GenesisGroup) IN Dispatch(R)

\* keyGenAndCommit, which creates the group if needed. The contract checks less of
\* a commitment than the validators do: valid is what they find. The polynomials of
\* all members add up to one with GroupThreshold coefficients, of which the first is
\* not zero. It is zero at those that the commitment cancels, which takes the
\* knowledge of all the others.
CanCommit(group, p) ==
    /\ p \in group.members
    /\ group \in DOMAIN groups =>
          groups[group].status = "COMMITTING" /\ p \notin groups[group].registered

CallKeyGenAndCommit(x, group, p, valid, cancels) ==
    LET g == IF group \in DOMAIN groups THEN groups[group] ELSE EmptyGroup
        registered == g.registered \cup {p}
        Created(v) == IF group \in DOMAIN groups THEN Ignored(view[v])
                      ELSE HandleGenesisKeyGen(view[v], v, group)
        R(v) == AndThen(Created(v), HandleKeyGenCommitted(Created(v).state, block, group, p, valid))
    IN
    /\ CanCommit(group, p)
    /\ cancels # {} => registered = group.members
    /\ Cardinality(cancels) < GroupThreshold(group.members)
    /\ cancelled' = cancelled \cup {[group |-> group, member |-> m] : m \in cancels}
    /\ SetGroup(group, [g EXCEPT !.registered = registered,
                            !.status = IF registered = group.members THEN "SHARING" ELSE @])
    /\ UNCHANGED <<block, consensus, group_of, late>>
    /\ Included(x, R)

\* keyGenSecretShare; valid says whether the public key share is the one that the
\* commitments determine. The zero point is refused.
CanShare(group, p, valid) ==
    /\ group \in DOMAIN groups
    /\ groups[group].status = "SHARING"
    /\ p \in groups[group].registered \ groups[group].keys
    /\ valid => [group |-> group, member |-> p] \notin cancelled

CallKeyGenSecretShare(x, group, p, valid, cheated) ==
    LET g    == groups[group]
        keys == g.keys \cup {p}
        R(v) == HandleKeyGenSecretShared(view[v], v, block, group, p, valid, cheated)
    IN
    /\ CanShare(group, p, valid)
    /\ SetGroup(group, [g EXCEPT !.keys = keys,
                            !.status = IF keys = group.members THEN "CONFIRMING" ELSE @])
    /\ UNCHANGED <<block, consensus, group_of, cancelled, late>>
    /\ Included(x, R)

\* keyGenConfirm and, with a callback, keyGenConfirmWithCallback: the last
\* confirmation proposes the epoch, and is refused if that is.
CanConfirm(group, p, callback) ==
    /\ group \in DOMAIN groups
    /\ groups[group].status = "CONFIRMING"
    /\ p \in groups[group].registered \ groups[group].confirmed
    /\ OpenComplaints(groups[group], p) = {}
    /\ callback /\ groups[group].confirmed \cup {p} = group.members => IsValidRollover(group.epoch)

CallKeyGenConfirm(x, group, p, callback) ==
    LET g         == groups[group]
        confirmed == g.confirmed \cup {p}
        done      == confirmed = group.members
        R(v)      == HandleKeyGenConfirmed(view[v], v, block, group, p)
    IN
    /\ CanConfirm(group, p, callback)
    /\ SetGroup(group, [g EXCEPT !.confirmed = confirmed,
                            !.status = IF done THEN "FINALIZED" ELSE @])
    /\ consensus' = IF callback /\ done THEN EpochsWithRollover ELSE consensus
    /\ UNCHANGED <<block, group_of, cancelled, late>>
    /\ Included(x, R)

\* keyGenComplain
CanComplain(group, plaintiff, accused) ==
    /\ group \in DOMAIN groups
    /\ groups[group].status \in {"SHARING", "CONFIRMING"}
    /\ plaintiff # accused
    /\ plaintiff \in groups[group].registered \ groups[group].confirmed
    /\ accused \in groups[group].registered
    /\ [plaintiff |-> plaintiff, accused |-> accused] \notin groups[group].complaints

CallKeyGenComplain(x, group, plaintiff, accused) ==
    LET g    == [groups[group] EXCEPT
                    !.complaints = @ \cup {[plaintiff |-> plaintiff, accused |-> accused]}]
        compromised == Accusations(g, accused) >= GroupThreshold(group.members)
        R(v) == HandleKeyGenComplained(view[v], v, block, group, plaintiff, accused)
    IN
    /\ CanComplain(group, plaintiff, accused)
    /\ SetGroup(group, IF compromised THEN [g EXCEPT !.status = "COMPROMISED"] ELSE g)
    /\ UNCHANGED <<block, consensus, group_of, cancelled, late>>
    /\ Included(x, R)

\* keyGenComplaintResponse
CanRespond(group, plaintiff, accused) ==
    /\ group \in DOMAIN groups
    /\ groups[group].status \in {"SHARING", "CONFIRMING"}
    /\ [plaintiff |-> plaintiff, accused |-> accused]
          \in groups[group].complaints \ groups[group].responded

CallKeyGenComplaintResponse(x, group, plaintiff, accused, valid) ==
    LET g    == [groups[group] EXCEPT
                    !.responded = @ \cup {[plaintiff |-> plaintiff, accused |-> accused]}]
        R(v) == HandleKeyGenComplaintResponded(view[v], v, block, group, plaintiff, accused, valid)
    IN
    /\ CanRespond(group, plaintiff, accused)
    /\ SetGroup(group, g)
    /\ UNCHANGED <<block, consensus, group_of, cancelled, late>>
    /\ Included(x, R)

-----------------------------------------------------------------------------
(* Honest validators                                                        *)

\* A KeyGenSetup effect is performed and its resume is handled.
SetupDone ==
    \E x \in effects :
        LET r == HandleKeyGenSetup(view[x.from], x.from, x.c.group) IN
        /\ effects' = effects \ {x}
        /\ view' = [view EXCEPT ![x.from] = r.state]
        /\ pool' = pool \cup {[from |-> x.from, c |-> c] : c \in r.commands}
        /\ UNCHANGED <<chainVars, asleep, joined, misdeeds, late, began>>

\* Genesis confirmations carry no callback.
Submit(x) ==
    \/ x.c.kind = "KeyGenAndCommit" /\ CallKeyGenAndCommit(x, x.c.group, x.from, TRUE, {})
    \/ x.c.kind = "KeyGenSecretShare" /\ CallKeyGenSecretShare(x, x.c.group, x.from, TRUE, {})
    \/ /\ x.c.kind = "KeyGenConfirm"
       /\ CallKeyGenConfirm(x, x.c.group, x.from, x.c.group.epoch # Genesis)
    \/ x.c.kind = "KeyGenComplain" /\ CallKeyGenComplain(x, x.c.group, x.from, x.c.accused)
    \/ /\ x.c.kind = "KeyGenComplaintResponse"
       /\ CallKeyGenComplaintResponse(x, x.c.group, x.c.plaintiff, x.from, TRUE)

\* The contract refuses the transaction, at the moment it is included.
Refused(x) ==
    \/ x.c.kind = "KeyGenAndCommit" /\ ~ CanCommit(x.c.group, x.from)
    \/ x.c.kind = "KeyGenSecretShare" /\ ~ CanShare(x.c.group, x.from, TRUE)
    \/ x.c.kind = "KeyGenConfirm" /\ ~ CanConfirm(x.c.group, x.from, x.c.group.epoch # Genesis)
    \/ x.c.kind = "KeyGenComplain" /\ ~ CanComplain(x.c.group, x.from, x.c.accused)
    \/ x.c.kind = "KeyGenComplaintResponse" /\ ~ CanRespond(x.c.group, x.c.plaintiff, x.from)

Include == \E x \in pool : Submit(x)

Revert ==
    \E x \in pool :
        /\ Refused(x)
        /\ pool' = pool \ {x}
        /\ UNCHANGED <<chainVars, view, effects, asleep, joined, misdeeds, late, began>>

\* A validator starts indexing at the current block.
Join(v) ==
    /\ v \in asleep
    /\ asleep' = asleep \ {v} /\ joined' = joined \cup {v}
    /\ UNCHANGED <<chainVars, view, effects, pool, misdeeds, late, began>>

\* The groups that some validator's handlers still react to, and the ones that
\* the consensus contract knows. Events of the others are ignored by everybody.
IsFollowed(seen, group) ==
    \/ \E v \in Honest : seen[v].state.rollover.group = group
    \/ \E e \in Epochs : group_of[e] = group

\* A new block, whose rollover and timeouts every validator handles before its
\* events. Groups that nobody follows any more are forgotten, and transactions for
\* them given up: they expire with the rounds that sent them.
NextBlock ==
    LET R(v)  == HandleNewBlock(view[v], v, block + 1)
        seen  == Seen(R)
        stale == {x \in pool : ~ IsFollowed(seen, x.c.group)}
    IN
    /\ block < MaxBlock
    /\ block < MaxGenesis \/ IsFinalized(GenesisGroup)
    /\ block' = block + 1
    /\ late' = late \cup {x.from : x \in pool}
    /\ misdeeds + Cardinality(late') <= MaxTroubles
    /\ groups' = [h \in {i \in DOMAIN groups : IsFollowed(seen, i)} |-> groups[h]]
    /\ UNCHANGED <<consensus, group_of, cancelled>>
    /\ Handled(stale, seen)

-----------------------------------------------------------------------------
(* The others                                                               *)

Misdeed(bad) ==
    /\ bad => misdeeds + Cardinality(late) < MaxTroubles
    /\ misdeeds' = IF bad THEN misdeeds + 1 ELSE misdeeds

FaultyCommits ==
    \E p \in Faulty, valid \in BOOLEAN,
       group \in ({view[v].rollover.group : v \in Honest} \ {NoGroup}) \cup {GenesisGroup} :
       \E cancels \in SUBSET group.members :
        /\ CallKeyGenAndCommit(Nobody, group, p, valid, cancels)
        /\ Misdeed(~ valid \/ cancels # {})

\* Even one that could not know the shares it deals, having cancelled somebody's.
FaultyShares ==
    \E p \in Faulty, group \in DOMAIN groups, valid \in BOOLEAN, cheated \in SUBSET Honest :
        /\ CallKeyGenSecretShare(Nobody, group, p, valid, cheated)
        /\ Misdeed(~ valid \/ cheated # {})

FaultyConfirms ==
    \E p \in Faulty, group \in DOMAIN groups, callback \in BOOLEAN :
        /\ CallKeyGenConfirm(Nobody, group, p, callback)
        /\ Misdeed(FALSE)

FaultyComplains ==
    \E p \in Faulty, group \in DOMAIN groups, accused \in Participants :
        /\ CallKeyGenComplain(Nobody, group, p, accused)
        /\ Misdeed(TRUE)

FaultyResponds ==
    \E p \in Faulty, group \in DOMAIN groups, plaintiff \in Participants, valid \in BOOLEAN :
        /\ CallKeyGenComplaintResponse(Nobody, group, plaintiff, p, valid)
        /\ Misdeed(~ valid)

FaultyActs == FaultyCommits \/ FaultyShares \/ FaultyConfirms \/ FaultyComplains \/ FaultyResponds

AnyoneStages == \E group \in DOMAIN groups : group.epoch # Genesis /\ StageEpoch(group)

ChainActs == (CallKeyGen \/ Include \/ AnyoneStages \/ NextBlock) /\ UNCHANGED misdeeds

\* An effect that takes long is like a commitment that does, since nothing else
\* depends on it without reorgs: effects complete at once.
Next ==
    \/ SetupDone \/ Revert
    \/ \E v \in Joiners : Join(v)
    \/ effects = {} /\ (ChainActs \/ FaultyActs)

Spec == Init /\ [][Next]_vars

-----------------------------------------------------------------------------
(* Properties                                                               *)

Steady == Honest \ (asleep \cup joined)
IsCollecting(r) == r.stage \in {"CollectingCommitments", "CollectingShares", "CollectingConfirmations"}

\* What the rounds of a key generation depend on; the rest is the validator's own.
Common(r) == [stage |-> r.stage, epoch |-> r.next_epoch, group |-> r.group, deadline |-> r.deadline,
              commitments |-> r.commitments, shared |-> r.shared,
              confirmations |-> r.confirmations, complaints |-> r.complaints]

\* The honest validators are always at the same point of the same key generation,
\* whoever of them got bad shares, is left out, or is slow, and one that joined
\* late is once it takes part. Else they would restart with different groups.
HonestAgree ==
    \A u \in Steady, v \in Honest \ asleep :
        \/ v \in joined /\ view[v].rollover.stage \in {"WaitingForGenesis", "EpochSkipped"}
        \/ Common(view[u].rollover) = Common(view[v].rollover)

\* Every honest member of a group that is staged for an epoch holds its key share,
\* for that very group, or the epoch might start with fewer signers than its
\* threshold counts on.
StagedKeyHeld ==
    \A e \in Epochs \ {Genesis} :
        group_of[e] # NoGroup =>
            \A v \in Steady \cap group_of[e].members : view[v].epochs[e] = group_of[e]

\* handle_rollover_new_block rolls over at the very block where the contract
\* starts to use the staged epoch.
ActiveEpochAgrees ==
    \A v \in Steady : view[v].active_epoch = EpochsWithRollover.active

\* Once the contract holds a group compromised, no validator goes on with it: late
\* complaints count too.
CompromisedAbandoned ==
    \A group \in DOMAIN groups :
        groups[group].status = "COMPROMISED" =>
            \A v \in Steady : view[v].rollover.group # group

\* The members of an epoch's groups whose verifying share was cancelled.
Robbed(epoch) == {c.member : c \in {d \in cancelled : d.group.epoch = epoch}}

\* A validator is left out of an epoch's groups only when it kept something pending
\* over a block, or when the last member to commit to one of them cancelled its
\* verifying share, so that the contract refused what it had to submit. Nothing else
\* that others commit, share, claim or leave undone does it.
HonestKept ==
    \A u, v \in Steady :
        LET r == view[u].rollover IN
        r.group # NoGroup /\ v \in Configured[r.group.epoch] =>
            v \in r.group.members \/ v \in late \/ v \in Robbed(r.group.epoch)

\* With prompt honest validators, the key generation of an epoch is delayed by the
\* deadlines of one attempt for each faulty one and for each honest one whose
\* verifying share is cancelled, and it fails only in the latter case.
KeyGenInTime ==
    late = {} =>
        \A v \in Steady :
            LET r == view[v].rollover
                lost == Cardinality(Faulty \cup Robbed(r.next_epoch))
            IN
            Timed(r) => /\ r.stage = "EpochSkipped" => Robbed(r.next_epoch) \cap Honest # {}
                        /\ IsCollecting(r) => block <= began + (5 * KeyGenTimeout - 2) * lost
=============================================================================
