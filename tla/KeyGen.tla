------------------------------- MODULE KeyGen -------------------------------
(***************************************************************************)
(* A validator's key generations and epoch rollovers: the pure transition   *)
(* functions of crates/validator/src/state/keygen.rs. Every handler takes   *)
(* the validator's state and returns the next one with the commands it asks *)
(* for; KeyGenNetwork decides when they run.                                *)
(*                                                                          *)
(* A state is [rollover, active_epoch, epochs]. Epoch 0 is EpochId::Genesis;*)
(* its key generation is the one without deadlines. A group is known by its *)
(* epoch and members: the id hashes just these. Keys, polynomials and       *)
(* proofs are abstracted to whether they verify.                            *)
(***************************************************************************)
EXTENDS Integers, FiniteSets

CONSTANTS
    Participants,
    Configured,     \* [epoch -> participants whose active range covers it]
    KeyGenTimeout,  \* ValidatorConfig::key_gen_timeout
    BlocksPerEpoch, \* ValidatorConfig::blocks_per_epoch
    NoGroup

ASSUME ConfiguredAssumption == \A e \in DOMAIN Configured : Configured[e] \subseteq Participants
ASSUME KeyGenTimeoutAssumption == KeyGenTimeout \in Nat \ {0}
ASSUME BlocksPerEpochAssumption == BlocksPerEpoch \in Nat \ {0}

Epochs == DOMAIN Configured
Genesis == 0

ASSUME EpochsAssumption == Epochs \subseteq Nat /\ Genesis \in Epochs
ASSUME ParticipantsAssumption == IsFiniteSet(Participants)
ASSUME NoGroupAssumption == NoGroup \notin [epoch : Epochs, members : SUBSET Participants]

-----------------------------------------------------------------------------
(* Groups                                                                   *)

GroupThreshold(members) == Cardinality(members) \div 2 + 1

\* Strictly more than two thirds of the configured participants, and at least two.
MinParticipants(n) == LET min == (n * 2) \div 3 + 1 IN IF min > 2 THEN min ELSE 2

\* participants_set is Some
IsViable(epoch, excluded) ==
    Cardinality(Configured[epoch] \ excluded) >= MinParticipants(Cardinality(Configured[epoch]))

GroupOf(epoch, excluded) == [epoch |-> epoch, members |-> Configured[epoch] \ excluded]

\* Group::also_exclude and Group::exclude_all_others
AlsoExclude(group, others)      == (Configured[group.epoch] \ group.members) \cup others
ExcludeAllOthers(group, others) == AlsoExclude(group, group.members \ others)

\* epoch::next_number
NextNumber(block) == 1 + block \div BlocksPerEpoch

-----------------------------------------------------------------------------
(* RolloverState                                                            *)

NoComplaint == [total |-> 0, unresponded |-> {}]

\* The fields of a stage that a round does not use are blank. participation is
\* Setup while the KeyGenSetup effect is outstanding.
Rollover(stage, epoch, group, participation, deadline) ==
    [stage |-> stage, next_epoch |-> epoch, group |-> group, participation |-> participation,
     commitments |-> {}, shared |-> {}, shares |-> {}, confirmations |-> {}, confirmed |-> FALSE,
     complaints |-> [p \in Participants |-> NoComplaint], active |-> Genesis, deadline |-> deadline]

Idle(stage, epoch) == Rollover(stage, epoch, NoGroup, "Observing", 0)

InitialState == [rollover     |-> Idle("WaitingForGenesis", Genesis),
                 active_epoch |-> Genesis,
                 epochs       |-> [e \in Epochs |-> NoGroup]]

\* Faulty variant: a timeout too many.
ConfirmDeadlineLater(r) == r.deadline + 3 * KeyGenTimeout

\* The deadlines of the confirmation round follow the one for complaints.
ComplainDeadline(r) == r.deadline
ResponseDeadline(r) == r.deadline + KeyGenTimeout
ConfirmDeadline(r)  == r.deadline + 2 * KeyGenTimeout

\* Only the genesis key generation has no deadlines (deadline is None).
Timed(r) == r.next_epoch # Genesis
After(r, block) == IF Timed(r) THEN block + KeyGenTimeout ELSE r.deadline

Unresponded(r) == {p \in Participants : r.complaints[p].unresponded # {}}

Follows(s, stage, group) == s.rollover.stage = stage /\ s.rollover.group = group

\* Commands
KeyGenSetup(group)       == [kind |-> "KeyGenSetup", group |-> group]
KeyGenAndCommit(group)   == [kind |-> "KeyGenAndCommit", group |-> group]
KeyGenSecretShare(group) == [kind |-> "KeyGenSecretShare", group |-> group]
KeyGenConfirm(group)     == [kind |-> "KeyGenConfirm", group |-> group]
KeyGenComplain(group, accused) ==
    [kind |-> "KeyGenComplain", group |-> group, accused |-> accused]
KeyGenComplaintResponse(group, plaintiff) ==
    [kind |-> "KeyGenComplaintResponse", group |-> group, plaintiff |-> plaintiff]

Result(s, commands) == [state |-> s, commands |-> commands]
Ignored(s)          == Result(s, {})
SetRollover(s, r)   == [s EXCEPT !.rollover = r]

-----------------------------------------------------------------------------
(* Starting, restarting and giving up                                       *)

\* rollover_failure
Fail(s, epoch) ==
    Ignored(SetRollover(s, Idle(IF epoch = Genesis THEN "Halted" ELSE "EpochSkipped", epoch)))

\* start_key_gen, as a member or as an observer
StartKeyGen(s, me, group, deadline) ==
    LET joins == me \in group.members IN
    Result(SetRollover(s, Rollover("CollectingCommitments", group.epoch, group,
                                   IF joins THEN "Setup" ELSE "Observing", deadline)),
           IF joins THEN {KeyGenSetup(group)} ELSE {})

\* restart_key_gen_excluding: the genesis group cannot be replaced.
RestartKeyGenExcluding(s, me, epoch, excluded, deadline) ==
    IF epoch # Genesis /\ IsViable(epoch, excluded)
    THEN StartKeyGen(s, me, GroupOf(epoch, excluded), deadline)
    ELSE Fail(s, epoch)

\* A key generation for the next epoch with everybody, or the epoch is skipped.
StartNextKeyGen(s, me, block) ==
    LET next == NextNumber(block) IN
    IF IsViable(next, {})
    THEN StartKeyGen(s, me, GroupOf(next, {}), block + KeyGenTimeout)
    ELSE Ignored(SetRollover(s, Idle("EpochSkipped", next)))

\* finalize_key_gen_commitments, of a round that has them all
FinalizeCommitments(s, r, participation, deadline) ==
    Result(SetRollover(s, Rollover("CollectingShares", r.next_epoch, r.group, participation, deadline)),
           IF participation = "Observing" THEN {} ELSE {KeyGenSecretShare(r.group)})

-----------------------------------------------------------------------------
(* Events                                                                   *)

\* handle_genesis_key_gen
HandleGenesisKeyGen(s, me, group) ==
    IF s.rollover.stage # "WaitingForGenesis" \/ group # GroupOf(Genesis, {}) THEN Ignored(s)
    ELSE StartKeyGen(s, me, group, 0)

\* handle_key_gen_setup, the resume of KeyGenSetup. A reorg may have replayed the
\* validator's own commitment, or everybody's, before it.
HandleKeyGenSetup(s, me, group) ==
    LET r == s.rollover
        commit == IF me \in r.commitments THEN {} ELSE {KeyGenAndCommit(group)}
        next == FinalizeCommitments(s, r, "Participating", After(r, r.deadline))
    IN  IF ~ Follows(s, "CollectingCommitments", group) \/ r.participation # "Setup"
        THEN Ignored(s)
        ELSE IF r.commitments # group.members
        THEN Result([s EXCEPT !.rollover.participation = "Participating"], commit)
        ELSE Result(next.state, commit \cup next.commands)

\* handle_key_gen_committed; valid says whether the commitment verifies.
HandleKeyGenCommitted(s, block, group, p, valid) ==
    LET r == s.rollover
        commitments == IF valid THEN r.commitments \cup {p} ELSE r.commitments
    IN  IF ~ Follows(s, "CollectingCommitments", group) THEN Ignored(s)
        ELSE IF commitments # group.members \/ r.participation = "Setup"
        THEN Ignored([s EXCEPT !.rollover.commitments = commitments])
        ELSE FinalizeCommitments(s, r, r.participation, After(r, block))

\* confirm_key_gen: the validator has its key share.
ConfirmKeyGen(s, group) ==
    Result([s EXCEPT !.rollover.confirmed = TRUE], {KeyGenConfirm(group)})

\* The share of everybody is there, valid or not: the confirmation round.
StartConfirmations(s, r, block, shares) ==
    LET next == SetRollover(s, [Rollover("CollectingConfirmations", r.next_epoch, r.group,
                                         r.participation, After(r, block))
                                  EXCEPT !.shares = shares, !.complaints = r.complaints])
    IN  IF r.participation = "Participating" /\ shares = r.group.members
        THEN ConfirmKeyGen(next, r.group) ELSE Ignored(next)

\* Faulty variant: only the participants whose share the validator could decrypt
\* count as having shared.
HandleKeyGenSecretSharedDecrypted(s, me, block, group, p, valid, cheated) ==
    LET r      == s.rollover
        opens  == valid /\ r.participation = "Participating"
        shared == IF valid /\ ~ (opens /\ me \in cheated) THEN r.shared \cup {p} ELSE r.shared
        shares == IF opens /\ me \notin cheated THEN r.shares \cup {p} ELSE r.shares
        complaint == IF opens /\ me \in cheated THEN {KeyGenComplain(group, p)} ELSE {}
        next == StartConfirmations(s, r, block, shares)
    IN  IF ~ Follows(s, "CollectingShares", group) THEN Ignored(s)
        ELSE IF shared # group.members
        THEN Result([s EXCEPT !.rollover.shared = shared, !.rollover.shares = shares], complaint)
        ELSE Result(next.state, next.commands \cup complaint)

\* handle_key_gen_secret_shared; valid says whether the public key share matches
\* the commitments, and cheated whose encrypted shares do not.
HandleKeyGenSecretShared(s, me, block, group, p, valid, cheated) ==
    LET r      == s.rollover
        shared == IF valid THEN r.shared \cup {p} ELSE r.shared
        opens  == valid /\ r.participation = "Participating"
        shares == IF opens /\ me \notin cheated THEN r.shares \cup {p} ELSE r.shares
        complaint == IF opens /\ me \in cheated THEN {KeyGenComplain(group, p)} ELSE {}
        next == StartConfirmations(s, r, block, shares)
    IN  IF ~ Follows(s, "CollectingShares", group) THEN Ignored(s)
        ELSE IF shared # group.members
        THEN Result([s EXCEPT !.rollover.shared = shared, !.rollover.shares = shares], complaint)
        ELSE Result(next.state, next.commands \cup complaint)

\* finalize_key_gen
RecordEpoch(s, epoch, group, key_share) ==
    IF key_share THEN [s EXCEPT !.epochs[epoch] = group] ELSE s

\* handle_key_gen_confirmed. The rollover packet that the active group signs
\* (see Signing) is <<active, next_epoch, group>>.
HandleKeyGenConfirmed(s, me, block, group, p) ==
    LET r == s.rollover
        confirmations == r.confirmations \cup {p}
    IN  IF ~ Follows(s, "CollectingConfirmations", group) THEN Ignored(s)
        ELSE IF confirmations # group.members
        THEN Ignored([s EXCEPT !.rollover.confirmations = confirmations])
        ELSE IF r.next_epoch = Genesis
        THEN StartNextKeyGen(RecordEpoch(s, Genesis, group, r.confirmed), me, block)
        ELSE Ignored(SetRollover(s, [Idle("SigningRollover", r.next_epoch)
                 EXCEPT !.group = group, !.confirmed = r.confirmed, !.active = s.active_epoch]))

\* handle_epoch_staged
HandleEpochStaged(s, epoch, group) ==
    LET r == s.rollover IN
    IF Follows(s, "SigningRollover", group)
    THEN Ignored(RecordEpoch(SetRollover(s, Idle("EpochStaged", r.next_epoch)),
                             r.next_epoch, group, r.confirmed))
    ELSE IF r.stage = "WaitingForGenesis"
    THEN Ignored(SetRollover(s, Idle("EpochSkipped", epoch)))
    ELSE Ignored(s)

Complainable(s, group) ==
    Follows(s, "CollectingShares", group) \/ Follows(s, "CollectingConfirmations", group)

\* A complaint that comes too late needs no response.
RequiresResponse(r, block) ==
    r.stage = "CollectingConfirmations" /\ Timed(r) => block <= ComplainDeadline(r)

\* Faulty variant: late complaints do not count at all.
CountComplaintInTime(old, plaintiff, required) ==
    IF required THEN [total |-> old.total + 1, unresponded |-> old.unresponded \cup {plaintiff}]
    ELSE old

CountComplaint(old, plaintiff, required) ==
    [total       |-> old.total + 1,
     unresponded |-> IF required THEN old.unresponded \cup {plaintiff} ELSE old.unresponded]

\* handle_key_gen_complained
HandleKeyGenComplained(s, me, block, group, plaintiff, accused) ==
    LET r        == s.rollover
        required == RequiresResponse(r, block)
        new      == CountComplaint(r.complaints[accused], plaintiff, required)
        counted  == [s EXCEPT !.rollover.complaints[accused] = new]
        answers  == r.participation = "Participating" /\ accused = me /\ required
    IN  IF ~ Complainable(s, group) THEN Ignored(s)
        ELSE IF new.total >= GroupThreshold(group.members)
        THEN RestartKeyGenExcluding(counted, me, r.next_epoch, AlsoExclude(group, {accused}),
                                    block + KeyGenTimeout)
        ELSE Result(counted, IF answers THEN {KeyGenComplaintResponse(group, plaintiff)} ELSE {})

\* Faulty variant: it confirms, but does not keep the key share.
ConfirmIfCompleteUnrecorded(s, group) ==
    LET r == s.rollover IN
    IF /\ r.stage = "CollectingConfirmations" /\ r.participation = "Participating"
       /\ ~ r.confirmed /\ r.shares = group.members
    THEN Result(s, {KeyGenConfirm(group)})
    ELSE Ignored(s)

\* The validator confirms once the confirmation round has brought its last share.
ConfirmIfComplete(s, group) ==
    LET r == s.rollover IN
    IF /\ r.stage = "CollectingConfirmations" /\ r.participation = "Participating"
       /\ ~ r.confirmed /\ r.shares = group.members
    THEN ConfirmKeyGen(s, group)
    ELSE Ignored(s)

\* Faulty variant: the complaint stays open.
SettleNothing(s, plaintiff, accused) == s

Settle(s, plaintiff, accused) ==
    [s EXCEPT !.rollover.complaints[accused].unresponded = @ \ {plaintiff}]

\* handle_key_gen_complaint_responded; valid says whether the revealed share
\* verifies.
HandleKeyGenComplaintResponded(s, me, block, group, plaintiff, accused, valid) ==
    LET r       == s.rollover
        in_time == r.stage = "CollectingConfirmations" /\ Timed(r) => block <= ResponseDeadline(r)
        settled == Settle(s, plaintiff, accused)
        shares  == IF plaintiff = me /\ ~ r.confirmed THEN r.shares \cup {accused} ELSE r.shares
    IN  IF \/ ~ Complainable(s, group) \/ ~ in_time
           \/ plaintiff \notin r.complaints[accused].unresponded
        THEN Ignored(s)
        ELSE IF valid THEN ConfirmIfComplete([settled EXCEPT !.rollover.shares = shares], group)
        ELSE RestartKeyGenExcluding(settled, me, r.next_epoch, AlsoExclude(group, {accused}),
                                    block + KeyGenTimeout)

-----------------------------------------------------------------------------
(* New blocks                                                               *)

\* Faulty variant: an epoch that was not staged becomes the active one too.
RolledOverAlways(s) == [s EXCEPT !.active_epoch = s.rollover.next_epoch]

RolledOver(s) ==
    IF s.rollover.stage = "EpochStaged" THEN [s EXCEPT !.active_epoch = s.rollover.next_epoch]
    ELSE s

\* handle_rollover_new_block
HandleRolloverNewBlock(s, me, block) ==
    LET r == s.rollover IN
    IF r.stage = "Halted" \/ r.next_epoch = Genesis \/ r.next_epoch >= NextNumber(block)
    THEN Ignored(s)
    ELSE StartNextKeyGen(RolledOver(s), me, block)

\* A deadline of the round has passed.
IsExpired(r, block) ==
    \/ r.stage \in {"CollectingCommitments", "CollectingShares"} /\ block >= r.deadline
    \/ /\ r.stage = "CollectingConfirmations"
       /\ \/ block >= ResponseDeadline(r) /\ Unresponded(r) # {}
          \/ block >= ConfirmDeadline(r)

\* Whom the restart of an expired round leaves out.
Stalled(r) ==
    CASE r.stage = "CollectingCommitments"   -> r.group.members \ r.commitments
      [] r.stage = "CollectingShares"        -> r.group.members \ r.shared
      [] r.stage = "CollectingConfirmations" ->
            IF Unresponded(r) # {} THEN Unresponded(r) ELSE r.group.members \ r.confirmations

\* A commitment round that has everybody's commitment, but not the validator's own
\* secrets.
IsStuck(r, block) ==
    /\ r.stage = "CollectingCommitments" /\ r.participation = "Setup"
    /\ r.commitments = r.group.members /\ block >= r.deadline

\* handle_key_gen_timeouts
HandleKeyGenTimeouts(s, me, block) ==
    LET r == s.rollover IN
    IF ~ Timed(r) THEN Ignored(s)
    ELSE IF IsStuck(r, block) THEN Fail(s, r.next_epoch)
    ELSE IF ~ IsExpired(r, block) THEN Ignored(s)
    ELSE RestartKeyGenExcluding(s, me, r.next_epoch, AlsoExclude(r.group, Stalled(r)),
                                block + KeyGenTimeout)

\* Message::NewBlock, as far as key generation goes
HandleNewBlock(s, me, block) ==
    LET rolled  == HandleRolloverNewBlock(s, me, block)
        retired == HandleKeyGenTimeouts(rolled.state, me, block)
    IN  Result(retired.state, rolled.commands \cup retired.commands)
=============================================================================
