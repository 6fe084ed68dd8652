---------------------------- MODULE KeyGenProofs ----------------------------
(***************************************************************************)
(* What the handlers of KeyGen do to a validator's state, whatever the      *)
(* participants, epochs and deadlines: they keep it well formed, they never *)
(* return to a group that was left, and two validators at the same point of *)
(* a key generation move to the same point.                                 *)
(***************************************************************************)
EXTENDS KeyGen, FiniteSetTheorems, TLAPS

Group == [epoch : Epochs, members : SUBSET Participants]

Stages == {"WaitingForGenesis", "CollectingCommitments", "CollectingShares",
           "CollectingConfirmations", "SigningRollover", "EpochStaged", "EpochSkipped", "Halted"}

\* The stages of a key generation that has a group.
Busy == {"CollectingCommitments", "CollectingShares", "CollectingConfirmations", "SigningRollover"}

RolloverState ==
    [stage : Stages, next_epoch : Epochs, group : Group \cup {NoGroup},
     participation : {"Observing", "Setup", "Participating"},
     commitments : SUBSET Participants, shared : SUBSET Participants,
     shares : SUBSET Participants, confirmations : SUBSET Participants, confirmed : BOOLEAN,
     complaints : [Participants -> [total : Nat, unresponded : SUBSET Participants]],
     active : Epochs, deadline : Nat]

State == [rollover : RolloverState, active_epoch : Epochs,
          epochs : [Epochs -> Group \cup {NoGroup}]]

Command ==
    [kind : {"KeyGenSetup", "KeyGenAndCommit", "KeyGenSecretShare", "KeyGenConfirm"}, group : Group]
    \cup [kind : {"KeyGenComplain"}, group : Group, accused : Participants]
    \cup [kind : {"KeyGenComplaintResponse"}, group : Group, plaintiff : Participants]

\* A group that the handlers can start: everybody configured, or enough of them.
Formed(g) ==
    /\ g \in Group
    /\ g.members \subseteq Configured[g.epoch]
    /\ \/ g.members = Configured[g.epoch]
       \/ Cardinality(g.members) >= MinParticipants(Cardinality(Configured[g.epoch]))

Fewer(a, b) == a \subseteq b /\ a # b

\* A round is not complete: the members that are done with it. (Nothing is claimed of
\* the genesis key generation, which no deadline ends.)
Open(r, done) == done \subseteq r.group.members /\ (Timed(r) => done # r.group.members)

\* A rollover is well formed for validator me: every round is still incomplete, and
\* the fields fit the stage.
Shape(me, r) ==
    /\ r \in RolloverState
    /\ r.stage \in Busy <=> r.group # NoGroup
    /\ r.group # NoGroup => Formed(r.group) /\ r.group.epoch = r.next_epoch
    /\ r.stage = "WaitingForGenesis" => r = Idle("WaitingForGenesis", Genesis)
    /\ r.stage = "Halted" => r.next_epoch = Genesis
    /\ r.stage \in {"SigningRollover", "EpochStaged", "EpochSkipped"} => r.next_epoch # Genesis
    /\ r.next_epoch = Genesis /\ r.group # NoGroup => r.group = GroupOf(Genesis, {})
    /\ r.stage = "CollectingCommitments" => Open(r, r.commitments)
    /\ r.stage = "CollectingShares" => Open(r, r.shared)
    /\ r.stage = "CollectingConfirmations" => Open(r, r.confirmations)
    /\ r.stage \in {"CollectingShares", "CollectingConfirmations"} =>
          Unresponded(r) \subseteq r.group.members
    /\ r.participation = "Setup" => r.stage = "CollectingCommitments" /\ me \notin r.commitments
    /\ r.stage \in Busy \ {"SigningRollover"} =>
          (r.participation # "Observing" <=> me \in r.group.members)
    /\ r.confirmed => r.stage \in {"CollectingConfirmations", "SigningRollover"}

\* The validator has left group g for good.
Past(r, g) ==
    /\ r.stage # "WaitingForGenesis"
    /\ \/ r.next_epoch > g.epoch
       \/ /\ r.next_epoch = g.epoch
          /\ r.group # NoGroup => Fewer(r.group.members, g.members)

Reached(r, g) == r.group = g \/ Past(r, g)

-----------------------------------------------------------------------------
(* States and groups                                                        *)

\* A rollover with blank fields is one.
LEMMA RolloverType ==
    ASSUME NEW stage \in Stages, NEW epoch \in Epochs, NEW group \in Group \cup {NoGroup},
           NEW participation \in {"Observing", "Setup", "Participating"}, NEW deadline \in Nat
    PROVE  Rollover(stage, epoch, group, participation, deadline) \in RolloverState
  BY EpochsAssumption DEF Rollover, RolloverState, NoComplaint

\* Replacing the rollover changes nothing else.
LEMMA SetRolloverType ==
    ASSUME NEW s \in State, NEW r \in RolloverState
    PROVE  /\ SetRollover(s, r) \in State
           /\ SetRollover(s, r).rollover = r
           /\ SetRollover(s, r).active_epoch = s.active_epoch
           /\ SetRollover(s, r).epochs = s.epochs
  BY DEF SetRollover, State

\* The groups that the handlers start.
LEMMA ViableFormed ==
    ASSUME NEW epoch \in Epochs, NEW excluded
    PROVE  /\ GroupOf(epoch, excluded) \in Group
           /\ GroupOf(epoch, excluded).epoch = epoch
           /\ GroupOf(epoch, excluded).members = Configured[epoch] \ excluded
           /\ IsViable(epoch, excluded) \/ excluded = {} => Formed(GroupOf(epoch, excluded))
  BY ConfiguredAssumption DEF GroupOf, Group, Epochs, Formed, IsViable

\* A restart leaves out exactly the members it is given.
LEMMA RestartMembers ==
    ASSUME NEW g, Formed(g), NEW others
    PROVE  GroupOf(g.epoch, AlsoExclude(g, others)).members = g.members \ others
  BY DEF GroupOf, AlsoExclude, Formed

\* A viable epoch has participants.
LEMMA ViableNonempty ==
    ASSUME NEW epoch \in Epochs, NEW excluded, IsViable(epoch, excluded)
    PROVE  GroupOf(epoch, excluded).members # {}
<1>1. IsFiniteSet(Configured[epoch])
  BY ConfiguredAssumption, ParticipantsAssumption, FS_Subset DEF Epochs
<1>2. Cardinality(Configured[epoch]) \in Nat
  BY <1>1, FS_CardinalityType
<1>3. MinParticipants(Cardinality(Configured[epoch])) >= 2
  BY <1>2 DEF MinParticipants
<1>4. Cardinality(Configured[epoch] \ excluded) # 0
  <2>1. IsFiniteSet(Configured[epoch] \ excluded)
    BY <1>1, FS_Difference
  <2>2. Cardinality(Configured[epoch] \ excluded) \in Nat
    BY <2>1, FS_CardinalityType
  <2>3. MinParticipants(Cardinality(Configured[epoch])) \in Int
    BY <1>2 DEF MinParticipants
  <2> QED BY <1>3, <2>2, <2>3 DEF IsViable
<1>5. Cardinality({}) = 0
  BY FS_EmptySet
<1> QED BY <1>4, <1>5 DEF GroupOf

-----------------------------------------------------------------------------
(* Progress                                                                 *)

\* From r, the validator moved on to q: it comes back to no group.
Advance(r, q) ==
    \A g \in Group : /\ Past(r, g) => Past(q, g)
                     /\ r.group = g => Reached(q, g)

\* A validator that is at a group has not left it.
LEMMA NotBoth ==
    ASSUME NEW me, NEW r, Shape(me, r), NEW g \in Group, r.group = g
    PROVE  ~ Past(r, g)
<1>1. g # NoGroup
  BY NoGroupAssumption DEF Group
<1>2. r.next_epoch = g.epoch /\ g.epoch \in Nat
  BY <1>1, EpochsAssumption DEF Shape, Group
<1> QED BY <1>1, <1>2 DEF Past, Fewer

\* A validator that stays in its group and epoch has come back to nothing.
LEMMA AdvanceStays ==
    ASSUME NEW r \in RolloverState, NEW q \in RolloverState, q.group = r.group,
           q.next_epoch = r.next_epoch, q.stage # "WaitingForGenesis" \/ r.stage = "WaitingForGenesis"
    PROVE  Advance(r, q)
  BY DEF Advance, Past, Reached

\* Before the genesis key generation there is no group to come back to.
LEMMA AdvanceStarts ==
    ASSUME NEW me, NEW r, Shape(me, r), r.stage = "WaitingForGenesis", NEW q
    PROVE  Advance(r, q)
<1>1. r.group = NoGroup /\ NoGroup \notin Group
  BY NoGroupAssumption DEF Shape, Busy, Group
<1> QED BY <1>1 DEF Advance, Past

\* A later epoch leaves all groups behind.
LEMMA AdvanceNext ==
    ASSUME NEW me, NEW r, Shape(me, r), NEW q \in RolloverState,
           q.next_epoch > r.next_epoch, q.stage # "WaitingForGenesis"
    PROVE  Advance(r, q)
<1>1. r.next_epoch \in Nat /\ q.next_epoch \in Nat
  BY EpochsAssumption DEF Shape, RolloverState
<1>2. ASSUME NEW g \in Group, Past(r, g) \/ r.group = g PROVE Past(q, g)
  <2>1. g.epoch \in Nat /\ g # NoGroup
    BY EpochsAssumption, NoGroupAssumption DEF Group
  <2>2. r.next_epoch >= g.epoch
    BY <1>1, <1>2, <2>1 DEF Past, Shape
  <2> QED BY <1>1, <2>1, <2>2 DEF Past
<1> QED BY <1>2 DEF Advance, Reached

\* So does a smaller group of the same epoch.
LEMMA AdvanceShrinks ==
    ASSUME NEW me, NEW r, Shape(me, r), NEW q \in RolloverState,
           q.next_epoch = r.next_epoch, q.stage # "WaitingForGenesis", r.group # NoGroup,
           q.group = NoGroup \/ Fewer(q.group.members, r.group.members)
    PROVE  Advance(r, q)
<1>1. ASSUME NEW g \in Group, Past(r, g) PROVE Past(q, g)
  BY <1>1 DEF Past, Fewer
<1>2. ASSUME NEW g \in Group, r.group = g PROVE Past(q, g)
  <2>1. r.next_epoch = g.epoch
    BY <1>2 DEF Shape
  <2> QED BY <1>2, <2>1 DEF Past
<1> QED BY <1>1, <1>2 DEF Advance, Reached

\* And no group at all.
LEMMA AdvanceDrops ==
    ASSUME NEW me, NEW r, Shape(me, r), NEW q \in RolloverState,
           q.next_epoch = r.next_epoch, q.stage # "WaitingForGenesis", q.group = NoGroup
    PROVE  Advance(r, q)
<1>1. ASSUME NEW g \in Group, Past(r, g) PROVE Past(q, g)
  BY <1>1 DEF Past
<1>2. ASSUME NEW g \in Group, r.group = g PROVE Past(q, g)
  <2>1. r.next_epoch = g.epoch
    BY <1>2, NoGroupAssumption DEF Shape, Group
  <2> QED BY <1>2, <2>1 DEF Past
<1> QED BY <1>1, <1>2 DEF Advance, Reached

-----------------------------------------------------------------------------
(* What a handler may do                                                    *)

\* Outside the genesis key generation, a validator is at the epoch of the block.
Timely(r, block) ==
    r.stage # "WaitingForGenesis" /\ Timed(r) => r.next_epoch = NextNumber(block)

\* From r, a handler of validator me leads to q and asks for commands.
Turn(me, r, q, commands) ==
    /\ Shape(me, q)
    /\ Advance(r, q)
    /\ q.stage = "WaitingForGenesis" => r.stage = "WaitingForGenesis"
    /\ \A c \in commands : /\ c \in Command /\ c.group = q.group
                           /\ c.kind = "KeyGenSetup" => q.participation = "Setup"
                           /\ c.kind = "KeyGenConfirm" => q.confirmed
                           /\ c.kind = "KeyGenComplain" => q.stage # "CollectingCommitments"
    /\ q.participation = "Setup" => KeyGenSetup(q.group) \in commands
    /\ q.group = r.group /\ r.group # NoGroup =>
          /\ r.stage # "CollectingCommitments" => q.stage # "CollectingCommitments"
          /\ r.confirmed => q.confirmed
    /\ q.group # r.group /\ q.group # NoGroup =>
          \/ r.stage = "WaitingForGenesis"
          \/ /\ q.stage = "CollectingCommitments" /\ q.commitments = {}
             /\ q.participation # "Participating"

\* The validator's state before an event: no effect is outstanding.
Ready(me, s, block) ==
    /\ s \in State /\ Shape(me, s.rollover) /\ Timely(s.rollover, block)
    /\ s.rollover.participation # "Setup"
    /\ block \in Nat /\ NextNumber(block) \in Epochs

\* What holds of the outcome of every handler.
Good(me, s, outcome, block) ==
    /\ outcome.state \in State
    /\ Turn(me, s.rollover, outcome.state.rollover, outcome.commands)
    /\ Timely(outcome.state.rollover, block)

\* The handlers of events leave the active epoch alone, and record only the genesis key.
Quiet(s, t) ==
    /\ t.active_epoch = s.active_epoch
    /\ \A e \in Epochs \ {Genesis} : t.epochs[e] = s.epochs[e]

\* A validator that stays in its epoch is still in that of the block.
LEMMA TimelyStays ==
    ASSUME NEW me, NEW s, NEW block, Ready(me, s, block), NEW q, q.next_epoch = s.rollover.next_epoch
    PROVE  Timely(q, block)
<1>1. s.rollover.stage = "WaitingForGenesis" => s.rollover.next_epoch = Genesis
  BY DEF Ready, Shape, Idle, Rollover
<1> QED BY <1>1 DEF Ready, Timely, Timed

\* An event that the validator has no use for.
LEMMA IgnoredGood ==
    ASSUME NEW me, NEW s, NEW block, Ready(me, s, block)
    PROVE  Good(me, s, Ignored(s), block) /\ Quiet(s, Ignored(s).state)
<1>1. Advance(s.rollover, s.rollover)
  BY AdvanceStays DEF Ready, Shape
<1> QED BY <1>1 DEF Good, Quiet, Ready, Turn, Ignored, Result

\* A group of a later epoch, or a smaller one of the same.
IsAhead(r, g) ==
    \/ r.stage = "WaitingForGenesis" \/ r.next_epoch < g.epoch
    \/ r.next_epoch = g.epoch /\ r.group # NoGroup /\ Fewer(g.members, r.group.members)

Keeps(s, t) == t.active_epoch = s.active_epoch /\ t.epochs = s.epochs

Started(me, s, r, g, d, result) ==
    LET q == result.state.rollover IN
    /\ result.state \in State /\ Keeps(s, result.state)
    /\ Turn(me, r, q, result.commands)
    /\ q.stage = "CollectingCommitments" /\ q.next_epoch = g.epoch /\ q.group = g
    /\ q.commitments = {} /\ q.deadline = d
    /\ q.participation = (IF me \in g.members THEN "Setup" ELSE "Observing")

\* A validator starts with a new group.
LEMMA StartTurn ==
    ASSUME NEW me, NEW s \in State, NEW r, Shape(me, r), NEW g, Formed(g), NEW d \in Nat,
           g.epoch = Genesis => g = GroupOf(Genesis, {}), g.epoch # Genesis => g.members # {},
           IsAhead(r, g)
    PROVE  Started(me, s, r, g, d, StartKeyGen(s, me, g, d))
<1> DEFINE part == IF me \in g.members THEN "Setup" ELSE "Observing"
           q == Rollover("CollectingCommitments", g.epoch, g, part, d)
           result == StartKeyGen(s, me, g, d)
<1>1. result.state = SetRollover(s, q) /\ result.commands = IF me \in g.members THEN {KeyGenSetup(g)} ELSE {}
  BY DEF StartKeyGen, Result
<1>2. q \in RolloverState
  BY RolloverType DEF Formed, Stages, Group
<1>3. result.state \in State /\ result.state.rollover = q
  BY <1>1, <1>2, SetRolloverType
<1>4. /\ q.stage = "CollectingCommitments" /\ q.next_epoch = g.epoch /\ q.group = g
      /\ q.participation = part /\ q.commitments = {} /\ q.confirmed = FALSE /\ q.deadline = d
  BY DEF Rollover
<1>5. g \in Group /\ g # NoGroup
  BY NoGroupAssumption DEF Formed, Group
<1> HIDE DEF q
<1>6. Shape(me, q)
  BY <1>2, <1>4, <1>5 DEF Shape, Busy, Open, Timed
<1>7. Advance(r, q)
  <2>1. r.next_epoch \in Nat /\ g.epoch \in Nat
    BY <1>5, EpochsAssumption DEF Shape, RolloverState, Group
  <2> QED BY <1>2, <1>4, <2>1, AdvanceStarts, AdvanceNext, AdvanceShrinks DEF IsAhead
<1>8. g # r.group
  <2>1. r.next_epoch \in Nat /\ g.epoch \in Nat
    BY <1>5, EpochsAssumption DEF Shape, RolloverState, Group
  <2> QED BY <1>5, <2>1 DEF IsAhead, Shape, Fewer, Busy
<1>9. KeyGenSetup(g) \in Command /\ KeyGenSetup(g).group = g /\ KeyGenSetup(g).kind = "KeyGenSetup"
  BY <1>5 DEF KeyGenSetup, Command
<1>10. Turn(me, r, q, result.commands)
  BY <1>1, <1>4, <1>5, <1>6, <1>7, <1>8, <1>9 DEF Turn
<1>11. Keeps(s, result.state)
  BY <1>1, <1>2, SetRolloverType DEF Keeps
<1> QED BY <1>3, <1>4, <1>10, <1>11 DEF Started

Idled(me, s, r, stage, epoch, t) ==
    /\ t \in State /\ Keeps(s, t)
    /\ Turn(me, r, t.rollover, {})
    /\ t.rollover.stage = stage /\ t.rollover.next_epoch = epoch /\ t.rollover.group = NoGroup

\* A validator gives up, or waits for the next epoch.
LEMMA IdleTurn ==
    ASSUME NEW me, NEW s \in State, NEW r, Shape(me, r), NEW stage, NEW epoch \in Epochs,
           epoch = Genesis => stage = "Halted",
           epoch # Genesis => stage \in {"EpochSkipped", "EpochStaged"},
           r.stage = "WaitingForGenesis" \/ r.next_epoch <= epoch
    PROVE  Idled(me, s, r, stage, epoch, SetRollover(s, Idle(stage, epoch)))
<1> DEFINE q == Idle(stage, epoch)
<1>1. q \in RolloverState
  BY RolloverType DEF Stages, Idle
<1>2. /\ q.stage = stage /\ q.next_epoch = epoch /\ q.group = NoGroup
      /\ q.participation = "Observing" /\ q.confirmed = FALSE
  BY DEF Rollover, Idle
<1>3. SetRollover(s, q) \in State /\ SetRollover(s, q).rollover = q
  BY <1>1, SetRolloverType
<1> HIDE DEF q
<1>4. Shape(me, q)
  BY <1>1, <1>2 DEF Shape, Busy
<1>5. Advance(r, q)
  <2>1. r.next_epoch \in Nat /\ epoch \in Nat
    BY EpochsAssumption DEF Shape, RolloverState
  <2> QED BY <1>1, <1>2, <2>1, AdvanceStarts, AdvanceNext, AdvanceDrops
<1>6. Turn(me, r, q, {})
  BY <1>2, <1>4, <1>5 DEF Turn
<1>7. Keeps(s, SetRollover(s, q))
  BY <1>1, SetRolloverType DEF Keeps
<1> QED BY <1>2, <1>3, <1>6, <1>7 DEF q, Idled

Restarted(me, s, r, others, result) ==
    LET q == result.state.rollover IN
    /\ result.state \in State /\ Keeps(s, result.state)
    /\ Turn(me, r, q, result.commands)
    /\ q.next_epoch = r.next_epoch /\ q.stage # "WaitingForGenesis" /\ q.group # r.group
    /\ q.group # NoGroup => q.group.members = r.group.members \ others

\* A restart without some of the members, or the end of the attempts.
LEMMA RestartTurn ==
    ASSUME NEW me, NEW s \in State, NEW r, Shape(me, r), r.group # NoGroup,
           NEW others, r.group.members \cap others # {}, NEW d \in Nat
    PROVE  Restarted(me, s, r, others,
               RestartKeyGenExcluding(s, me, r.next_epoch, AlsoExclude(r.group, others), d))
<1> DEFINE excluded == AlsoExclude(r.group, others)
           g == GroupOf(r.next_epoch, excluded)
           result == RestartKeyGenExcluding(s, me, r.next_epoch, excluded, d)
<1>1. Formed(r.group) /\ r.group.epoch = r.next_epoch /\ r.next_epoch \in Epochs
  BY DEF Shape, RolloverState
<1>2. g.members = r.group.members \ others
  BY <1>1, RestartMembers
<1>3. CASE r.next_epoch # Genesis /\ IsViable(r.next_epoch, excluded)
  <2>1. result = StartKeyGen(s, me, g, d)
    BY <1>3 DEF RestartKeyGenExcluding
  <2>2. Formed(g) /\ g.epoch = r.next_epoch /\ g.members # {}
    BY <1>1, <1>3, ViableFormed, ViableNonempty
  <2>3. IsAhead(r, g)
    BY <1>2, <2>2 DEF IsAhead, Fewer
  <2> HIDE DEF g, result
  <2>4. Started(me, s, r, g, d, result)
    BY <1>3, <2>1, <2>2, <2>3, StartTurn
  <2>5. g # r.group
    BY <1>2
  <2> QED BY <1>2, <2>2, <2>4, <2>5 DEF result, Restarted, Started
<1>4. CASE ~ (r.next_epoch # Genesis /\ IsViable(r.next_epoch, excluded))
  <2> DEFINE stage == IF r.next_epoch = Genesis THEN "Halted" ELSE "EpochSkipped"
  <2>1. result.state = SetRollover(s, Idle(stage, r.next_epoch)) /\ result.commands = {}
    BY <1>4 DEF RestartKeyGenExcluding, Fail, Ignored, Result
  <2>0. r.next_epoch \in Nat
    BY <1>1, EpochsAssumption
  <2>2. r.next_epoch <= r.next_epoch
    BY <2>0
  <2>3. /\ r.next_epoch = Genesis => stage = "Halted"
        /\ r.next_epoch # Genesis => stage \in {"EpochSkipped", "EpochStaged"}
        /\ stage # "WaitingForGenesis"
    OBVIOUS
  <2> HIDE DEF result, stage
  <2>4. Idled(me, s, r, stage, r.next_epoch, SetRollover(s, Idle(stage, r.next_epoch)))
    BY <1>1, <2>2, <2>3, IdleTurn
  <2> QED BY <2>1, <2>3, <2>4 DEF Idled, Restarted, result
<1> QED BY <1>3, <1>4

MovedOn(me, s, r, block, result) ==
    LET q == result.state.rollover IN
    /\ result.state \in State /\ Keeps(s, result.state)
    /\ Turn(me, r, q, result.commands)
    /\ q.next_epoch = NextNumber(block)
    /\ q.stage \in {"CollectingCommitments", "EpochSkipped"}
    /\ q.stage = "CollectingCommitments" =>
          /\ q.deadline = block + KeyGenTimeout
          /\ q.group = GroupOf(NextNumber(block), {}) /\ q.commitments = {}
          /\ q.participation = (IF me \in q.group.members THEN "Setup" ELSE "Observing")

\* The key generation of the next epoch.
LEMMA NextTurn ==
    ASSUME NEW me, NEW s \in State, NEW r, Shape(me, r), NEW block \in Nat,
           NextNumber(block) \in Epochs, r.next_epoch < NextNumber(block)
    PROVE  MovedOn(me, s, r, block, StartNextKeyGen(s, me, block))
<1> DEFINE next == NextNumber(block)
           g == GroupOf(next, {})
           d == block + KeyGenTimeout
           result == StartNextKeyGen(s, me, block)
<1>1. next \in Nat /\ next # Genesis /\ d \in Nat
  BY BlocksPerEpochAssumption, KeyGenTimeoutAssumption, EpochsAssumption DEF NextNumber, Genesis
<1>2. CASE IsViable(next, {})
  <2>1. result = StartKeyGen(s, me, g, d)
    BY <1>2 DEF StartNextKeyGen
  <2>2. Formed(g) /\ g.epoch = next /\ g.members # {}
    BY <1>2, ViableFormed, ViableNonempty
  <2>3. IsAhead(r, g)
    BY <2>2 DEF IsAhead
  <2> HIDE DEF g, result, next, d
  <2>4. Started(me, s, r, g, d, result)
    BY <1>1, <2>1, <2>2, <2>3, StartTurn
  <2> QED BY <2>2, <2>4 DEF result, g, next, d, Started, MovedOn
<1>3. CASE ~ IsViable(next, {})
  <2>1. result.state = SetRollover(s, Idle("EpochSkipped", next)) /\ result.commands = {}
    BY <1>3 DEF StartNextKeyGen, Ignored, Result
  <2>2. r.next_epoch \in Nat
    BY EpochsAssumption DEF Shape, RolloverState
  <2>3. r.next_epoch <= next /\ next \in Epochs
    BY <1>1, <2>2
  <2> HIDE DEF result, next
  <2>4. Idled(me, s, r, "EpochSkipped", next, SetRollover(s, Idle("EpochSkipped", next)))
    BY <1>1, <2>3, IdleTurn
  <2> QED BY <2>1, <2>4 DEF result, next, Idled, MovedOn
<1> QED BY <1>2, <1>3

-----------------------------------------------------------------------------
(* The handlers                                                             *)

\* handle_genesis_key_gen
LEMMA GenesisKeyGenGood ==
    ASSUME NEW me, NEW s, NEW block, Ready(me, s, block), NEW group
    PROVE  /\ Good(me, s, HandleGenesisKeyGen(s, me, group), block)
           /\ Quiet(s, HandleGenesisKeyGen(s, me, group).state)
<1> DEFINE result == HandleGenesisKeyGen(s, me, group)
<1>1. CASE s.rollover.stage # "WaitingForGenesis" \/ group # GroupOf(Genesis, {})
  BY <1>1, IgnoredGood DEF HandleGenesisKeyGen
<1>2. CASE s.rollover.stage = "WaitingForGenesis" /\ group = GroupOf(Genesis, {})
  <2>1. result = StartKeyGen(s, me, group, 0)
    BY <1>2 DEF HandleGenesisKeyGen
  <2>2. Formed(group) /\ group.epoch = Genesis /\ s \in State /\ Shape(me, s.rollover)
    BY <1>2, ViableFormed, EpochsAssumption DEF Ready
  <2>3. IsAhead(s.rollover, group)
    BY <1>2 DEF IsAhead
  <2> HIDE DEF result
  <2>4. Started(me, s, s.rollover, group, 0, result)
    BY <1>2, <2>1, <2>2, <2>3, StartTurn
  <2>5. Good(me, s, result, block) /\ Quiet(s, result.state)
    BY <2>2, <2>4 DEF Started, Good, Quiet, Keeps, Timely, Timed
  <2> QED BY <2>5 DEF result
<1> QED BY <1>1, <1>2

\* The commands fit the state they come with.
Proper(q, commands) ==
    \A c \in commands : /\ c \in Command /\ c.group = q.group /\ c.kind # "KeyGenSetup"
                        /\ c.kind = "KeyGenConfirm" => q.confirmed
                        /\ c.kind = "KeyGenComplain" => q.stage # "CollectingCommitments"

\* A round goes on: the stage, the group and the participation stay.
LEMMA FieldTurn ==
    ASSUME NEW me, NEW r, Shape(me, r), NEW q, Shape(me, q), NEW commands,
           q.stage = r.stage, q.group = r.group, q.next_epoch = r.next_epoch,
           q.participation = r.participation, r.participation # "Setup",
           r.confirmed => q.confirmed,
           Proper(q, commands)
    PROVE  Turn(me, r, q, commands)
<1>1. Advance(r, q)
  BY AdvanceStays DEF Shape
<1> QED BY <1>1 DEF Turn, Proper

\* The deadline of the next round.
LEMMA AfterType ==
    ASSUME NEW r \in RolloverState, NEW block \in Nat
    PROVE  After(r, block) \in Nat
  BY KeyGenTimeoutAssumption DEF After, RolloverState

\* The next round of the same group.
LEMMA RoundTurn ==
    ASSUME NEW me, NEW r, Shape(me, r), NEW q, Shape(me, q), NEW commands,
           r.stage \in Busy, q.stage \in Busy \ {"CollectingCommitments"},
           q.group = r.group, q.next_epoch = r.next_epoch, r.confirmed => q.confirmed,
           Proper(q, commands)
    PROVE  Turn(me, r, q, commands)
<1>1. Advance(r, q)
  BY AdvanceStays DEF Shape, Busy
<1>2. q.participation # "Setup"
  BY DEF Shape
<1> QED BY <1>1, <1>2 DEF Turn, Busy, Proper

Finalized(me, s, r, q, result) ==
    /\ result.state \in State /\ Keeps(s, result.state)
    /\ result.state.rollover = q
    /\ Turn(me, r, q, result.commands)
    /\ q.next_epoch = r.next_epoch /\ q.group = r.group /\ q.participation # "Setup"

\* finalize_key_gen_commitments
LEMMA FinalizeTurn ==
    ASSUME NEW me, NEW s \in State, NEW r, Shape(me, r), r.stage = "CollectingCommitments",
           NEW participation \in {"Observing", "Participating"}, NEW deadline \in Nat,
           participation # "Observing" <=> me \in r.group.members,
           Timed(r) => r.group.members # {}
    PROVE  Finalized(me, s, r, Rollover("CollectingShares", r.next_epoch, r.group, participation, deadline),
                     FinalizeCommitments(s, r, participation, deadline))
<1> DEFINE q == Rollover("CollectingShares", r.next_epoch, r.group, participation, deadline)
           result == FinalizeCommitments(s, r, participation, deadline)
<1>1. r.group \in Group /\ r.group # NoGroup /\ r.group.epoch = r.next_epoch /\ Formed(r.group)
  BY DEF Shape, Formed, Busy
<1>2. q \in RolloverState
  BY <1>1, RolloverType DEF Stages, Group
<1>3. /\ q.stage = "CollectingShares" /\ q.next_epoch = r.next_epoch /\ q.group = r.group
      /\ q.participation = participation /\ q.shared = {} /\ q.confirmed = FALSE
      /\ q.complaints = [p \in Participants |-> NoComplaint]
  BY DEF Rollover
<1>4. result.state = SetRollover(s, q)
      /\ result.commands = IF participation = "Observing" THEN {} ELSE {KeyGenSecretShare(r.group)}
  BY DEF FinalizeCommitments, Result
<1>5. result.state \in State /\ Keeps(s, result.state) /\ result.state.rollover = q
  BY <1>2, <1>4, SetRolloverType DEF Keeps
<1> HIDE DEF q
<1>6. Unresponded(q) = {}
  BY <1>3 DEF Unresponded, NoComplaint
<1>7. Shape(me, q)
  BY <1>1, <1>2, <1>3, <1>6 DEF Shape, Busy, Open, Timed
<1>8. KeyGenSecretShare(r.group) \in Command /\ KeyGenSecretShare(r.group).group = r.group
      /\ KeyGenSecretShare(r.group).kind = "KeyGenSecretShare"
  BY <1>1 DEF KeyGenSecretShare, Command
<1>9. r.confirmed => q.confirmed
  BY DEF Shape
<1>10. Turn(me, r, q, result.commands)
  <2>1. Proper(q, result.commands)
    BY <1>3, <1>4, <1>8 DEF Proper
  <2> QED BY <1>3, <1>7, <1>9, <2>1, RoundTurn DEF Busy
<1> QED BY <1>3, <1>5, <1>10 DEF q, Finalized

\* The KeyGenSetup command that is outstanding while a validator sets up.
Outstanding(r) == IF r.participation = "Setup" THEN {KeyGenSetup(r.group)} ELSE {}

Committed(me, s, result) ==
    LET r == s.rollover
        q == result.state.rollover
    IN
    /\ result.state \in State /\ Keeps(s, result.state)
    /\ Turn(me, r, q, result.commands \cup Outstanding(r))
    /\ q.group = r.group /\ q.next_epoch = r.next_epoch

\* handle_key_gen_committed, also of a validator that sets up.
LEMMA CommittedTurn ==
    ASSUME NEW me, NEW s \in State, Shape(me, s.rollover), NEW block \in Nat, NEW group \in Group,
           NEW p \in group.members, NEW valid \in BOOLEAN, s.rollover.participation = "Setup" => p # me
    PROVE  Committed(me, s, HandleKeyGenCommitted(s, block, group, p, valid))
<1> DEFINE r == s.rollover
           commitments == IF valid THEN r.commitments \cup {p} ELSE r.commitments
           result == HandleKeyGenCommitted(s, block, group, p, valid)
<1>1. r \in RolloverState /\ Shape(me, r)
  BY DEF Shape
<1>2. group # NoGroup
  BY NoGroupAssumption DEF Group
<1>0. r.participation = "Setup" =>
        /\ KeyGenSetup(r.group) \in Command /\ KeyGenSetup(r.group).group = r.group
        /\ KeyGenSetup(r.group).kind = "KeyGenSetup"
  BY DEF KeyGenSetup, Command, Shape, Busy, Formed
<1>3. CASE ~ Follows(s, "CollectingCommitments", group)
  <2>1. result.state = s /\ result.commands = {}
    BY <1>3 DEF HandleKeyGenCommitted, Ignored, Result
  <2>2. Advance(r, r)
    BY <1>1, AdvanceStays
  <2>3. Turn(me, r, r, Outstanding(r))
    BY <1>0, <1>1, <2>2 DEF Turn, Outstanding
  <2> QED BY <2>1, <2>3 DEF Committed, Keeps
<1>4. CASE Follows(s, "CollectingCommitments", group) /\ (commitments # group.members \/ r.participation = "Setup")
  <2> DEFINE q == [r EXCEPT !.commitments = commitments]
  <2>1. result.state = [s EXCEPT !.rollover = q] /\ result.commands = {}
    BY <1>4 DEF HandleKeyGenCommitted, Ignored, Result
  <2>2. /\ q \in RolloverState /\ q.stage = r.stage /\ q.group = r.group /\ q.next_epoch = r.next_epoch
        /\ q.participation = r.participation /\ q.confirmed = r.confirmed /\ q.complaints = r.complaints
        /\ q.commitments = commitments
    BY <1>1 DEF RolloverState, Group
  <2>3. result.state \in State /\ result.state.rollover = q /\ Keeps(s, result.state)
    BY <2>1, <2>2 DEF State, Keeps
  <2>4. r.stage = "CollectingCommitments" /\ r.group = group
    BY <1>4 DEF Follows
  <2>5. Open(r, r.commitments)
    BY <1>1, <2>4 DEF Shape
  <2>6. commitments \subseteq group.members /\ commitments # group.members
    BY <1>1, <1>2, <1>4, <2>4, <2>5 DEF Open, Shape, Busy
  <2>7. r.participation = "Setup" => me \notin commitments
    BY <1>1 DEF Shape
  <2> HIDE DEF q, commitments
  <2>8. Shape(me, q)
    BY <1>1, <1>2, <2>2, <2>4, <2>6, <2>7 DEF Shape, Open, Busy, Timed
  <2>9. Advance(r, q)
    BY <1>1, <2>2, AdvanceStays
  <2>10. Turn(me, r, q, Outstanding(r))
    BY <1>0, <2>2, <2>4, <2>8, <2>9 DEF Turn, Outstanding
  <2> QED BY <2>1, <2>2, <2>3, <2>10 DEF Committed
<1>5. CASE Follows(s, "CollectingCommitments", group) /\ commitments = group.members /\ r.participation # "Setup"
  <2> DEFINE deadline == After(r, block)
             q == Rollover("CollectingShares", r.next_epoch, r.group, r.participation, deadline)
  <2>1. result = FinalizeCommitments(s, r, r.participation, deadline)
    BY <1>5 DEF HandleKeyGenCommitted
  <2>2. r.stage = "CollectingCommitments" /\ r.group = group /\ group.members # {}
    BY <1>5 DEF Follows
  <2>3. /\ r.participation \in {"Observing", "Participating"} /\ deadline \in Nat
        /\ r.participation # "Observing" <=> me \in r.group.members
    BY <1>1, <1>5, <2>2, AfterType DEF Shape, RolloverState, Busy
  <2> HIDE DEF deadline, result
  <2>4. Finalized(me, s, r, q, result)
    BY <1>1, <2>1, <2>2, <2>3, FinalizeTurn
  <2>5. Outstanding(r) = {}
    BY <1>5 DEF Outstanding
  <2> HIDE DEF q, r
  <2>6. result.commands \cup Outstanding(r) = result.commands
    BY <2>5
  <2>7. result.state \in State /\ Keeps(s, result.state) /\ result.state.rollover = q
        /\ q.next_epoch = r.next_epoch /\ q.group = r.group /\ Turn(me, r, q, result.commands)
    BY <2>4 DEF Finalized
  <2>8. Turn(me, r, q, result.commands \cup Outstanding(r))
    BY <2>6, <2>7
  <2> QED BY <2>7, <2>8 DEF Committed, result, r
<1> QED BY <1>3, <1>4, <1>5

\* handle_key_gen_committed, before which handle_genesis_key_gen may have run.
LEMMA CommittedGood ==
    ASSUME NEW me, NEW s, NEW block, Ready(me, s, block), NEW group \in Group,
           NEW p \in group.members, NEW valid \in BOOLEAN
    PROVE  /\ Good(me, s, HandleKeyGenCommitted(s, block, group, p, valid), block)
           /\ Quiet(s, HandleKeyGenCommitted(s, block, group, p, valid).state)
<1> DEFINE result == HandleKeyGenCommitted(s, block, group, p, valid)
<1>1. Committed(me, s, result)
  BY CommittedTurn DEF Ready
<1>2. Outstanding(s.rollover) = {}
  BY DEF Ready, Outstanding
<1> HIDE DEF result
<1>3. result.commands \cup Outstanding(s.rollover) = result.commands
  BY <1>2
<1>4. Turn(me, s.rollover, result.state.rollover, result.commands)
  BY <1>1, <1>3 DEF Committed
<1>5. Timely(result.state.rollover, block)
  BY <1>1, TimelyStays DEF Committed
<1>6. Quiet(s, result.state)
  BY <1>1 DEF Committed, Quiet, Keeps
<1> QED BY <1>1, <1>4, <1>5, <1>6 DEF Good, Committed, result

\* The state after a handler that changed fields of the rollover.
LEMMA FieldsSet ==
    ASSUME NEW s \in State, NEW q \in RolloverState, NEW t, t = [s EXCEPT !.rollover = q]
    PROVE  t \in State /\ t.rollover = q /\ Keeps(s, t) /\ Quiet(s, t)
  BY DEF State, Keeps, Quiet

ConfirmationsStarted(me, s, r, block, shares, result) ==
    LET q == result.state.rollover IN
    /\ result.state \in State /\ Keeps(s, result.state)
    /\ Turn(me, r, q, result.commands)
    /\ q.next_epoch = r.next_epoch /\ q.group = r.group
    /\ q.stage = "CollectingConfirmations" /\ q.deadline = After(r, block)
    /\ q.confirmations = {} /\ q.complaints = r.complaints /\ q.shares = shares
    /\ q.participation = r.participation /\ q.commitments = {} /\ q.shared = {}
    /\ q.confirmed = (r.participation = "Participating" /\ shares = r.group.members)
    /\ result.commands = IF q.confirmed THEN {KeyGenConfirm(r.group)} ELSE {}

\* The confirmation round starts, and the validator may confirm at once.
LEMMA StartConfirmationsTurn ==
    ASSUME NEW me, NEW s \in State, NEW r, Shape(me, r), r.stage = "CollectingShares",
           NEW block \in Nat, NEW shares \in SUBSET Participants,
           Timed(r) => r.group.members # {}
    PROVE  ConfirmationsStarted(me, s, r, block, shares, StartConfirmations(s, r, block, shares))
<1> DEFINE base == Rollover("CollectingConfirmations", r.next_epoch, r.group, r.participation, After(r, block))
           q0 == [base EXCEPT !.shares = shares, !.complaints = r.complaints]
           done == r.participation = "Participating" /\ shares = r.group.members
           q == IF done THEN [q0 EXCEPT !.confirmed = TRUE] ELSE q0
           result == StartConfirmations(s, r, block, shares)
<1>1. r.group \in Group /\ r.group # NoGroup /\ r \in RolloverState
  BY DEF Shape, Formed, Busy
<1>2. After(r, block) \in Nat
  BY <1>1, AfterType
<1>3. base \in RolloverState
  <2>1. /\ r.next_epoch \in Epochs /\ r.participation \in {"Observing", "Setup", "Participating"}
        /\ "CollectingConfirmations" \in Stages /\ r.group \in Group \cup {NoGroup}
    BY <1>1 DEF RolloverState, Stages
  <2> QED BY <2>1, <1>2, RolloverType
<1>4. /\ base.stage = "CollectingConfirmations" /\ base.next_epoch = r.next_epoch /\ base.group = r.group
      /\ base.participation = r.participation /\ base.deadline = After(r, block)
      /\ base.confirmations = {} /\ base.confirmed = FALSE /\ base.commitments = {} /\ base.shared = {}
  BY DEF Rollover
<1> HIDE DEF base
<1>5. r.complaints \in [Participants -> [total : Nat, unresponded : SUBSET Participants]]
  BY <1>1 DEF RolloverState
<1>6. /\ q0 \in RolloverState /\ q0.stage = base.stage /\ q0.next_epoch = base.next_epoch
      /\ q0.group = base.group /\ q0.participation = base.participation /\ q0.deadline = base.deadline
      /\ q0.confirmations = {} /\ q0.confirmed = FALSE /\ q0.complaints = r.complaints /\ q0.shares = shares
      /\ q0.commitments = {} /\ q0.shared = {}
  BY <1>3, <1>4, <1>5 DEF RolloverState, Group
<1> HIDE DEF q0
<1>7. /\ q \in RolloverState /\ q.stage = base.stage /\ q.next_epoch = base.next_epoch
      /\ q.group = base.group /\ q.participation = base.participation /\ q.deadline = base.deadline
      /\ q.confirmations = {} /\ q.confirmed = done /\ q.complaints = r.complaints /\ q.shares = shares
      /\ q.commitments = {} /\ q.shared = {}
  <2>1. CASE done
    <3>1. q = [q0 EXCEPT !.confirmed = TRUE]
      BY <2>1
    <3> HIDE DEF q
    <3>2. /\ q \in RolloverState /\ q.stage = base.stage /\ q.next_epoch = base.next_epoch
          /\ q.group = base.group /\ q.participation = base.participation /\ q.deadline = base.deadline
          /\ q.confirmations = {} /\ q.confirmed = TRUE /\ q.complaints = r.complaints /\ q.shares = shares
          /\ q.commitments = {} /\ q.shared = {}
      BY <3>1, <1>6 DEF RolloverState, Group
    <3> QED BY <2>1, <3>2
  <2>2. CASE ~ done
    BY <1>6, <2>2
  <2> QED BY <2>1, <2>2
<1>8. result.state = [s EXCEPT !.rollover = q] /\ result.commands = IF done THEN {KeyGenConfirm(r.group)} ELSE {}
  <2>1. SetRollover(s, q0) = [s EXCEPT !.rollover = q0]
    BY DEF SetRollover
  <2>2. CASE done
    <3>1. result = ConfirmKeyGen(SetRollover(s, q0), r.group)
      BY <2>2 DEF StartConfirmations, base, q0
    <3>2. result.state = [SetRollover(s, q0) EXCEPT !.rollover.confirmed = TRUE] /\ result.commands = {KeyGenConfirm(r.group)}
      BY <3>1 DEF ConfirmKeyGen, Result
    <3>3. [SetRollover(s, q0) EXCEPT !.rollover.confirmed = TRUE] = [s EXCEPT !.rollover = [q0 EXCEPT !.confirmed = TRUE]]
      BY <2>1 DEF State
    <3> QED BY <2>2, <3>2, <3>3
  <2>3. CASE ~ done
    <3>1. result = Ignored(SetRollover(s, q0))
      BY <2>3 DEF StartConfirmations, base, q0
    <3> QED BY <2>1, <2>3, <3>1 DEF Ignored, Result
  <2> QED BY <2>2, <2>3
<1>9. result.state \in State /\ Keeps(s, result.state) /\ result.state.rollover = q
  <2> HIDE DEF q, result
  <2> QED BY <1>7, <1>8, FieldsSet
<1> HIDE DEF q, result
<1>10. Unresponded(q) = Unresponded(r)
  BY <1>7 DEF Unresponded
<1>11. Shape(me, q)
  BY <1>1, <1>4, <1>7, <1>10 DEF Shape, Busy, Open, Timed
<1>12. KeyGenConfirm(r.group) \in Command /\ KeyGenConfirm(r.group).group = r.group
      /\ KeyGenConfirm(r.group).kind = "KeyGenConfirm"
  BY <1>1 DEF KeyGenConfirm, Command
<1>13. ~ r.confirmed
  BY DEF Shape
<1>14. Turn(me, r, q, result.commands)
  <2>1. \A c \in result.commands : c = KeyGenConfirm(r.group) /\ q.confirmed
    BY <1>7, <1>8
  <2>2. Proper(q, result.commands)
    BY <1>4, <1>7, <1>12, <2>1 DEF Proper
  <2>3. /\ r.stage \in Busy /\ q.stage \in Busy \ {"CollectingCommitments"}
        /\ q.group = r.group /\ q.next_epoch = r.next_epoch /\ (r.confirmed => q.confirmed)
    BY <1>4, <1>7, <1>13 DEF Busy
  <2> HIDE DEF done
  <2> QED BY <1>11, <2>2, <2>3, RoundTurn
<1>15. /\ q.next_epoch = r.next_epoch /\ q.group = r.group
       /\ q.stage = "CollectingConfirmations" /\ q.deadline = After(r, block)
       /\ q.participation = r.participation
  BY <1>4, <1>7
<1>16. result.commands = IF q.confirmed THEN {KeyGenConfirm(r.group)} ELSE {}
  BY <1>7, <1>8
<1> QED BY <1>7, <1>9, <1>14, <1>15, <1>16 DEF result, ConfirmationsStarted

\* A command more, that fits.
LEMMA TurnMore ==
    ASSUME NEW me, NEW r, NEW q, NEW commands, NEW more, Turn(me, r, q, commands), Proper(q, more)
    PROVE  Turn(me, r, q, commands \cup more)
  BY DEF Turn, Proper

\* handle_key_gen_secret_shared
LEMMA SharedGood ==
    ASSUME NEW me, NEW s, NEW block, Ready(me, s, block), NEW group \in Group,
           NEW p \in group.members, NEW valid \in BOOLEAN, NEW cheated
    PROVE  /\ Good(me, s, HandleKeyGenSecretShared(s, me, block, group, p, valid, cheated), block)
           /\ Quiet(s, HandleKeyGenSecretShared(s, me, block, group, p, valid, cheated).state)
<1> DEFINE r == s.rollover
           shared == IF valid THEN r.shared \cup {p} ELSE r.shared
           opens  == valid /\ r.participation = "Participating"
           shares == IF opens /\ me \notin cheated THEN r.shares \cup {p} ELSE r.shares
           complaint == IF opens /\ me \in cheated THEN {KeyGenComplain(group, p)} ELSE {}
           result == HandleKeyGenSecretShared(s, me, block, group, p, valid, cheated)
<1>1. r \in RolloverState /\ Shape(me, r) /\ s \in State /\ block \in Nat /\ r.participation # "Setup"
  BY DEF Ready, Shape
<1>2. group # NoGroup /\ p \in Participants
  BY NoGroupAssumption DEF Group
<1>3. CASE ~ Follows(s, "CollectingShares", group)
  <2>1. result = Ignored(s)
    BY <1>3 DEF HandleKeyGenSecretShared
  <2> HIDE DEF result
  <2>2. Good(me, s, result, block) /\ Quiet(s, result.state)
    BY <2>1, IgnoredGood
  <2> QED BY <2>2 DEF result
<1>4. CASE Follows(s, "CollectingShares", group)
  <2>1. r.stage = "CollectingShares" /\ r.group = group
    BY <1>4 DEF Follows
  <2>2. shared \in SUBSET Participants /\ shares \in SUBSET Participants
    BY <1>1, <1>2 DEF RolloverState
  <2>3. \A c \in complaint : c \in Command /\ c.group = group /\ c.kind = "KeyGenComplain"
    BY <1>2 DEF KeyGenComplain, Command
  <2>4. Open(r, r.shared)
    BY <1>1, <2>1 DEF Shape
  <2>5. shared \subseteq group.members
    BY <2>1, <2>4 DEF Open
  <2>6. CASE shared # group.members
    <3> DEFINE q == [r EXCEPT !.shared = shared, !.shares = shares]
    <3>1. result.state = [s EXCEPT !.rollover = q] /\ result.commands = complaint
      <4>1. result = Result([s EXCEPT !.rollover.shared = shared, !.rollover.shares = shares], complaint)
        BY <1>4, <2>6 DEF HandleKeyGenSecretShared
      <4>2. [s EXCEPT !.rollover.shared = shared, !.rollover.shares = shares] = [s EXCEPT !.rollover = q]
        BY <1>1 DEF State, RolloverState
      <4> QED BY <4>1, <4>2 DEF Result
    <3> HIDE DEF shared, shares, complaint, result
    <3>2. /\ q \in RolloverState /\ q.stage = r.stage /\ q.group = r.group /\ q.next_epoch = r.next_epoch
          /\ q.participation = r.participation /\ q.confirmed = r.confirmed /\ q.complaints = r.complaints
          /\ q.shared = shared
      BY <1>1, <2>2 DEF RolloverState, Group
    <3> HIDE DEF q
    <3>3. Unresponded(q) = Unresponded(r)
      BY <3>2 DEF Unresponded
    <3>4. Shape(me, q)
      BY <1>1, <1>2, <2>1, <2>5, <2>6, <3>2, <3>3 DEF Shape, Open, Busy, Timed
    <3>5. Proper(q, complaint)
      BY <2>1, <2>3, <3>2 DEF Proper
    <3>6. Turn(me, r, q, complaint)
      BY <1>1, <3>2, <3>4, <3>5, FieldTurn
    <3>7. result.state \in State /\ result.state.rollover = q /\ Quiet(s, result.state)
      BY <1>1, <3>1, <3>2, FieldsSet
    <3>8. Timely(q, block)
      BY <3>2, TimelyStays
    <3>9. Good(me, s, result, block) /\ Quiet(s, result.state)
      BY <3>1, <3>6, <3>7, <3>8 DEF Good
    <3> QED BY <3>9 DEF result
  <2>7. CASE shared = group.members
    <3> DEFINE next == StartConfirmations(s, r, block, shares)
    <3>1. result.state = next.state /\ result.commands = next.commands \cup complaint
      BY <1>4, <2>7 DEF HandleKeyGenSecretShared, Result
    <3>2. group.members # {}
      OBVIOUS
    <3> HIDE DEF shared, shares, complaint, result, next
    <3>3. ConfirmationsStarted(me, s, r, block, shares, next)
      BY <1>1, <2>1, <2>2, <3>2, StartConfirmationsTurn DEF next
    <3> DEFINE q == next.state.rollover
    <3>4. Turn(me, r, q, next.commands) /\ q.next_epoch = r.next_epoch /\ q.group = r.group
          /\ q.stage = "CollectingConfirmations" /\ next.state \in State /\ Keeps(s, next.state)
      BY <3>3 DEF ConfirmationsStarted
    <3> HIDE DEF q
    <3>5. Proper(q, complaint)
      BY <2>1, <2>3, <3>4 DEF Proper
    <3>6. Turn(me, r, q, next.commands \cup complaint)
      BY <3>4, <3>5, TurnMore
    <3>7. Timely(q, block)
      BY <3>4, TimelyStays
    <3>8. Good(me, s, result, block) /\ Quiet(s, result.state)
      BY <3>1, <3>4, <3>6, <3>7 DEF Good, Quiet, Keeps, q
    <3> QED BY <3>8 DEF result
  <2> QED BY <2>6, <2>7
<1> QED BY <1>3, <1>4

\* finalize_key_gen
LEMMA RecordEpochType ==
    ASSUME NEW s \in State, NEW epoch \in Epochs, NEW group \in Group, NEW key_share \in BOOLEAN
    PROVE  LET t == RecordEpoch(s, epoch, group, key_share) IN
           /\ t \in State /\ t.rollover = s.rollover /\ t.active_epoch = s.active_epoch
           /\ \A e \in Epochs \ {epoch} : t.epochs[e] = s.epochs[e]
           /\ t.epochs[epoch] = IF key_share THEN group ELSE s.epochs[epoch]
<1>1. CASE key_share
  <2>1. RecordEpoch(s, epoch, group, key_share) = [s EXCEPT !.epochs[epoch] = group]
    BY <1>1 DEF RecordEpoch
  <2> QED BY <1>1, <2>1 DEF State
<1>2. CASE ~ key_share
  BY <1>2 DEF RecordEpoch
<1> QED BY <1>1, <1>2

SigningOf(r, active) ==
    [Idle("SigningRollover", r.next_epoch)
        EXCEPT !.group = r.group, !.confirmed = r.confirmed, !.active = active]

\* The rollover of a group whose key generation is complete.
LEMMA SigningRolloverTurn ==
    ASSUME NEW me, NEW s \in State, NEW r, Shape(me, r), r.stage = "CollectingConfirmations",
           r.next_epoch # Genesis, NEW q,
           q = SigningOf(r, s.active_epoch)
    PROVE  /\ q \in RolloverState /\ Turn(me, r, q, {})
           /\ q.stage = "SigningRollover" /\ q.next_epoch = r.next_epoch /\ q.group = r.group
           /\ q.confirmed = r.confirmed /\ q.active = s.active_epoch
<1> DEFINE base == Idle("SigningRollover", r.next_epoch)
<1>1. /\ r.group \in Group /\ r.group # NoGroup /\ r \in RolloverState /\ r.next_epoch \in Epochs
      /\ r.confirmed \in BOOLEAN /\ s.active_epoch \in Epochs
  BY DEF Shape, Formed, Busy, RolloverState, State
<1>2. base \in RolloverState
  BY <1>1, RolloverType DEF Stages, Idle
<1>3. /\ base.stage = "SigningRollover" /\ base.next_epoch = r.next_epoch /\ base.participation = "Observing"
  BY DEF Rollover, Idle
<1> HIDE DEF base
<1>4. /\ q \in RolloverState /\ q.stage = base.stage /\ q.next_epoch = base.next_epoch
      /\ q.participation = base.participation
      /\ q.group = r.group /\ q.confirmed = r.confirmed /\ q.active = s.active_epoch
  BY <1>1, <1>2 DEF RolloverState, Group, base, SigningOf
<1>5. Shape(me, q)
  BY <1>1, <1>3, <1>4 DEF Shape, Busy
<1>6. Proper(q, {})
  BY DEF Proper
<1>7. Turn(me, r, q, {})
  <2>1. /\ r.stage \in Busy /\ q.stage \in Busy \ {"CollectingCommitments"}
        /\ q.group = r.group /\ q.next_epoch = r.next_epoch /\ (r.confirmed => q.confirmed)
    BY <1>3, <1>4 DEF Busy
  <2> QED BY <1>5, <1>6, <2>1, RoundTurn
<1> QED BY <1>3, <1>4, <1>7

\* The blocks are past the genesis epoch.
LEMMA NextNumberPositive ==
    ASSUME NEW block \in Nat
    PROVE  NextNumber(block) \in Nat /\ NextNumber(block) > Genesis
  BY BlocksPerEpochAssumption DEF NextNumber, Genesis

\* handle_key_gen_confirmed
LEMMA ConfirmedGood ==
    ASSUME NEW me, NEW s, NEW block, Ready(me, s, block), NEW group \in Group, NEW p \in group.members
    PROVE  /\ Good(me, s, HandleKeyGenConfirmed(s, me, block, group, p), block)
           /\ Quiet(s, HandleKeyGenConfirmed(s, me, block, group, p).state)
<1> DEFINE r == s.rollover
           confirmations == r.confirmations \cup {p}
           result == HandleKeyGenConfirmed(s, me, block, group, p)
<1>1. r \in RolloverState /\ Shape(me, r) /\ s \in State /\ block \in Nat /\ r.participation # "Setup"
  BY DEF Ready, Shape
<1>2. group # NoGroup /\ p \in Participants
  BY NoGroupAssumption DEF Group
<1>3. CASE ~ Follows(s, "CollectingConfirmations", group)
  <2>1. result = Ignored(s)
    BY <1>3 DEF HandleKeyGenConfirmed
  <2> HIDE DEF result
  <2>2. Good(me, s, result, block) /\ Quiet(s, result.state)
    BY <2>1, IgnoredGood
  <2> QED BY <2>2 DEF result
<1>4. CASE Follows(s, "CollectingConfirmations", group)
  <2>1. r.stage = "CollectingConfirmations" /\ r.group = group
    BY <1>4 DEF Follows
  <2>2. confirmations \in SUBSET Participants
    BY <1>1, <1>2 DEF RolloverState
  <2>3. Open(r, r.confirmations)
    BY <1>1, <2>1 DEF Shape
  <2>4. CASE confirmations # group.members
    <3> DEFINE q == [r EXCEPT !.confirmations = confirmations]
    <3>1. result.state = [s EXCEPT !.rollover = q] /\ result.commands = {}
      BY <1>4, <2>4 DEF HandleKeyGenConfirmed, Ignored, Result
    <3>0. confirmations \subseteq group.members
      BY <2>1, <2>3 DEF Open
    <3> HIDE DEF confirmations, result
    <3>2. /\ q \in RolloverState /\ q.stage = r.stage /\ q.group = r.group /\ q.next_epoch = r.next_epoch
          /\ q.participation = r.participation /\ q.confirmed = r.confirmed /\ q.complaints = r.complaints
          /\ q.confirmations = confirmations
      BY <1>1, <2>2 DEF RolloverState, Group
    <3> HIDE DEF q
    <3>3. Unresponded(q) = Unresponded(r)
      BY <3>2 DEF Unresponded
    <3>4. Shape(me, q)
      BY <1>1, <1>2, <2>1, <2>4, <3>0, <3>2, <3>3 DEF Shape, Open, Busy, Timed
    <3>5. Proper(q, {})
      BY DEF Proper
    <3>6. Turn(me, r, q, {})
      BY <1>1, <3>2, <3>4, <3>5, FieldTurn
    <3>7. result.state \in State /\ result.state.rollover = q /\ Quiet(s, result.state)
      BY <1>1, <3>1, <3>2, FieldsSet
    <3>8. Timely(q, block)
      BY <3>2, TimelyStays
    <3>9. Good(me, s, result, block) /\ Quiet(s, result.state)
      BY <3>1, <3>6, <3>7, <3>8 DEF Good
    <3> QED BY <3>9 DEF result
  <2>5. CASE confirmations = group.members /\ r.next_epoch = Genesis
    <3> DEFINE t == RecordEpoch(s, Genesis, group, r.confirmed)
    <3>1. result = StartNextKeyGen(t, me, block)
      BY <1>4, <2>5 DEF HandleKeyGenConfirmed
    <3>2. t \in State /\ t.active_epoch = s.active_epoch /\ \A e \in Epochs \ {Genesis} : t.epochs[e] = s.epochs[e]
      <4>1. r.confirmed \in BOOLEAN
        BY <1>1 DEF RolloverState
      <4> QED BY <1>1, <4>1, RecordEpochType, EpochsAssumption
    <3>3. r.next_epoch < NextNumber(block) /\ NextNumber(block) \in Epochs
      BY <1>1, <2>5, NextNumberPositive DEF Ready
    <3> HIDE DEF t, result
    <3>4. MovedOn(me, t, r, block, result)
      BY <1>1, <3>1, <3>2, <3>3, NextTurn
    <3>5. Good(me, s, result, block) /\ Quiet(s, result.state)
      BY <3>2, <3>4 DEF MovedOn, Good, Quiet, Keeps, Timely
    <3> QED BY <3>5 DEF result
  <2>6. CASE confirmations = group.members /\ r.next_epoch # Genesis
    <3> DEFINE q == SigningOf(r, s.active_epoch)
    <3>1. result.state = [s EXCEPT !.rollover = q] /\ result.commands = {}
      BY <1>4, <2>1, <2>6 DEF HandleKeyGenConfirmed, Ignored, Result, SetRollover, SigningOf
    <3> HIDE DEF confirmations, result
    <3>2. q \in RolloverState /\ Turn(me, r, q, {}) /\ q.next_epoch = r.next_epoch
      BY <1>1, <2>1, <2>6, SigningRolloverTurn
    <3> HIDE DEF q
    <3>3. result.state \in State /\ result.state.rollover = q /\ Quiet(s, result.state)
      BY <1>1, <3>1, <3>2, FieldsSet
    <3>4. Timely(q, block)
      BY <3>2, TimelyStays
    <3>5. Good(me, s, result, block) /\ Quiet(s, result.state)
      BY <3>1, <3>2, <3>3, <3>4 DEF Good
    <3> QED BY <3>5 DEF result
  <2> QED BY <2>4, <2>5, <2>6
<1> QED BY <1>3, <1>4

\* handle_epoch_staged: a member that confirmed records the key of the epoch.
LEMMA StagedGood ==
    ASSUME NEW me, NEW s, NEW block, Ready(me, s, block), NEW group \in Group,
           group.epoch = NextNumber(block)
    PROVE  LET result == HandleEpochStaged(s, group.epoch, group) IN
           /\ Good(me, s, result, block)
           /\ result.state.active_epoch = s.active_epoch
           /\ \A e \in Epochs : e # group.epoch \/ s.rollover.group # group => result.state.epochs[e] = s.epochs[e]
           /\ Follows(s, "SigningRollover", group) =>
                 /\ result.state.rollover = Idle("EpochStaged", group.epoch)
                 /\ s.rollover.confirmed => result.state.epochs[group.epoch] = group
<1> DEFINE r == s.rollover
           result == HandleEpochStaged(s, group.epoch, group)
<1>1. r \in RolloverState /\ Shape(me, r) /\ s \in State /\ block \in Nat /\ r.participation # "Setup"
  BY DEF Ready, Shape
<1>2. group # NoGroup /\ group.epoch \in Epochs /\ group.epoch # Genesis /\ group.epoch \in Nat
  BY <1>1, NoGroupAssumption, NextNumberPositive DEF Group
<1>3. CASE Follows(s, "SigningRollover", group)
  <2>1. r.stage = "SigningRollover" /\ r.group = group /\ r.next_epoch = group.epoch /\ r.confirmed \in BOOLEAN
    BY <1>1, <1>2, <1>3 DEF Follows, Shape, RolloverState
  <2> DEFINE t == SetRollover(s, Idle("EpochStaged", group.epoch))
  <2>2. result.state = RecordEpoch(t, group.epoch, group, r.confirmed) /\ result.commands = {}
    BY <1>3, <2>1 DEF HandleEpochStaged, Ignored, Result
  <2>3. r.next_epoch <= group.epoch
    BY <1>2, <2>1
  <2> HIDE DEF result
  <2>4. Idled(me, s, r, "EpochStaged", group.epoch, t) /\ t.rollover = Idle("EpochStaged", group.epoch)
    <3>1. Idle("EpochStaged", group.epoch) \in RolloverState
      BY <1>2, RolloverType DEF Idle, Stages
    <3>2. Idled(me, s, r, "EpochStaged", group.epoch, t)
      BY <1>1, <1>2, <2>3, IdleTurn
    <3> QED BY <1>1, <3>1, <3>2, SetRolloverType
  <2> HIDE DEF t
  <2>5. t \in State /\ Turn(me, r, t.rollover, {}) /\ Keeps(s, t) /\ t.rollover.next_epoch = group.epoch
    BY <2>4 DEF Idled
  <2>6. /\ result.state \in State /\ result.state.rollover = t.rollover
        /\ result.state.active_epoch = t.active_epoch
        /\ \A e \in Epochs \ {group.epoch} : result.state.epochs[e] = t.epochs[e]
        /\ r.confirmed => result.state.epochs[group.epoch] = group
    <3> HIDE DEF r
    <3> QED BY <1>2, <2>1, <2>2, <2>5, RecordEpochType
  <2>7. Timely(result.state.rollover, block)
    BY <2>5, <2>6 DEF Timely
  <2>8. Good(me, s, result, block)
    BY <2>2, <2>5, <2>6, <2>7 DEF Good
  <2>9. /\ result.state.active_epoch = s.active_epoch
        /\ \A e \in Epochs : e # group.epoch \/ s.rollover.group # group => result.state.epochs[e] = s.epochs[e]
    BY <2>1, <2>5, <2>6 DEF Keeps
  <2> QED BY <2>4, <2>6, <2>8, <2>9 DEF result
<1>4. CASE ~ Follows(s, "SigningRollover", group) /\ r.stage = "WaitingForGenesis"
  <2> DEFINE t == SetRollover(s, Idle("EpochSkipped", group.epoch))
  <2>1. result.state = t /\ result.commands = {}
    BY <1>4 DEF HandleEpochStaged, Ignored, Result
  <2> HIDE DEF result
  <2>2. Idled(me, s, r, "EpochSkipped", group.epoch, t)
    BY <1>1, <1>2, <1>4, IdleTurn
  <2> HIDE DEF t
  <2>3. Timely(t.rollover, block)
    BY <2>2 DEF Idled, Timely
  <2>4. Good(me, s, result, block) /\ Keeps(s, result.state)
    BY <2>1, <2>2, <2>3 DEF Good, Idled
  <2> QED BY <1>4, <2>4 DEF result, Keeps
<1>5. CASE ~ Follows(s, "SigningRollover", group) /\ r.stage # "WaitingForGenesis"
  <2>1. result = Ignored(s)
    BY <1>5 DEF HandleEpochStaged
  <2> HIDE DEF result
  <2>2. Good(me, s, result, block) /\ result.state = s
    BY <2>1, IgnoredGood DEF Ignored, Result
  <2> QED BY <1>5, <2>2 DEF result
<1> QED BY <1>3, <1>4, <1>5

\* handle_key_gen_complained
LEMMA ComplainedGood ==
    ASSUME NEW me, NEW s, NEW block, Ready(me, s, block), NEW group \in Group,
           NEW plaintiff \in Participants, NEW accused \in group.members
    PROVE  /\ Good(me, s, HandleKeyGenComplained(s, me, block, group, plaintiff, accused), block)
           /\ Quiet(s, HandleKeyGenComplained(s, me, block, group, plaintiff, accused).state)
<1> DEFINE r        == s.rollover
           required == RequiresResponse(r, block)
           new      == CountComplaint(r.complaints[accused], plaintiff, required)
           q        == [r EXCEPT !.complaints[accused] = new]
           counted  == [s EXCEPT !.rollover = q]
           answers  == r.participation = "Participating" /\ accused = me /\ required
           result   == HandleKeyGenComplained(s, me, block, group, plaintiff, accused)
<1>1. r \in RolloverState /\ Shape(me, r) /\ s \in State /\ block \in Nat /\ r.participation # "Setup"
  BY DEF Ready, Shape
<1>2. group # NoGroup /\ accused \in Participants
  BY NoGroupAssumption DEF Group
<1>3. CASE ~ Complainable(s, group)
  <2>1. result = Ignored(s)
    BY <1>3 DEF HandleKeyGenComplained
  <2> HIDE DEF result
  <2>2. Good(me, s, result, block) /\ Quiet(s, result.state)
    BY <2>1, IgnoredGood
  <2> QED BY <2>2 DEF result
<1>4. CASE Complainable(s, group)
  <2>1. r.stage \in {"CollectingShares", "CollectingConfirmations"} /\ r.group = group
    BY <1>4 DEF Complainable, Follows
  <2>2. r.complaints[accused] \in [total : Nat, unresponded : SUBSET Participants]
    BY <1>1, <1>2 DEF RolloverState
  <2>3. new \in [total : Nat, unresponded : SUBSET Participants]
    BY <2>2 DEF CountComplaint
  <2>4. [s EXCEPT !.rollover.complaints[accused] = new] = counted
    BY <1>1 DEF State, RolloverState
  <2> HIDE DEF new
  <2>5. /\ q \in RolloverState /\ q.stage = r.stage /\ q.group = r.group /\ q.next_epoch = r.next_epoch
        /\ q.participation = r.participation /\ q.confirmed = r.confirmed
        /\ q.shared = r.shared /\ q.confirmations = r.confirmations
        /\ q.complaints = [r.complaints EXCEPT ![accused] = new]
    BY <1>1, <2>3 DEF RolloverState, Group
  <2>6. CASE new.total >= GroupThreshold(group.members)
    <3>1. result = RestartKeyGenExcluding(counted, me, r.next_epoch, AlsoExclude(group, {accused}),
                                          block + KeyGenTimeout)
      BY <1>4, <2>4, <2>6 DEF HandleKeyGenComplained, new
    <3>2. group.members \cap {accused} # {} /\ block + KeyGenTimeout \in Nat
      BY <1>1, KeyGenTimeoutAssumption
    <3> HIDE DEF result, q
    <3>3. counted \in State /\ Quiet(s, counted)
      BY <1>1, <2>5, FieldsSet
    <3> HIDE DEF counted
    <3>4. Restarted(me, counted, r, {accused}, result)
      BY <1>1, <1>2, <2>1, <3>1, <3>2, <3>3, RestartTurn
    <3>5. Timely(result.state.rollover, block)
      BY <3>4, TimelyStays DEF Restarted
    <3>6. Good(me, s, result, block) /\ Quiet(s, result.state)
      BY <3>3, <3>4, <3>5 DEF Restarted, Good, Quiet, Keeps
    <3> QED BY <3>6 DEF result
  <2>7. CASE ~ (new.total >= GroupThreshold(group.members))
    <3> DEFINE commands == IF answers THEN {KeyGenComplaintResponse(group, plaintiff)} ELSE {}
    <3>1. result.state = counted /\ result.commands = commands
      BY <1>4, <2>4, <2>7 DEF HandleKeyGenComplained, new, Result
    <3>2. \A c \in commands : c \in Command /\ c.group = group /\ c.kind = "KeyGenComplaintResponse"
      BY DEF KeyGenComplaintResponse, Command
    <3> HIDE DEF result, q, commands
    <3>3. counted \in State /\ Quiet(s, counted) /\ counted.rollover = q
      BY <1>1, <2>5, FieldsSet
    <3> HIDE DEF counted
    <3>4. Unresponded(q) \subseteq Unresponded(r) \cup {accused}
      BY <1>1, <2>5 DEF Unresponded, RolloverState
    <3>5. Shape(me, q)
      BY <1>1, <1>2, <2>1, <2>5, <3>4 DEF Shape, Open, Busy, Timed
    <3>6. Proper(q, commands)
      BY <2>1, <2>5, <3>2 DEF Proper
    <3>7. Turn(me, r, q, commands)
      BY <1>1, <2>5, <3>5, <3>6, FieldTurn
    <3>8. Timely(q, block)
      BY <2>5, TimelyStays
    <3>9. Good(me, s, result, block) /\ Quiet(s, result.state)
      BY <3>1, <3>3, <3>7, <3>8 DEF Good
    <3> QED BY <3>9 DEF result
  <2> QED BY <2>6, <2>7
<1> QED BY <1>3, <1>4

\* handle_key_gen_complaint_responded
LEMMA RespondedGood ==
    ASSUME NEW me, NEW s, NEW block, Ready(me, s, block), NEW group \in Group,
           NEW plaintiff \in Participants, NEW accused \in group.members, NEW valid \in BOOLEAN
    PROVE  /\ Good(me, s, HandleKeyGenComplaintResponded(s, me, block, group, plaintiff, accused, valid), block)
           /\ Quiet(s, HandleKeyGenComplaintResponded(s, me, block, group, plaintiff, accused, valid).state)
<1> DEFINE r       == s.rollover
           in_time == r.stage = "CollectingConfirmations" /\ Timed(r) => block <= ResponseDeadline(r)
           shares  == IF plaintiff = me /\ ~ r.confirmed THEN r.shares \cup {accused} ELSE r.shares
           unresponded == r.complaints[accused].unresponded \ {plaintiff}
           m       == [r EXCEPT !.complaints[accused].unresponded = unresponded]
           q       == [m EXCEPT !.shares = shares]
           settled == [s EXCEPT !.rollover = m]
           shared  == [s EXCEPT !.rollover = q]
           result  == HandleKeyGenComplaintResponded(s, me, block, group, plaintiff, accused, valid)
           ignored == ~ Complainable(s, group) \/ ~ in_time \/ plaintiff \notin r.complaints[accused].unresponded
<1>1. r \in RolloverState /\ Shape(me, r) /\ s \in State /\ block \in Nat /\ r.participation # "Setup"
  BY DEF Ready, Shape
<1>2. group # NoGroup /\ accused \in Participants
  BY NoGroupAssumption DEF Group
<1>3. CASE ignored
  <2>1. result = Ignored(s)
    BY <1>3 DEF HandleKeyGenComplaintResponded
  <2> HIDE DEF result
  <2>2. Good(me, s, result, block) /\ Quiet(s, result.state)
    BY <2>1, IgnoredGood
  <2> QED BY <2>2 DEF result
<1>4. CASE ~ ignored
  <2>1. r.stage \in {"CollectingShares", "CollectingConfirmations"} /\ r.group = group
    BY <1>4 DEF Complainable, Follows
  <2>2. r.complaints[accused] \in [total : Nat, unresponded : SUBSET Participants]
    BY <1>1, <1>2 DEF RolloverState
  <2>3. Settle(s, plaintiff, accused) = settled
    BY <1>1, <1>2 DEF Settle, State, RolloverState
  <2>4. /\ m \in RolloverState /\ m.stage = r.stage /\ m.group = r.group /\ m.next_epoch = r.next_epoch
        /\ m.participation = r.participation /\ m.confirmed = r.confirmed /\ m.shares = r.shares
        /\ m.shared = r.shared /\ m.confirmations = r.confirmations
        /\ m.complaints = [r.complaints EXCEPT ![accused].unresponded = unresponded]
    <3>1. [r.complaints EXCEPT ![accused].unresponded = unresponded]
             \in [Participants -> [total : Nat, unresponded : SUBSET Participants]]
      BY <1>1, <1>2, <2>2 DEF RolloverState
    <3> HIDE DEF unresponded
    <3> QED BY <1>1, <3>1 DEF RolloverState, Group
  <2>5. CASE ~ valid
    <3>1. result = RestartKeyGenExcluding(settled, me, r.next_epoch, AlsoExclude(group, {accused}),
                                          block + KeyGenTimeout)
      BY <1>4, <2>3, <2>5 DEF HandleKeyGenComplaintResponded
    <3>2. group.members \cap {accused} # {} /\ block + KeyGenTimeout \in Nat
      BY <1>1, KeyGenTimeoutAssumption
    <3> HIDE DEF result, m
    <3>3. settled \in State /\ Quiet(s, settled)
      BY <1>1, <2>4, FieldsSet
    <3> HIDE DEF settled
    <3>4. Restarted(me, settled, r, {accused}, result)
      BY <1>1, <1>2, <2>1, <3>1, <3>2, <3>3, RestartTurn
    <3>5. Timely(result.state.rollover, block)
      BY <3>4, TimelyStays DEF Restarted
    <3>6. Good(me, s, result, block) /\ Quiet(s, result.state)
      BY <3>3, <3>4, <3>5 DEF Restarted, Good, Quiet, Keeps
    <3> QED BY <3>6 DEF result
  <2>6. CASE valid
    <3>1. shares \in SUBSET Participants
      BY <1>1, <1>2 DEF RolloverState
    <3>2. [settled EXCEPT !.rollover.shares = shares] = shared
      BY <1>1 DEF State
    <3>3. result = ConfirmIfComplete(shared, group)
      BY <1>4, <2>3, <2>6, <3>2 DEF HandleKeyGenComplaintResponded
    <3> HIDE DEF shares, m
    <3>4. /\ q \in RolloverState /\ q.stage = r.stage /\ q.group = r.group /\ q.next_epoch = r.next_epoch
          /\ q.participation = r.participation /\ q.confirmed = r.confirmed
          /\ q.shared = r.shared /\ q.confirmations = r.confirmations
          /\ q.complaints = m.complaints
      BY <2>4, <3>1 DEF RolloverState, Group
    <3> HIDE DEF q
    <3>5. shared \in State /\ shared.rollover = q /\ Quiet(s, shared)
      BY <1>1, <3>4, FieldsSet
    <3>6. Unresponded(q) \subseteq Unresponded(r)
      BY <1>1, <1>2, <2>2, <2>4, <3>4 DEF Unresponded, RolloverState
    <3>7. Shape(me, q)
      BY <1>1, <1>2, <2>1, <3>4, <3>6 DEF Shape, Open, Busy, Timed
    <3> HIDE DEF shared, result
    <3>8. CASE ~ (q.stage = "CollectingConfirmations" /\ q.participation = "Participating"
                    /\ ~ q.confirmed /\ q.shares = group.members)
      <4>1. result.state = shared /\ result.commands = {}
        BY <3>3, <3>5, <3>8 DEF ConfirmIfComplete, Ignored, Result
      <4>2. Proper(q, {})
        BY DEF Proper
      <4>3. Turn(me, r, q, {})
        BY <1>1, <3>4, <3>7, <4>2, FieldTurn
      <4>4. Timely(q, block)
        BY <3>4, TimelyStays
      <4>5. Good(me, s, result, block) /\ Quiet(s, result.state)
        BY <3>5, <4>1, <4>3, <4>4 DEF Good
      <4> QED BY <4>5 DEF result
    <3>9. CASE q.stage = "CollectingConfirmations" /\ q.participation = "Participating"
                    /\ ~ q.confirmed /\ q.shares = group.members
      <4> DEFINE w == [q EXCEPT !.confirmed = TRUE]
      <4>1. result.state = [shared EXCEPT !.rollover = w] /\ result.commands = {KeyGenConfirm(group)}
        BY <3>3, <3>5, <3>9 DEF ConfirmIfComplete, ConfirmKeyGen, Result
      <4>2. /\ w \in RolloverState /\ w.stage = q.stage /\ w.group = q.group /\ w.next_epoch = q.next_epoch
            /\ w.participation = q.participation /\ w.confirmed = TRUE
            /\ w.shared = q.shared /\ w.confirmations = q.confirmations /\ w.complaints = q.complaints
        BY <3>4 DEF RolloverState, Group
      <4> HIDE DEF w
      <4>3. result.state \in State /\ result.state.rollover = w /\ Quiet(shared, result.state)
        BY <3>5, <4>1, <4>2, FieldsSet
      <4>4. Unresponded(w) = Unresponded(q)
        BY <4>2 DEF Unresponded
      <4>5. Shape(me, w)
        BY <3>4, <3>7, <3>9, <4>2, <4>4 DEF Shape, Open, Busy, Timed
      <4>6. Proper(w, {KeyGenConfirm(group)})
        BY <2>1, <3>4, <4>2 DEF Proper, KeyGenConfirm, Command
      <4>7. Turn(me, r, w, {KeyGenConfirm(group)})
        BY <1>1, <3>4, <4>2, <4>5, <4>6, FieldTurn
      <4>8. Timely(w, block)
        BY <3>4, <4>2, TimelyStays
      <4>9. Good(me, s, result, block) /\ Quiet(s, result.state)
        BY <3>5, <4>1, <4>3, <4>7, <4>8 DEF Good, Quiet
      <4> QED BY <4>9 DEF result
    <3> QED BY <3>8, <3>9
  <2> QED BY <2>5, <2>6
<1> QED BY <1>3, <1>4

\* Epochs follow each other.
LEMMA NextNumberMonotone ==
    ASSUME NEW a \in Nat, NEW b \in Nat, a <= b
    PROVE  NextNumber(a) <= NextNumber(b)
<1> DEFINE k == BlocksPerEpoch
           m == a \div k
           n == b \div k
<1>1. k \in Nat /\ k > 0
  BY BlocksPerEpochAssumption
<1>2. m \in Nat /\ n \in Nat /\ m * k <= a /\ b < (n + 1) * k
  BY <1>1
<1> HIDE DEF k, m, n
<1>3. m * k < (n + 1) * k
  <2>1. m * k \in Int /\ (n + 1) * k \in Int
    BY <1>1, <1>2
  <2> QED BY <1>2, <2>1
<1>4. m < n + 1
  BY <1>1, <1>2, <1>3
<1>5. m <= n
  BY <1>2, <1>4
<1> QED BY <1>2, <1>5 DEF NextNumber, m, n, k

\* The block starts the next epoch for a validator.
Rolls(r, block) == r.next_epoch # Genesis /\ r.next_epoch < NextNumber(block)

\* The validator's state before block block: it is at the epoch of the block before.
ReadyForBlock(me, s, block) ==
    /\ s \in State /\ Shape(me, s.rollover) /\ s.rollover.participation # "Setup"
    /\ block \in Nat /\ block # 0 /\ Timely(s.rollover, block - 1)
    /\ NextNumber(block) \in Epochs

\* handle_rollover_new_block: the roll over of the active epoch.
LEMMA RolledOverType ==
    ASSUME NEW s \in State
    PROVE  /\ RolledOver(s) \in State /\ RolledOver(s).epochs = s.epochs
           /\ RolledOver(s).active_epoch =
                 IF s.rollover.stage = "EpochStaged" THEN s.rollover.next_epoch ELSE s.active_epoch
<1>1. s.rollover.next_epoch \in Epochs
  BY DEF State, RolloverState
<1> QED BY <1>1 DEF RolledOver, State

\* A validator that does not roll over only looks at its deadlines.
LEMMA NewBlockWaits ==
    ASSUME NEW me, NEW s, NEW block, ReadyForBlock(me, s, block), ~ Rolls(s.rollover, block)
    PROVE  /\ Timely(s.rollover, block)
           /\ HandleNewBlock(s, me, block).state = HandleKeyGenTimeouts(s, me, block).state
           /\ HandleNewBlock(s, me, block).commands = HandleKeyGenTimeouts(s, me, block).commands
<1> DEFINE r == s.rollover
<1>1. r.next_epoch \in Nat /\ NextNumber(block) \in Nat
  BY EpochsAssumption DEF ReadyForBlock, Shape, RolloverState
<1>2. Timely(r, block)
  <2>1. block - 1 \in Nat /\ block \in Nat /\ block - 1 <= block
    BY DEF ReadyForBlock
  <2>2. NextNumber(block - 1) <= NextNumber(block) /\ NextNumber(block - 1) \in Nat
    BY <2>1, NextNumberMonotone, NextNumberPositive
  <2> QED BY <1>1, <2>2 DEF ReadyForBlock, Rolls, Timely, Timed
<1>3. HandleRolloverNewBlock(s, me, block) = Ignored(s)
  BY <1>1 DEF HandleRolloverNewBlock, Rolls
<1> QED BY <1>2, <1>3 DEF HandleNewBlock, Ignored, Result

\* A validator that rolls over starts the key generation of the epoch, which is not
\* late yet.
LEMMA NewBlockRolls ==
    ASSUME NEW me, NEW s, NEW block, ReadyForBlock(me, s, block), Rolls(s.rollover, block)
    PROVE  /\ MovedOn(me, RolledOver(s), s.rollover, block, StartNextKeyGen(RolledOver(s), me, block))
           /\ HandleNewBlock(s, me, block).state = StartNextKeyGen(RolledOver(s), me, block).state
           /\ HandleNewBlock(s, me, block).commands = StartNextKeyGen(RolledOver(s), me, block).commands
<1> DEFINE r == s.rollover
           t == RolledOver(s)
           started == StartNextKeyGen(t, me, block)
           q == started.state.rollover
<1>1. r.next_epoch \in Nat /\ NextNumber(block) \in Nat /\ Shape(me, r) /\ block \in Nat
  BY EpochsAssumption DEF ReadyForBlock, Shape, RolloverState
<1>2. t \in State
  BY RolledOverType DEF ReadyForBlock
<1>3. MovedOn(me, t, r, block, started)
  <2> HIDE DEF t
  <2> QED BY <1>1, <1>2, NextTurn DEF ReadyForBlock, Rolls
<1>4. HandleRolloverNewBlock(s, me, block) = started
  <2>1. r.stage # "Halted"
    BY <1>1 DEF Rolls, Shape
  <2> QED BY <1>1, <2>1 DEF HandleRolloverNewBlock, Rolls
<1> HIDE DEF started
<1>5. HandleKeyGenTimeouts(started.state, me, block) = Ignored(started.state)
  <2>1. /\ q.stage \in {"CollectingCommitments", "EpochSkipped"}
        /\ q.stage = "CollectingCommitments" => q.deadline = block + KeyGenTimeout
    BY <1>3 DEF MovedOn
  <2>2. ~ (block >= block + KeyGenTimeout)
    BY <1>1, KeyGenTimeoutAssumption
  <2>3. ~ IsStuck(q, block) /\ ~ IsExpired(q, block)
    BY <2>1, <2>2 DEF IsStuck, IsExpired
  <2> QED BY <2>3 DEF HandleKeyGenTimeouts
<1> QED BY <1>3, <1>4, <1>5 DEF HandleNewBlock, Ignored, Result, started

\* A round that is out of time leaves out at least one member.
LEMMA StalledMembers ==
    ASSUME NEW me, NEW r, Shape(me, r), NEW block, Timed(r), IsExpired(r, block)
    PROVE  r.group # NoGroup /\ Stalled(r) \subseteq r.group.members /\ Stalled(r) # {}
<1>1. r.stage \in {"CollectingCommitments", "CollectingShares", "CollectingConfirmations"}
  BY DEF IsExpired
<1>2. r.group # NoGroup
  BY <1>1 DEF Shape, Busy
<1>3. CASE r.stage = "CollectingCommitments"
  BY <1>2, <1>3 DEF Stalled, Shape, Open
<1>4. CASE r.stage = "CollectingShares"
  BY <1>2, <1>4 DEF Stalled, Shape, Open
<1>5. CASE r.stage = "CollectingConfirmations"
  BY <1>2, <1>5 DEF Stalled, Shape, Open
<1> QED BY <1>1, <1>3, <1>4, <1>5

\* handle_key_gen_timeouts
LEMMA TimeoutsGood ==
    ASSUME NEW me, NEW s, NEW block, Ready(me, s, block)
    PROVE  /\ Good(me, s, HandleKeyGenTimeouts(s, me, block), block)
           /\ Keeps(s, HandleKeyGenTimeouts(s, me, block).state)
           /\ IF Timed(s.rollover) /\ IsExpired(s.rollover, block)
              THEN Restarted(me, s, s.rollover, Stalled(s.rollover), HandleKeyGenTimeouts(s, me, block))
              ELSE HandleKeyGenTimeouts(s, me, block) = Ignored(s)
<1> DEFINE r == s.rollover
           result == HandleKeyGenTimeouts(s, me, block)
<1>1. Shape(me, r) /\ s \in State /\ block \in Nat /\ r.participation # "Setup"
  BY DEF Ready
<1>2. ~ IsStuck(r, block)
  BY <1>1 DEF IsStuck
<1>3. CASE ~ Timed(r) \/ ~ IsExpired(r, block)
  <2>1. result = Ignored(s)
    BY <1>2, <1>3 DEF HandleKeyGenTimeouts
  <2> HIDE DEF result
  <2>2. Good(me, s, result, block) /\ Keeps(s, result.state)
    BY <2>1, IgnoredGood DEF Ignored, Result, Keeps
  <2> QED BY <1>3, <2>1, <2>2 DEF result
<1>4. CASE Timed(r) /\ IsExpired(r, block)
  <2>1. r.group # NoGroup /\ r.group.members \cap Stalled(r) # {}
    BY <1>1, <1>4, StalledMembers
  <2>2. result = RestartKeyGenExcluding(s, me, r.next_epoch, AlsoExclude(r.group, Stalled(r)), block + KeyGenTimeout)
    BY <1>2, <1>4 DEF HandleKeyGenTimeouts
  <2>3. block + KeyGenTimeout \in Nat
    BY <1>1, KeyGenTimeoutAssumption
  <2> HIDE DEF result
  <2>4. Restarted(me, s, r, Stalled(r), result)
    BY <1>1, <2>1, <2>2, <2>3, RestartTurn
  <2>5. Timely(result.state.rollover, block)
    BY <2>4, TimelyStays DEF Restarted
  <2>6. Good(me, s, result, block) /\ Keeps(s, result.state)
    BY <2>4, <2>5 DEF Restarted, Good
  <2> QED BY <1>4, <2>4, <2>6 DEF result
<1> QED BY <1>3, <1>4

\* Message::NewBlock
LEMMA NewBlockGood ==
    ASSUME NEW me, NEW s, NEW block, ReadyForBlock(me, s, block)
    PROVE  /\ Good(me, s, HandleNewBlock(s, me, block), block)
           /\ HandleNewBlock(s, me, block).state.epochs = s.epochs
           /\ HandleNewBlock(s, me, block).state.active_epoch =
                 IF Rolls(s.rollover, block) /\ s.rollover.stage = "EpochStaged"
                 THEN s.rollover.next_epoch ELSE s.active_epoch
<1> DEFINE result == HandleNewBlock(s, me, block)
<1>1. CASE Rolls(s.rollover, block)
  <2> DEFINE t == RolledOver(s)
             started == StartNextKeyGen(t, me, block)
  <2>1. MovedOn(me, t, s.rollover, block, started) /\ result.state = started.state /\ result.commands = started.commands
    BY <1>1, NewBlockRolls
  <2>2. /\ t.epochs = s.epochs
        /\ t.active_epoch = IF s.rollover.stage = "EpochStaged" THEN s.rollover.next_epoch ELSE s.active_epoch
    BY RolledOverType DEF ReadyForBlock
  <2> HIDE DEF started, t, result
  <2>3. Good(me, s, result, block) /\ Keeps(t, result.state)
    BY <2>1 DEF MovedOn, Good, Timely
  <2> QED BY <1>1, <2>2, <2>3 DEF result, Keeps
<1>2. CASE ~ Rolls(s.rollover, block)
  <2> DEFINE timed == HandleKeyGenTimeouts(s, me, block)
  <2>1. Timely(s.rollover, block) /\ result.state = timed.state /\ result.commands = timed.commands
    BY <1>2, NewBlockWaits
  <2>2. Ready(me, s, block)
    BY <2>1 DEF Ready, ReadyForBlock
  <2>3. Good(me, s, timed, block) /\ Keeps(s, timed.state)
    BY <2>2, TimeoutsGood
  <2> HIDE DEF timed, result
  <2>4. Good(me, s, result, block) /\ Keeps(s, result.state)
    BY <2>1, <2>3 DEF Good
  <2> QED BY <1>2, <2>4 DEF result, Keeps
<1> QED BY <1>1, <1>2

SetUp(me, s, group, result) ==
    LET q == [s.rollover EXCEPT !.participation = "Participating"] IN
    /\ result.state = [s EXCEPT !.rollover = q]
    /\ result.state \in State /\ result.state.rollover = q /\ Keeps(s, result.state)
    /\ Shape(me, q) /\ q.participation = "Participating"
    /\ result.commands = {KeyGenAndCommit(group)}
    /\ KeyGenAndCommit(group) \in Command /\ KeyGenAndCommit(group).group = group

\* handle_key_gen_setup: the validator takes part, and commits.
LEMMA SetupGood ==
    ASSUME NEW me, NEW s \in State, Shape(me, s.rollover), NEW group, s.rollover.group = group,
           s.rollover.participation = "Setup"
    PROVE  SetUp(me, s, group, HandleKeyGenSetup(s, me, group))
<1> DEFINE r == s.rollover
           q == [r EXCEPT !.participation = "Participating"]
           result == HandleKeyGenSetup(s, me, group)
<1>1. r \in RolloverState /\ r.stage = "CollectingCommitments" /\ me \notin r.commitments
      /\ group \in Group /\ group # NoGroup /\ me \in group.members
  BY DEF Shape, Busy, Formed
<1>2. r.commitments # group.members
  BY <1>1
<1>3. result.state = [s EXCEPT !.rollover = q] /\ result.commands = {KeyGenAndCommit(group)}
  BY <1>1, <1>2 DEF HandleKeyGenSetup, Follows, Result
<1>4. /\ q \in RolloverState /\ q.stage = r.stage /\ q.group = r.group /\ q.next_epoch = r.next_epoch
      /\ q.participation = "Participating" /\ q.confirmed = r.confirmed /\ q.complaints = r.complaints
      /\ q.commitments = r.commitments
  BY <1>1 DEF RolloverState, Group
<1> HIDE DEF q
<1>5. Shape(me, q)
  BY <1>1, <1>4 DEF Shape, Open, Busy, Timed
<1> HIDE DEF result
<1>6. result.state \in State /\ result.state.rollover = q /\ Keeps(s, result.state)
  BY <1>3, <1>4, FieldsSet
<1>7. KeyGenAndCommit(group) \in Command /\ KeyGenAndCommit(group).group = group
  BY <1>1 DEF KeyGenAndCommit, Command
<1> QED BY <1>3, <1>4, <1>5, <1>6, <1>7 DEF result, q, SetUp

-----------------------------------------------------------------------------
(* Agreement: what the handlers do to the common part of a key generation    *)
(* depends on that part only                                                *)

Alike(r, t) ==
    /\ r.stage = t.stage /\ r.next_epoch = t.next_epoch /\ r.group = t.group
    /\ r.deadline = t.deadline /\ r.commitments = t.commitments /\ r.shared = t.shared
    /\ r.confirmations = t.confirmations /\ r.complaints = t.complaints

\* Two validators start alike.
LEMMA StartAlike ==
    ASSUME NEW s \in State, NEW t \in State, NEW me, NEW you, NEW g, NEW d
    PROVE  Alike(StartKeyGen(s, me, g, d).state.rollover, StartKeyGen(t, you, g, d).state.rollover)
<1> DEFINE P(v) == IF v \in g.members THEN "Setup" ELSE "Observing"
           q(v) == Rollover("CollectingCommitments", g.epoch, g, P(v), d)
<1>1. /\ StartKeyGen(s, me, g, d).state.rollover = q(me)
      /\ StartKeyGen(t, you, g, d).state.rollover = q(you)
  BY DEF StartKeyGen, Result, SetRollover, State
<1>2. Alike(q(me), q(you))
  BY DEF Alike, Rollover
<1> HIDE DEF q
<1> QED BY <1>1, <1>2

\* Two validators that give up are alike.
LEMMA IdleAlike ==
    ASSUME NEW s \in State, NEW t \in State, NEW q
    PROVE  Alike(SetRollover(s, q).rollover, SetRollover(t, q).rollover)
<1>1. SetRollover(s, q).rollover = q /\ SetRollover(t, q).rollover = q
  BY DEF SetRollover, State
<1> QED BY <1>1 DEF Alike

\* Two validators restart alike.
LEMMA RestartAlike ==
    ASSUME NEW s \in State, NEW t \in State, NEW me, NEW you, NEW epoch, NEW excluded, NEW d
    PROVE  Alike(RestartKeyGenExcluding(s, me, epoch, excluded, d).state.rollover,
                 RestartKeyGenExcluding(t, you, epoch, excluded, d).state.rollover)
<1>1. CASE epoch # Genesis /\ IsViable(epoch, excluded)
  BY <1>1, StartAlike DEF RestartKeyGenExcluding
<1>2. CASE ~ (epoch # Genesis /\ IsViable(epoch, excluded))
  <2> DEFINE q == Idle(IF epoch = Genesis THEN "Halted" ELSE "EpochSkipped", epoch)
  <2>1. /\ RestartKeyGenExcluding(s, me, epoch, excluded, d).state = SetRollover(s, q)
        /\ RestartKeyGenExcluding(t, you, epoch, excluded, d).state = SetRollover(t, q)
    BY <1>2 DEF RestartKeyGenExcluding, Fail, Ignored, Result
  <2> HIDE DEF q
  <2> QED BY <2>1, IdleAlike
<1> QED BY <1>1, <1>2

\* Two validators start the next epoch alike.
LEMMA NextAlike ==
    ASSUME NEW s \in State, NEW t \in State, NEW me, NEW you, NEW block
    PROVE  Alike(StartNextKeyGen(s, me, block).state.rollover,
                 StartNextKeyGen(t, you, block).state.rollover)
<1> DEFINE next == NextNumber(block)
<1>1. CASE IsViable(next, {})
  BY <1>1, StartAlike DEF StartNextKeyGen
<1>2. CASE ~ IsViable(next, {})
  <2> DEFINE q == Idle("EpochSkipped", next)
  <2>1. /\ StartNextKeyGen(s, me, block).state = SetRollover(s, q)
        /\ StartNextKeyGen(t, you, block).state = SetRollover(t, q)
    BY <1>2 DEF StartNextKeyGen, Ignored, Result
  <2> HIDE DEF q
  <2> QED BY <2>1, IdleAlike
<1> QED BY <1>1, <1>2

\* Two validators that are alike, before an event.
Pair(me, s, you, t, block) ==
    Ready(me, s, block) /\ Ready(you, t, block) /\ Alike(s.rollover, t.rollover)

\* They ignore alike.
LEMMA IgnoredAlike ==
    ASSUME NEW s, NEW t, Alike(s.rollover, t.rollover)
    PROVE  Alike(Ignored(s).state.rollover, Ignored(t).state.rollover)
  BY DEF Ignored, Result

\* They follow the same group.
LEMMA FollowsAlike ==
    ASSUME NEW s, NEW t, Alike(s.rollover, t.rollover), NEW stage, NEW group
    PROVE  Follows(s, stage, group) <=> Follows(t, stage, group)
  BY DEF Follows, Alike

\* handle_genesis_key_gen
LEMMA GenesisAlike ==
    ASSUME NEW s \in State, NEW t \in State, NEW me, NEW you, Alike(s.rollover, t.rollover), NEW group
    PROVE  Alike(HandleGenesisKeyGen(s, me, group).state.rollover,
                 HandleGenesisKeyGen(t, you, group).state.rollover)
<1>1. s.rollover.stage = t.rollover.stage
  BY DEF Alike
<1>2. CASE s.rollover.stage # "WaitingForGenesis" \/ group # GroupOf(Genesis, {})
  BY <1>1, <1>2, IgnoredAlike DEF HandleGenesisKeyGen
<1>3. CASE ~ (s.rollover.stage # "WaitingForGenesis" \/ group # GroupOf(Genesis, {}))
  BY <1>1, <1>3, StartAlike DEF HandleGenesisKeyGen
<1> QED BY <1>2, <1>3

\* handle_key_gen_committed, also for validators that set up.
LEMMA CommittedAlike ==
    ASSUME NEW me, NEW s \in State, Shape(me, s.rollover), NEW you, NEW t \in State, Shape(you, t.rollover),
           Alike(s.rollover, t.rollover), NEW block, NEW group \in Group, NEW p, NEW valid \in BOOLEAN,
           s.rollover.participation = "Setup" => p # me, t.rollover.participation = "Setup" => p # you
    PROVE  Alike(HandleKeyGenCommitted(s, block, group, p, valid).state.rollover,
                 HandleKeyGenCommitted(t, block, group, p, valid).state.rollover)
<1> DEFINE r == s.rollover
           z == t.rollover
           commitments == IF valid THEN r.commitments \cup {p} ELSE r.commitments
<1>1. r.commitments = z.commitments /\ After(r, block) = After(z, block) /\ r.group = z.group
      /\ r.next_epoch = z.next_epoch
  BY DEF Alike, After, Timed
<1>2. CASE ~ Follows(s, "CollectingCommitments", group)
  <2>1. ~ Follows(t, "CollectingCommitments", group)
    BY <1>2, FollowsAlike
  <2> QED BY <1>2, <2>1, IgnoredAlike DEF HandleKeyGenCommitted
<1>3. CASE Follows(s, "CollectingCommitments", group)
  <2>1. Follows(t, "CollectingCommitments", group) /\ r.group = group /\ z.group = group
        /\ r.stage = "CollectingCommitments" /\ z.stage = "CollectingCommitments" /\ group # NoGroup
    BY <1>3, NoGroupAssumption DEF Follows, Alike, Group
  <2>2. /\ r.participation = "Setup" => me \in group.members /\ me \notin commitments
        /\ z.participation = "Setup" => you \in group.members /\ you \notin commitments
    BY <1>1, <2>1 DEF Shape, Busy
  <2>3. CASE commitments # group.members
    <3>1. /\ HandleKeyGenCommitted(s, block, group, p, valid).state = [s EXCEPT !.rollover = [r EXCEPT !.commitments = commitments]]
          /\ HandleKeyGenCommitted(t, block, group, p, valid).state = [t EXCEPT !.rollover = [z EXCEPT !.commitments = commitments]]
      BY <1>1, <1>3, <2>1, <2>3 DEF HandleKeyGenCommitted, Ignored, Result
    <3> HIDE DEF commitments
    <3>2. Alike([r EXCEPT !.commitments = commitments], [z EXCEPT !.commitments = commitments])
      BY DEF Alike, State, RolloverState
    <3> QED BY <3>1, <3>2 DEF State
  <2>4. CASE commitments = group.members
    <3>1. r.participation # "Setup" /\ z.participation # "Setup"
      BY <2>2, <2>4
    <3> DEFINE q(v) == Rollover("CollectingShares", r.next_epoch, group, v, After(r, block))
    <3>2. /\ HandleKeyGenCommitted(s, block, group, p, valid).state = SetRollover(s, q(r.participation))
          /\ HandleKeyGenCommitted(t, block, group, p, valid).state = SetRollover(t, q(z.participation))
      BY <1>1, <1>3, <2>1, <2>4, <3>1 DEF HandleKeyGenCommitted, FinalizeCommitments, Result
    <3>3. Alike(q(r.participation), q(z.participation))
      BY DEF Alike, Rollover
    <3> HIDE DEF q
    <3> QED BY <3>2, <3>3 DEF SetRollover, State
  <2> QED BY <2>3, <2>4
<1> QED BY <1>2, <1>3

\* The confirmation rounds of two validators, whatever shares they have.
LEMMA StartConfirmationsAlike ==
    ASSUME NEW s \in State, NEW t \in State, NEW r, NEW z, Alike(r, z), NEW block, NEW a, NEW b
    PROVE  Alike(StartConfirmations(s, r, block, a).state.rollover,
                 StartConfirmations(t, z, block, b).state.rollover)
<1> DEFINE q(w, x) == [Rollover("CollectingConfirmations", w.next_epoch, w.group, w.participation,
                                After(w, block)) EXCEPT !.shares = x, !.complaints = w.complaints]
           c(w, x) == [q(w, x) EXCEPT !.confirmed = TRUE]
<1>1. After(r, block) = After(z, block)
  BY DEF Alike, After, Timed
<1>2. Alike(q(r, a), q(z, b)) /\ Alike(q(r, a), c(r, a)) /\ Alike(q(z, b), c(z, b))
  BY <1>1 DEF Alike, Rollover
<1>3. ASSUME NEW u \in State, NEW w, NEW x
      PROVE  StartConfirmations(u, w, block, x).state.rollover \in {q(w, x), c(w, x)}
  <2>1. StartConfirmations(u, w, block, x).state \in
          {SetRollover(u, q(w, x)), [SetRollover(u, q(w, x)) EXCEPT !.rollover.confirmed = TRUE]}
    BY DEF StartConfirmations, ConfirmKeyGen, Ignored, Result
  <2> HIDE DEF q
  <2>2. SetRollover(u, q(w, x)).rollover = q(w, x)
    BY DEF SetRollover, State
  <2>3. [SetRollover(u, q(w, x)) EXCEPT !.rollover.confirmed = TRUE].rollover = c(w, x)
    BY DEF SetRollover, State
  <2> HIDE DEF c
  <2> QED BY <2>1, <2>2, <2>3
<1>4. StartConfirmations(s, r, block, a).state.rollover \in {q(r, a), c(r, a)}
  BY <1>3
<1>5. StartConfirmations(t, z, block, b).state.rollover \in {q(z, b), c(z, b)}
  BY <1>3
<1> HIDE DEF q, c
<1> QED BY <1>2, <1>4, <1>5 DEF Alike

\* handle_key_gen_secret_shared
LEMMA SharedAlike ==
    ASSUME NEW me, NEW s, NEW you, NEW t, NEW block, Pair(me, s, you, t, block),
           NEW group, NEW p, NEW valid \in BOOLEAN, NEW cheated
    PROVE  Alike(HandleKeyGenSecretShared(s, me, block, group, p, valid, cheated).state.rollover,
                 HandleKeyGenSecretShared(t, you, block, group, p, valid, cheated).state.rollover)
<1> DEFINE r == s.rollover
           z == t.rollover
           shared == IF valid THEN r.shared \cup {p} ELSE r.shared
           Shares(w, v) == IF (valid /\ w.participation = "Participating") /\ v \notin cheated
                           THEN w.shares \cup {p} ELSE w.shares
           H(w, v) == HandleKeyGenSecretShared(w, v, block, group, p, valid, cheated)
<1>1. s \in State /\ t \in State /\ r.shared = z.shared /\ Alike(r, z)
  BY DEF Alike, Pair, Ready
<1>2. CASE ~ Follows(s, "CollectingShares", group)
  <2>1. ~ Follows(t, "CollectingShares", group)
    BY <1>1, <1>2, FollowsAlike
  <2> QED BY <1>1, <1>2, <2>1, IgnoredAlike DEF HandleKeyGenSecretShared
<1>3. CASE Follows(s, "CollectingShares", group)
  <2>1. Follows(t, "CollectingShares", group)
    BY <1>1, <1>3, FollowsAlike
  <2>2. CASE shared # group.members
    <3>1. /\ H(s, me).state = [s EXCEPT !.rollover.shared = shared, !.rollover.shares = Shares(r, me)]
          /\ H(t, you).state = [t EXCEPT !.rollover.shared = shared, !.rollover.shares = Shares(z, you)]
      BY <1>1, <1>3, <2>1, <2>2 DEF HandleKeyGenSecretShared, Result
    <3> HIDE DEF shared, Shares, H
    <3>2. /\ H(s, me).state.rollover = [r EXCEPT !.shared = shared, !.shares = Shares(r, me)]
          /\ H(t, you).state.rollover = [z EXCEPT !.shared = shared, !.shares = Shares(z, you)]
      BY <1>1, <3>1 DEF State, RolloverState
    <3>3. Alike([r EXCEPT !.shared = shared, !.shares = Shares(r, me)],
                [z EXCEPT !.shared = shared, !.shares = Shares(z, you)])
      BY <1>1 DEF Alike, State, RolloverState
    <3> QED BY <3>2, <3>3 DEF H
  <2>3. CASE shared = group.members
    <3>1. /\ H(s, me).state = StartConfirmations(s, r, block, Shares(r, me)).state
          /\ H(t, you).state = StartConfirmations(t, z, block, Shares(z, you)).state
      BY <1>1, <1>3, <2>1, <2>3 DEF HandleKeyGenSecretShared, Result
    <3> HIDE DEF shared, Shares, H
    <3> QED BY <1>1, <3>1, StartConfirmationsAlike DEF H
  <2> QED BY <2>2, <2>3
<1> QED BY <1>2, <1>3

\* handle_key_gen_confirmed
LEMMA ConfirmedAlike ==
    ASSUME NEW me, NEW s, NEW you, NEW t, NEW block, Pair(me, s, you, t, block),
           NEW group \in Group, NEW p
    PROVE  Alike(HandleKeyGenConfirmed(s, me, block, group, p).state.rollover,
                 HandleKeyGenConfirmed(t, you, block, group, p).state.rollover)
<1> DEFINE r == s.rollover
           z == t.rollover
           confirmations == r.confirmations \cup {p}
           H(w, v) == HandleKeyGenConfirmed(w, v, block, group, p)
<1>1. s \in State /\ t \in State /\ r.confirmations = z.confirmations /\ Alike(r, z)
      /\ r.next_epoch = z.next_epoch /\ r.confirmed \in BOOLEAN /\ z.confirmed \in BOOLEAN
  BY DEF Alike, Pair, Ready, State, RolloverState
<1>2. CASE ~ Follows(s, "CollectingConfirmations", group)
  <2>1. ~ Follows(t, "CollectingConfirmations", group)
    BY <1>1, <1>2, FollowsAlike
  <2> QED BY <1>1, <1>2, <2>1, IgnoredAlike DEF HandleKeyGenConfirmed
<1>3. CASE Follows(s, "CollectingConfirmations", group)
  <2>1. Follows(t, "CollectingConfirmations", group)
    BY <1>1, <1>3, FollowsAlike
  <2>2. CASE confirmations # group.members
    <3>1. /\ H(s, me).state = [s EXCEPT !.rollover = [r EXCEPT !.confirmations = confirmations]]
          /\ H(t, you).state = [t EXCEPT !.rollover = [z EXCEPT !.confirmations = confirmations]]
      BY <1>1, <1>3, <2>1, <2>2 DEF HandleKeyGenConfirmed, Ignored, Result
    <3> HIDE DEF confirmations, H
    <3>2. Alike([r EXCEPT !.confirmations = confirmations], [z EXCEPT !.confirmations = confirmations])
      BY <1>1 DEF Alike, State, RolloverState
    <3> QED BY <1>1, <3>1, <3>2 DEF State, H
  <2>3. CASE confirmations = group.members /\ r.next_epoch = Genesis
    <3>1. /\ H(s, me) = StartNextKeyGen(RecordEpoch(s, Genesis, group, r.confirmed), me, block)
          /\ H(t, you) = StartNextKeyGen(RecordEpoch(t, Genesis, group, z.confirmed), you, block)
      BY <1>1, <1>3, <2>1, <2>3 DEF HandleKeyGenConfirmed
    <3>2. /\ RecordEpoch(s, Genesis, group, r.confirmed) \in State
          /\ RecordEpoch(t, Genesis, group, z.confirmed) \in State
      BY <1>1, RecordEpochType, EpochsAssumption
    <3> HIDE DEF confirmations, H
    <3> QED BY <3>1, <3>2, NextAlike DEF H
  <2>4. CASE confirmations = group.members /\ r.next_epoch # Genesis
    <3> DEFINE q(w, active) == [Idle("SigningRollover", w.next_epoch)
                          EXCEPT !.group = group, !.confirmed = w.confirmed, !.active = active]
    <3>1. /\ H(s, me).state = SetRollover(s, q(r, s.active_epoch))
          /\ H(t, you).state = SetRollover(t, q(z, t.active_epoch))
      BY <1>1, <1>3, <2>1, <2>4 DEF HandleKeyGenConfirmed, Ignored, Result
    <3>2. Alike(q(r, s.active_epoch), q(z, t.active_epoch))
      BY <1>1 DEF Alike, Idle, Rollover
    <3> HIDE DEF q, H
    <3> QED BY <1>1, <3>1, <3>2 DEF SetRollover, State, H
  <2> QED BY <2>2, <2>3, <2>4
<1> QED BY <1>2, <1>3

\* handle_epoch_staged
LEMMA StagedAlike ==
    ASSUME NEW me, NEW s, NEW you, NEW t, NEW block, Pair(me, s, you, t, block),
           NEW epoch \in Epochs, NEW group \in Group
    PROVE  Alike(HandleEpochStaged(s, epoch, group).state.rollover,
                 HandleEpochStaged(t, epoch, group).state.rollover)
<1> DEFINE r == s.rollover
           z == t.rollover
           H(w) == HandleEpochStaged(w, epoch, group)
<1>1. s \in State /\ t \in State /\ Alike(r, z) /\ r.stage = z.stage /\ r.next_epoch \in Epochs
      /\ r.next_epoch = z.next_epoch /\ r.confirmed \in BOOLEAN /\ z.confirmed \in BOOLEAN
  BY DEF Alike, Pair, Ready, State, RolloverState
<1>2. Follows(s, "SigningRollover", group) <=> Follows(t, "SigningRollover", group)
  BY <1>1, FollowsAlike
<1>3. CASE Follows(s, "SigningRollover", group)
  <2> DEFINE q == Idle("EpochStaged", r.next_epoch)
  <2>1. /\ H(s).state = RecordEpoch(SetRollover(s, q), r.next_epoch, group, r.confirmed)
        /\ H(t).state = RecordEpoch(SetRollover(t, q), r.next_epoch, group, z.confirmed)
    BY <1>1, <1>2, <1>3 DEF HandleEpochStaged, Ignored, Result
  <2>2. q \in RolloverState
    BY <1>1, RolloverType DEF Idle, Stages
  <2> HIDE DEF q
  <2>3. /\ SetRollover(s, q) \in State /\ SetRollover(s, q).rollover = q
        /\ SetRollover(t, q) \in State /\ SetRollover(t, q).rollover = q
    BY <1>1, <2>2, SetRolloverType
  <2> HIDE DEF H, r, z
  <2>4. H(s).state.rollover = q /\ H(t).state.rollover = q
    BY <1>1, <2>1, <2>3, RecordEpochType
  <2> QED BY <2>4 DEF H, Alike
<1>4. CASE ~ Follows(s, "SigningRollover", group) /\ r.stage = "WaitingForGenesis"
  <2>1. H(s).state = SetRollover(s, Idle("EpochSkipped", epoch)) /\ H(t).state = SetRollover(t, Idle("EpochSkipped", epoch))
    BY <1>1, <1>2, <1>4 DEF HandleEpochStaged, Ignored, Result
  <2> QED BY <1>1, <2>1, IdleAlike
<1>5. CASE ~ Follows(s, "SigningRollover", group) /\ r.stage # "WaitingForGenesis"
  BY <1>1, <1>2, <1>5, IgnoredAlike DEF HandleEpochStaged
<1> QED BY <1>3, <1>4, <1>5

\* handle_key_gen_complained
LEMMA ComplainedAlike ==
    ASSUME NEW me, NEW s, NEW you, NEW t, NEW block, Pair(me, s, you, t, block),
           NEW group \in Group, NEW plaintiff \in Participants, NEW accused \in group.members
    PROVE  Alike(HandleKeyGenComplained(s, me, block, group, plaintiff, accused).state.rollover,
                 HandleKeyGenComplained(t, you, block, group, plaintiff, accused).state.rollover)
<1> DEFINE r == s.rollover
           z == t.rollover
           new == CountComplaint(r.complaints[accused], plaintiff, RequiresResponse(r, block))
           q(w) == [w EXCEPT !.complaints[accused] = new]
           H(w, v) == HandleKeyGenComplained(w, v, block, group, plaintiff, accused)
<1>1. s \in State /\ t \in State /\ Alike(r, z) /\ r.complaints = z.complaints /\ r.next_epoch = z.next_epoch
  BY DEF Alike, Pair, Ready
<1>2. RequiresResponse(r, block) <=> RequiresResponse(z, block)
  BY DEF RequiresResponse, Timed, ComplainDeadline, Alike, Pair
<1>3. new = CountComplaint(z.complaints[accused], plaintiff, RequiresResponse(z, block))
  BY <1>1, <1>2 DEF CountComplaint
<1>4. Complainable(s, group) <=> Complainable(t, group)
  BY <1>1, FollowsAlike DEF Complainable
<1>5. CASE ~ Complainable(s, group)
  BY <1>1, <1>4, <1>5, IgnoredAlike DEF HandleKeyGenComplained
<1>6. CASE Complainable(s, group)
  <2>1. accused \in Participants
    BY DEF Group
  <2>2. r.complaints[accused] \in [total : Nat, unresponded : SUBSET Participants]
    BY <1>1, <2>1 DEF State, RolloverState
  <2>3. new \in [total : Nat, unresponded : SUBSET Participants]
    BY <2>2 DEF CountComplaint
  <2>4. CASE new.total >= GroupThreshold(group.members)
    <3> DEFINE R(w, v) == RestartKeyGenExcluding([w EXCEPT !.rollover = q(w.rollover)], v, r.next_epoch,
                              AlsoExclude(group, {accused}), block + KeyGenTimeout)
    <3>1. H(s, me) = R(s, me) /\ H(t, you) = R(t, you)
      BY <1>1, <1>3, <1>4, <1>6, <2>4 DEF HandleKeyGenComplained
    <3> HIDE DEF new
    <3>2. q(r) \in RolloverState /\ q(z) \in RolloverState
      BY <1>1, <2>3 DEF RolloverState, State, Group
    <3> HIDE DEF q
    <3>3. [s EXCEPT !.rollover = q(r)] \in State /\ [t EXCEPT !.rollover = q(z)] \in State
      BY <1>1, <3>2 DEF State
    <3> HIDE DEF H
    <3> QED BY <3>1, <3>3, RestartAlike DEF H
  <2>5. CASE ~ (new.total >= GroupThreshold(group.members))
    <3>1. H(s, me).state = [s EXCEPT !.rollover = q(r)] /\ H(t, you).state = [t EXCEPT !.rollover = q(z)]
      BY <1>1, <1>3, <1>4, <1>6, <2>5 DEF HandleKeyGenComplained, Result
    <3> HIDE DEF new
    <3>2. Alike(q(r), q(z))
      BY <1>1 DEF Alike, State, RolloverState
    <3> HIDE DEF q, H
    <3> QED BY <1>1, <3>1, <3>2 DEF State, H
  <2> QED BY <2>4, <2>5
<1> QED BY <1>5, <1>6

\* handle_key_gen_complaint_responded
LEMMA RespondedAlike ==
    ASSUME NEW me, NEW s, NEW you, NEW t, NEW block, Pair(me, s, you, t, block),
           NEW group \in Group, NEW plaintiff \in Participants, NEW accused \in group.members,
           NEW valid \in BOOLEAN
    PROVE  Alike(HandleKeyGenComplaintResponded(s, me, block, group, plaintiff, accused, valid).state.rollover,
                 HandleKeyGenComplaintResponded(t, you, block, group, plaintiff, accused, valid).state.rollover)
<1> DEFINE r == s.rollover
           z == t.rollover
           unresponded == r.complaints[accused].unresponded \ {plaintiff}
           m(w) == [w EXCEPT !.complaints[accused].unresponded = unresponded]
           shares(w, v) == IF plaintiff = v /\ ~ w.confirmed THEN w.shares \cup {accused} ELSE w.shares
           late(w) == ~ (w.stage = "CollectingConfirmations" /\ Timed(w) => block <= ResponseDeadline(w))
           open(w) == plaintiff \in w.complaints[accused].unresponded
           H(w, v) == HandleKeyGenComplaintResponded(w, v, block, group, plaintiff, accused, valid)
<1>1. s \in State /\ t \in State /\ Alike(r, z) /\ r.complaints = z.complaints /\ r.next_epoch = z.next_epoch
      /\ r \in RolloverState /\ z \in RolloverState
  BY DEF Alike, Pair, Ready, State
<1>2. (late(r) <=> late(z)) /\ (open(r) <=> open(z))
  BY DEF Timed, ResponseDeadline, Alike, Pair
<1>3. Complainable(s, group) <=> Complainable(t, group)
  BY <1>1, FollowsAlike DEF Complainable
<1>4. CASE ~ Complainable(s, group) \/ late(r) \/ ~ open(r)
  <2>1. H(s, me) = Ignored(s)
    BY <1>4 DEF HandleKeyGenComplaintResponded
  <2>2. H(t, you) = Ignored(t)
    BY <1>2, <1>3, <1>4 DEF HandleKeyGenComplaintResponded
  <2> HIDE DEF H
  <2> QED BY <1>1, <2>1, <2>2, IgnoredAlike DEF H
<1>5. CASE Complainable(s, group) /\ ~ late(r) /\ open(r)
  <2>1. accused \in Participants
    BY DEF Group
  <2>2. r.complaints[accused] \in [total : Nat, unresponded : SUBSET Participants]
    BY <1>1, <2>1 DEF RolloverState
  <2>3. Settle(s, plaintiff, accused) = [s EXCEPT !.rollover = m(r)]
    BY <1>1, <2>1 DEF Settle, State, RolloverState
  <2>4. Settle(t, plaintiff, accused) = [t EXCEPT !.rollover = m(z)]
    BY <1>1, <2>1 DEF Settle, State, RolloverState
  <2>5. [r.complaints EXCEPT ![accused].unresponded = unresponded]
           \in [Participants -> [total : Nat, unresponded : SUBSET Participants]]
    BY <1>1, <2>1, <2>2 DEF RolloverState
  <2>6. CASE ~ valid
    <3> DEFINE R(w, v) == RestartKeyGenExcluding([w EXCEPT !.rollover = m(w.rollover)], v, r.next_epoch,
                              AlsoExclude(group, {accused}), block + KeyGenTimeout)
    <3>1. H(s, me) = R(s, me)
      BY <1>5, <2>3, <2>6 DEF HandleKeyGenComplaintResponded
    <3>2. H(t, you) = R(t, you)
      BY <1>1, <1>2, <1>3, <1>5, <2>4, <2>6 DEF HandleKeyGenComplaintResponded
    <3>3. m(r) \in RolloverState /\ m(z) \in RolloverState
      <4> HIDE DEF unresponded
      <4> QED BY <1>1, <2>5 DEF RolloverState, Group
    <3> HIDE DEF m
    <3>4. [s EXCEPT !.rollover = m(r)] \in State /\ [t EXCEPT !.rollover = m(z)] \in State
      BY <1>1, <3>3 DEF State
    <3> HIDE DEF H
    <3> QED BY <3>1, <3>2, <3>4, RestartAlike DEF H
  <2>7. CASE valid
    <3> DEFINE q(w, v) == [m(w) EXCEPT !.shares = shares(w, v)]
               c(w, v) == [q(w, v) EXCEPT !.confirmed = TRUE]
    <3>1. H(s, me) = ConfirmIfComplete([s EXCEPT !.rollover = q(r, me)], group)
      <4>1. [[s EXCEPT !.rollover = m(r)] EXCEPT !.rollover.shares = shares(r, me)] = [s EXCEPT !.rollover = q(r, me)]
        BY <1>1 DEF State
      <4> QED BY <1>5, <2>3, <2>7, <4>1 DEF HandleKeyGenComplaintResponded
    <3>2. H(t, you) = ConfirmIfComplete([t EXCEPT !.rollover = q(z, you)], group)
      <4>1. [[t EXCEPT !.rollover = m(z)] EXCEPT !.rollover.shares = shares(z, you)] = [t EXCEPT !.rollover = q(z, you)]
        BY <1>1 DEF State
      <4> QED BY <1>1, <1>2, <1>3, <1>5, <2>4, <2>7, <4>1 DEF HandleKeyGenComplaintResponded
    <3>3. Alike(q(r, me), q(z, you)) /\ Alike(q(r, me), c(r, me)) /\ Alike(q(z, you), c(z, you))
      <4> HIDE DEF shares, unresponded
      <4> QED BY <1>1, <2>5 DEF Alike, RolloverState
    <3> HIDE DEF q, H
    <3>4. H(s, me).state.rollover \in {q(r, me), c(r, me)}
      BY <1>1, <3>1 DEF ConfirmIfComplete, ConfirmKeyGen, Ignored, Result, State
    <3>5. H(t, you).state.rollover \in {q(z, you), c(z, you)}
      BY <1>1, <3>2 DEF ConfirmIfComplete, ConfirmKeyGen, Ignored, Result, State
    <3> HIDE DEF c
    <3>6. Alike(H(s, me).state.rollover, H(t, you).state.rollover)
      BY <3>3, <3>4, <3>5 DEF Alike
    <3> QED BY <3>6 DEF H
  <2> QED BY <2>6, <2>7
<1> QED BY <1>4, <1>5

\* What an expired round leaves out is common.
LEMMA StalledAlike ==
    ASSUME NEW r, NEW z, Alike(r, z), NEW block
    PROVE  /\ IsExpired(r, block) <=> IsExpired(z, block)
           /\ IsExpired(r, block) => Stalled(r) = Stalled(z)
<1>1. Unresponded(r) = Unresponded(z)
  BY DEF Unresponded, Alike
<1>2. IsExpired(r, block) <=> IsExpired(z, block)
  BY <1>1 DEF IsExpired, Alike, ResponseDeadline, ConfirmDeadline
<1>3. ASSUME IsExpired(r, block) PROVE Stalled(r) = Stalled(z)
  <2>1. r.stage \in {"CollectingCommitments", "CollectingShares", "CollectingConfirmations"}
    BY <1>3 DEF IsExpired
  <2> QED BY <1>1, <2>1 DEF Stalled, Alike
<1> QED BY <1>2, <1>3

\* Message::NewBlock
LEMMA NewBlockAlike ==
    ASSUME NEW me, NEW s, NEW you, NEW t, NEW block, ReadyForBlock(me, s, block),
           ReadyForBlock(you, t, block), Alike(s.rollover, t.rollover)
    PROVE  Alike(HandleNewBlock(s, me, block).state.rollover, HandleNewBlock(t, you, block).state.rollover)
<1> DEFINE r == s.rollover
           z == t.rollover
<1>1. s \in State /\ t \in State /\ r.next_epoch = z.next_epoch /\ r.group = z.group /\ (Timed(r) <=> Timed(z))
  BY DEF ReadyForBlock, Alike, Timed
<1>2. CASE Rolls(r, block)
  <2>1. Rolls(z, block)
    BY <1>1, <1>2 DEF Rolls
  <2>2. /\ HandleNewBlock(s, me, block).state = StartNextKeyGen(RolledOver(s), me, block).state
        /\ HandleNewBlock(t, you, block).state = StartNextKeyGen(RolledOver(t), you, block).state
    BY <1>2, <2>1, NewBlockRolls
  <2>3. RolledOver(s) \in State /\ RolledOver(t) \in State
    BY <1>1, RolledOverType
  <2> QED BY <2>2, <2>3, NextAlike
<1>3. CASE ~ Rolls(r, block)
  <2>1. ~ Rolls(z, block)
    BY <1>1, <1>3 DEF Rolls
  <2>2. /\ HandleNewBlock(s, me, block).state = HandleKeyGenTimeouts(s, me, block).state
        /\ HandleNewBlock(t, you, block).state = HandleKeyGenTimeouts(t, you, block).state
    BY <1>3, <2>1, NewBlockWaits
  <2>3. ~ IsStuck(r, block) /\ ~ IsStuck(z, block)
    BY DEF ReadyForBlock, IsStuck
  <2>4. CASE ~ Timed(r) \/ ~ IsExpired(r, block)
    <3>1. ~ Timed(z) \/ ~ IsExpired(z, block)
      BY <1>1, <2>4, StalledAlike
    <3>2. HandleKeyGenTimeouts(s, me, block) = Ignored(s)
      BY <2>3, <2>4 DEF HandleKeyGenTimeouts
    <3>3. HandleKeyGenTimeouts(t, you, block) = Ignored(t)
      BY <2>3, <3>1 DEF HandleKeyGenTimeouts
    <3> QED BY <2>2, <3>2, <3>3, IgnoredAlike
  <2>5. CASE Timed(r) /\ IsExpired(r, block)
    <3>1. Timed(z) /\ IsExpired(z, block) /\ Stalled(r) = Stalled(z)
      BY <1>1, <2>5, StalledAlike
    <3> DEFINE R(w, v) == RestartKeyGenExcluding(w, v, r.next_epoch, AlsoExclude(r.group, Stalled(r)),
                                                 block + KeyGenTimeout)
    <3>2. HandleKeyGenTimeouts(s, me, block) = R(s, me)
      BY <2>3, <2>5 DEF HandleKeyGenTimeouts
    <3>3. HandleKeyGenTimeouts(t, you, block) = R(t, you)
      BY <1>1, <2>3, <3>1 DEF HandleKeyGenTimeouts
    <3>4. Alike(R(s, me).state.rollover, R(t, you).state.rollover)
      BY <1>1, RestartAlike
    <3> HIDE DEF R
    <3> QED BY <2>2, <3>2, <3>3, <3>4
  <2> QED BY <2>4, <2>5
<1> QED BY <1>2, <1>3

-----------------------------------------------------------------------------
(* Which handlers a validator is deaf to, and who stages an epoch            *)

Resting == {"WaitingForGenesis", "EpochStaged", "EpochSkipped", "Halted"}

\* A validator that rests ignores the rounds of a key generation.
LEMMA RestingIgnores ==
    ASSUME NEW s, s.rollover.stage \in Resting
    PROVE  /\ \A block, group, p, valid : HandleKeyGenCommitted(s, block, group, p, valid) = Ignored(s)
           /\ \A me, block, group, p, valid, cheated :
                 HandleKeyGenSecretShared(s, me, block, group, p, valid, cheated) = Ignored(s)
           /\ \A me, block, group, p : HandleKeyGenConfirmed(s, me, block, group, p) = Ignored(s)
           /\ \A me, block, group, p, q : HandleKeyGenComplained(s, me, block, group, p, q) = Ignored(s)
           /\ \A me, block, group, p, q, valid :
                 HandleKeyGenComplaintResponded(s, me, block, group, p, q, valid) = Ignored(s)
           /\ s.rollover.stage # "WaitingForGenesis" =>
                 \A me, group : HandleGenesisKeyGen(s, me, group) = Ignored(s)
<1>1. \A group : /\ ~ Follows(s, "CollectingCommitments", group) /\ ~ Follows(s, "CollectingShares", group)
                 /\ ~ Follows(s, "CollectingConfirmations", group)
  BY DEF Follows, Resting
<1>2. \A group : ~ Complainable(s, group)
  BY <1>1 DEF Complainable
<1>3. \A me, block, group, p, q : HandleKeyGenComplained(s, me, block, group, p, q) = Ignored(s)
  BY <1>2 DEF HandleKeyGenComplained
<1>4. \A me, block, group, p, q, valid :
         HandleKeyGenComplaintResponded(s, me, block, group, p, q, valid) = Ignored(s)
  BY <1>2 DEF HandleKeyGenComplaintResponded
<1>5. \A me, block, group, p, valid, cheated :
         HandleKeyGenSecretShared(s, me, block, group, p, valid, cheated) = Ignored(s)
  BY <1>1 DEF HandleKeyGenSecretShared
<1>6. \A me, block, group, p : HandleKeyGenConfirmed(s, me, block, group, p) = Ignored(s)
  BY <1>1 DEF HandleKeyGenConfirmed
<1>7. \A block, group, p, valid : HandleKeyGenCommitted(s, block, group, p, valid) = Ignored(s)
  BY <1>1 DEF HandleKeyGenCommitted
<1>8. s.rollover.stage # "WaitingForGenesis" => \A me, group : HandleGenesisKeyGen(s, me, group) = Ignored(s)
  BY DEF HandleGenesisKeyGen
<1> QED BY <1>3, <1>4, <1>5, <1>6, <1>7, <1>8

\* From s to t, no epoch was staged.
Unstaged(s, t) == t.rollover.stage = "EpochStaged" => s.rollover.stage = "EpochStaged"

\* Starting, restarting and giving up stage no epoch.
LEMMA StartUnstaged ==
    ASSUME NEW s \in State, NEW u, NEW me, NEW group, NEW d, NEW epoch, NEW excluded, NEW block
    PROVE  /\ Unstaged(u, StartKeyGen(s, me, group, d).state)
           /\ Unstaged(u, Fail(s, epoch).state)
           /\ Unstaged(u, RestartKeyGenExcluding(s, me, epoch, excluded, d).state)
           /\ Unstaged(u, StartNextKeyGen(s, me, block).state)
<1>0. ASSUME NEW q PROVE SetRollover(s, q).rollover = q
  BY DEF SetRollover, State
<1>1. ASSUME NEW g, NEW e PROVE Unstaged(u, StartKeyGen(s, me, g, e).state)
  BY <1>0 DEF Unstaged, StartKeyGen, Result, Rollover
<1>2. Unstaged(u, Fail(s, epoch).state)
  BY <1>0 DEF Unstaged, Fail, Ignored, Result, Rollover, Idle
<1>3. Unstaged(u, RestartKeyGenExcluding(s, me, epoch, excluded, d).state)
  BY <1>1, <1>2 DEF RestartKeyGenExcluding
<1>4. Unstaged(u, StartNextKeyGen(s, me, block).state)
  <2>1. CASE IsViable(NextNumber(block), {})
    BY <1>1, <2>1 DEF StartNextKeyGen
  <2>2. CASE ~ IsViable(NextNumber(block), {})
    BY <1>0, <2>2 DEF StartNextKeyGen, Unstaged, Ignored, Result, Rollover, Idle
  <2> QED BY <2>1, <2>2
<1> QED BY <1>1, <1>2, <1>3, <1>4

\* The events of the rounds stage no epoch.
LEMMA EventsUnstaged ==
    ASSUME NEW s \in State
    PROVE  /\ \A me, group : Unstaged(s, HandleGenesisKeyGen(s, me, group).state)
           /\ \A block, group, p, valid : Unstaged(s, HandleKeyGenCommitted(s, block, group, p, valid).state)
           /\ \A me, block, group, p, valid, cheated :
                 Unstaged(s, HandleKeyGenSecretShared(s, me, block, group, p, valid, cheated).state)
           /\ \A me, block, group, p : Unstaged(s, HandleKeyGenConfirmed(s, me, block, group, p).state)
           /\ \A me, block, group, p, q : Unstaged(s, HandleKeyGenComplained(s, me, block, group, p, q).state)
           /\ \A me, block, group, p, q, valid :
                 Unstaged(s, HandleKeyGenComplaintResponded(s, me, block, group, p, q, valid).state)
<1>0. ASSUME NEW r PROVE SetRollover(s, r).rollover = r
  BY DEF SetRollover, State
<1>1. Unstaged(s, s) /\ Unstaged(s, Ignored(s).state)
  BY DEF Unstaged, Ignored, Result
<1>2. ASSUME NEW me, NEW group
      PROVE  Unstaged(s, HandleGenesisKeyGen(s, me, group).state)
  BY <1>1, StartUnstaged DEF HandleGenesisKeyGen
<1>3. ASSUME NEW block, NEW group, NEW p, NEW valid
      PROVE  Unstaged(s, HandleKeyGenCommitted(s, block, group, p, valid).state)
  <2>1. ASSUME NEW c PROVE [s EXCEPT !.rollover.commitments = c].rollover.stage = s.rollover.stage
    BY DEF State, RolloverState
  <2>2. ASSUME NEW a, NEW b PROVE Unstaged(s, FinalizeCommitments(s, s.rollover, a, b).state)
    BY <1>0 DEF Unstaged, FinalizeCommitments, Result, Rollover
  <2> QED BY <1>1, <2>1, <2>2 DEF HandleKeyGenCommitted, Unstaged, Ignored, Result
<1>4. ASSUME NEW me, NEW block, NEW group, NEW p, NEW valid, NEW cheated
      PROVE  Unstaged(s, HandleKeyGenSecretShared(s, me, block, group, p, valid, cheated).state)
  <2>1. ASSUME NEW c, NEW e
        PROVE  [s EXCEPT !.rollover.shared = c, !.rollover.shares = e].rollover.stage = s.rollover.stage
    BY DEF State, RolloverState
  <2>2. ASSUME NEW a PROVE StartConfirmations(s, s.rollover, block, a).state.rollover.stage = "CollectingConfirmations"
    <3> DEFINE n == [Rollover("CollectingConfirmations", s.rollover.next_epoch, s.rollover.group,
                              s.rollover.participation, After(s.rollover, block))
                        EXCEPT !.shares = a, !.complaints = s.rollover.complaints]
               t == SetRollover(s, n)
    <3>1. n.stage = "CollectingConfirmations" /\ [n EXCEPT !.confirmed = TRUE].stage = "CollectingConfirmations"
      BY DEF Rollover
    <3>2. t.rollover = n
      BY <1>0
    <3>3. [t EXCEPT !.rollover.confirmed = TRUE].rollover = [n EXCEPT !.confirmed = TRUE]
      BY DEF SetRollover, State
    <3>4. StartConfirmations(s, s.rollover, block, a).state \in {t, [t EXCEPT !.rollover.confirmed = TRUE]}
      BY DEF StartConfirmations, ConfirmKeyGen, Ignored, Result
    <3> HIDE DEF n, t
    <3> QED BY <3>1, <3>2, <3>3, <3>4
  <2>3. CASE ~ Follows(s, "CollectingShares", group)
    BY <1>1, <2>3 DEF HandleKeyGenSecretShared
  <2>4. CASE Follows(s, "CollectingShares", group)
    <3> DEFINE r == s.rollover
               shared == IF valid THEN r.shared \cup {p} ELSE r.shared
               shares == IF (valid /\ r.participation = "Participating") /\ me \notin cheated
                         THEN r.shares \cup {p} ELSE r.shares
               result == HandleKeyGenSecretShared(s, me, block, group, p, valid, cheated)
    <3>1a. result.state \in {[s EXCEPT !.rollover.shared = shared, !.rollover.shares = shares],
                             StartConfirmations(s, r, block, shares).state}
      BY <2>4 DEF HandleKeyGenSecretShared, Result
    <3>1c. /\ [s EXCEPT !.rollover.shared = shared, !.rollover.shares = shares].rollover.stage = s.rollover.stage
           /\ StartConfirmations(s, r, block, shares).state.rollover.stage = "CollectingConfirmations"
      <4> HIDE DEF shared, shares
      <4>1. [s EXCEPT !.rollover.shared = shared, !.rollover.shares = shares].rollover.stage = s.rollover.stage
        BY <2>1
      <4>2. StartConfirmations(s, r, block, shares).state.rollover.stage = "CollectingConfirmations"
        BY <2>2
      <4> QED BY <4>1, <4>2
    <3> HIDE DEF result, shared, shares
    <3>1b. result.state.rollover.stage \in {s.rollover.stage, "CollectingConfirmations"}
      BY <3>1a, <3>1c
    <3>1. HandleKeyGenSecretShared(s, me, block, group, p, valid, cheated).state.rollover.stage
             \in {s.rollover.stage, "CollectingConfirmations"}
      BY <3>1b DEF result
    <3> QED BY <3>1 DEF Unstaged
  <2> QED BY <2>3, <2>4
<1>5. ASSUME NEW me, NEW block, NEW group, NEW p
      PROVE  Unstaged(s, HandleKeyGenConfirmed(s, me, block, group, p).state)
  <2>1. ASSUME NEW c PROVE [s EXCEPT !.rollover.confirmations = c].rollover.stage = s.rollover.stage
    BY DEF State, RolloverState
  <2>2. ASSUME NEW a, NEW b, NEW c, NEW e
        PROVE  [Idle("SigningRollover", a) EXCEPT !.group = b, !.confirmed = c, !.active = e].stage = "SigningRollover"
    BY DEF Idle, Rollover
  <2>3. ASSUME NEW g, NEW key PROVE RecordEpoch(s, Genesis, g, key).rollover = s.rollover
    BY DEF RecordEpoch, State
  <2>4. ASSUME NEW t, t.rollover = s.rollover, t = [s EXCEPT !.epochs = t.epochs]
        PROVE  Unstaged(s, StartNextKeyGen(t, me, block).state)
    <3>1. ASSUME NEW r PROVE SetRollover(t, r).rollover = r
      BY <2>4 DEF SetRollover, State
    <3>2. ASSUME NEW g, NEW e PROVE Unstaged(s, StartKeyGen(t, me, g, e).state)
      BY <3>1 DEF Unstaged, StartKeyGen, Result, Rollover
    <3>3. CASE IsViable(NextNumber(block), {})
      BY <3>2, <3>3 DEF StartNextKeyGen
    <3>4. CASE ~ IsViable(NextNumber(block), {})
      BY <3>1, <3>4 DEF StartNextKeyGen, Unstaged, Ignored, Result, Rollover, Idle
    <3> QED BY <3>3, <3>4
  <2>5. ASSUME NEW g, NEW key
        PROVE  Unstaged(s, StartNextKeyGen(RecordEpoch(s, Genesis, g, key), me, block).state)
    <3>1. RecordEpoch(s, Genesis, g, key) = [s EXCEPT !.epochs = RecordEpoch(s, Genesis, g, key).epochs]
      BY DEF RecordEpoch, State
    <3> QED BY <2>3, <2>4, <3>1
  <2> DEFINE r == s.rollover
             c == [s EXCEPT !.rollover.confirmations = r.confirmations \cup {p}]
             n == StartNextKeyGen(RecordEpoch(s, Genesis, group, r.confirmed), me, block).state
             w == [Idle("SigningRollover", r.next_epoch)
                      EXCEPT !.group = group, !.confirmed = r.confirmed, !.active = s.active_epoch]
  <2>6. HandleKeyGenConfirmed(s, me, block, group, p).state \in {s, c, n, SetRollover(s, w)}
    BY DEF HandleKeyGenConfirmed, Ignored, Result
  <2>7. Unstaged(s, c) /\ Unstaged(s, n) /\ Unstaged(s, SetRollover(s, w))
    <3>1. Unstaged(s, c)
      BY <2>1 DEF Unstaged
    <3>2. Unstaged(s, n)
      BY <2>5
    <3>3. w.stage = "SigningRollover"
      BY <2>2
    <3> HIDE DEF w
    <3>4. Unstaged(s, SetRollover(s, w))
      BY <1>0, <3>3 DEF Unstaged
    <3> QED BY <3>1, <3>2, <3>4
  <2> HIDE DEF c, n, w
  <2> QED BY <1>1, <2>6, <2>7
<1>6. ASSUME NEW me, NEW block, NEW group, NEW p, NEW q
      PROVE  Unstaged(s, HandleKeyGenComplained(s, me, block, group, p, q).state)
  <2> DEFINE new == CountComplaint(s.rollover.complaints[q], p, RequiresResponse(s.rollover, block))
             counted == [s EXCEPT !.rollover.complaints[q] = new]
  <2>1. counted.rollover.stage = s.rollover.stage
    BY DEF State, RolloverState
  <2>2. ASSUME NEW r PROVE SetRollover(counted, r).rollover = r
    BY DEF SetRollover, State
  <2>3. ASSUME NEW g, NEW e PROVE Unstaged(s, StartKeyGen(counted, me, g, e).state)
    <3> HIDE DEF counted
    <3> QED BY <2>2 DEF Unstaged, StartKeyGen, Result, Rollover
  <2>4. ASSUME NEW e PROVE Unstaged(s, Fail(counted, e).state)
    <3> HIDE DEF counted
    <3> QED BY <2>2 DEF Unstaged, Fail, Ignored, Result, Rollover, Idle
  <2>5. ASSUME NEW e, NEW x, NEW d PROVE Unstaged(s, RestartKeyGenExcluding(counted, me, e, x, d).state)
    BY <2>3, <2>4 DEF RestartKeyGenExcluding
  <2> HIDE DEF counted
  <2>6. ASSUME NEW c PROVE Unstaged(s, Result(counted, c).state)
    BY <2>1 DEF Result, Unstaged
  <2> QED BY <1>1, <2>5, <2>6 DEF HandleKeyGenComplained, counted
<1>7. ASSUME NEW me, NEW block, NEW group, NEW p, NEW q, NEW valid
      PROVE  Unstaged(s, HandleKeyGenComplaintResponded(s, me, block, group, p, q, valid).state)
  <2> DEFINE settled == Settle(s, p, q)
             shares == IF p = me /\ ~ s.rollover.confirmed THEN s.rollover.shares \cup {q} ELSE s.rollover.shares
             t == [settled EXCEPT !.rollover.shares = shares]
  <2>1. settled.rollover.stage = s.rollover.stage
    BY DEF State, RolloverState, Settle
  <2>2. t.rollover.stage = s.rollover.stage
    BY <2>1 DEF State, RolloverState, Settle
  <2>2a. [t EXCEPT !.rollover.confirmed = TRUE].rollover.stage = s.rollover.stage
    BY <2>1 DEF State, RolloverState, Settle
  <2>3. ASSUME NEW r PROVE SetRollover(settled, r).rollover = r
    BY DEF SetRollover, State, Settle
  <2> HIDE DEF settled
  <2>4. ASSUME NEW g, NEW e PROVE Unstaged(s, StartKeyGen(settled, me, g, e).state)
    BY <2>3 DEF Unstaged, StartKeyGen, Result, Rollover
  <2>5. ASSUME NEW e PROVE Unstaged(s, Fail(settled, e).state)
    BY <2>3 DEF Unstaged, Fail, Ignored, Result, Rollover, Idle
  <2>6. ASSUME NEW e, NEW x, NEW d PROVE Unstaged(s, RestartKeyGenExcluding(settled, me, e, x, d).state)
    BY <2>4, <2>5 DEF RestartKeyGenExcluding
  <2> HIDE DEF t
  <2>7. Unstaged(s, ConfirmIfComplete(t, group).state)
    BY <2>2, <2>2a DEF ConfirmIfComplete, ConfirmKeyGen, Ignored, Result, Unstaged
  <2> QED BY <1>1, <2>6, <2>7 DEF HandleKeyGenComplaintResponded, t, settled
<1> QED BY <1>2, <1>3, <1>4, <1>5, <1>6, <1>7

\* keyGenAndCommit that creates the genesis group: both its events at once.
LEMMA GenesisCommittedGood ==
    ASSUME NEW me, NEW s, NEW block, Ready(me, s, block), s.rollover.stage = "WaitingForGenesis",
           NEW group, group = GroupOf(Genesis, {}), NEW p \in group.members, p # me,
           NEW valid \in BOOLEAN, NEW created, created = HandleGenesisKeyGen(s, me, group),
           NEW result, result = HandleKeyGenCommitted(created.state, block, group, p, valid)
    PROVE  /\ created.state \in State /\ Shape(me, created.state.rollover)
           /\ Good(me, s, Result(result.state, created.commands \cup result.commands), block)
           /\ Quiet(s, result.state) /\ result.state.rollover.group = group
<1> DEFINE r == s.rollover
           m == created.state.rollover
           q == result.state.rollover
<1>1. created = StartKeyGen(s, me, group, 0)
  BY DEF HandleGenesisKeyGen
<1>2. Formed(group) /\ group.epoch = Genesis /\ group \in Group
  BY ViableFormed, EpochsAssumption
<1>3. IsAhead(r, group)
  BY DEF IsAhead
<1>4. Started(me, s, r, group, 0, created)
  BY <1>1, <1>2, <1>3, StartTurn DEF Ready
<1>5. created.state \in State /\ Shape(me, m) /\ m.group = group /\ m.next_epoch = Genesis /\ Keeps(s, created.state)
  BY <1>2, <1>4 DEF Started, Turn
<1>6. created.commands = Outstanding(m)
  <2>1. created.commands = IF me \in group.members THEN {KeyGenSetup(group)} ELSE {}
    BY <1>1 DEF StartKeyGen, Result
  <2>2. m.participation = IF me \in group.members THEN "Setup" ELSE "Observing"
    BY <1>4 DEF Started
  <2> QED BY <1>5, <2>1, <2>2 DEF Outstanding
<1>7. Committed(me, created.state, result)
  BY <1>2, <1>5, CommittedTurn DEF Ready
<1>8. /\ result.state \in State /\ Keeps(created.state, result.state)
      /\ Turn(me, m, q, result.commands \cup Outstanding(m)) /\ q.group = group /\ q.next_epoch = Genesis
  BY <1>5, <1>7 DEF Committed
<1>9. created.commands \cup result.commands = result.commands \cup Outstanding(m)
  BY <1>6
<1>10. r.group = NoGroup /\ group # NoGroup /\ Advance(r, q) /\ m.stage # "WaitingForGenesis"
  BY <1>2, <1>5, NoGroupAssumption, AdvanceStarts DEF Ready, Shape, Busy, Group
<1>11. Turn(me, r, q, created.commands \cup result.commands)
  BY <1>8, <1>9, <1>10 DEF Turn
<1>12. Timely(q, block)
  BY <1>8 DEF Timely, Timed
<1>13. Quiet(s, result.state)
  BY <1>5, <1>8 DEF Quiet, Keeps
<1> QED BY <1>5, <1>8, <1>11, <1>12, <1>13 DEF Good, Result

\* handle_epoch_staged, of a validator that does not follow the group.
LEMMA StagedOthers ==
    ASSUME NEW s \in State, NEW epoch \in Epochs, NEW group, ~ Follows(s, "SigningRollover", group)
    PROVE  /\ s.rollover.stage = "WaitingForGenesis" =>
                 HandleEpochStaged(s, epoch, group).state.rollover = Idle("EpochSkipped", epoch)
           /\ s.rollover.stage # "WaitingForGenesis" => HandleEpochStaged(s, epoch, group) = Ignored(s)
<1>1. CASE s.rollover.stage = "WaitingForGenesis"
  <2>1. HandleEpochStaged(s, epoch, group).state = SetRollover(s, Idle("EpochSkipped", epoch))
    BY <1>1 DEF HandleEpochStaged, Ignored, Result
  <2>2. Idle("EpochSkipped", epoch) \in RolloverState
    BY RolloverType DEF Stages, Idle
  <2> QED BY <1>1, <2>1, <2>2, SetRolloverType
<1>2. CASE s.rollover.stage # "WaitingForGenesis"
  BY <1>2 DEF HandleEpochStaged
<1> QED BY <1>1, <1>2

\* Message::NewBlock, for a validator that rests and does not roll over.
LEMMA NewBlockRests ==
    ASSUME NEW me, NEW s, NEW block, ReadyForBlock(me, s, block), ~ Rolls(s.rollover, block),
           s.rollover.stage \in Resting
    PROVE  HandleNewBlock(s, me, block).state = s
<1>1. /\ Timely(s.rollover, block)
      /\ HandleNewBlock(s, me, block).state = HandleKeyGenTimeouts(s, me, block).state
  BY NewBlockWaits
<1>2. Ready(me, s, block)
  BY <1>1 DEF Ready, ReadyForBlock
<1>3. ~ IsExpired(s.rollover, block)
  BY DEF IsExpired, Resting
<1>4. HandleKeyGenTimeouts(s, me, block) = Ignored(s)
  BY <1>2, <1>3, TimeoutsGood
<1> QED BY <1>1, <1>4 DEF Ignored, Result

\* Message::NewBlock stages no epoch.
LEMMA NewBlockUnstaged ==
    ASSUME NEW me, NEW s, NEW block, ReadyForBlock(me, s, block)
    PROVE  HandleNewBlock(s, me, block).state.rollover.stage = "EpochStaged" =>
              s.rollover.stage = "EpochStaged" /\ ~ Rolls(s.rollover, block)
<1>1. CASE Rolls(s.rollover, block)
  <2>1. /\ MovedOn(me, RolledOver(s), s.rollover, block, StartNextKeyGen(RolledOver(s), me, block))
        /\ HandleNewBlock(s, me, block).state = StartNextKeyGen(RolledOver(s), me, block).state
    BY <1>1, NewBlockRolls
  <2> QED BY <2>1 DEF MovedOn
<1>2. CASE ~ Rolls(s.rollover, block)
  <2>1. HandleNewBlock(s, me, block).state = HandleKeyGenTimeouts(s, me, block).state
    BY <1>2, NewBlockWaits
  <2>2. s \in State
    BY DEF ReadyForBlock
  <2>3. Unstaged(s, HandleKeyGenTimeouts(s, me, block).state)
    <3>1. Unstaged(s, Ignored(s).state)
      BY DEF Unstaged, Ignored, Result
    <3>2. ASSUME NEW e, NEW x, NEW d PROVE Unstaged(s, RestartKeyGenExcluding(s, me, e, x, d).state)
      BY <2>2, StartUnstaged
    <3>3. ASSUME NEW e PROVE Unstaged(s, Fail(s, e).state)
      BY <2>2, StartUnstaged
    <3> QED BY <3>1, <3>2, <3>3 DEF HandleKeyGenTimeouts
  <2> QED BY <1>2, <2>1, <2>3 DEF Unstaged
<1> QED BY <1>1, <1>2

-----------------------------------------------------------------------------
(* What exactly the rounds of a key generation do to a validator            *)

\* A validator ignores the rounds of a group that is not its own.
LEMMA OthersIgnored ==
    ASSUME NEW s, NEW group, s.rollover.group # group
    PROVE  /\ \A block, p, valid : HandleKeyGenCommitted(s, block, group, p, valid) = Ignored(s)
           /\ \A me, block, p, valid, cheated :
                 HandleKeyGenSecretShared(s, me, block, group, p, valid, cheated) = Ignored(s)
           /\ \A me, block, p : HandleKeyGenConfirmed(s, me, block, group, p) = Ignored(s)
           /\ \A me, block, p, q : HandleKeyGenComplained(s, me, block, group, p, q) = Ignored(s)
           /\ \A me, block, p, q, valid :
                 HandleKeyGenComplaintResponded(s, me, block, group, p, q, valid) = Ignored(s)
<1>1. /\ ~ Follows(s, "CollectingCommitments", group) /\ ~ Follows(s, "CollectingShares", group)
      /\ ~ Follows(s, "CollectingConfirmations", group)
  BY DEF Follows
<1>2. ~ Complainable(s, group)
  BY <1>1 DEF Complainable
<1>3. \A me, block, p, q : HandleKeyGenComplained(s, me, block, group, p, q) = Ignored(s)
  BY <1>2 DEF HandleKeyGenComplained
<1>4. \A me, block, p, q, valid :
         HandleKeyGenComplaintResponded(s, me, block, group, p, q, valid) = Ignored(s)
  BY <1>2 DEF HandleKeyGenComplaintResponded
<1>5. \A me, block, p, valid, cheated :
         HandleKeyGenSecretShared(s, me, block, group, p, valid, cheated) = Ignored(s)
  BY <1>1 DEF HandleKeyGenSecretShared
<1>6. \A me, block, p : HandleKeyGenConfirmed(s, me, block, group, p) = Ignored(s)
  BY <1>1 DEF HandleKeyGenConfirmed
<1>7. \A block, p, valid : HandleKeyGenCommitted(s, block, group, p, valid) = Ignored(s)
  BY <1>1 DEF HandleKeyGenCommitted
<1> QED BY <1>3, <1>4, <1>5, <1>6, <1>7

\* The round goes on: what is kept whatever is counted in it.
SameRound(r, q) ==
    /\ q.stage = r.stage /\ q.group = r.group /\ q.next_epoch = r.next_epoch
    /\ q.participation = r.participation /\ q.deadline = r.deadline

Unmoved(r, q, commands) == q = r /\ commands = {}

CommitEffect(r, q, commands, p, valid) ==
    LET done == IF valid THEN r.commitments \cup {p} ELSE r.commitments IN
    IF r.stage # "CollectingCommitments" THEN Unmoved(r, q, commands)
    ELSE \/ SameRound(r, q) /\ q.commitments = done /\ commands = {}
         \/ /\ q.stage = "CollectingShares" /\ q.group = r.group /\ q.next_epoch = r.next_epoch
            /\ q.participation = r.participation /\ done = r.group.members
            /\ q.shared = {} /\ q.shares = {} /\ q.confirmed = FALSE
            /\ q.complaints = [a \in Participants |-> NoComplaint]
            /\ commands = IF r.participation = "Observing" THEN {} ELSE {KeyGenSecretShare(r.group)}

\* handle_key_gen_committed
LEMMA CommitExactly ==
    ASSUME NEW s \in State, NEW block, NEW group, s.rollover.group = group, NEW p, NEW valid \in BOOLEAN
    PROVE  CommitEffect(s.rollover, HandleKeyGenCommitted(s, block, group, p, valid).state.rollover,
                        HandleKeyGenCommitted(s, block, group, p, valid).commands, p, valid)
<1> DEFINE r == s.rollover
           done == IF valid THEN r.commitments \cup {p} ELSE r.commitments
           result == HandleKeyGenCommitted(s, block, group, p, valid)
<1>1. r \in RolloverState
  BY DEF State
<1>2. CASE r.stage # "CollectingCommitments"
  BY <1>2 DEF HandleKeyGenCommitted, Follows, Ignored, Result, CommitEffect, Unmoved
<1>3. CASE r.stage = "CollectingCommitments" /\ (done # group.members \/ r.participation = "Setup")
  <2> DEFINE q == [r EXCEPT !.commitments = done]
  <2>1. result.state = [s EXCEPT !.rollover = q] /\ result.commands = {}
    BY <1>3 DEF HandleKeyGenCommitted, Follows, Ignored, Result
  <2> HIDE DEF result, done
  <2>2. SameRound(r, q) /\ q.commitments = done
    BY <1>1 DEF RolloverState, SameRound
  <2> HIDE DEF q
  <2>3. result.state.rollover = q
    BY <2>1 DEF State
  <2> QED BY <1>3, <2>1, <2>2, <2>3 DEF CommitEffect, result, done
<1>4. CASE r.stage = "CollectingCommitments" /\ done = group.members /\ r.participation # "Setup"
  <2> DEFINE q == Rollover("CollectingShares", r.next_epoch, r.group, r.participation, After(r, block))
  <2>1. /\ result.state = SetRollover(s, q)
        /\ result.commands = IF r.participation = "Observing" THEN {} ELSE {KeyGenSecretShare(r.group)}
    BY <1>4 DEF HandleKeyGenCommitted, Follows, FinalizeCommitments, Result
  <2>2. /\ q.stage = "CollectingShares" /\ q.group = r.group /\ q.next_epoch = r.next_epoch
        /\ q.participation = r.participation /\ q.shared = {} /\ q.shares = {} /\ q.confirmed = FALSE
        /\ q.complaints = [a \in Participants |-> NoComplaint]
    BY DEF Rollover
  <2> HIDE DEF q
  <2>3. result.state.rollover = q
    BY <2>1 DEF SetRollover, State
  <2> QED BY <1>4, <2>1, <2>2, <2>3 DEF CommitEffect
<1> QED BY <1>2, <1>3, <1>4

\* The validator's own part in a round of shares: what it learns from p's.
OwnShares(me, r, p, valid, cheated) ==
    IF valid /\ r.participation = "Participating" /\ me \notin cheated THEN r.shares \cup {p} ELSE r.shares

ShareEffect(me, r, q, commands, block, p, valid, cheated) ==
    LET shared == IF valid THEN r.shared \cup {p} ELSE r.shared
        complaint == IF valid /\ r.participation = "Participating" /\ me \in cheated
                     THEN {KeyGenComplain(r.group, p)} ELSE {}
    IN
    IF r.stage # "CollectingShares" THEN Unmoved(r, q, commands)
    ELSE /\ q.group = r.group /\ q.next_epoch = r.next_epoch /\ q.participation = r.participation
         /\ q.complaints = r.complaints /\ q.shares = OwnShares(me, r, p, valid, cheated)
         /\ \/ SameRound(r, q) /\ q.shared = shared /\ q.confirmed = r.confirmed /\ commands = complaint
            \/ /\ q.stage = "CollectingConfirmations" /\ shared = r.group.members
               /\ q.confirmations = {} /\ q.deadline = After(r, block)
               /\ q.confirmed = (r.participation = "Participating" /\ q.shares = r.group.members)
               /\ commands = (IF q.confirmed THEN {KeyGenConfirm(r.group)} ELSE {}) \cup complaint

\* handle_key_gen_secret_shared
LEMMA ShareExactly ==
    ASSUME NEW me, NEW s, NEW block, Ready(me, s, block), NEW group \in Group, s.rollover.group = group,
           NEW p \in group.members, NEW valid \in BOOLEAN, NEW cheated
    PROVE  ShareEffect(me, s.rollover,
                       HandleKeyGenSecretShared(s, me, block, group, p, valid, cheated).state.rollover,
                       HandleKeyGenSecretShared(s, me, block, group, p, valid, cheated).commands,
                       block, p, valid, cheated)
<1> DEFINE r == s.rollover
           shared == IF valid THEN r.shared \cup {p} ELSE r.shared
           shares == OwnShares(me, r, p, valid, cheated)
           complaint == IF valid /\ r.participation = "Participating" /\ me \in cheated
                        THEN {KeyGenComplain(group, p)} ELSE {}
           result == HandleKeyGenSecretShared(s, me, block, group, p, valid, cheated)
<1>1. s \in State /\ r \in RolloverState /\ Shape(me, r) /\ block \in Nat /\ p \in Participants
  BY DEF Ready, State, Group
<1>2. CASE r.stage # "CollectingShares"
  BY <1>2 DEF HandleKeyGenSecretShared, Follows, Ignored, Result, ShareEffect, Unmoved
<1>3. CASE r.stage = "CollectingShares" /\ shared # group.members
  <2> DEFINE q == [r EXCEPT !.shared = shared, !.shares = shares]
  <2>1. result.state = [s EXCEPT !.rollover = q] /\ result.commands = complaint
    <3>1. result = Result([s EXCEPT !.rollover.shared = shared, !.rollover.shares = shares], complaint)
      BY <1>3 DEF HandleKeyGenSecretShared, Follows, OwnShares
    <3>2. [s EXCEPT !.rollover.shared = shared, !.rollover.shares = shares] = [s EXCEPT !.rollover = q]
      BY <1>1 DEF State, RolloverState
    <3> QED BY <3>1, <3>2 DEF Result
  <2> HIDE DEF result, shared, shares, complaint
  <2>2. /\ SameRound(r, q) /\ q.shared = shared /\ q.shares = shares /\ q.complaints = r.complaints
        /\ q.confirmed = r.confirmed
    BY <1>1 DEF RolloverState, SameRound
  <2> HIDE DEF q
  <2>3. result.state.rollover = q
    BY <1>1, <2>1 DEF State
  <2> QED BY <1>3, <2>1, <2>2, <2>3 DEF ShareEffect, SameRound, result, shared, shares, complaint
<1>4. CASE r.stage = "CollectingShares" /\ shared = group.members
  <2> DEFINE next == StartConfirmations(s, r, block, shares)
  <2>1. result.state = next.state /\ result.commands = next.commands \cup complaint
    BY <1>4 DEF HandleKeyGenSecretShared, Follows, OwnShares, Result
  <2>2. shares \in SUBSET Participants /\ r.group.members # {}
    BY <1>1 DEF OwnShares, RolloverState
  <2> HIDE DEF result, next, shared, shares, complaint
  <2>3. ConfirmationsStarted(me, s, r, block, shares, next)
    BY <1>1, <1>4, <2>2, StartConfirmationsTurn DEF next
  <2> DEFINE q == next.state.rollover
  <2>4. /\ q.next_epoch = r.next_epoch /\ q.group = r.group /\ q.stage = "CollectingConfirmations"
        /\ q.deadline = After(r, block) /\ q.confirmations = {} /\ q.complaints = r.complaints
        /\ q.shares = shares /\ q.participation = r.participation
        /\ q.confirmed = (r.participation = "Participating" /\ q.shares = r.group.members)
        /\ next.commands = IF q.confirmed THEN {KeyGenConfirm(r.group)} ELSE {}
    BY <2>3 DEF ConfirmationsStarted
  <2> HIDE DEF q
  <2>5. result.state.rollover = q
    BY <2>1 DEF q
  <2>6. result.commands = (IF q.confirmed THEN {KeyGenConfirm(r.group)} ELSE {}) \cup complaint
    BY <2>1, <2>4
  <2> QED BY <1>4, <2>4, <2>5, <2>6 DEF ShareEffect, result, shared, shares, complaint
<1> QED BY <1>2, <1>3, <1>4

\* The validator has left the group, without the others if it has a new one.
Leaves(r, q, others) ==
    /\ q.group # r.group
    /\ q.group # NoGroup => q.group.epoch = r.group.epoch /\ q.group.members = r.group.members \ others

\* Or it is at the first key generation after the genesis one.
LeavesGenesis(r, q) ==
    /\ q.group # r.group
    /\ q.group # NoGroup => q.group.members = Configured[q.group.epoch]

ConfirmEffect(r, q, commands, p) ==
    IF r.stage # "CollectingConfirmations" THEN Unmoved(r, q, commands)
    ELSE \/ /\ SameRound(r, q) /\ q.confirmations = r.confirmations \cup {p}
            /\ q.complaints = r.complaints /\ q.shares = r.shares /\ q.confirmed = r.confirmed
            /\ commands = {}
         \/ /\ q.stage = "SigningRollover" /\ q.group = r.group
            /\ r.confirmations \cup {p} = r.group.members /\ commands = {}
         \/ LeavesGenesis(r, q)

\* handle_key_gen_confirmed
LEMMA ConfirmExactly ==
    ASSUME NEW me, NEW s, NEW block, Ready(me, s, block), NEW group \in Group, s.rollover.group = group,
           NEW p \in group.members
    PROVE  ConfirmEffect(s.rollover, HandleKeyGenConfirmed(s, me, block, group, p).state.rollover,
                         HandleKeyGenConfirmed(s, me, block, group, p).commands, p)
<1> DEFINE r == s.rollover
           confirmations == r.confirmations \cup {p}
           result == HandleKeyGenConfirmed(s, me, block, group, p)
<1>1. s \in State /\ r \in RolloverState /\ Shape(me, r) /\ block \in Nat /\ group # NoGroup
  BY NoGroupAssumption DEF Ready, State, Group
<1>2. CASE r.stage # "CollectingConfirmations"
  BY <1>2 DEF HandleKeyGenConfirmed, Follows, Ignored, Result, ConfirmEffect, Unmoved
<1>3. CASE r.stage = "CollectingConfirmations" /\ confirmations # group.members
  <2> DEFINE q == [r EXCEPT !.confirmations = confirmations]
  <2>1. result.state = [s EXCEPT !.rollover = q] /\ result.commands = {}
    BY <1>3 DEF HandleKeyGenConfirmed, Follows, Ignored, Result
  <2> HIDE DEF result, confirmations
  <2>2. /\ SameRound(r, q) /\ q.confirmations = confirmations /\ q.complaints = r.complaints
        /\ q.shares = r.shares /\ q.confirmed = r.confirmed
    BY <1>1 DEF RolloverState, SameRound
  <2> HIDE DEF q
  <2>3. result.state.rollover = q
    BY <1>1, <2>1 DEF State
  <2> QED BY <1>3, <2>1, <2>2, <2>3 DEF ConfirmEffect, result, confirmations
<1>4. CASE r.stage = "CollectingConfirmations" /\ confirmations = group.members /\ r.next_epoch = Genesis
  <2> DEFINE t == RecordEpoch(s, Genesis, group, r.confirmed)
  <2>1. result = StartNextKeyGen(t, me, block)
    BY <1>4 DEF HandleKeyGenConfirmed, Follows
  <2>2. t \in State
    <3>1. r.confirmed \in BOOLEAN
      BY <1>1 DEF RolloverState
    <3> QED BY <1>1, <3>1, RecordEpochType, EpochsAssumption
  <2>3. r.next_epoch < NextNumber(block) /\ NextNumber(block) \in Epochs
    BY <1>1, <1>4, NextNumberPositive DEF Ready
  <2> HIDE DEF t, result
  <2>4. MovedOn(me, t, r, block, result)
    BY <1>1, <2>1, <2>2, <2>3, NextTurn
  <2> DEFINE q == result.state.rollover
  <2>5. /\ Shape(me, q) /\ q.next_epoch = NextNumber(block) /\ q.stage \in {"CollectingCommitments", "EpochSkipped"}
        /\ q.stage = "CollectingCommitments" => q.group = GroupOf(NextNumber(block), {})
    BY <2>4 DEF MovedOn, Turn
  <2> HIDE DEF q
  <2>6. LeavesGenesis(r, q)
    <3>1. q.group # NoGroup => q.stage = "CollectingCommitments" /\ q.group.epoch = q.next_epoch
      BY <2>5 DEF Shape, Busy
    <3>2. q.group # NoGroup => q.group.members = Configured[q.group.epoch]
      BY <2>3, <2>5, <3>1 DEF GroupOf
    <3>3. r.group.epoch = Genesis /\ q.next_epoch # Genesis
      BY <1>1, <1>4, <2>5, NextNumberPositive DEF Shape
    <3>4. q.group # r.group
      BY <1>1, <3>1, <3>3
    <3> QED BY <3>2, <3>4 DEF LeavesGenesis
  <2> QED BY <1>4, <2>6 DEF ConfirmEffect, q, result
<1>5. CASE r.stage = "CollectingConfirmations" /\ confirmations = group.members /\ r.next_epoch # Genesis
  <2> DEFINE q == SigningOf(r, s.active_epoch)
  <2>1. result.state = [s EXCEPT !.rollover = q] /\ result.commands = {}
    BY <1>5 DEF HandleKeyGenConfirmed, Follows, Ignored, Result, SetRollover, SigningOf
  <2> HIDE DEF result
  <2>2. q.stage = "SigningRollover" /\ q.group = r.group
    BY <1>1, <1>5, SigningRolloverTurn
  <2> HIDE DEF q
  <2>3. result.state.rollover = q
    BY <1>1, <2>1 DEF State
  <2> QED BY <1>5, <2>1, <2>2, <2>3 DEF ConfirmEffect, result
<1> QED BY <1>2, <1>3, <1>4, <1>5

ComplainEffect(me, r, q, commands, block, plaintiff, accused) ==
    LET required == RequiresResponse(r, block)
        new == CountComplaint(r.complaints[accused], plaintiff, required)
    IN
    IF r.stage \notin {"CollectingShares", "CollectingConfirmations"} THEN Unmoved(r, q, commands)
    ELSE \/ /\ SameRound(r, q) /\ ~ (new.total >= GroupThreshold(r.group.members))
            /\ q.complaints = [r.complaints EXCEPT ![accused] = new]
            /\ q.shared = r.shared /\ q.shares = r.shares
            /\ q.confirmations = r.confirmations /\ q.confirmed = r.confirmed
            /\ commands = IF r.participation = "Participating" /\ accused = me /\ required
                          THEN {KeyGenComplaintResponse(r.group, plaintiff)} ELSE {}
         \/ new.total >= GroupThreshold(r.group.members) /\ Leaves(r, q, {accused})

\* handle_key_gen_complained
LEMMA ComplainExactly ==
    ASSUME NEW me, NEW s, NEW block, Ready(me, s, block), NEW group \in Group, s.rollover.group = group,
           NEW plaintiff \in Participants, NEW accused \in group.members
    PROVE  ComplainEffect(me, s.rollover,
               HandleKeyGenComplained(s, me, block, group, plaintiff, accused).state.rollover,
               HandleKeyGenComplained(s, me, block, group, plaintiff, accused).commands,
               block, plaintiff, accused)
<1> DEFINE r        == s.rollover
           required == RequiresResponse(r, block)
           new      == CountComplaint(r.complaints[accused], plaintiff, required)
           q        == [r EXCEPT !.complaints[accused] = new]
           counted  == [s EXCEPT !.rollover = q]
           result   == HandleKeyGenComplained(s, me, block, group, plaintiff, accused)
<1>1. /\ s \in State /\ r \in RolloverState /\ Shape(me, r) /\ block \in Nat /\ group # NoGroup
      /\ accused \in Participants
  BY NoGroupAssumption DEF Ready, State, Group
<1>2. Complainable(s, group) <=> r.stage \in {"CollectingShares", "CollectingConfirmations"}
  BY DEF Complainable, Follows
<1>3. CASE ~ Complainable(s, group)
  BY <1>2, <1>3 DEF HandleKeyGenComplained, Ignored, Result, ComplainEffect, Unmoved
<1>4. [s EXCEPT !.rollover.complaints[accused] = new] = counted
  BY <1>1 DEF State, RolloverState
<1>5. r.complaints[accused] \in [total : Nat, unresponded : SUBSET Participants]
  BY <1>1 DEF RolloverState
<1>6. new \in [total : Nat, unresponded : SUBSET Participants]
  BY <1>5 DEF CountComplaint
<1>7. CASE Complainable(s, group) /\ ~ (new.total >= GroupThreshold(group.members))
  <2>1. /\ result.state = counted
        /\ result.commands = IF r.participation = "Participating" /\ accused = me /\ required
                             THEN {KeyGenComplaintResponse(group, plaintiff)} ELSE {}
    BY <1>4, <1>7 DEF HandleKeyGenComplained, Result
  <2> HIDE DEF new, result, required
  <2>2. /\ SameRound(r, q) /\ q.complaints = [r.complaints EXCEPT ![accused] = new]
        /\ q.shared = r.shared /\ q.shares = r.shares
        /\ q.confirmations = r.confirmations /\ q.confirmed = r.confirmed
    BY <1>1 DEF RolloverState, SameRound
  <2>3. result.state.rollover = q
    <3> HIDE DEF q
    <3> QED BY <1>1, <2>1 DEF State
  <2> HIDE DEF q
  <2> QED BY <1>2, <1>7, <2>1, <2>2, <2>3 DEF ComplainEffect, result, new, required
<1>8. CASE Complainable(s, group) /\ new.total >= GroupThreshold(group.members)
  <2>1. result = RestartKeyGenExcluding(counted, me, r.next_epoch, AlsoExclude(group, {accused}),
                                        block + KeyGenTimeout)
    BY <1>4, <1>8 DEF HandleKeyGenComplained
  <2>2. group.members \cap {accused} # {} /\ block + KeyGenTimeout \in Nat
    BY <1>1, KeyGenTimeoutAssumption
  <2>3. q \in RolloverState
    <3> HIDE DEF new
    <3> QED BY <1>1, <1>6 DEF RolloverState, Group
  <2> HIDE DEF result, q
  <2>4. counted \in State
    BY <1>1, <2>3, FieldsSet
  <2> HIDE DEF counted
  <2>5. Restarted(me, counted, r, {accused}, result)
    BY <1>1, <2>1, <2>2, <2>4, RestartTurn
  <2>6. Leaves(r, result.state.rollover, {accused})
    BY <1>1, <2>5 DEF Restarted, Leaves, Turn, Shape
  <2> QED BY <1>2, <1>8, <2>6 DEF ComplainEffect, result
<1> QED BY <1>3, <1>7, <1>8

\* An answer to a complaint that the validator still waits for.
Awaited(r, block, plaintiff, accused) ==
    /\ r.stage \in {"CollectingShares", "CollectingConfirmations"}
    /\ r.stage = "CollectingConfirmations" /\ Timed(r) => block <= ResponseDeadline(r)
    /\ plaintiff \in r.complaints[accused].unresponded

RespondEffect(me, r, q, commands, block, plaintiff, accused, valid) ==
    LET shares == IF plaintiff = me /\ ~ r.confirmed THEN r.shares \cup {accused} ELSE r.shares
        completes == /\ r.stage = "CollectingConfirmations" /\ r.participation = "Participating"
                     /\ ~ r.confirmed /\ shares = r.group.members
    IN
    IF ~ Awaited(r, block, plaintiff, accused) THEN Unmoved(r, q, commands)
    ELSE \/ /\ valid /\ SameRound(r, q)
            /\ q.complaints = [r.complaints EXCEPT ![accused].unresponded = @ \ {plaintiff}]
            /\ q.shared = r.shared /\ q.shares = shares /\ q.confirmations = r.confirmations
            /\ q.confirmed = (r.confirmed \/ completes)
            /\ commands = IF completes THEN {KeyGenConfirm(r.group)} ELSE {}
         \/ ~ valid /\ Leaves(r, q, {accused})

\* handle_key_gen_complaint_responded
LEMMA RespondExactly ==
    ASSUME NEW me, NEW s, NEW block, Ready(me, s, block), NEW group \in Group, s.rollover.group = group,
           NEW plaintiff \in Participants, NEW accused \in group.members, NEW valid \in BOOLEAN
    PROVE  RespondEffect(me, s.rollover,
               HandleKeyGenComplaintResponded(s, me, block, group, plaintiff, accused, valid).state.rollover,
               HandleKeyGenComplaintResponded(s, me, block, group, plaintiff, accused, valid).commands,
               block, plaintiff, accused, valid)
<1> DEFINE r       == s.rollover
           shares  == IF plaintiff = me /\ ~ r.confirmed THEN r.shares \cup {accused} ELSE r.shares
           completes == /\ r.stage = "CollectingConfirmations" /\ r.participation = "Participating"
                        /\ ~ r.confirmed /\ shares = r.group.members
           complaints == [r.complaints EXCEPT ![accused].unresponded = @ \ {plaintiff}]
           m       == [r EXCEPT !.complaints = complaints]
           q       == [m EXCEPT !.shares = shares]
           settled == [s EXCEPT !.rollover = m]
           shared  == [s EXCEPT !.rollover = q]
           result  == HandleKeyGenComplaintResponded(s, me, block, group, plaintiff, accused, valid)
<1>1. /\ s \in State /\ r \in RolloverState /\ Shape(me, r) /\ block \in Nat /\ group # NoGroup
      /\ accused \in Participants
  BY NoGroupAssumption DEF Ready, State, Group
<1>2. Complainable(s, group) <=> r.stage \in {"CollectingShares", "CollectingConfirmations"}
  BY DEF Complainable, Follows
<1>3. CASE ~ Awaited(r, block, plaintiff, accused)
  <2>1. result = Ignored(s)
    BY <1>2, <1>3 DEF HandleKeyGenComplaintResponded, Awaited
  <2> HIDE DEF result
  <2>2. Unmoved(r, result.state.rollover, result.commands)
    BY <2>1 DEF Ignored, Result, Unmoved
  <2> QED BY <1>3, <2>2 DEF RespondEffect, result
<1>4. r.complaints[accused] \in [total : Nat, unresponded : SUBSET Participants]
  BY <1>1 DEF RolloverState
<1>5. Settle(s, plaintiff, accused) = settled
  BY <1>1 DEF Settle, State, RolloverState
<1>6. complaints \in [Participants -> [total : Nat, unresponded : SUBSET Participants]]
  BY <1>1, <1>4 DEF RolloverState
<1>7. /\ m \in RolloverState /\ SameRound(r, m) /\ m.complaints = complaints /\ m.shares = r.shares
      /\ m.shared = r.shared /\ m.confirmations = r.confirmations /\ m.confirmed = r.confirmed
  <2> HIDE DEF complaints
  <2> QED BY <1>1, <1>6 DEF RolloverState, Group, SameRound
<1>8. CASE Awaited(r, block, plaintiff, accused) /\ valid
  <2>1. shares \in SUBSET Participants
    BY <1>1 DEF RolloverState
  <2>2. [settled EXCEPT !.rollover.shares = shares] = shared
    BY <1>1 DEF State
  <2>3. result = ConfirmIfComplete(shared, group)
    BY <1>2, <1>5, <1>8, <2>2 DEF HandleKeyGenComplaintResponded, Awaited
  <2> HIDE DEF shares, m, result
  <2>4. /\ q \in RolloverState /\ SameRound(m, q) /\ q.complaints = m.complaints /\ q.shares = shares
        /\ q.shared = m.shared /\ q.confirmations = m.confirmations /\ q.confirmed = m.confirmed
    BY <1>7, <2>1 DEF RolloverState, Group, SameRound
  <2> HIDE DEF q, complaints
  <2>5. shared \in State /\ shared.rollover = q
    BY <1>1, <2>4, FieldsSet
  <2>6. completes <=> (q.stage = "CollectingConfirmations" /\ q.participation = "Participating"
                        /\ ~ q.confirmed /\ q.shares = group.members)
    BY <1>7, <2>4 DEF SameRound
  <2> HIDE DEF shared, completes
  <2>7. CASE ~ completes
    <3>1. result.state = shared /\ result.commands = {}
      BY <2>3, <2>5, <2>6, <2>7 DEF ConfirmIfComplete, Ignored, Result
    <3>2. q.confirmed = (r.confirmed \/ completes)
      <4>1. r.confirmed \in BOOLEAN /\ q.confirmed = r.confirmed
        BY <1>1, <1>7, <2>4 DEF RolloverState
      <4> QED BY <2>7, <4>1, Zenon
    <3>3. SameRound(r, q)
      BY <1>7, <2>4 DEF SameRound
    <3>4. RespondEffect(me, r, q, {}, block, plaintiff, accused, valid)
      BY <1>7, <1>8, <2>4, <2>7, <3>2, <3>3 DEF RespondEffect, completes, shares, complaints
    <3> QED BY <2>5, <3>1, <3>4 DEF result
  <2>8. CASE completes
    <3> DEFINE w == [q EXCEPT !.confirmed = TRUE]
    <3>1. result.state = [shared EXCEPT !.rollover = w] /\ result.commands = {KeyGenConfirm(group)}
      BY <2>3, <2>5, <2>6, <2>8 DEF ConfirmIfComplete, ConfirmKeyGen, Result
    <3>2. /\ SameRound(q, w) /\ w.complaints = q.complaints /\ w.shares = q.shares
          /\ w.shared = q.shared /\ w.confirmations = q.confirmations /\ w.confirmed = TRUE
          /\ w \in RolloverState
      BY <2>4 DEF RolloverState, Group, SameRound
    <3> HIDE DEF w
    <3>3. result.state.rollover = w
      BY <2>5, <3>1, <3>2, FieldsSet
    <3>4. w.confirmed = (r.confirmed \/ completes)
      BY <2>8, <3>2
    <3>5. SameRound(r, w)
      BY <1>7, <2>4, <3>2 DEF SameRound
    <3>6. RespondEffect(me, r, w, {KeyGenConfirm(group)}, block, plaintiff, accused, valid)
      BY <1>7, <1>8, <2>4, <2>8, <3>2, <3>4, <3>5 DEF RespondEffect, completes, shares, complaints
    <3> QED BY <3>1, <3>3, <3>6 DEF result
  <2> QED BY <2>7, <2>8
<1>9. CASE Awaited(r, block, plaintiff, accused) /\ ~ valid
  <2>1. result = RestartKeyGenExcluding(settled, me, r.next_epoch, AlsoExclude(group, {accused}),
                                        block + KeyGenTimeout)
    BY <1>2, <1>5, <1>9 DEF HandleKeyGenComplaintResponded, Awaited
  <2>2. group.members \cap {accused} # {} /\ block + KeyGenTimeout \in Nat
    BY <1>1, KeyGenTimeoutAssumption
  <2> HIDE DEF result, m
  <2>3. settled \in State
    BY <1>1, <1>7, FieldsSet
  <2> HIDE DEF settled
  <2>4. Restarted(me, settled, r, {accused}, result)
    BY <1>1, <2>1, <2>2, <2>3, RestartTurn
  <2>5. Leaves(r, result.state.rollover, {accused})
    BY <1>1, <2>4 DEF Restarted, Leaves, Turn, Shape
  <2> QED BY <1>9, <2>5 DEF RespondEffect, result
<1> QED BY <1>3, <1>8, <1>9

BlockEffect(r, q, commands, block) ==
    IF Rolls(r, block)
    THEN q.group # NoGroup => q.group # r.group /\ q.group.members = Configured[q.group.epoch]
    ELSE IF Timed(r) /\ IsExpired(r, block) THEN Leaves(r, q, Stalled(r))
    ELSE Unmoved(r, q, commands)

\* Message::NewBlock
LEMMA BlockExactly ==
    ASSUME NEW me, NEW s, NEW block, ReadyForBlock(me, s, block)
    PROVE  BlockEffect(s.rollover, HandleNewBlock(s, me, block).state.rollover,
                       HandleNewBlock(s, me, block).commands, block)
<1> DEFINE r == s.rollover
           result == HandleNewBlock(s, me, block)
           q == result.state.rollover
<1>1. CASE Rolls(r, block)
  <2> DEFINE t == RolledOver(s)
             started == StartNextKeyGen(t, me, block)
  <2>1. MovedOn(me, t, r, block, started) /\ result.state = started.state
    BY <1>1, NewBlockRolls
  <2> HIDE DEF started, t, result
  <2>2. /\ q.next_epoch = NextNumber(block) /\ Shape(me, q) /\ Shape(me, r)
        /\ q.stage \in {"CollectingCommitments", "EpochSkipped"}
        /\ q.stage = "CollectingCommitments" => q.group = GroupOf(NextNumber(block), {})
    BY <2>1 DEF MovedOn, Turn, ReadyForBlock
  <2>3. ASSUME q.group # NoGroup PROVE q.group # r.group /\ q.group.members = Configured[q.group.epoch]
    <3>1. q.group = GroupOf(NextNumber(block), {})
      BY <2>2, <2>3 DEF Shape, Busy
    <3>2. q.group.epoch = NextNumber(block) /\ q.group.members = Configured[q.group.epoch]
      BY <3>1 DEF GroupOf
    <3>3. r.next_epoch # NextNumber(block)
      <4>1. r.next_epoch \in Nat
        BY <2>2, EpochsAssumption DEF Shape, RolloverState
      <4> QED BY <1>1, <4>1 DEF Rolls
    <3>4. r.group # NoGroup => r.group.epoch = r.next_epoch
      BY <2>2 DEF Shape
    <3> QED BY <2>3, <3>2, <3>3, <3>4
  <2> QED BY <1>1, <2>3 DEF BlockEffect, result
<1>2. CASE ~ Rolls(r, block)
  <2> DEFINE timed == HandleKeyGenTimeouts(s, me, block)
  <2>1. Timely(r, block) /\ result.state = timed.state /\ result.commands = timed.commands
    BY <1>2, NewBlockWaits
  <2>2. Ready(me, s, block)
    BY <2>1 DEF Ready, ReadyForBlock
  <2>3. IF Timed(r) /\ IsExpired(r, block) THEN Restarted(me, s, r, Stalled(r), timed)
        ELSE timed = Ignored(s)
    BY <2>2, TimeoutsGood
  <2> HIDE DEF timed, result
  <2>4. CASE Timed(r) /\ IsExpired(r, block)
    <3>1. Restarted(me, s, r, Stalled(r), timed) /\ r.group # NoGroup /\ Shape(me, r)
      BY <2>2, <2>3, <2>4, StalledMembers DEF Ready
    <3>2. Leaves(r, q, Stalled(r))
      BY <2>1, <3>1 DEF Restarted, Leaves, Turn, Shape
    <3> QED BY <1>2, <2>4, <3>2 DEF BlockEffect, result
  <2>5. CASE ~ (Timed(r) /\ IsExpired(r, block))
    <3>1. Unmoved(r, q, result.commands)
      BY <2>1, <2>3, <2>5 DEF Unmoved, Ignored, Result
    <3> QED BY <1>2, <2>5, <3>1 DEF BlockEffect, result
  <2> QED BY <2>4, <2>5
<1> QED BY <1>1, <1>2
=============================================================================
