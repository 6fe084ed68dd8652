------------------------ MODULE KeyGenNetworkProofs ------------------------
(***************************************************************************)
(* The safety of KeyGenNetwork, for every set of validators, of which fewer *)
(* than sign for a group are faulty, every configuration of the epochs and  *)
(* every deadline. The inductive invariant is built in layers, each proved  *)
(* from the ones before.                                                    *)
(***************************************************************************)
EXTENDS KeyGenNetwork, KeyGenProofs

Roll(v) == view[v].rollover

ContractGroup ==
    [status : {"COMMITTING", "SHARING", "CONFIRMING", "FINALIZED", "COMPROMISED"},
     registered : SUBSET Participants, keys : SUBSET Participants, confirmed : SUBSET Participants,
     complaints : SUBSET [plaintiff : Participants, accused : Participants],
     responded : SUBSET [plaintiff : Participants, accused : Participants]]

TypesOK ==
    /\ block \in 0 .. MaxBlock
    /\ \A g \in DOMAIN groups : g \in Group
    /\ consensus \in [active : Epochs, staged : Epochs, rollover_block : Nat]
    /\ group_of \in [Epochs -> Group \cup {NoGroup}]
    /\ group_of[Genesis] = GenesisGroup
    /\ \A e \in Epochs : group_of[e] # NoGroup => Formed(group_of[e])
    /\ view \in [Honest -> State]
    /\ asleep \subseteq Joiners /\ joined \subseteq Joiners \ asleep

Transaction(v, c) == [from |-> v, c |-> c]

\* A validator's rollover is well formed, and is that of the epoch of the block.
ViewsOK ==
    \A v \in Honest :
        /\ Shape(v, Roll(v))
        /\ v \in asleep => view[v] = InitialState
        /\ Roll(v).stage # "WaitingForGenesis" /\ Roll(v).next_epoch # Genesis =>
              Roll(v).next_epoch = NextNumber(block)
        /\ GenesisGroup \notin DOMAIN groups => Roll(v).stage = "WaitingForGenesis"
        /\ Roll(v).participation = "Setup" => Transaction(v, KeyGenSetup(Roll(v).group)) \in effects

QueuesOK ==
    /\ \A x \in effects :
          /\ x = Transaction(x.from, KeyGenSetup(x.c.group))
          /\ x.from \in Honest /\ Roll(x.from).group = x.c.group
          /\ Roll(x.from).participation = "Setup"
    /\ \A x \in pool :
          /\ x = Transaction(x.from, x.c) /\ x.from \in Honest
          /\ x.c \in Command /\ ~ IsEffect(x.c) /\ Formed(x.c.group)
          /\ Reached(Roll(x.from), x.c.group)

\* The groups of the chain and of the pool are ones that the validators have reached.
GroupsOK ==
    /\ \A g \in DOMAIN groups : Formed(g) /\ g.epoch <= NextNumber(block)
    /\ \A u \in Steady :
          /\ \A g \in DOMAIN groups : Reached(Roll(u), g)
          /\ \A x \in pool : Reached(Roll(u), x.c.group)

\* HonestAgree, and a validator that joined late waits for the next epoch.
AgreeOK ==
    \A u \in Steady, v \in Honest \ asleep :
        \/ Common(Roll(u)) = Common(Roll(v))
        \/ v \in joined /\ Roll(v).stage = "WaitingForGenesis"
        \/ /\ v \in joined /\ Roll(v).stage = "EpochSkipped"
           /\ Roll(u).stage = "EpochStaged" /\ Roll(v).next_epoch = Roll(u).next_epoch

SyncOK ==
    /\ consensus.staged # Genesis => consensus.rollover_block = RolloverBlock(consensus.staged)
    /\ \A v \in Steady :
          /\ view[v].active_epoch = EpochsWithRollover.active
          /\ Roll(v).stage = "EpochStaged" <=> EpochsWithRollover.staged # Genesis
          /\ Roll(v).stage = "EpochStaged" => Roll(v).next_epoch = EpochsWithRollover.staged
          /\ view[v].active_epoch < NextNumber(block)

\* A group as the coordinator keeps it: what is done in its rounds.
GroupOK(g, G) ==
    /\ G \in ContractGroup
    /\ G.registered \subseteq g.members /\ G.keys \subseteq G.registered
    /\ G.confirmed \subseteq G.registered
    /\ G.complaints \subseteq [plaintiff : G.registered, accused : G.registered]
    /\ G.responded \subseteq G.complaints
    /\ G.status = "COMMITTING" => G.keys = {} /\ G.complaints = {}
    /\ G.status # "COMMITTING" => G.registered = g.members
    /\ G.status \in {"COMMITTING", "SHARING"} => G.confirmed = {}
    /\ G.status \in {"CONFIRMING", "FINALIZED"} => G.keys = g.members
    /\ G.status = "FINALIZED" => G.confirmed = g.members
    /\ G.status = "COMPROMISED" =>
          \E a \in Participants : Accusations(G, a) >= GroupThreshold(g.members)
    /\ \A c \in G.complaints \ G.responded : c.plaintiff \notin G.confirmed

ContractOK == \A g \in DOMAIN groups : GroupOK(g, groups[g])

Inv1 == TypesOK /\ ContractOK /\ ViewsOK /\ QueuesOK /\ GroupsOK /\ AgreeOK /\ SyncOK

-----------------------------------------------------------------------------
(* Arithmetic, and what Consensus makes of the block                        *)

\* HonestAgree compares just what the handlers depend on.
LEMMA CommonAlike ==
    ASSUME NEW r, NEW t
    PROVE  Common(r) = Common(t) <=> Alike(r, t)
  BY DEF Common, Alike

\* An epoch has begun at a block when its rollover block has passed.
LEMMA RolloverBlockPassed ==
    ASSUME NEW e \in Nat, NEW b \in Nat
    PROVE  RolloverBlock(e) \in Nat /\ (RolloverBlock(e) <= b <=> e < NextNumber(b))
<1> DEFINE k == BlocksPerEpoch
           n == b \div k
<1>1. k \in Nat /\ k > 0
  BY BlocksPerEpochAssumption
<1>2. n \in Nat /\ n * k <= b /\ b < (n + 1) * k
  BY <1>1
<1>3. RolloverBlock(e) = e * k /\ NextNumber(b) = 1 + n
  BY DEF RolloverBlock, NextNumber
<1> HIDE DEF k, n
<1>4. e * k \in Nat /\ n * k \in Nat /\ (n + 1) * k \in Nat
  BY <1>1, <1>2
<1>5. ASSUME e * k <= b PROVE e < 1 + n
  <2>1. e * k < (n + 1) * k
    BY <1>2, <1>4, <1>5
  <2>2. e < n + 1
    BY <1>1, <1>2, <2>1
  <2> QED BY <1>2, <2>2
<1>6. ASSUME e < 1 + n PROVE e * k <= b
  <2>1. e <= n
    BY <1>2, <1>6
  <2>2. e * k <= n * k
    BY <1>1, <1>2, <2>1
  <2> QED BY <1>2, <1>4, <2>2
<1> QED BY <1>3, <1>4, <1>5, <1>6

\* A rollover that the contract accepts is that of the epoch of the block.
LEMMA ValidRolloverEpoch ==
    ASSUME block \in Nat, NEW e \in Nat, e <= NextNumber(block), IsValidRollover(e)
    PROVE  e = NextNumber(block)
<1>1. ~ (RolloverBlock(e) <= block) /\ NextNumber(block) \in Nat
  BY RolloverBlockPassed, NextNumberPositive DEF IsValidRollover
<1> QED BY <1>1, RolloverBlockPassed

\* The epochs of Consensus are epochs.
LEMMA EpochsWithRolloverType ==
    ASSUME TypesOK
    PROVE  EpochsWithRollover \in [active : Epochs, staged : Epochs, rollover_block : Nat]
  BY EpochsAssumption DEF EpochsWithRollover, TypesOK

\* Fewer faulty members than the threshold: somebody honest is among that many.
LEMMA FaultyMinority ==
    ASSUME NEW g, Formed(g)
    PROVE  /\ IsFiniteSet(g.members) /\ GroupThreshold(g.members) \in Nat
           /\ \A S \in SUBSET (Faulty \cap g.members) : Cardinality(S) < GroupThreshold(g.members)
<1>1. g.members \subseteq Participants /\ g.epoch \in Epochs
  BY DEF Formed, Group
<1>2. IsFiniteSet(g.members)
  BY <1>1, ParticipantsAssumption, FS_Subset
<1>3. Cardinality(g.members) \in Nat
  BY <1>2, FS_CardinalityType
<1>4. GroupThreshold(g.members) \in Nat
  BY <1>3 DEF GroupThreshold
<1>5. Cardinality(Faulty \cap g.members) < GroupThreshold(g.members)
  BY FaultyAssumption, <1>1 DEF Formed
<1>6. ASSUME NEW S \in SUBSET (Faulty \cap g.members)
      PROVE  Cardinality(S) < GroupThreshold(g.members)
  <2>1. IsFiniteSet(Faulty \cap g.members)
    BY <1>2, FS_Subset
  <2>2. Cardinality(S) <= Cardinality(Faulty \cap g.members)
    BY <2>1, FS_Subset
  <2>3. Cardinality(S) \in Nat /\ Cardinality(Faulty \cap g.members) \in Nat
    BY <2>1, FS_Subset, FS_CardinalityType
  <2> QED BY <1>4, <1>5, <2>2, <2>3
<1> QED BY <1>2, <1>4, <1>6

-----------------------------------------------------------------------------
(* A step that feeds an event, or a block, to the validators                *)

\* What the handlers of all validators did.
Stepped(seen, b) ==
    \A v \in Honest : Good(v, view[v], seen[v], b) /\ (v \in asleep => seen[v] = Ignored(view[v]))

\* A transaction sent in this step is for the group its sender is at now.
Sent(x, seen) ==
    /\ x = Transaction(x.from, x.c) /\ x.from \in Honest \ asleep /\ x.c \in seen[x.from].commands
    /\ x.c.group = seen[x.from].state.rollover.group

\* The views after the step.
LEMMA HandledViews ==
    ASSUME NEW transactions, NEW seen, Handled(transactions, seen)
    PROVE  /\ asleep' = asleep /\ joined' = joined /\ Steady' = Steady
           /\ \A v \in Honest : view'[v] = seen[v].state /\ Roll(v)' = seen[v].state.rollover
           /\ view' = [v \in Honest |-> view'[v]]
  BY DEF Handled, Steady, Roll

\* The commands of the step go to the effects and to the pool.
LEMMA HandledQueues ==
    ASSUME QueuesOK, effects = {}, NEW transactions, NEW seen, Handled(transactions, seen),
           NEW b, Stepped(seen, b)
    PROVE  /\ \A x \in pool' : x \in pool \/ (Sent(x, seen) /\ x.c \in Command /\ ~ IsEffect(x.c))
           /\ \A x \in effects' : Sent(x, seen) /\ x.c \in Command /\ IsEffect(x.c)
           /\ \A v \in Honest : \A c \in seen[v].commands :
                 Transaction(v, c) \in IF IsEffect(c) THEN effects' ELSE pool'
<1> DEFINE issued == UNION {{[from |-> v, c |-> c] : c \in seen[v].commands} : v \in Honest}
<1>1. /\ effects' = {y \in issued : IsEffect(y.c)}
      /\ pool' = (pool \ transactions) \cup {y \in issued : ~ IsEffect(y.c)}
  BY DEF Handled
<1>2. ASSUME NEW x \in issued PROVE Sent(x, seen) /\ x.c \in Command
  <2>1. PICK v \in Honest : \E c \in seen[v].commands : x = [from |-> v, c |-> c]
    OBVIOUS
  <2>2. PICK c \in seen[v].commands : x = [from |-> v, c |-> c]
    BY <2>1
  <2>3. v \notin asleep
    <3>1. Ignored(view[v]).commands = {}
      BY DEF Ignored, Result
    <3> QED BY <2>2, <3>1 DEF Stepped
  <2>4. c \in Command /\ c.group = seen[v].state.rollover.group
    BY <2>2 DEF Stepped, Good, Turn
  <2> QED BY <2>2, <2>3, <2>4 DEF Sent, Transaction
<1>3. ASSUME NEW v \in Honest, NEW c \in seen[v].commands PROVE Transaction(v, c) \in issued /\ Transaction(v, c).c = c
  BY DEF Transaction
<1> HIDE DEF issued
<1> QED BY <1>1, <1>2, <1>3

\* The views and queues stay well formed.
LEMMA HandledInvariant ==
    ASSUME TypesOK, ViewsOK, QueuesOK, effects = {}, NEW transactions, NEW seen,
           Handled(transactions, seen), Stepped(seen, block'),
           GenesisGroup \notin DOMAIN groups' =>
              \A v \in Honest : seen[v].state.rollover.stage = "WaitingForGenesis"
    PROVE  view' \in [Honest -> State] /\ ViewsOK' /\ QueuesOK'
<1>1. /\ asleep' = asleep
      /\ \A v \in Honest : view'[v] = seen[v].state /\ Roll(v)' = seen[v].state.rollover
      /\ view' = [v \in Honest |-> view'[v]]
  BY HandledViews
<1>2. /\ \A x \in pool' : x \in pool \/ (Sent(x, seen) /\ x.c \in Command /\ ~ IsEffect(x.c))
      /\ \A x \in effects' : Sent(x, seen) /\ x.c \in Command /\ IsEffect(x.c)
      /\ \A v \in Honest : \A c \in seen[v].commands :
            Transaction(v, c) \in IF IsEffect(c) THEN effects' ELSE pool'
  BY HandledQueues
<1>3. ASSUME NEW v \in Honest
      PROVE  /\ seen[v].state \in State /\ Good(v, view[v], seen[v], block')
             /\ Shape(v, seen[v].state.rollover) /\ Advance(Roll(v), seen[v].state.rollover)
             /\ v \in asleep => seen[v].state = view[v]
  <2>1. Ignored(view[v]).state = view[v]
    BY DEF Ignored, Result
  <2>2. Good(v, view[v], seen[v], block')
    BY DEF Stepped
  <2>3. v \in asleep => seen[v].state = view[v]
    BY <2>1 DEF Stepped
  <2> QED BY <2>2, <2>3 DEF Good, Turn, Roll
<1>4. view' \in [Honest -> State]
  BY <1>1, <1>3
<1>5. ViewsOK'
  <2> SUFFICES ASSUME NEW v \in Honest
               PROVE  /\ Shape(v, Roll(v)')
                      /\ v \in asleep' => view'[v] = InitialState
                      /\ Roll(v)'.stage # "WaitingForGenesis" /\ Roll(v)'.next_epoch # Genesis =>
                            Roll(v)'.next_epoch = NextNumber(block')
                      /\ GenesisGroup \notin DOMAIN groups' => Roll(v)'.stage = "WaitingForGenesis"
                      /\ Roll(v)'.participation = "Setup" =>
                            Transaction(v, KeyGenSetup(Roll(v)'.group)) \in effects'
    BY DEF ViewsOK
  <2>1. v \in asleep' => view'[v] = InitialState
    BY <1>1, <1>3 DEF ViewsOK
  <2>2. Roll(v)'.stage # "WaitingForGenesis" /\ Roll(v)'.next_epoch # Genesis =>
           Roll(v)'.next_epoch = NextNumber(block')
    BY <1>1, <1>3 DEF Good, Timely, Timed
  <2>3. ASSUME Roll(v)'.participation = "Setup"
        PROVE  Transaction(v, KeyGenSetup(Roll(v)'.group)) \in effects'
    <3>1. KeyGenSetup(Roll(v)'.group) \in seen[v].commands
      BY <1>1, <1>3, <2>3 DEF Good, Turn
    <3>2. IsEffect(KeyGenSetup(Roll(v)'.group))
      BY DEF IsEffect, KeyGenSetup
    <3> QED BY <1>2, <3>1, <3>2
  <2> QED BY <1>1, <1>3, <2>1, <2>2, <2>3
<1>6. QueuesOK'
  <2>1. ASSUME NEW x \in effects'
        PROVE  /\ x = Transaction(x.from, KeyGenSetup(x.c.group))
               /\ x.from \in Honest /\ Roll(x.from)'.group = x.c.group
               /\ Roll(x.from)'.participation = "Setup"
    <3>1. Sent(x, seen) /\ x.c \in Command /\ x.c.kind = "KeyGenSetup"
      BY <1>2, <2>1 DEF IsEffect
    <3>2. x.c = KeyGenSetup(x.c.group)
      BY <3>1 DEF Command, KeyGenSetup
    <3>3. Roll(x.from)'.participation = "Setup"
      BY <1>1, <1>3, <3>1 DEF Sent, Good, Turn
    <3> QED BY <1>1, <3>1, <3>2, <3>3 DEF Sent
  <2>2. ASSUME NEW x \in pool'
        PROVE  /\ x = Transaction(x.from, x.c) /\ x.from \in Honest
               /\ x.c \in Command /\ ~ IsEffect(x.c) /\ Formed(x.c.group)
               /\ Reached(Roll(x.from)', x.c.group)
    <3>1. CASE x \in pool
      <4>1. /\ x = Transaction(x.from, x.c) /\ x.from \in Honest
            /\ x.c \in Command /\ ~ IsEffect(x.c) /\ Formed(x.c.group)
            /\ Reached(Roll(x.from), x.c.group)
        BY <3>1 DEF QueuesOK
      <4>2. x.c.group \in Group
        BY <4>1 DEF Formed
      <4>3. Reached(seen[x.from].state.rollover, x.c.group)
        BY <1>3, <4>1, <4>2 DEF Advance, Reached
      <4> QED BY <1>1, <4>1, <4>3
    <3>2. CASE Sent(x, seen) /\ x.c \in Command /\ ~ IsEffect(x.c)
      <4>1. x.from \in Honest /\ x.c.group = Roll(x.from)'.group
        BY <1>1, <3>2 DEF Sent
      <4>2. x.c.group \in Group /\ x.c.group # NoGroup
        BY <3>2, NoGroupAssumption DEF Command, Group
      <4>3. Formed(x.c.group)
        BY <1>1, <1>3, <4>1, <4>2 DEF Shape
      <4> QED BY <3>2, <4>1, <4>3 DEF Sent, Reached
    <3> QED BY <1>2, <2>2, <3>1, <3>2
  <2> QED BY <2>1, <2>2 DEF QueuesOK
<1> QED BY <1>4, <1>5, <1>6

\* The groups that are known stay ones that every validator has reached.
LEMMA HandledGroups ==
    ASSUME QueuesOK, GroupsOK, effects = {}, NEW transactions, NEW seen,
           Handled(transactions, seen), Stepped(seen, block'), ViewsOK', AgreeOK',
           \A g \in DOMAIN groups' :
              /\ Formed(g) /\ g.epoch <= NextNumber(block')
              /\ \A u \in Steady : Reached(seen[u].state.rollover, g)
    PROVE  GroupsOK'
<1>1. /\ asleep' = asleep /\ Steady' = Steady
      /\ \A v \in Honest : Roll(v)' = seen[v].state.rollover
  BY HandledViews
<1>2. \A x \in pool' : x \in pool \/ (Sent(x, seen) /\ x.c \in Command /\ ~ IsEffect(x.c))
  BY HandledQueues
<1>3. ASSUME NEW u \in Steady, NEW x \in pool' PROVE Reached(Roll(u)', x.c.group)
  <2>0. u \in Honest
    BY DEF Steady
  <2>1. CASE x \in pool
    <3>1. Reached(Roll(u), x.c.group) /\ x.c.group \in Group
      BY <2>1 DEF GroupsOK, QueuesOK, Formed
    <3>2. Advance(Roll(u), seen[u].state.rollover)
      BY <2>0 DEF Stepped, Good, Turn, Roll
    <3> QED BY <1>1, <2>0, <3>1, <3>2 DEF Advance, Reached
  <2>2. CASE Sent(x, seen) /\ x.c \in Command
    <3>1. x.from \in Honest \ asleep' /\ x.c.group = Roll(x.from)'.group
      BY <1>1, <2>2 DEF Sent
    <3>2. x.c.group # NoGroup
      BY <2>2, NoGroupAssumption DEF Command, Group
    <3>3. Roll(x.from)'.stage \in Busy
      BY <3>1, <3>2 DEF ViewsOK, Shape
    <3>4. Common(Roll(u)') = Common(Roll(x.from)')
      BY <1>1, <3>1, <3>3 DEF AgreeOK, Busy
    <3>5. Alike(Roll(u)', Roll(x.from)')
      BY <3>4, CommonAlike
    <3> QED BY <3>1, <3>5 DEF Alike, Reached
  <2> QED BY <1>2, <2>1, <2>2
<1>4. ASSUME NEW u \in Steady, NEW g \in DOMAIN groups' PROVE Reached(Roll(u)', g)
  BY <1>1 DEF Steady
<1> QED BY <1>1, <1>3, <1>4 DEF GroupsOK

\* The event says nothing to those that rest.
Silent(seen) == \A v \in Honest : Roll(v).stage \in Resting => seen[v].state = view[v]

\* An event of a key generation, or none: validators that agree see the same, and those
\* that rest see nothing, unless all of them wait for the genesis key generation.
Event(seen) ==
    /\ Stepped(seen, block)
    /\ \A v \in Honest : Quiet(view[v], seen[v].state) /\ Unstaged(view[v], seen[v].state)
    /\ \A u, v \in Honest \ asleep :
          Alike(Roll(u), Roll(v)) => Alike(seen[u].state.rollover, seen[v].state.rollover)
    /\ \/ Silent(seen)
       \/ \A v \in Honest : Roll(v).stage = "WaitingForGenesis"

\* Validators that wait for the genesis key generation are alike.
LEMMA WaitingAlike ==
    ASSUME ViewsOK, NEW u \in Honest, NEW v \in Honest,
           Roll(u).stage = "WaitingForGenesis", Roll(v).stage = "WaitingForGenesis"
    PROVE  Alike(Roll(u), Roll(v)) /\ Roll(u).group = NoGroup /\ Roll(u).next_epoch = Genesis
  BY DEF ViewsOK, Shape, Alike, Idle, Rollover

\* The validators still agree.
LEMMA EventAgrees ==
    ASSUME ViewsOK, AgreeOK, NEW transactions, NEW seen, Handled(transactions, seen), Event(seen)
    PROVE  AgreeOK'
<1>1. /\ asleep' = asleep /\ joined' = joined /\ Steady' = Steady
      /\ \A v \in Honest : Roll(v)' = seen[v].state.rollover
  BY HandledViews
<1> SUFFICES ASSUME NEW u \in Steady, NEW v \in Honest \ asleep
             PROVE  \/ Common(Roll(u)') = Common(Roll(v)')
                    \/ v \in joined /\ Roll(v)'.stage = "WaitingForGenesis"
                    \/ /\ v \in joined /\ Roll(v)'.stage = "EpochSkipped"
                       /\ Roll(u)'.stage = "EpochStaged" /\ Roll(v)'.next_epoch = Roll(u)'.next_epoch
  BY <1>1 DEF AgreeOK
<1>2. u \in Honest \ asleep
  BY DEF Steady
<1>3. CASE Alike(Roll(u), Roll(v))
  BY <1>1, <1>2, <1>3, CommonAlike DEF Event
<1>4. CASE \A w \in Honest : Roll(w).stage = "WaitingForGenesis"
  BY <1>2, <1>3, <1>4, WaitingAlike
<1>5. CASE Silent(seen)
  <2>1. CASE v \in joined /\ Roll(v).stage = "WaitingForGenesis"
    BY <1>1, <1>5, <2>1 DEF Resting, Roll, Silent
  <2>2. CASE /\ v \in joined /\ Roll(v).stage = "EpochSkipped"
             /\ Roll(u).stage = "EpochStaged" /\ Roll(v).next_epoch = Roll(u).next_epoch
    <3>1. Roll(v)' = Roll(v) /\ Roll(u)' = Roll(u)
      BY <1>1, <1>2, <1>5, <2>2 DEF Resting, Roll, Silent
    <3> QED BY <2>2, <3>1
  <2> QED BY <1>3, <2>1, <2>2, CommonAlike DEF AgreeOK
<1> QED BY <1>4, <1>5 DEF Event

\* Nor has anybody moved relative to Consensus.
LEMMA EventSyncs ==
    ASSUME TypesOK, SyncOK, NEW transactions, NEW seen, Handled(transactions, seen), Event(seen),
           block' = block, consensus' \in {consensus, EpochsWithRollover}
    PROVE  SyncOK'
<1>1. /\ Steady' = Steady
      /\ \A v \in Honest : Roll(v)' = seen[v].state.rollover /\ view'[v] = seen[v].state
  BY HandledViews
<1>2. EpochsWithRollover' = EpochsWithRollover
  BY DEF EpochsWithRollover
<1>3. consensus'.staged # Genesis => consensus'.rollover_block = RolloverBlock(consensus'.staged)
  BY DEF EpochsWithRollover, SyncOK
<1>4. ASSUME NEW v \in Steady
      PROVE  /\ view'[v].active_epoch = EpochsWithRollover'.active
             /\ Roll(v)'.stage = "EpochStaged" <=> EpochsWithRollover'.staged # Genesis
             /\ Roll(v)'.stage = "EpochStaged" => Roll(v)'.next_epoch = EpochsWithRollover'.staged
             /\ view'[v].active_epoch < NextNumber(block')
  <2>1. v \in Honest
    BY DEF Steady
  <2>2. view'[v].active_epoch = view[v].active_epoch
    BY <1>1, <2>1 DEF Event, Quiet
  <2>3. Roll(v).stage = "EpochStaged" => Roll(v)' = Roll(v)
    BY <1>1, <2>1 DEF Event, Silent, Resting, Roll
  <2>4. Roll(v)'.stage = "EpochStaged" => Roll(v).stage = "EpochStaged"
    BY <1>1, <2>1 DEF Event, Unstaged, Roll
  <2> QED BY <1>2, <2>2, <2>3, <2>4 DEF SyncOK
<1> QED BY <1>1, <1>3, <1>4 DEF SyncOK

\* What an event may do to the contracts.
Contracts(seen) ==
    /\ block' = block /\ group_of' = group_of /\ consensus' \in {consensus, EpochsWithRollover}
    /\ GenesisGroup \notin DOMAIN groups' =>
          \A v \in Honest : seen[v].state.rollover.stage = "WaitingForGenesis"
    /\ \A g \in DOMAIN groups' :
          /\ GroupOK(g, groups'[g])
          /\ \/ g \in DOMAIN groups
             \/ /\ Formed(g) /\ g.epoch <= NextNumber(block)
                /\ \A u \in Steady : Reached(seen[u].state.rollover, g)

\* An event keeps the invariant.
LEMMA EventKeeps ==
    ASSUME Inv1, effects = {}, NEW transactions, NEW seen, Handled(transactions, seen),
           Event(seen), Contracts(seen)
    PROVE  Inv1'
<1>0. TypesOK /\ ViewsOK /\ QueuesOK /\ GroupsOK /\ AgreeOK /\ SyncOK
  BY DEF Inv1
<1>1. Stepped(seen, block')
  BY DEF Event, Contracts
<1>2. view' \in [Honest -> State] /\ ViewsOK' /\ QueuesOK'
  BY <1>0, <1>1, HandledInvariant DEF Contracts
<1>3. AgreeOK'
  BY <1>0, EventAgrees
<1>4. SyncOK'
  BY <1>0, EventSyncs DEF Contracts
<1>5. GroupsOK'
  <2>1. ASSUME NEW g \in DOMAIN groups'
        PROVE  /\ Formed(g) /\ g.epoch <= NextNumber(block')
               /\ \A u \in Steady : Reached(seen[u].state.rollover, g)
    <3>1. CASE g \in DOMAIN groups
      <4>1. g \in Group /\ Formed(g) /\ g.epoch <= NextNumber(block') /\ \A u \in Steady : Reached(Roll(u), g)
        BY <1>0, <3>1 DEF GroupsOK, TypesOK, Contracts
      <4>2. \A u \in Steady : Advance(Roll(u), seen[u].state.rollover)
        BY <1>1 DEF Stepped, Good, Turn, Roll, Steady
      <4> QED BY <4>1, <4>2 DEF Advance, Reached
    <3>2. CASE g \notin DOMAIN groups
      BY <2>1, <3>2 DEF Contracts
    <3> QED BY <3>1, <3>2
  <2> QED BY <1>0, <1>1, <1>2, <1>3, <2>1, HandledGroups
<1>6. TypesOK'
  <2>1. asleep' = asleep /\ joined' = joined
    BY HandledViews
  <2>2. \A g \in DOMAIN groups' : g \in Group
    BY <1>5 DEF GroupsOK, Formed
  <2>3. consensus' \in [active : Epochs, staged : Epochs, rollover_block : Nat]
    BY <1>0, EpochsWithRolloverType DEF Contracts, TypesOK
  <2> QED BY <1>0, <1>2, <2>1, <2>2, <2>3 DEF TypesOK, Contracts
<1>7. ContractOK'
  BY DEF ContractOK, Contracts
<1> QED BY <1>2, <1>3, <1>4, <1>5, <1>6, <1>7 DEF Inv1

-----------------------------------------------------------------------------
(* The rounds of a group in the coordinator                                 *)

\* Only the group's entry changes.
LEMMA SetGroupGroups ==
    ASSUME NEW group, NEW G, SetGroup(group, G)
    PROVE  /\ DOMAIN groups' = DOMAIN groups \cup {group} /\ groups'[group] = G
           /\ \A h \in DOMAIN groups' : h # group => h \in DOMAIN groups /\ groups'[h] = groups[h]
  BY DEF SetGroup

\* A group starts empty.
LEMMA EmptyGroupOK ==
    ASSUME NEW g
    PROVE  GroupOK(g, EmptyGroup)
  BY DEF GroupOK, EmptyGroup, ContractGroup

Registering(g, G, p) ==
    [G EXCEPT !.registered = G.registered \cup {p},
              !.status = IF G.registered \cup {p} = g.members THEN "SHARING" ELSE @]

\* keyGenAndCommit
LEMMA CommitGroupOK ==
    ASSUME NEW g \in Group, NEW G, GroupOK(g, G), NEW p \in g.members, G.status = "COMMITTING"
    PROVE  GroupOK(g, Registering(g, G, p))
<1> DEFINE H == Registering(g, G, p)
<1>1. p \in Participants /\ G \in ContractGroup
  BY DEF Group, GroupOK
<1>2. /\ H.registered = G.registered \cup {p} /\ H.keys = G.keys /\ H.confirmed = G.confirmed
      /\ H.complaints = G.complaints /\ H.responded = G.responded
      /\ H.status = IF G.registered \cup {p} = g.members THEN "SHARING" ELSE G.status
      /\ H \in ContractGroup
  BY <1>1 DEF Registering, ContractGroup
<1> HIDE DEF H
<1>3. GroupOK(g, H)
  BY <1>1, <1>2 DEF GroupOK
<1> QED BY <1>3 DEF H

Sharing(g, G, p) ==
    [G EXCEPT !.keys = G.keys \cup {p},
              !.status = IF G.keys \cup {p} = g.members THEN "CONFIRMING" ELSE @]

\* keyGenSecretShare
LEMMA ShareGroupOK ==
    ASSUME NEW g \in Group, NEW G, GroupOK(g, G), NEW p \in G.registered, G.status = "SHARING"
    PROVE  GroupOK(g, Sharing(g, G, p))
<1> DEFINE H == Sharing(g, G, p)
<1>1. p \in Participants /\ G \in ContractGroup
  BY DEF Group, GroupOK
<1>2. /\ H.registered = G.registered /\ H.keys = G.keys \cup {p} /\ H.confirmed = G.confirmed
      /\ H.complaints = G.complaints /\ H.responded = G.responded
      /\ H.status = IF G.keys \cup {p} = g.members THEN "CONFIRMING" ELSE G.status
      /\ H \in ContractGroup
  BY <1>1 DEF Sharing, ContractGroup
<1> HIDE DEF H
<1>3. GroupOK(g, H)
  BY <1>1, <1>2 DEF GroupOK
<1> QED BY <1>3 DEF H

Confirming(g, G, p) ==
    [G EXCEPT !.confirmed = G.confirmed \cup {p},
              !.status = IF G.confirmed \cup {p} = g.members THEN "FINALIZED" ELSE @]

\* keyGenConfirm
LEMMA ConfirmGroupOK ==
    ASSUME NEW g \in Group, NEW G, GroupOK(g, G), NEW p \in G.registered, G.status = "CONFIRMING",
           OpenComplaints(G, p) = {}
    PROVE  GroupOK(g, Confirming(g, G, p))
<1> DEFINE H == Confirming(g, G, p)
<1>1. p \in Participants /\ G \in ContractGroup
  BY DEF Group, GroupOK
<1>2. /\ H.registered = G.registered /\ H.keys = G.keys /\ H.confirmed = G.confirmed \cup {p}
      /\ H.complaints = G.complaints /\ H.responded = G.responded
      /\ H.status = IF G.confirmed \cup {p} = g.members THEN "FINALIZED" ELSE G.status
      /\ H \in ContractGroup
  BY <1>1 DEF Confirming, ContractGroup
<1>3. \A c \in G.complaints \ G.responded : c.plaintiff # p
  BY DEF OpenComplaints
<1> HIDE DEF H
<1>4. GroupOK(g, H)
  BY <1>1, <1>2, <1>3 DEF GroupOK
<1> QED BY <1>4 DEF H

Complaining(g, G, plaintiff, accused) ==
    LET H == [G EXCEPT !.complaints = @ \cup {[plaintiff |-> plaintiff, accused |-> accused]}] IN
    IF Accusations(H, accused) >= GroupThreshold(g.members)
    THEN [H EXCEPT !.status = "COMPROMISED"] ELSE H

\* keyGenComplain
LEMMA ComplainGroupOK ==
    ASSUME NEW g \in Group, NEW G, GroupOK(g, G), NEW plaintiff \in G.registered \ G.confirmed,
           NEW accused \in G.registered, G.status \in {"SHARING", "CONFIRMING"}
    PROVE  GroupOK(g, Complaining(g, G, plaintiff, accused))
<1> DEFINE c == [plaintiff |-> plaintiff, accused |-> accused]
           I == [G EXCEPT !.complaints = @ \cup {c}]
           H == Complaining(g, G, plaintiff, accused)
           over == Accusations(I, accused) >= GroupThreshold(g.members)
<1>1. plaintiff \in Participants /\ accused \in Participants /\ G \in ContractGroup
      /\ c \in [plaintiff : Participants, accused : Participants]
  BY DEF Group, GroupOK
<1>2. /\ I.registered = G.registered /\ I.keys = G.keys /\ I.confirmed = G.confirmed
      /\ I.complaints = G.complaints \cup {c} /\ I.responded = G.responded /\ I.status = G.status
      /\ I \in ContractGroup
  BY <1>1 DEF ContractGroup
<1>3. H = IF over THEN [I EXCEPT !.status = "COMPROMISED"] ELSE I
  BY DEF Complaining
<1> HIDE DEF H, I
<1>4. /\ H.registered = G.registered /\ H.keys = G.keys /\ H.confirmed = G.confirmed
      /\ H.complaints = G.complaints \cup {c} /\ H.responded = G.responded
      /\ H.status = IF over THEN "COMPROMISED" ELSE G.status
      /\ H \in ContractGroup
  BY <1>2, <1>3 DEF ContractGroup
<1>5. Accusations(H, accused) = Accusations(I, accused)
  BY <1>2, <1>4 DEF Accusations
<1>6. c.plaintiff \notin G.confirmed /\ c \in [plaintiff : G.registered, accused : G.registered]
  OBVIOUS
<1> HIDE DEF c
<1>7. GroupOK(g, H)
  BY <1>1, <1>4, <1>5, <1>6 DEF GroupOK
<1> QED BY <1>7 DEF H

Responding(G, plaintiff, accused) ==
    [G EXCEPT !.responded = @ \cup {[plaintiff |-> plaintiff, accused |-> accused]}]

\* keyGenComplaintResponse
LEMMA RespondGroupOK ==
    ASSUME NEW g, NEW G, GroupOK(g, G), NEW plaintiff, NEW accused,
           [plaintiff |-> plaintiff, accused |-> accused] \in G.complaints
    PROVE  /\ GroupOK(g, Responding(G, plaintiff, accused))
           /\ plaintiff \in G.registered /\ accused \in G.registered
<1> DEFINE c == [plaintiff |-> plaintiff, accused |-> accused]
           H == Responding(G, plaintiff, accused)
<1>1. G \in ContractGroup
  BY DEF GroupOK
<1>2. /\ H.registered = G.registered /\ H.keys = G.keys /\ H.confirmed = G.confirmed
      /\ H.complaints = G.complaints /\ H.responded = G.responded \cup {c} /\ H.status = G.status
      /\ H \in ContractGroup
  BY <1>1 DEF Responding, ContractGroup
<1>3. c.plaintiff = plaintiff /\ c.accused = accused /\ c \in [plaintiff : G.registered, accused : G.registered]
  BY DEF GroupOK
<1>4. plaintiff \in G.registered /\ accused \in G.registered
  BY <1>3
<1> HIDE DEF H, c
<1>5. \A a : Accusations(H, a) = Accusations(G, a)
  BY <1>2 DEF Accusations
<1>6. c \in G.complaints
  BY DEF c
<1>7. GroupOK(g, H)
  BY <1>2, <1>5, <1>6 DEF GroupOK
<1> QED BY <1>4, <1>7 DEF H

-----------------------------------------------------------------------------
(* The events of a key generation                                           *)

\* No effect is in progress when an event comes.
LEMMA AllReady ==
    ASSUME Inv1, effects = {}
    PROVE  \A v \in Honest : Ready(v, view[v], block)
<1>1. block \in Nat /\ NextNumber(block) \in Epochs
  BY BlocksAssumption DEF Inv1, TypesOK
<1>2. ASSUME NEW v \in Honest PROVE Ready(v, view[v], block)
  <2>1. view[v] \in State
    BY DEF Inv1, TypesOK
  <2>2. Shape(v, Roll(v)) /\ Roll(v).participation # "Setup"
    BY DEF Inv1, ViewsOK
  <2>3. Timely(Roll(v), block)
    BY DEF Inv1, ViewsOK, Timely, Timed
  <2> QED BY <1>1, <2>1, <2>2, <2>3 DEF Ready, Roll
<1> QED BY <1>2

\* The outcome of a handler, for every validator that is awake.
Awake(seen) ==
    /\ \A v \in asleep : seen[v] = Ignored(view[v])
    /\ \A v \in Honest \ asleep :
          /\ Good(v, view[v], seen[v], block) /\ Quiet(view[v], seen[v].state)
          /\ Unstaged(view[v], seen[v].state)
    /\ \A u, v \in Honest \ asleep :
          Alike(Roll(u), Roll(v)) => Alike(seen[u].state.rollover, seen[v].state.rollover)

\* The sleeping ones do not notice.
LEMMA AwakeEvent ==
    ASSUME Inv1, effects = {}, NEW seen, Awake(seen),
           \/ \A v \in Honest \ asleep : Roll(v).stage \in Resting => seen[v].state = view[v]
           \/ \A v \in Honest : Roll(v).stage = "WaitingForGenesis"
    PROVE  /\ Event(seen)
           /\ (\A v \in Honest \ asleep : Roll(v).stage \in Resting => seen[v].state = view[v]) => Silent(seen)
<1>1. ASSUME NEW v \in Honest, v \in asleep
      PROVE  /\ seen[v] = Ignored(view[v]) /\ seen[v].state = view[v] /\ Good(v, view[v], seen[v], block)
             /\ Quiet(view[v], seen[v].state) /\ Unstaged(view[v], seen[v].state)
  <2>1. Ready(v, view[v], block)
    BY AllReady
  <2>2. Ignored(view[v]).state = view[v]
    BY DEF Ignored, Result
  <2>3. seen[v] = Ignored(view[v])
    BY <1>1 DEF Awake
  <2>4. Good(v, view[v], Ignored(view[v]), block) /\ Quiet(view[v], view[v])
    BY <2>1, <2>2, IgnoredGood
  <2>5. Unstaged(view[v], view[v])
    BY DEF Unstaged
  <2> QED BY <2>2, <2>3, <2>4, <2>5
<1>2. Stepped(seen, block)
  BY <1>1 DEF Stepped, Awake
<1>3. (\A v \in Honest \ asleep : Roll(v).stage \in Resting => seen[v].state = view[v]) => Silent(seen)
  BY <1>1 DEF Silent
<1> QED BY <1>1, <1>2, <1>3 DEF Event, Awake

\* keyGenSecretShare
LEMMA SharedEvent ==
    ASSUME Inv1, effects = {}, NEW group \in Group, NEW p \in group.members, NEW valid \in BOOLEAN, NEW cheated,
           NEW seen, seen = [v \in Honest |-> IF v \in asleep THEN Ignored(view[v])
                             ELSE HandleKeyGenSecretShared(view[v], v, block, group, p, valid, cheated)]
    PROVE  Event(seen) /\ Silent(seen)
<1>0. asleep \subseteq Honest
  BY HonestAssumption DEF Inv1, TypesOK
<1>1. \A v \in Honest : Ready(v, view[v], block) /\ view[v] \in State
  BY AllReady DEF Ready
<1>2. \A v \in Honest \ asleep : seen[v] = HandleKeyGenSecretShared(view[v], v, block, group, p, valid, cheated)
  OBVIOUS
<1>3. \A v \in asleep : seen[v] = Ignored(view[v])
  BY <1>0
<1>4. ASSUME NEW v \in Honest \ asleep
      PROVE  /\ Good(v, view[v], seen[v], block) /\ Quiet(view[v], seen[v].state)
             /\ Unstaged(view[v], seen[v].state)
  BY <1>1, <1>2, SharedGood, EventsUnstaged
<1>5. ASSUME NEW u \in Honest \ asleep, NEW v \in Honest \ asleep, Alike(Roll(u), Roll(v))
      PROVE  Alike(seen[u].state.rollover, seen[v].state.rollover)
  <2>1. Pair(u, view[u], v, view[v], block)
    BY <1>1, <1>5 DEF Pair, Roll
  <2> QED BY <1>2, <2>1, SharedAlike
<1>6. ASSUME NEW v \in Honest \ asleep, Roll(v).stage \in Resting PROVE seen[v].state = view[v]
  <2>1. seen[v] = Ignored(view[v])
    BY <1>2, <1>6, RestingIgnores DEF Roll
  <2> QED BY <2>1 DEF Ignored, Result
<1>7. Awake(seen)
  BY <1>3, <1>4, <1>5 DEF Awake
<1> QED BY <1>6, <1>7, AwakeEvent

\* keyGenConfirm
LEMMA ConfirmedEvent ==
    ASSUME Inv1, effects = {}, NEW group \in Group, NEW p \in group.members,
           NEW seen, seen = [v \in Honest |-> IF v \in asleep THEN Ignored(view[v])
                             ELSE HandleKeyGenConfirmed(view[v], v, block, group, p)]
    PROVE  Event(seen) /\ Silent(seen)
<1>0. asleep \subseteq Honest
  BY HonestAssumption DEF Inv1, TypesOK
<1>1. \A v \in Honest : Ready(v, view[v], block) /\ view[v] \in State
  BY AllReady DEF Ready
<1>2. \A v \in Honest \ asleep : seen[v] = HandleKeyGenConfirmed(view[v], v, block, group, p)
  OBVIOUS
<1>3. \A v \in asleep : seen[v] = Ignored(view[v])
  BY <1>0
<1>4. ASSUME NEW v \in Honest \ asleep
      PROVE  /\ Good(v, view[v], seen[v], block) /\ Quiet(view[v], seen[v].state)
             /\ Unstaged(view[v], seen[v].state)
  BY <1>1, <1>2, ConfirmedGood, EventsUnstaged
<1>5. ASSUME NEW u \in Honest \ asleep, NEW v \in Honest \ asleep, Alike(Roll(u), Roll(v))
      PROVE  Alike(seen[u].state.rollover, seen[v].state.rollover)
  <2>1. Pair(u, view[u], v, view[v], block)
    BY <1>1, <1>5 DEF Pair, Roll
  <2> QED BY <1>2, <2>1, ConfirmedAlike
<1>6. ASSUME NEW v \in Honest \ asleep, Roll(v).stage \in Resting PROVE seen[v].state = view[v]
  <2>1. seen[v] = Ignored(view[v])
    BY <1>2, <1>6, RestingIgnores DEF Roll
  <2> QED BY <2>1 DEF Ignored, Result
<1>7. Awake(seen)
  BY <1>3, <1>4, <1>5 DEF Awake
<1> QED BY <1>6, <1>7, AwakeEvent

\* keyGenComplain
LEMMA ComplainedEvent ==
    ASSUME Inv1, effects = {}, NEW group \in Group, NEW plaintiff \in Participants, NEW accused \in group.members,
           NEW seen, seen = [v \in Honest |-> IF v \in asleep THEN Ignored(view[v])
                             ELSE HandleKeyGenComplained(view[v], v, block, group, plaintiff, accused)]
    PROVE  Event(seen) /\ Silent(seen)
<1>0. asleep \subseteq Honest
  BY HonestAssumption DEF Inv1, TypesOK
<1>1. \A v \in Honest : Ready(v, view[v], block) /\ view[v] \in State
  BY AllReady DEF Ready
<1>2. \A v \in Honest \ asleep : seen[v] = HandleKeyGenComplained(view[v], v, block, group, plaintiff, accused)
  OBVIOUS
<1>3. \A v \in asleep : seen[v] = Ignored(view[v])
  BY <1>0
<1>4. ASSUME NEW v \in Honest \ asleep
      PROVE  /\ Good(v, view[v], seen[v], block) /\ Quiet(view[v], seen[v].state)
             /\ Unstaged(view[v], seen[v].state)
  BY <1>1, <1>2, ComplainedGood, EventsUnstaged
<1>5. ASSUME NEW u \in Honest \ asleep, NEW v \in Honest \ asleep, Alike(Roll(u), Roll(v))
      PROVE  Alike(seen[u].state.rollover, seen[v].state.rollover)
  <2>1. Pair(u, view[u], v, view[v], block)
    BY <1>1, <1>5 DEF Pair, Roll
  <2> QED BY <1>2, <2>1, ComplainedAlike
<1>6. ASSUME NEW v \in Honest \ asleep, Roll(v).stage \in Resting PROVE seen[v].state = view[v]
  <2>1. seen[v] = Ignored(view[v])
    BY <1>2, <1>6, RestingIgnores DEF Roll
  <2> QED BY <2>1 DEF Ignored, Result
<1>7. Awake(seen)
  BY <1>3, <1>4, <1>5 DEF Awake
<1> QED BY <1>6, <1>7, AwakeEvent

\* keyGenComplaintResponse
LEMMA RespondedEvent ==
    ASSUME Inv1, effects = {}, NEW group \in Group, NEW plaintiff \in Participants, NEW accused \in group.members,
           NEW valid \in BOOLEAN,
           NEW seen, seen = [v \in Honest |-> IF v \in asleep THEN Ignored(view[v])
                             ELSE HandleKeyGenComplaintResponded(view[v], v, block, group, plaintiff, accused, valid)]
    PROVE  Event(seen) /\ Silent(seen)
<1>0. asleep \subseteq Honest
  BY HonestAssumption DEF Inv1, TypesOK
<1>1. \A v \in Honest : Ready(v, view[v], block) /\ view[v] \in State
  BY AllReady DEF Ready
<1>2. \A v \in Honest \ asleep :
         seen[v] = HandleKeyGenComplaintResponded(view[v], v, block, group, plaintiff, accused, valid)
  OBVIOUS
<1>3. \A v \in asleep : seen[v] = Ignored(view[v])
  BY <1>0
<1>4. ASSUME NEW v \in Honest \ asleep
      PROVE  /\ Good(v, view[v], seen[v], block) /\ Quiet(view[v], seen[v].state)
             /\ Unstaged(view[v], seen[v].state)
  BY <1>1, <1>2, RespondedGood, EventsUnstaged
<1>5. ASSUME NEW u \in Honest \ asleep, NEW v \in Honest \ asleep, Alike(Roll(u), Roll(v))
      PROVE  Alike(seen[u].state.rollover, seen[v].state.rollover)
  <2>1. Pair(u, view[u], v, view[v], block)
    BY <1>1, <1>5 DEF Pair, Roll
  <2> QED BY <1>2, <2>1, RespondedAlike
<1>6. ASSUME NEW v \in Honest \ asleep, Roll(v).stage \in Resting PROVE seen[v].state = view[v]
  <2>1. seen[v] = Ignored(view[v])
    BY <1>2, <1>6, RestingIgnores DEF Roll
  <2> QED BY <2>1 DEF Ignored, Result
<1>7. Awake(seen)
  BY <1>3, <1>4, <1>5 DEF Awake
<1> QED BY <1>6, <1>7, AwakeEvent

\* keyGenAndCommit, of a group whose creation nobody waits for
LEMMA CommittedEvent ==
    ASSUME Inv1, effects = {}, NEW group \in Group, NEW p \in group.members, NEW valid \in BOOLEAN,
           NEW seen, \A v \in asleep : seen[v] = Ignored(view[v]),
           \A v \in Honest \ asleep :
              /\ seen[v].state = HandleKeyGenCommitted(view[v], block, group, p, valid).state
              /\ seen[v].commands = HandleKeyGenCommitted(view[v], block, group, p, valid).commands
    PROVE  Event(seen) /\ Silent(seen)
<1>1. \A v \in Honest : Ready(v, view[v], block) /\ view[v] \in State /\ Shape(v, view[v].rollover)
                        /\ view[v].rollover.participation # "Setup"
  BY AllReady DEF Ready
<1>4. ASSUME NEW v \in Honest \ asleep
      PROVE  /\ Good(v, view[v], seen[v], block) /\ Quiet(view[v], seen[v].state)
             /\ Unstaged(view[v], seen[v].state)
  <2>1. /\ Good(v, view[v], HandleKeyGenCommitted(view[v], block, group, p, valid), block)
        /\ Quiet(view[v], HandleKeyGenCommitted(view[v], block, group, p, valid).state)
        /\ Unstaged(view[v], HandleKeyGenCommitted(view[v], block, group, p, valid).state)
    BY <1>1, CommittedGood, EventsUnstaged
  <2> QED BY <2>1 DEF Good
<1>5. ASSUME NEW u \in Honest \ asleep, NEW v \in Honest \ asleep, Alike(Roll(u), Roll(v))
      PROVE  Alike(seen[u].state.rollover, seen[v].state.rollover)
  <2>1. /\ view[u] \in State /\ Shape(u, view[u].rollover) /\ (view[u].rollover.participation = "Setup" => p # u)
        /\ view[v] \in State /\ Shape(v, view[v].rollover) /\ (view[v].rollover.participation = "Setup" => p # v)
        /\ Alike(view[u].rollover, view[v].rollover)
    BY <1>1, <1>5 DEF Roll
  <2> DEFINE a == view[u]
             b == view[v]
  <2>3. /\ a \in State /\ Shape(u, a.rollover) /\ (a.rollover.participation = "Setup" => p # u)
        /\ b \in State /\ Shape(v, b.rollover) /\ (b.rollover.participation = "Setup" => p # v)
        /\ Alike(a.rollover, b.rollover)
    BY <2>1
  <2> HIDE DEF a, b
  <2>2. Alike(HandleKeyGenCommitted(a, block, group, p, valid).state.rollover,
              HandleKeyGenCommitted(b, block, group, p, valid).state.rollover)
    BY <2>3, CommittedAlike
  <2> QED BY <2>2 DEF a, b
<1>6. ASSUME NEW v \in Honest \ asleep, Roll(v).stage \in Resting PROVE seen[v].state = view[v]
  <2>1. HandleKeyGenCommitted(view[v], block, group, p, valid) = Ignored(view[v])
    BY <1>6, RestingIgnores DEF Roll
  <2> QED BY <2>1 DEF Ignored, Result
<1>7. Awake(seen)
  BY <1>4, <1>5 DEF Awake
<1> QED BY <1>6, <1>7, AwakeEvent

\* keyGen of the genesis group
LEMMA GenesisEvent ==
    ASSUME Inv1, effects = {}, GenesisGroup \notin DOMAIN groups,
           NEW seen, \A v \in asleep : seen[v] = Ignored(view[v]),
           \A v \in Honest \ asleep : seen[v] = HandleGenesisKeyGen(view[v], v, GenesisGroup)
    PROVE  Event(seen) /\ \A v \in Honest \ asleep : seen[v].state.rollover.group = GenesisGroup
<1>1. \A v \in Honest : Ready(v, view[v], block) /\ view[v] \in State
  BY AllReady DEF Ready
<1>2. \A v \in Honest : Roll(v).stage = "WaitingForGenesis"
  BY DEF Inv1, ViewsOK
<1>4. ASSUME NEW v \in Honest \ asleep
      PROVE  /\ Good(v, view[v], seen[v], block) /\ Quiet(view[v], seen[v].state)
             /\ Unstaged(view[v], seen[v].state)
  BY <1>1, GenesisKeyGenGood, EventsUnstaged
<1>5. ASSUME NEW u \in Honest \ asleep, NEW v \in Honest \ asleep, Alike(Roll(u), Roll(v))
      PROVE  Alike(seen[u].state.rollover, seen[v].state.rollover)
  BY <1>1, <1>5, GenesisAlike DEF Roll
<1>6. ASSUME NEW v \in Honest \ asleep PROVE seen[v].state.rollover.group = GenesisGroup
  <2>1. seen[v] = StartKeyGen(view[v], v, GenesisGroup, 0)
    BY <1>2 DEF HandleGenesisKeyGen, Roll, GenesisGroup
  <2>2. Formed(GenesisGroup) /\ GenesisGroup.epoch = Genesis
    BY ViableFormed, EpochsAssumption DEF GenesisGroup
  <2>3. IsAhead(view[v].rollover, GenesisGroup)
    BY <1>2 DEF IsAhead, Roll
  <2>4. Started(v, view[v], view[v].rollover, GenesisGroup, 0, seen[v])
    BY <1>1, <2>1, <2>2, <2>3, StartTurn DEF Ready, GenesisGroup
  <2> QED BY <2>4 DEF Started
<1>7. Awake(seen)
  BY <1>4, <1>5 DEF Awake
<1> QED BY <1>2, <1>6, <1>7, AwakeEvent

\* keyGenAndCommit that creates the genesis group
LEMMA GenesisCommittedEvent ==
    ASSUME Inv1, effects = {}, GenesisGroup \notin DOMAIN groups,
           NEW p \in GenesisGroup.members, p \notin Honest, NEW valid \in BOOLEAN,
           NEW seen, \A v \in asleep : seen[v] = Ignored(view[v]),
           \A v \in Honest \ asleep :
              LET created == HandleGenesisKeyGen(view[v], v, GenesisGroup) IN
              seen[v] = AndThen(created, HandleKeyGenCommitted(created.state, block, GenesisGroup, p, valid))
    PROVE  Event(seen) /\ \A v \in Honest \ asleep : seen[v].state.rollover.group = GenesisGroup
<1> DEFINE Created(v) == HandleGenesisKeyGen(view[v], v, GenesisGroup)
           Then(v) == HandleKeyGenCommitted(Created(v).state, block, GenesisGroup, p, valid)
<1>1. \A v \in Honest : Ready(v, view[v], block) /\ view[v] \in State
  BY AllReady DEF Ready
<1>2. \A v \in Honest : Roll(v).stage = "WaitingForGenesis"
  BY DEF Inv1, ViewsOK
<1>3. \A v \in Honest \ asleep :
         /\ seen[v] = Result(Then(v).state, Created(v).commands \cup Then(v).commands)
         /\ seen[v].state = Then(v).state
  BY DEF AndThen, Result
<1>4. ASSUME NEW v \in Honest \ asleep
      PROVE  /\ Good(v, view[v], seen[v], block) /\ Quiet(view[v], seen[v].state)
             /\ Created(v).state \in State /\ Shape(v, Created(v).state.rollover)
             /\ seen[v].state.rollover.group = GenesisGroup
  <2> DEFINE created == Created(v)
             result == Then(v)
  <2>1. created = HandleGenesisKeyGen(view[v], v, GenesisGroup)
        /\ result = HandleKeyGenCommitted(created.state, block, GenesisGroup, p, valid)
    OBVIOUS
  <2>2. /\ Ready(v, view[v], block) /\ view[v].rollover.stage = "WaitingForGenesis" /\ p # v
        /\ GenesisGroup = GroupOf(Genesis, {})
    BY <1>1, <1>2 DEF Roll, GenesisGroup
  <2> HIDE DEF created, result
  <2>3. /\ created.state \in State /\ Shape(v, created.state.rollover)
        /\ Good(v, view[v], Result(result.state, created.commands \cup result.commands), block)
        /\ Quiet(view[v], result.state) /\ result.state.rollover.group = GenesisGroup
    BY <2>1, <2>2, GenesisCommittedGood
  <2> QED BY <1>3, <2>3 DEF created, result
<1>5. ASSUME NEW u \in Honest \ asleep, NEW v \in Honest \ asleep, Alike(Roll(u), Roll(v))
      PROVE  Alike(seen[u].state.rollover, seen[v].state.rollover)
  <2>1. Alike(Created(u).state.rollover, Created(v).state.rollover)
    BY <1>1, <1>5, GenesisAlike DEF Roll
  <2>2. GenesisGroup \in Group
    BY ViableFormed, EpochsAssumption DEF GenesisGroup
  <2> DEFINE a == Created(u).state
             b == Created(v).state
  <2>4. /\ a \in State /\ Shape(u, a.rollover) /\ p # u
        /\ b \in State /\ Shape(v, b.rollover) /\ p # v
    BY <1>4
  <2>3. Alike(Then(u).state.rollover, Then(v).state.rollover)
    <3> HIDE DEF a, b
    <3>1. Alike(a.rollover, b.rollover)
      BY <2>1 DEF a, b
    <3>2. Alike(HandleKeyGenCommitted(a, block, GenesisGroup, p, valid).state.rollover,
                HandleKeyGenCommitted(b, block, GenesisGroup, p, valid).state.rollover)
      BY <2>2, <2>4, <3>1, CommittedAlike
    <3> QED BY <3>2 DEF a, b
  <2> QED BY <1>3, <2>3
<1>6. ASSUME NEW v \in Honest \ asleep PROVE Unstaged(view[v], seen[v].state)
  <2>1. Unstaged(Created(v).state, Then(v).state)
    BY <1>4, EventsUnstaged
  <2>2. Unstaged(view[v], Created(v).state)
    BY <1>1, EventsUnstaged
  <2> QED BY <1>3, <2>1, <2>2 DEF Unstaged
<1> HIDE DEF Created, Then
<1>7. Awake(seen)
  BY <1>4, <1>5, <1>6 DEF Awake
<1> QED BY <1>2, <1>4, <1>7, AwakeEvent

-----------------------------------------------------------------------------
(* The calls                                                                *)

\* Nobody has reached a group beyond the epoch of the block.
LEMMA ReachedEpoch ==
    ASSUME Inv1, NEW v \in Honest, NEW g \in Group, Reached(Roll(v), g)
    PROVE  g.epoch \in Nat /\ g.epoch <= NextNumber(block) /\ Roll(v).stage # "WaitingForGenesis"
<1>1. block \in Nat /\ NextNumber(block) \in Nat
  BY NextNumberPositive DEF Inv1, TypesOK
<1>2. g.epoch \in Nat /\ Roll(v).next_epoch \in Nat /\ g # NoGroup
  BY EpochsAssumption, NoGroupAssumption DEF Group, Inv1, ViewsOK, Shape, RolloverState
<1>3. Roll(v).next_epoch >= g.epoch /\ Roll(v).stage # "WaitingForGenesis"
  BY <1>2 DEF Reached, Past, Inv1, ViewsOK, Shape, Busy
<1>4. Roll(v).next_epoch <= NextNumber(block)
  BY <1>1, <1>2, <1>3 DEF Inv1, ViewsOK, Genesis
<1> QED BY <1>1, <1>2, <1>3, <1>4

\* A group that may be committed to: it is known, it is the genesis one, or it is one
\* that the validators have reached.
Known(group) ==
    /\ Formed(group) /\ group.epoch <= NextNumber(block)
    /\ group = GenesisGroup \/ \A u \in Steady : Reached(Roll(u), group)

\* The groups of the pool, the chain and the validators are known.
LEMMA KnownGroups ==
    ASSUME Inv1
    PROVE  /\ \A g \in DOMAIN groups : Known(g)
           /\ \A x \in pool : Known(x.c.group)
           /\ \A v \in Honest : Roll(v).group # NoGroup => Known(Roll(v).group)
           /\ Known(GenesisGroup)
<1>1. \A g \in DOMAIN groups : Known(g)
  BY DEF Known, Inv1, GroupsOK
<1>2. ASSUME NEW x \in pool PROVE Known(x.c.group)
  <2>1. x.from \in Honest /\ Formed(x.c.group) /\ Reached(Roll(x.from), x.c.group)
    BY DEF Inv1, QueuesOK
  <2>2. x.c.group.epoch <= NextNumber(block)
    BY <2>1, ReachedEpoch DEF Formed
  <2> QED BY <2>1, <2>2 DEF Known, Inv1, GroupsOK
<1>3. ASSUME NEW v \in Honest, Roll(v).group # NoGroup PROVE Known(Roll(v).group)
  <2>1. Formed(Roll(v).group) /\ Roll(v).stage \in Busy
    BY <1>3 DEF Inv1, ViewsOK, Shape
  <2>2. Roll(v).group.epoch <= NextNumber(block)
    BY <2>1, ReachedEpoch DEF Formed, Reached
  <2>3. v \notin asleep
    BY <2>1 DEF Inv1, ViewsOK, InitialState, Idle, Rollover, Busy, Roll
  <2>4. ASSUME NEW u \in Steady PROVE Reached(Roll(u), Roll(v).group)
    <3>1. Common(Roll(u)) = Common(Roll(v))
      BY <2>1, <2>3 DEF Inv1, AgreeOK, Busy
    <3>2. Alike(Roll(u), Roll(v))
      BY <3>1, CommonAlike
    <3> QED BY <3>2 DEF Alike, Reached
  <2> QED BY <2>1, <2>2, <2>4 DEF Known
<1>4. Known(GenesisGroup)
  <2>1. Formed(GenesisGroup) /\ GenesisGroup.epoch = Genesis
    BY ViableFormed, EpochsAssumption DEF GenesisGroup
  <2>2. Genesis <= NextNumber(block)
    BY NextNumberPositive DEF Inv1, TypesOK, Genesis
  <2> QED BY <2>1, <2>2 DEF Known
<1> QED BY <1>1, <1>2, <1>3, <1>4

\* A call for a group, whose event says nothing to those that rest.
LEMMA RoundKeeps ==
    ASSUME Inv1, effects = {}, NEW transactions, NEW seen, Handled(transactions, seen),
           Event(seen), Silent(seen), NEW group, NEW G, SetGroup(group, G), GroupOK(group, G),
           group \in DOMAIN groups \/ (Known(group) /\ group # GenesisGroup),
           block' = block, group_of' = group_of, consensus' \in {consensus, EpochsWithRollover}
    PROVE  Inv1' /\ Contracts(seen)
<1>1. /\ DOMAIN groups' = DOMAIN groups \cup {group} /\ groups'[group] = G
      /\ \A h \in DOMAIN groups' : h # group => h \in DOMAIN groups /\ groups'[h] = groups[h]
  BY SetGroupGroups
<1>2. ASSUME GenesisGroup \notin DOMAIN groups', NEW v \in Honest
      PROVE  seen[v].state.rollover.stage = "WaitingForGenesis"
  <2>1. Roll(v).stage = "WaitingForGenesis"
    BY <1>1, <1>2 DEF Inv1, ViewsOK
  <2> QED BY <2>1 DEF Silent, Resting, Roll
<1>3. ASSUME NEW g \in DOMAIN groups' PROVE GroupOK(g, groups'[g])
  BY <1>1, <1>3 DEF Inv1, ContractOK
<1>4. ASSUME NEW u \in Steady, group \notin DOMAIN groups PROVE Reached(seen[u].state.rollover, group)
  <2>1. Reached(Roll(u), group) /\ group \in Group
    BY <1>4 DEF Known, Formed
  <2>2. Advance(Roll(u), seen[u].state.rollover)
    BY DEF Event, Stepped, Good, Turn, Roll, Steady
  <2> QED BY <2>1, <2>2 DEF Advance, Reached
<1>5. Contracts(seen)
  BY <1>1, <1>2, <1>3, <1>4 DEF Contracts, Known
<1> QED BY <1>5, EventKeeps

\* keyGenSecretShare
LEMMA ShareStep ==
    ASSUME Inv1, effects = {}, NEW x, NEW group, NEW p, NEW valid \in BOOLEAN, NEW cheated,
           CallKeyGenSecretShare(x, group, p, valid, cheated)
    PROVE  Inv1'
<1> DEFINE G == groups[group]
           seen == [v \in Honest |-> IF v \in asleep THEN Ignored(view[v])
                     ELSE HandleKeyGenSecretShared(view[v], v, block, group, p, valid, cheated)]
<1>1. /\ group \in DOMAIN groups /\ G.status = "SHARING" /\ p \in G.registered
      /\ SetGroup(group, Sharing(group, G, p))
      /\ block' = block /\ group_of' = group_of /\ consensus' = consensus
      /\ Handled({x}, seen)
  BY DEF CallKeyGenSecretShare, CanShare, Sharing, Included, Seen
<1>2. group \in Group /\ GroupOK(group, G) /\ p \in group.members
  BY <1>1 DEF Inv1, TypesOK, ContractOK, GroupOK
<1>3. GroupOK(group, Sharing(group, G, p))
  BY <1>1, <1>2, ShareGroupOK
<1>4. Event(seen) /\ Silent(seen)
  BY <1>2, SharedEvent
<1> HIDE DEF seen, G
<1> QED BY <1>1, <1>3, <1>4, RoundKeeps

\* keyGenConfirm
LEMMA ConfirmStep ==
    ASSUME Inv1, effects = {}, NEW x, NEW group, NEW p, NEW callback,
           CallKeyGenConfirm(x, group, p, callback)
    PROVE  Inv1'
<1> DEFINE G == groups[group]
           seen == [v \in Honest |-> IF v \in asleep THEN Ignored(view[v])
                     ELSE HandleKeyGenConfirmed(view[v], v, block, group, p)]
<1>1. /\ group \in DOMAIN groups /\ G.status = "CONFIRMING" /\ p \in G.registered
      /\ OpenComplaints(G, p) = {} /\ SetGroup(group, Confirming(group, G, p))
      /\ block' = block /\ group_of' = group_of /\ consensus' \in {consensus, EpochsWithRollover}
      /\ Handled({x}, seen)
  BY DEF CallKeyGenConfirm, CanConfirm, Confirming, Included, Seen
<1>2. group \in Group /\ GroupOK(group, G) /\ p \in group.members
  BY <1>1 DEF Inv1, TypesOK, ContractOK, GroupOK
<1>3. GroupOK(group, Confirming(group, G, p))
  BY <1>1, <1>2, ConfirmGroupOK
<1>4. Event(seen) /\ Silent(seen)
  BY <1>2, ConfirmedEvent
<1> HIDE DEF seen, G
<1> QED BY <1>1, <1>3, <1>4, RoundKeeps

\* keyGenComplain
LEMMA ComplainStep ==
    ASSUME Inv1, effects = {}, NEW x, NEW group, NEW plaintiff, NEW accused,
           CallKeyGenComplain(x, group, plaintiff, accused)
    PROVE  Inv1'
<1> DEFINE G == groups[group]
           seen == [v \in Honest |-> IF v \in asleep THEN Ignored(view[v])
                     ELSE HandleKeyGenComplained(view[v], v, block, group, plaintiff, accused)]
<1>1. /\ group \in DOMAIN groups /\ G.status \in {"SHARING", "CONFIRMING"}
      /\ plaintiff \in G.registered \ G.confirmed /\ accused \in G.registered
      /\ SetGroup(group, Complaining(group, G, plaintiff, accused))
      /\ block' = block /\ group_of' = group_of /\ consensus' = consensus
      /\ Handled({x}, seen)
  BY DEF CallKeyGenComplain, CanComplain, Complaining, Included, Seen
<1>2. group \in Group /\ GroupOK(group, G) /\ plaintiff \in Participants /\ accused \in group.members
  BY <1>1 DEF Inv1, TypesOK, ContractOK, GroupOK, ContractGroup
<1>3. GroupOK(group, Complaining(group, G, plaintiff, accused))
  BY <1>1, <1>2, ComplainGroupOK
<1>4. Event(seen) /\ Silent(seen)
  BY <1>2, ComplainedEvent
<1> HIDE DEF seen, G
<1> QED BY <1>1, <1>3, <1>4, RoundKeeps

\* keyGenComplaintResponse
LEMMA RespondStep ==
    ASSUME Inv1, effects = {}, NEW x, NEW group, NEW plaintiff, NEW accused, NEW valid \in BOOLEAN,
           CallKeyGenComplaintResponse(x, group, plaintiff, accused, valid)
    PROVE  Inv1'
<1> DEFINE G == groups[group]
           seen == [v \in Honest |-> IF v \in asleep THEN Ignored(view[v])
                     ELSE HandleKeyGenComplaintResponded(view[v], v, block, group, plaintiff, accused, valid)]
<1>1. /\ group \in DOMAIN groups
      /\ [plaintiff |-> plaintiff, accused |-> accused] \in G.complaints
      /\ SetGroup(group, Responding(G, plaintiff, accused))
      /\ block' = block /\ group_of' = group_of /\ consensus' = consensus
      /\ Handled({x}, seen)
  BY DEF CallKeyGenComplaintResponse, CanRespond, Responding, Included, Seen
<1>2. group \in Group /\ GroupOK(group, G)
  BY <1>1 DEF Inv1, TypesOK, ContractOK
<1>3. GroupOK(group, Responding(G, plaintiff, accused)) /\ plaintiff \in G.registered /\ accused \in G.registered
  BY <1>1, <1>2, RespondGroupOK
<1>4. plaintiff \in Participants /\ accused \in group.members
  BY <1>2, <1>3 DEF GroupOK, ContractGroup
<1>5. Event(seen) /\ Silent(seen)
  BY <1>2, <1>4, RespondedEvent
<1> HIDE DEF seen, G
<1> QED BY <1>1, <1>3, <1>5, RoundKeeps

\* The genesis group is created: everybody starts with it.
LEMMA GenesisKeeps ==
    ASSUME Inv1, effects = {}, NEW transactions, NEW seen, Handled(transactions, seen),
           Event(seen), \A v \in Honest \ asleep : seen[v].state.rollover.group = GenesisGroup,
           NEW G, SetGroup(GenesisGroup, G), GroupOK(GenesisGroup, G),
           block' = block, group_of' = group_of, consensus' = consensus
    PROVE  Inv1' /\ Contracts(seen)
<1>1. /\ DOMAIN groups' = DOMAIN groups \cup {GenesisGroup} /\ groups'[GenesisGroup] = G
      /\ \A h \in DOMAIN groups' : h # GenesisGroup => h \in DOMAIN groups /\ groups'[h] = groups[h]
  BY SetGroupGroups
<1>2. ASSUME NEW g \in DOMAIN groups' PROVE GroupOK(g, groups'[g])
  BY <1>1, <1>2 DEF Inv1, ContractOK
<1>3. Known(GenesisGroup)
  BY KnownGroups
<1>4. \A u \in Steady : Reached(seen[u].state.rollover, GenesisGroup)
  BY DEF Reached, Steady
<1>5. Contracts(seen)
  BY <1>1, <1>2, <1>3, <1>4 DEF Contracts, Known
<1> QED BY <1>5, EventKeeps

\* keyGen
LEMMA KeyGenStep ==
    ASSUME Inv1, effects = {}, CallKeyGen
    PROVE  Inv1'
<1> DEFINE seen == [v \in Honest |-> IF v \in asleep THEN Ignored(view[v])
                     ELSE HandleGenesisKeyGen(view[v], v, GenesisGroup)]
<1>1. /\ GenesisGroup \notin DOMAIN groups /\ SetGroup(GenesisGroup, EmptyGroup)
      /\ block' = block /\ group_of' = group_of /\ consensus' = consensus
      /\ Handled({}, seen)
  BY DEF CallKeyGen, Dispatch, Seen
<1>2. asleep \subseteq Honest
  BY HonestAssumption DEF Inv1, TypesOK
<1>3. /\ \A v \in asleep : seen[v] = Ignored(view[v])
      /\ \A v \in Honest \ asleep : seen[v] = HandleGenesisKeyGen(view[v], v, GenesisGroup)
  BY <1>2
<1> HIDE DEF seen
<1>4. Event(seen) /\ \A v \in Honest \ asleep : seen[v].state.rollover.group = GenesisGroup
  BY <1>1, <1>3, GenesisEvent
<1>5. GroupOK(GenesisGroup, EmptyGroup)
  BY EmptyGroupOK
<1> QED BY <1>1, <1>4, <1>5, GenesisKeeps

Entry(group) == IF group \in DOMAIN groups THEN groups[group] ELSE EmptyGroup

\* keyGenAndCommit
LEMMA CommitStep ==
    ASSUME Inv1, effects = {}, NEW x, NEW group, NEW p, NEW valid \in BOOLEAN, NEW cancels, Known(group),
           group = GenesisGroup /\ group \notin DOMAIN groups => p \notin Honest,
           CallKeyGenAndCommit(x, group, p, valid, cancels)
    PROVE  Inv1'
<1> DEFINE G == Entry(group)
           Created(v) == IF group \in DOMAIN groups THEN Ignored(view[v])
                         ELSE HandleGenesisKeyGen(view[v], v, group)
           seen == [v \in Honest |-> IF v \in asleep THEN Ignored(view[v])
                     ELSE AndThen(Created(v), HandleKeyGenCommitted(Created(v).state, block, group, p, valid))]
<1>1. /\ p \in group.members /\ (group \in DOMAIN groups => G.status = "COMMITTING")
      /\ SetGroup(group, Registering(group, G, p))
      /\ block' = block /\ group_of' = group_of /\ consensus' = consensus
      /\ Handled({x}, seen)
  BY DEF CallKeyGenAndCommit, CanCommit, Registering, Included, Seen, Entry
<1>2. group \in Group /\ GroupOK(group, G) /\ G.status = "COMMITTING"
  <2>1. EmptyGroup.status = "COMMITTING"
    BY DEF EmptyGroup
  <2> QED BY <1>1, <2>1, EmptyGroupOK DEF Inv1, ContractOK, Known, Formed, Entry
<1>3. GroupOK(group, Registering(group, G, p))
  BY <1>1, <1>2, CommitGroupOK
<1>4. asleep \subseteq Honest
  BY HonestAssumption DEF Inv1, TypesOK
<1>5. /\ \A v \in asleep : seen[v] = Ignored(view[v])
      /\ \A v \in Honest \ asleep :
            seen[v] = AndThen(Created(v), HandleKeyGenCommitted(Created(v).state, block, group, p, valid))
  BY <1>4
<1>6. CASE group = GenesisGroup /\ group \notin DOMAIN groups
  <2>1. \A v \in Honest : Created(v) = HandleGenesisKeyGen(view[v], v, GenesisGroup)
    BY <1>6
  <2> HIDE DEF seen, Created
  <2>2. \A v \in Honest \ asleep :
              LET created == HandleGenesisKeyGen(view[v], v, GenesisGroup) IN
              seen[v] = AndThen(created, HandleKeyGenCommitted(created.state, block, GenesisGroup, p, valid))
    BY <1>5, <1>6, <2>1
  <2>3. Event(seen) /\ \A v \in Honest \ asleep : seen[v].state.rollover.group = GenesisGroup
    <3>1. p \in GenesisGroup.members /\ p \notin Honest /\ GenesisGroup \notin DOMAIN groups
      BY <1>1, <1>6
    <3> QED BY <1>5, <2>2, <3>1, GenesisCommittedEvent
  <2> QED BY <1>1, <1>3, <1>6, <2>3, GenesisKeeps
<1>7. CASE ~ (group = GenesisGroup /\ group \notin DOMAIN groups)
  <2>1. \A v \in Honest : Created(v) = Ignored(view[v])
    BY <1>7 DEF HandleGenesisKeyGen, GenesisGroup
  <2> HIDE DEF seen, Created
  <2>2. ASSUME NEW v \in Honest PROVE Created(v).state = view[v] /\ Created(v).commands = {}
    <3>1. Ignored(view[v]).state = view[v] /\ Ignored(view[v]).commands = {}
      BY DEF Ignored, Result
    <3> QED BY <2>1, <3>1
  <2>3. ASSUME NEW v \in Honest \ asleep
        PROVE  /\ seen[v].state = HandleKeyGenCommitted(view[v], block, group, p, valid).state
               /\ seen[v].commands = HandleKeyGenCommitted(view[v], block, group, p, valid).commands
    <3> DEFINE a == Created(v)
               b == HandleKeyGenCommitted(view[v], block, group, p, valid)
    <3>1. seen[v] = AndThen(a, b) /\ a.commands = {}
      BY <1>5, <2>2
    <3> HIDE DEF a, b
    <3>2. seen[v].state = b.state /\ seen[v].commands = b.commands
      BY <3>1 DEF AndThen, Result
    <3> QED BY <3>2 DEF b
  <2>4. Event(seen) /\ Silent(seen)
    BY <1>1, <1>2, <1>5, <2>3, CommittedEvent
  <2> QED BY <1>1, <1>3, <1>7, <2>4, RoundKeeps
<1> QED BY <1>6, <1>7

\* The effect of a set up.
LEMMA SetupStep ==
    ASSUME Inv1, SetupDone
    PROVE  Inv1'
<1>0. TypesOK /\ ContractOK /\ ViewsOK /\ QueuesOK /\ GroupsOK /\ AgreeOK /\ SyncOK
  BY DEF Inv1
<1>1. PICK x \in effects :
        LET r == HandleKeyGenSetup(view[x.from], x.from, x.c.group) IN
        /\ effects' = effects \ {x}
        /\ view' = [view EXCEPT ![x.from] = r.state]
        /\ pool' = pool \cup {[from |-> x.from, c |-> c] : c \in r.commands}
        /\ UNCHANGED <<chainVars, asleep, joined, misdeeds, late, began>>
  BY DEF SetupDone
<1> DEFINE me == x.from
           g == x.c.group
           s == view[me]
           q == [s.rollover EXCEPT !.participation = "Participating"]
           r == HandleKeyGenSetup(s, me, g)
<1>2. /\ me \in Honest /\ s \in State /\ s.rollover.group = g /\ s.rollover.participation = "Setup"
      /\ Shape(me, s.rollover) /\ x = Transaction(me, KeyGenSetup(g))
  BY <1>0 DEF QueuesOK, TypesOK, ViewsOK, Roll
<1>3. /\ r.state \in State /\ r.state.rollover = q /\ Keeps(s, r.state)
      /\ Shape(me, q) /\ q.participation = "Participating"
      /\ r.commands = {KeyGenAndCommit(g)}
      /\ KeyGenAndCommit(g) \in Command /\ KeyGenAndCommit(g).group = g
  <2> HIDE DEF me, g, s
  <2>1. SetUp(me, s, g, r)
    BY <1>2, SetupGood
  <2> HIDE DEF r
  <2> QED BY <2>1 DEF SetUp
<1>4. /\ q.stage = s.rollover.stage /\ q.next_epoch = s.rollover.next_epoch /\ q.group = g
      /\ q.confirmed = s.rollover.confirmed
      /\ Alike(s.rollover, q)
  BY <1>2 DEF State, RolloverState, Alike
<1> HIDE DEF q
<1>5. /\ view' \in [Honest -> State] /\ view'[me] = r.state
      /\ \A v \in Honest : v # me => view'[v] = view[v]
  BY <1>0, <1>1, <1>2, <1>3 DEF TypesOK
<1>6. Roll(me)' = q /\ \A v \in Honest : v # me => Roll(v)' = Roll(v)
  BY <1>3, <1>5 DEF Roll
<1>7. /\ block' = block /\ groups' = groups /\ consensus' = consensus /\ group_of' = group_of
      /\ asleep' = asleep /\ joined' = joined /\ Steady' = Steady
      /\ pool' = pool \cup {Transaction(me, KeyGenAndCommit(g))} /\ effects' = effects \ {x}
  BY <1>1, <1>3 DEF chainVars, Steady, Transaction
<1>8. \A v \in Honest : Alike(Roll(v), Roll(v)')
  BY <1>4, <1>6 DEF Alike, Roll
<1>9. Formed(g) /\ s.rollover.stage = "CollectingCommitments"
  BY <1>2 DEF Shape, Busy
<1>10. me \notin asleep
  BY <1>0, <1>2, <1>9 DEF ViewsOK, InitialState, Idle, Rollover, Roll
<1>11. TypesOK' /\ ContractOK'
  BY <1>0, <1>5, <1>7 DEF TypesOK, ContractOK
<1>12. ViewsOK'
  <2> SUFFICES ASSUME NEW v \in Honest
               PROVE  /\ Shape(v, Roll(v)')
                      /\ v \in asleep' => view'[v] = InitialState
                      /\ Roll(v)'.stage # "WaitingForGenesis" /\ Roll(v)'.next_epoch # Genesis =>
                            Roll(v)'.next_epoch = NextNumber(block')
                      /\ GenesisGroup \notin DOMAIN groups' => Roll(v)'.stage = "WaitingForGenesis"
                      /\ Roll(v)'.participation = "Setup" =>
                            Transaction(v, KeyGenSetup(Roll(v)'.group)) \in effects'
    BY DEF ViewsOK
  <2>1. CASE v = me
    BY <1>0, <1>3, <1>4, <1>6, <1>7, <1>10, <2>1 DEF ViewsOK, Roll
  <2>2. CASE v # me
    <3>1. \A c : Transaction(v, c) # x
      BY <1>2, <2>2 DEF Transaction
    <3> QED BY <1>0, <1>5, <1>6, <1>7, <2>2, <3>1 DEF ViewsOK
  <2> QED BY <2>1, <2>2
<1>13. QueuesOK'
  <2>1. ASSUME NEW y \in effects'
        PROVE  /\ y = Transaction(y.from, KeyGenSetup(y.c.group))
               /\ y.from \in Honest /\ Roll(y.from)'.group = y.c.group
               /\ Roll(y.from)'.participation = "Setup"
    <3>1. /\ y = Transaction(y.from, KeyGenSetup(y.c.group)) /\ y.from \in Honest
          /\ Roll(y.from).group = y.c.group /\ Roll(y.from).participation = "Setup" /\ y # x
      BY <1>0, <1>7, <2>1 DEF QueuesOK
    <3>2. y.from # me
      BY <1>2, <3>1 DEF Roll
    <3> QED BY <1>6, <3>1, <3>2
  <2>2. ASSUME NEW y \in pool'
        PROVE  /\ y = Transaction(y.from, y.c) /\ y.from \in Honest
               /\ y.c \in Command /\ ~ IsEffect(y.c) /\ Formed(y.c.group)
               /\ Reached(Roll(y.from)', y.c.group)
    <3>1. CASE y \in pool
      <4>1. Reached(Roll(y.from), y.c.group) /\ y.from \in Honest
        BY <1>0, <3>1 DEF QueuesOK
      <4>2. Reached(Roll(y.from)', y.c.group)
        BY <1>8, <4>1 DEF Reached, Past, Alike
      <4> QED BY <1>0, <3>1, <4>2 DEF QueuesOK
    <3>2. CASE y = Transaction(me, KeyGenAndCommit(g))
      <4>1. y.from = me /\ y.c = KeyGenAndCommit(g)
        BY <3>2 DEF Transaction
      <4>2. ~ IsEffect(KeyGenAndCommit(g))
        BY DEF IsEffect, KeyGenAndCommit
      <4> QED BY <1>2, <1>3, <1>4, <1>6, <1>9, <3>2, <4>1, <4>2 DEF Reached
    <3> QED BY <1>7, <2>2, <3>1, <3>2
  <2> QED BY <2>1, <2>2 DEF QueuesOK
<1>14. AgreeOK'
  <2> SUFFICES ASSUME NEW u \in Steady, NEW v \in Honest \ asleep
               PROVE  \/ Common(Roll(u)') = Common(Roll(v)')
                      \/ v \in joined /\ Roll(v)'.stage = "WaitingForGenesis"
                      \/ /\ v \in joined /\ Roll(v)'.stage = "EpochSkipped"
                         /\ Roll(u)'.stage = "EpochStaged" /\ Roll(v)'.next_epoch = Roll(u)'.next_epoch
    BY <1>7 DEF AgreeOK
  <2>0. u \in Honest
    BY DEF Steady
  <2>1. Common(Roll(u)') = Common(Roll(u)) /\ Common(Roll(v)') = Common(Roll(v))
    BY <1>8, <2>0, CommonAlike
  <2>2. /\ Roll(u)'.stage = Roll(u).stage /\ Roll(u)'.next_epoch = Roll(u).next_epoch
        /\ Roll(v)'.stage = Roll(v).stage /\ Roll(v)'.next_epoch = Roll(v).next_epoch
    BY <1>8, <2>0 DEF Alike
  <2> QED BY <1>0, <2>1, <2>2 DEF AgreeOK
<1>15. GroupsOK'
  <2>1. ASSUME NEW u \in Steady, NEW h, Reached(Roll(u), h) PROVE Reached(Roll(u)', h)
    BY <1>8, <2>1 DEF Reached, Past, Alike, Steady
  <2>2. \A u \in Steady : \A y \in pool' : Reached(Roll(u)', y.c.group)
    <3> SUFFICES ASSUME NEW u \in Steady, NEW y \in pool' PROVE Reached(Roll(u), y.c.group)
      BY <2>1
    <3>1. CASE y \in pool
      BY <1>0, <3>1 DEF GroupsOK
    <3>2. CASE y = Transaction(me, KeyGenAndCommit(g))
      <4>1. y.c.group = g
        BY <1>3, <3>2 DEF Transaction
      <4>2. Common(Roll(u)) = Common(Roll(me))
        BY <1>0, <1>2, <1>9, <1>10 DEF AgreeOK, Roll
      <4>3. Roll(u).group = g
        BY <1>2, <4>2, CommonAlike DEF Alike, Roll
      <4> QED BY <4>1, <4>3 DEF Reached
    <3> QED BY <1>7, <3>1, <3>2
  <2>3. \A u \in Steady' : \A h \in DOMAIN groups' : Reached(Roll(u)', h)
    BY <1>0, <1>7, <2>1 DEF GroupsOK
  <2>4. \A h \in DOMAIN groups' : Formed(h) /\ h.epoch <= NextNumber(block')
    BY <1>0, <1>7 DEF GroupsOK
  <2> QED BY <1>7, <2>2, <2>3, <2>4 DEF GroupsOK
<1>16. SyncOK'
  <2>1. EpochsWithRollover' = EpochsWithRollover
    BY <1>7 DEF EpochsWithRollover
  <2>2. \A v \in Honest : /\ view'[v].active_epoch = view[v].active_epoch
                          /\ Roll(v)'.stage = Roll(v).stage /\ Roll(v)'.next_epoch = Roll(v).next_epoch
    BY <1>3, <1>5, <1>8 DEF Keeps, Alike
  <2> QED BY <1>0, <1>7, <2>1, <2>2 DEF SyncOK, Steady
<1> QED BY <1>11, <1>12, <1>13, <1>14, <1>15, <1>16 DEF Inv1

\* An epoch that is staged is that of the block, and everybody who was there is ready
\* to sign it: somebody honest signed.
LEMMA StagedByAll ==
    ASSUME Inv1, NEW group \in DOMAIN groups, StageEpoch(group)
    PROVE  /\ group \in Group /\ group.epoch = NextNumber(block) /\ IsFinalized(group)
           /\ \E v \in Honest : Follows(view[v], "SigningRollover", group)
           /\ \A u \in Steady : Follows(view[u], "SigningRollover", group)
<1> DEFINE epochs == EpochsWithRollover
           signing == group_of[epochs.active]
           able == Signers(group) \cup (Faulty \cap signing.members)
<1>1. /\ IsFinalized(group) /\ IsFinalized(signing) /\ IsValidRollover(group.epoch)
      /\ Cardinality(able) >= GroupThreshold(signing.members)
  BY DEF StageEpoch
<1>0. block \in Nat /\ group \in Group /\ group.epoch <= NextNumber(block)
  BY DEF Inv1, TypesOK, GroupsOK
<1>2. group \in Group /\ group.epoch \in Nat /\ group.epoch <= NextNumber(block) /\ block \in Nat
  BY <1>0, EpochsAssumption DEF Group
<1>3. group.epoch = NextNumber(block)
  BY <1>1, <1>2, ValidRolloverEpoch
<1>4. Formed(signing)
  BY <1>1 DEF IsFinalized, Inv1, GroupsOK
<1>5. Signers(group) # {}
  <2> SUFFICES ASSUME Signers(group) = {} PROVE FALSE
    OBVIOUS
  <2>1. able \in SUBSET (Faulty \cap signing.members)
    OBVIOUS
  <2> HIDE DEF able, signing
  <2>2. Cardinality(able) < GroupThreshold(signing.members) /\ GroupThreshold(signing.members) \in Nat
    BY <1>4, <2>1, FaultyMinority
  <2>3. IsFiniteSet(signing.members)
    BY <1>4, FaultyMinority
  <2>4. IsFiniteSet(able)
    BY <2>1, <2>3, FS_Subset
  <2>5. Cardinality(able) \in Nat
    BY <2>4, FS_CardinalityType
  <2> QED BY <1>1, <2>2, <2>5
<1>6. PICK v \in Honest : Follows(view[v], "SigningRollover", group)
  BY <1>5 DEF Signers
<1>7. v \notin asleep
  BY <1>6 DEF Follows, Inv1, ViewsOK, InitialState, Idle, Rollover
<1>8. ASSUME NEW u \in Steady PROVE Follows(view[u], "SigningRollover", group)
  <2>1. Common(Roll(u)) = Common(Roll(v))
    BY <1>6, <1>7 DEF Inv1, AgreeOK, Follows, Roll
  <2>2. Alike(Roll(u), Roll(v))
    BY <2>1, CommonAlike
  <2> QED BY <1>6, <2>2 DEF Follows, Alike, Roll
<1> QED BY <1>1, <1>2, <1>3, <1>6, <1>8

\* stageEpoch
LEMMA StageStep ==
    ASSUME Inv1, effects = {}, NEW group \in DOMAIN groups, group.epoch # Genesis, StageEpoch(group)
    PROVE  Inv1'
<1> DEFINE seen == [v \in Honest |-> IF v \in asleep THEN Ignored(view[v])
                     ELSE HandleEpochStaged(view[v], group.epoch, group)]
<1>0. TypesOK /\ ContractOK /\ ViewsOK /\ QueuesOK /\ GroupsOK /\ AgreeOK /\ SyncOK
  BY DEF Inv1
<1>1. /\ consensus' = [EpochsWithRollover EXCEPT !.staged = group.epoch,
                                   !.rollover_block = RolloverBlock(group.epoch)]
      /\ group_of' = [group_of EXCEPT ![group.epoch] = group]
      /\ block' = block /\ groups' = groups /\ Handled({}, seen) /\ IsValidRollover(group.epoch)
  BY DEF StageEpoch, Dispatch, Seen
<1>2. /\ group \in Group /\ group.epoch = NextNumber(block) /\ group.epoch \in Epochs
      /\ \A u \in Steady : Follows(view[u], "SigningRollover", group)
  BY StagedByAll DEF Group
<1>3. asleep \subseteq Honest /\ Steady \subseteq Honest \ asleep
  BY <1>0, HonestAssumption DEF TypesOK, Steady
<1>4. /\ \A v \in asleep : seen[v] = Ignored(view[v])
      /\ \A v \in Honest \ asleep : seen[v] = HandleEpochStaged(view[v], group.epoch, group)
  BY <1>3
<1> HIDE DEF seen
<1>5. \A v \in Honest : Ready(v, view[v], block) /\ view[v] \in State
  BY AllReady DEF Ready
<1>6. ASSUME NEW v \in Honest
      PROVE  /\ Good(v, view[v], seen[v], block) /\ seen[v].state.active_epoch = view[v].active_epoch
  <2>1. CASE v \in asleep
    <3>1. Good(v, view[v], Ignored(view[v]), block) /\ Ignored(view[v]).state = view[v]
      BY <1>5, IgnoredGood DEF Ignored, Result
    <3> QED BY <1>4, <2>1, <3>1
  <2>2. CASE v \notin asleep
    BY <1>2, <1>4, <1>5, <2>2, StagedGood
  <2> QED BY <2>1, <2>2
<1>7. Stepped(seen, block')
  BY <1>1, <1>4, <1>6 DEF Stepped
<1>8. ASSUME NEW u \in Steady
      PROVE  seen[u].state.rollover = Idle("EpochStaged", group.epoch)
  BY <1>2, <1>3, <1>4, <1>5, StagedGood
<1>9. ASSUME NEW e PROVE /\ Idle("EpochStaged", e).stage = "EpochStaged" /\ Idle("EpochStaged", e).next_epoch = e
                         /\ Idle("EpochSkipped", e).stage = "EpochSkipped" /\ Idle("EpochSkipped", e).next_epoch = e
  BY DEF Idle, Rollover
<1>10. GenesisGroup \notin DOMAIN groups' =>
          \A v \in Honest : seen[v].state.rollover.stage = "WaitingForGenesis"
  <2> SUFFICES ASSUME GenesisGroup \notin DOMAIN groups PROVE FALSE
    BY <1>1
  <2>1. \A v \in Honest : Roll(v).stage = "WaitingForGenesis"
    BY <1>0 DEF ViewsOK
  <2> QED BY <2>1, StagedByAll DEF Follows, Roll
<1>11. view' \in [Honest -> State] /\ ViewsOK' /\ QueuesOK'
  BY <1>0, <1>1, <1>7, <1>10, HandledInvariant
<1>12. /\ asleep' = asleep /\ joined' = joined /\ Steady' = Steady
       /\ \A v \in Honest : view'[v] = seen[v].state /\ Roll(v)' = seen[v].state.rollover
  BY <1>1, HandledViews
<1>13. AgreeOK'
  <2> SUFFICES ASSUME NEW u \in Steady, NEW v \in Honest \ asleep
               PROVE  \/ Common(Roll(u)') = Common(Roll(v)')
                      \/ v \in joined /\ Roll(v)'.stage = "WaitingForGenesis"
                      \/ /\ v \in joined /\ Roll(v)'.stage = "EpochSkipped"
                         /\ Roll(u)'.stage = "EpochStaged" /\ Roll(v)'.next_epoch = Roll(u)'.next_epoch
    BY <1>12 DEF AgreeOK
  <2>1. Roll(u)' = Idle("EpochStaged", group.epoch) /\ Roll(u).stage = "SigningRollover" /\ Roll(u).group = group
    BY <1>2, <1>3, <1>8, <1>12 DEF Follows, Roll
  <2>2. CASE Common(Roll(u)) = Common(Roll(v))
    <3>1. Follows(view[v], "SigningRollover", group)
      BY <2>1, <2>2, CommonAlike DEF Follows, Alike, Roll
    <3>2. Roll(v)' = Idle("EpochStaged", group.epoch)
      BY <1>2, <1>4, <1>5, <1>12, <3>1, StagedGood
    <3> QED BY <2>1, <3>2
  <2>3. CASE v \in joined /\ Roll(v).stage = "WaitingForGenesis"
    <3>1. ~ Follows(view[v], "SigningRollover", group)
      BY <2>3 DEF Follows, Roll
    <3>2. Roll(v)' = Idle("EpochSkipped", group.epoch)
      BY <1>2, <1>4, <1>5, <1>12, <2>3, <3>1, StagedOthers DEF Roll
    <3> QED BY <1>9, <2>1, <2>3, <3>2
  <2> QED BY <1>0, <2>1, <2>2, <2>3 DEF AgreeOK
<1>14. GroupsOK'
  <2>1. ASSUME NEW g \in DOMAIN groups'
        PROVE  /\ Formed(g) /\ g.epoch <= NextNumber(block')
               /\ \A u \in Steady : Reached(seen[u].state.rollover, g)
    <3>1. g \in Group /\ Formed(g) /\ g.epoch <= NextNumber(block') /\ \A u \in Steady : Reached(Roll(u), g)
      BY <1>0, <1>1, <2>1 DEF GroupsOK, TypesOK
    <3>2. \A u \in Steady : Advance(Roll(u), seen[u].state.rollover)
      BY <1>6 DEF Good, Turn, Roll, Steady
    <3> QED BY <3>1, <3>2 DEF Advance, Reached
  <2> QED BY <1>0, <1>1, <1>7, <1>11, <1>13, <2>1, HandledGroups
<1>15. EpochsWithRollover' = consensus' /\ consensus'.staged = group.epoch
       /\ consensus'.active = EpochsWithRollover.active /\ consensus'.rollover_block = RolloverBlock(group.epoch)
       /\ consensus' \in [active : Epochs, staged : Epochs, rollover_block : Nat]
  <2>1. EpochsWithRollover \in [active : Epochs, staged : Epochs, rollover_block : Nat]
    BY <1>0, EpochsWithRolloverType
  <2>0. block \in Nat
    BY <1>0 DEF TypesOK
  <2>2. group.epoch \in Nat /\ block \in Nat
    BY <1>2, <2>0, EpochsAssumption
  <2>3. RolloverBlock(group.epoch) \in Nat /\ RolloverBlock(group.epoch) > block
    BY <1>1, <2>2, RolloverBlockPassed DEF IsValidRollover
  <2>4. /\ consensus'.staged = group.epoch /\ consensus'.active = EpochsWithRollover.active
        /\ consensus'.rollover_block = RolloverBlock(group.epoch)
        /\ consensus' \in [active : Epochs, staged : Epochs, rollover_block : Nat]
    BY <1>1, <1>2, <2>1, <2>3
  <2>5. ~ (consensus'.rollover_block <= block')
    BY <1>1, <2>2, <2>3, <2>4
  <2> QED BY <2>4, <2>5 DEF EpochsWithRollover
<1>16. SyncOK'
  <2>1. ASSUME NEW v \in Steady
        PROVE  /\ view'[v].active_epoch = EpochsWithRollover'.active
               /\ Roll(v)'.stage = "EpochStaged" <=> EpochsWithRollover'.staged # Genesis
               /\ Roll(v)'.stage = "EpochStaged" => Roll(v)'.next_epoch = EpochsWithRollover'.staged
               /\ view'[v].active_epoch < NextNumber(block')
    <3>1. v \in Honest
      BY <1>3
    <3>2. view'[v].active_epoch = view[v].active_epoch /\ Roll(v)' = Idle("EpochStaged", group.epoch)
      BY <1>6, <1>8, <1>12, <3>1
    <3>3. view[v].active_epoch = EpochsWithRollover.active /\ view[v].active_epoch < NextNumber(block)
      BY <1>0 DEF SyncOK
    <3> QED BY <1>1, <1>9, <1>15, <3>2, <3>3
  <2> QED BY <1>12, <1>15, <2>1 DEF SyncOK
<1>17. TypesOK'
  <2>1. group_of' \in [Epochs -> Group \cup {NoGroup}] /\ group_of'[Genesis] = GenesisGroup
        /\ \A e \in Epochs : group_of'[e] # NoGroup => Formed(group_of'[e])
    <3>1. Formed(group)
      BY <1>0 DEF GroupsOK
    <3>2. /\ group_of' \in [Epochs -> Group \cup {NoGroup}]
          /\ \A e \in Epochs : group_of'[e] = IF e = group.epoch THEN group ELSE group_of[e]
      BY <1>0, <1>1, <1>2 DEF TypesOK
    <3> QED BY <1>0, <3>1, <3>2, EpochsAssumption DEF TypesOK
  <2> QED BY <1>0, <1>1, <1>11, <1>12, <1>15, <2>1 DEF TypesOK
<1>18. ContractOK'
  BY <1>0, <1>1 DEF ContractOK
<1> QED BY <1>11, <1>13, <1>14, <1>16, <1>17, <1>18 DEF Inv1

\* What the validators make of a new block.
Blocked == [v \in Honest |-> IF v \in asleep THEN Ignored(view[v]) ELSE HandleNewBlock(view[v], v, block + 1)]

\* The validators are ready for it.
LEMMA AllReadyForBlock ==
    ASSUME Inv1, effects = {}, block < MaxBlock
    PROVE  /\ block \in Nat /\ block + 1 \in 0 .. MaxBlock /\ NextNumber(block + 1) \in Epochs
           /\ \A v \in Honest : ReadyForBlock(v, view[v], block + 1)
<1>1. block \in Nat /\ block + 1 \in 0 .. MaxBlock /\ NextNumber(block + 1) \in Epochs
  BY BlocksAssumption DEF Inv1, TypesOK
<1>2. block + 1 # 0 /\ (block + 1) - 1 = block
  BY <1>1
<1>3. ASSUME NEW v \in Honest PROVE ReadyForBlock(v, view[v], block + 1)
  <2>1. Ready(v, view[v], block)
    BY AllReady
  <2> QED BY <1>1, <1>2, <2>1 DEF Ready, ReadyForBlock
<1> QED BY <1>1, <1>3

\* A new block, for every validator.
LEMMA BlockStepped ==
    ASSUME Inv1, effects = {}, block < MaxBlock
    PROVE  /\ Stepped(Blocked, block + 1)
           /\ \A v \in asleep : Blocked[v] = Ignored(view[v])
           /\ \A v \in Honest \ asleep : Blocked[v] = HandleNewBlock(view[v], v, block + 1)
<1>1. asleep \subseteq Honest
  BY HonestAssumption DEF Inv1, TypesOK
<1>2. /\ \A v \in asleep : Blocked[v] = Ignored(view[v])
      /\ \A v \in Honest \ asleep : Blocked[v] = HandleNewBlock(view[v], v, block + 1)
  BY <1>1 DEF Blocked
<1>3. /\ block + 1 \in Nat /\ NextNumber(block + 1) \in Epochs
      /\ \A v \in Honest : ReadyForBlock(v, view[v], block + 1)
  BY AllReadyForBlock
<1>4. ASSUME NEW v \in Honest \ asleep PROVE Good(v, view[v], Blocked[v], block + 1)
  BY <1>2, <1>3, NewBlockGood
<1>5. ASSUME NEW v \in Honest, v \in asleep PROVE Good(v, view[v], Blocked[v], block + 1)
  <2>1. view[v] = InitialState
    BY <1>5 DEF Inv1, ViewsOK
  <2>2. view[v].rollover.stage = "WaitingForGenesis"
    BY <2>1 DEF InitialState, Idle, Rollover
  <2>3. Ready(v, view[v], block + 1)
    BY <1>3, <2>2 DEF Ready, ReadyForBlock, Timely
  <2>4. Good(v, view[v], Ignored(view[v]), block + 1)
    BY <2>3, IgnoredGood
  <2> QED BY <1>2, <1>5, <2>4
<1> QED BY <1>2, <1>4, <1>5 DEF Stepped

\* A new block
LEMMA BlockStep ==
    ASSUME Inv1, effects = {}, NextBlock
    PROVE  Inv1'
<1> DEFINE seen == Blocked
           b == block + 1
<1>0. TypesOK /\ ContractOK /\ ViewsOK /\ QueuesOK /\ GroupsOK /\ AgreeOK /\ SyncOK
  BY DEF Inv1
<1>1. PICK stale :
      /\ block < MaxBlock /\ block' = b /\ consensus' = consensus /\ group_of' = group_of
      /\ groups' = [h \in {i \in DOMAIN groups : IsFollowed(seen, i)} |-> groups[h]]
      /\ Handled(stale, seen)
  BY DEF NextBlock, Seen, Blocked
<1>2. /\ block \in Nat /\ b \in 0 .. MaxBlock /\ NextNumber(b) \in Epochs /\ b \in Nat
      /\ \A v \in Honest : ReadyForBlock(v, view[v], b)
  BY <1>1, AllReadyForBlock
<1>3. /\ Stepped(seen, b)
      /\ \A v \in asleep : seen[v] = Ignored(view[v])
      /\ \A v \in Honest \ asleep : seen[v] = HandleNewBlock(view[v], v, b)
  BY <1>1, BlockStepped
<1>4. NextNumber(block) \in Nat /\ NextNumber(b) \in Nat /\ NextNumber(block) <= NextNumber(b)
  BY <1>2, NextNumberPositive, NextNumberMonotone
<1> HIDE DEF seen, b
<1>5. /\ DOMAIN groups' \subseteq DOMAIN groups
      /\ \A g \in DOMAIN groups' : groups'[g] = groups[g]
      /\ GenesisGroup \in DOMAIN groups => GenesisGroup \in DOMAIN groups'
  BY <1>0, <1>1, EpochsAssumption DEF IsFollowed, TypesOK
<1>6. /\ asleep' = asleep /\ joined' = joined /\ Steady' = Steady
      /\ \A v \in Honest : view'[v] = seen[v].state /\ Roll(v)' = seen[v].state.rollover
  BY <1>1, HandledViews
<1>7. ASSUME NEW v \in Honest, Roll(v).stage = "WaitingForGenesis"
      PROVE  seen[v].state = view[v]
  <2>1. Roll(v).next_epoch = Genesis
    BY <1>0, <1>7 DEF ViewsOK, Shape, Idle, Rollover
  <2>2. CASE v \in asleep
    <3>1. Ignored(view[v]).state = view[v]
      BY DEF Ignored, Result
    <3> QED BY <1>3, <2>2, <3>1
  <2>3. CASE v \notin asleep
    BY <1>2, <1>3, <1>7, <2>1, <2>3, NewBlockRests DEF Rolls, Roll, Resting
  <2> QED BY <2>2, <2>3
<1>8. view' \in [Honest -> State] /\ ViewsOK' /\ QueuesOK'
  <2>1. GenesisGroup \notin DOMAIN groups' =>
           \A v \in Honest : seen[v].state.rollover.stage = "WaitingForGenesis"
    BY <1>0, <1>5, <1>7 DEF ViewsOK, Roll
  <2> QED BY <1>0, <1>1, <1>3, <2>1, HandledInvariant
<1>9. AgreeOK'
  <2> SUFFICES ASSUME NEW u \in Steady, NEW v \in Honest \ asleep
               PROVE  \/ Common(Roll(u)') = Common(Roll(v)')
                      \/ v \in joined /\ Roll(v)'.stage = "WaitingForGenesis"
                      \/ /\ v \in joined /\ Roll(v)'.stage = "EpochSkipped"
                         /\ Roll(u)'.stage = "EpochStaged" /\ Roll(v)'.next_epoch = Roll(u)'.next_epoch
    BY <1>6 DEF AgreeOK
  <2>1. /\ u \in Honest \ asleep /\ ReadyForBlock(u, view[u], b) /\ ReadyForBlock(v, view[v], b)
        /\ view[u] \in State /\ view[v] \in State
    BY <1>2 DEF Steady, ReadyForBlock
  <2>2. Roll(u)' = HandleNewBlock(view[u], u, b).state.rollover /\ Roll(v)' = HandleNewBlock(view[v], v, b).state.rollover
    BY <1>3, <1>6, <2>1
  <2>3. CASE Common(Roll(u)) = Common(Roll(v))
    <3>1. Alike(view[u].rollover, view[v].rollover)
      BY <2>3, CommonAlike DEF Roll
    <3>2. Alike(Roll(u)', Roll(v)')
      BY <2>1, <2>2, <3>1, NewBlockAlike
    <3> QED BY <3>2, CommonAlike
  <2>4. CASE v \in joined /\ Roll(v).stage = "WaitingForGenesis"
    BY <1>6, <1>7, <2>4 DEF Roll
  <2>5. CASE /\ v \in joined /\ Roll(v).stage = "EpochSkipped"
             /\ Roll(u).stage = "EpochStaged" /\ Roll(v).next_epoch = Roll(u).next_epoch
    <3>1. CASE Rolls(Roll(u), b)
      <4>1. Rolls(view[u].rollover, b) /\ Rolls(view[v].rollover, b)
        BY <2>5, <3>1 DEF Rolls, Roll
      <4>2. /\ HandleNewBlock(view[u], u, b).state = StartNextKeyGen(RolledOver(view[u]), u, b).state
            /\ HandleNewBlock(view[v], v, b).state = StartNextKeyGen(RolledOver(view[v]), v, b).state
        BY <2>1, <4>1, NewBlockRolls
      <4>3. RolledOver(view[u]) \in State /\ RolledOver(view[v]) \in State
        BY <2>1, RolledOverType
      <4>4. Alike(Roll(u)', Roll(v)')
        BY <2>2, <4>2, <4>3, NextAlike
      <4> QED BY <4>4, CommonAlike
    <3>2. CASE ~ Rolls(Roll(u), b)
      <4>1. ~ Rolls(view[u].rollover, b) /\ ~ Rolls(view[v].rollover, b)
        BY <2>5, <3>2 DEF Rolls, Roll
      <4>2. Roll(u)' = Roll(u) /\ Roll(v)' = Roll(v)
        BY <2>1, <2>2, <2>5, <4>1, NewBlockRests DEF Resting, Roll
      <4> QED BY <2>5, <4>2
    <3> QED BY <3>1, <3>2
  <2> QED BY <1>0, <2>3, <2>4, <2>5 DEF AgreeOK
<1>10. GroupsOK'
  <2>1. ASSUME NEW g \in DOMAIN groups'
        PROVE  /\ Formed(g) /\ g.epoch <= NextNumber(block')
               /\ \A u \in Steady : Reached(seen[u].state.rollover, g)
    <3>1. g \in Group /\ Formed(g) /\ g.epoch <= NextNumber(block) /\ \A u \in Steady : Reached(Roll(u), g)
      BY <1>0, <1>5, <2>1 DEF GroupsOK, TypesOK
    <3>2. \A u \in Steady : Advance(Roll(u), seen[u].state.rollover)
      BY <1>3 DEF Stepped, Good, Turn, Roll, Steady
    <3>3. g.epoch \in Nat
      BY <3>1, EpochsAssumption DEF Group
    <3>4. g.epoch <= NextNumber(block')
      BY <1>1, <1>4, <3>1, <3>3
    <3> QED BY <3>1, <3>2, <3>4 DEF Advance, Reached
  <2>2. Stepped(seen, block')
    BY <1>1, <1>3
  <2> QED BY <1>0, <1>1, <1>8, <1>9, <2>1, <2>2, HandledGroups
<1>11. SyncOK'
  <2> SUFFICES ASSUME NEW v \in Steady
               PROVE  /\ view'[v].active_epoch = EpochsWithRollover'.active
                      /\ Roll(v)'.stage = "EpochStaged" <=> EpochsWithRollover'.staged # Genesis
                      /\ Roll(v)'.stage = "EpochStaged" => Roll(v)'.next_epoch = EpochsWithRollover'.staged
                      /\ view'[v].active_epoch < NextNumber(block')
    BY <1>0, <1>1, <1>6 DEF SyncOK
  <2> DEFINE s == view[v]
             t == HandleNewBlock(s, v, b).state
             e == consensus.staged
             rolls == Rolls(s.rollover, b)
  <2>1. v \in Honest \ asleep /\ ReadyForBlock(v, s, b)
    BY <1>2 DEF Steady
  <2>2. view'[v] = t /\ Roll(v)' = t.rollover
    BY <1>3, <1>6, <2>1
  <2>3. /\ s.active_epoch = EpochsWithRollover.active /\ s.active_epoch < NextNumber(block)
        /\ Roll(v).stage = "EpochStaged" <=> EpochsWithRollover.staged # Genesis
        /\ Roll(v).stage = "EpochStaged" => Roll(v).next_epoch = EpochsWithRollover.staged
    BY <1>0 DEF SyncOK
  <2>4. t.active_epoch = IF rolls /\ s.rollover.stage = "EpochStaged" THEN s.rollover.next_epoch ELSE s.active_epoch
    BY <2>1, NewBlockGood
  <2>5. t.rollover.stage = "EpochStaged" => s.rollover.stage = "EpochStaged" /\ ~ rolls
    BY <2>1, NewBlockUnstaged
  <2>6. s.rollover.stage = "EpochStaged" /\ ~ rolls => t = s
    BY <2>1, NewBlockRests DEF Resting
  <2>7. s.rollover.stage = "EpochStaged" => s.rollover.next_epoch = NextNumber(block) /\ s.rollover.next_epoch # Genesis
    BY <1>0, <2>1 DEF ViewsOK, Shape, Roll
  <2>8. s.active_epoch \in Nat /\ e \in Epochs /\ e \in Nat /\ consensus.rollover_block \in Nat
    <3>1. s \in State
      BY <2>1 DEF ReadyForBlock
    <3> QED BY <1>0, <3>1, EpochsAssumption DEF State, TypesOK
  <2>9. e # Genesis => (consensus.rollover_block <= block <=> e < NextNumber(block))
                       /\ (consensus.rollover_block <= b <=> e < NextNumber(b))
    BY <1>0, <1>2, <2>8, RolloverBlockPassed DEF SyncOK
  <2>10. EpochsWithRollover' =
            IF e # Genesis /\ consensus.rollover_block <= b
            THEN [active |-> e, staged |-> Genesis, rollover_block |-> 0] ELSE consensus
    BY <1>1 DEF EpochsWithRollover
  <2> HIDE DEF t
  <2>11. CASE e # Genesis /\ consensus.rollover_block <= block
    <3>1. EpochsWithRollover = [active |-> e, staged |-> Genesis, rollover_block |-> 0]
      BY <2>11 DEF EpochsWithRollover
    <3>2. consensus.rollover_block <= b
      BY <1>2, <2>8, <2>11 DEF b
    <3>3. EpochsWithRollover' = [active |-> e, staged |-> Genesis, rollover_block |-> 0]
      BY <2>10, <2>11, <3>2
    <3>4. s.rollover.stage # "EpochStaged"
      BY <2>3, <3>1 DEF Roll
    <3>5. t.active_epoch = s.active_epoch /\ t.rollover.stage # "EpochStaged"
      BY <2>4, <2>5, <3>4
    <3>6. s.active_epoch < NextNumber(b)
      BY <1>4, <2>3, <2>8
    <3> QED BY <1>1, <2>2, <2>3, <3>1, <3>3, <3>5, <3>6
  <2>12. CASE ~ (e # Genesis /\ consensus.rollover_block <= block)
    <3>1. EpochsWithRollover = consensus
      BY <2>12 DEF EpochsWithRollover
    <3>2. CASE e = Genesis
      <4>1. s.rollover.stage # "EpochStaged"
        BY <2>3, <3>1, <3>2 DEF Roll
      <4>2. t.active_epoch = s.active_epoch /\ t.rollover.stage # "EpochStaged"
        BY <2>4, <2>5, <4>1
      <4>3. s.active_epoch < NextNumber(b)
        BY <1>4, <2>3, <2>8
      <4> QED BY <1>1, <2>2, <2>3, <2>10, <3>1, <3>2, <4>2, <4>3
    <3>3. CASE e # Genesis
      <4>1. s.rollover.stage = "EpochStaged" /\ s.rollover.next_epoch = e /\ e = NextNumber(block)
        BY <2>3, <2>7, <3>1, <3>3 DEF Roll
      <4>2. rolls <=> consensus.rollover_block <= b
        BY <2>9, <3>3, <4>1 DEF Rolls
      <4>3. CASE rolls
        <5>1. EpochsWithRollover' = [active |-> e, staged |-> Genesis, rollover_block |-> 0]
          BY <2>10, <3>3, <4>2, <4>3
        <5>2. t.active_epoch = e /\ t.rollover.stage # "EpochStaged"
          BY <2>4, <2>5, <4>1, <4>3
        <5>3. e < NextNumber(b)
          BY <4>1, <4>3 DEF Rolls
        <5> QED BY <1>1, <2>2, <5>1, <5>2, <5>3
      <4>4. CASE ~ rolls
        <5>1. EpochsWithRollover' = consensus /\ t = s
          BY <2>6, <2>10, <3>3, <4>1, <4>2, <4>4
        <5>2. s.active_epoch < NextNumber(b)
          BY <1>4, <2>3, <2>8
        <5> QED BY <1>1, <2>2, <2>3, <3>1, <3>3, <4>1, <5>1, <5>2 DEF Roll
      <4> QED BY <4>3, <4>4
    <3> QED BY <3>2, <3>3
  <2> QED BY <2>11, <2>12
<1>12. TypesOK' /\ ContractOK'
  <2>1. \A g \in DOMAIN groups' : g \in Group /\ GroupOK(g, groups'[g])
    BY <1>0, <1>5 DEF TypesOK, ContractOK
  <2> QED BY <1>0, <1>1, <1>2, <1>6, <1>8, <2>1 DEF TypesOK, ContractOK
<1> QED BY <1>8, <1>9, <1>10, <1>11, <1>12 DEF Inv1

\* The calls of honest validators.
LEMMA SubmitStep ==
    ASSUME Inv1, effects = {}, NEW x \in pool, Submit(x)
    PROVE  Inv1'
<1>1. /\ x.from \in Honest /\ x.c.group \in Group /\ Reached(Roll(x.from), x.c.group) /\ Known(x.c.group)
  BY KnownGroups DEF Inv1, QueuesOK, Formed
<1>2. x.c.group # GenesisGroup \/ x.c.group \in DOMAIN groups
  BY <1>1, ReachedEpoch DEF Inv1, ViewsOK
<1>3. TRUE \in BOOLEAN
  OBVIOUS
<1> QED BY <1>1, <1>2, <1>3, CommitStep, ShareStep, ConfirmStep, ComplainStep, RespondStep DEF Submit

\* What the others do.
LEMMA FaultyStep ==
    ASSUME Inv1, effects = {}, FaultyActs
    PROVE  Inv1'
<1>1. CASE FaultyCommits
  <2>1. PICK p \in Faulty, valid \in BOOLEAN,
             group \in ({view[v].rollover.group : v \in Honest} \ {NoGroup}) \cup {GenesisGroup} :
                \E cancels : CallKeyGenAndCommit(Nobody, group, p, valid, cancels)
    BY <1>1 DEF FaultyCommits
  <2>2. Known(group)
    BY KnownGroups DEF Roll
  <2>3. p \notin Honest
    BY DEF Faulty
  <2> QED BY <2>1, <2>2, <2>3, CommitStep
<1>2. CASE FaultyShares
  BY <1>2, ShareStep DEF FaultyShares
<1>3. CASE FaultyConfirms
  BY <1>3, ConfirmStep DEF FaultyConfirms
<1>4. CASE FaultyComplains
  BY <1>4, ComplainStep DEF FaultyComplains
<1>5. CASE FaultyResponds
  BY <1>5, RespondStep DEF FaultyResponds
<1> QED BY <1>1, <1>2, <1>3, <1>4, <1>5 DEF FaultyActs

\* A transaction that the contract refuses.
LEMMA RevertStep ==
    ASSUME Inv1, Revert
    PROVE  Inv1'
<1>1. /\ pool' \subseteq pool
      /\ UNCHANGED <<block, groups, consensus, group_of, view, effects, asleep, joined>>
  BY DEF Revert, chainVars
<1>2. TypesOK' /\ ContractOK' /\ AgreeOK'
  BY <1>1 DEF Inv1, TypesOK, ContractOK, AgreeOK, Steady, Roll
<1>3. ViewsOK' /\ QueuesOK' /\ GroupsOK'
  BY <1>1 DEF Inv1, ViewsOK, QueuesOK, GroupsOK, Steady, Roll
<1>4. SyncOK'
  BY <1>1 DEF Inv1, SyncOK, Steady, Roll, EpochsWithRollover
<1> QED BY <1>2, <1>3, <1>4 DEF Inv1

\* A validator that starts late.
LEMMA JoinStep ==
    ASSUME Inv1, NEW w \in Joiners, Join(w)
    PROVE  Inv1'
<1>1. /\ w \in asleep /\ asleep' = asleep \ {w} /\ joined' = joined \cup {w}
      /\ UNCHANGED <<block, groups, consensus, group_of, view, effects, pool>>
  BY DEF Join, chainVars
<1>2. Steady' = Steady
  BY <1>1 DEF Steady
<1>3. TypesOK' /\ ContractOK'
  BY <1>1 DEF Inv1, TypesOK, ContractOK
<1>4. ViewsOK' /\ QueuesOK' /\ GroupsOK'
  BY <1>1, <1>2 DEF Inv1, ViewsOK, QueuesOK, GroupsOK, Roll
<1>5. SyncOK'
  BY <1>1, <1>2 DEF Inv1, SyncOK, Roll, EpochsWithRollover
<1>6. AgreeOK'
  <2>1. Roll(w).stage = "WaitingForGenesis"
    BY <1>1, HonestAssumption DEF Inv1, ViewsOK, Roll, InitialState, Idle, Rollover
  <2>2. \A v : Roll(v)' = Roll(v)
    BY <1>1 DEF Roll
  <2> QED BY <1>1, <1>2, <2>1, <2>2 DEF Inv1, AgreeOK
<1> QED BY <1>3, <1>4, <1>5, <1>6 DEF Inv1

\* The first state.
LEMMA InitialStep ==
    ASSUME Init
    PROVE  Inv1
<1>1. /\ block = 0 /\ groups = << >> /\ consensus = [active |-> Genesis, staged |-> Genesis, rollover_block |-> 0]
      /\ group_of = [e \in Epochs |-> IF e = Genesis THEN GenesisGroup ELSE NoGroup]
      /\ view = [v \in Honest |-> InitialState]
      /\ effects = {} /\ pool = {} /\ asleep \in {{}, Joiners} /\ joined = {}
  BY DEF Init
<1>2. DOMAIN groups = {}
  BY <1>1
<1>3. InitialState \in State /\ InitialState.active_epoch = Genesis
  <2>1. Idle("WaitingForGenesis", Genesis) \in RolloverState
    BY EpochsAssumption, RolloverType DEF Stages, Idle
  <2> QED BY <2>1, EpochsAssumption DEF InitialState, State
<1>4. \A v \in Honest : view[v] = InitialState
  BY <1>1
<1>5. LET r == InitialState.rollover IN
      /\ r = Idle("WaitingForGenesis", Genesis) /\ r.stage = "WaitingForGenesis" /\ r.group = NoGroup
      /\ r.next_epoch = Genesis /\ r.participation = "Observing" /\ r.confirmed = FALSE /\ r \in RolloverState
  BY <1>3 DEF InitialState, Idle, Rollover, State
<1>6. \A v \in Honest : Shape(v, Roll(v)) /\ Roll(v) = InitialState.rollover
  BY <1>4, <1>5 DEF Shape, Roll, Busy
<1>7. TypesOK
  <2>1. Formed(GenesisGroup) /\ GenesisGroup \in Group
    BY ViableFormed, EpochsAssumption DEF GenesisGroup
  <2>2. block \in 0 .. MaxBlock
    BY <1>1, BlocksAssumption
  <2>3. consensus \in [active : Epochs, staged : Epochs, rollover_block : Nat]
    BY <1>1, EpochsAssumption
  <2> QED BY <1>1, <1>2, <1>3, <2>1, <2>2, <2>3, EpochsAssumption DEF TypesOK
<1>8. ContractOK /\ QueuesOK /\ GroupsOK
  BY <1>1, <1>2 DEF ContractOK, QueuesOK, GroupsOK
<1>9. ViewsOK
  BY <1>4, <1>5, <1>6 DEF ViewsOK
<1>10. AgreeOK
  BY <1>6 DEF AgreeOK, Steady
<1>11. SyncOK
  <2>1. EpochsWithRollover = consensus
    BY <1>1 DEF EpochsWithRollover
  <2>2. Genesis < NextNumber(block)
    BY <1>1, NextNumberPositive
  <2> QED BY <1>1, <1>3, <1>4, <1>5, <1>6, <2>1, <2>2 DEF SyncOK, Steady
<1> QED BY <1>7, <1>8, <1>9, <1>10, <1>11 DEF Inv1

\* Nothing changes.
LEMMA StutterStep ==
    ASSUME Inv1, UNCHANGED vars
    PROVE  Inv1'
<1>1. UNCHANGED <<block, groups, consensus, group_of, view, effects, pool, asleep, joined>>
  BY DEF vars, chainVars
<1>2. TypesOK' /\ ContractOK' /\ AgreeOK'
  BY <1>1 DEF Inv1, TypesOK, ContractOK, AgreeOK, Steady, Roll
<1>3. ViewsOK' /\ QueuesOK' /\ GroupsOK'
  BY <1>1 DEF Inv1, ViewsOK, QueuesOK, GroupsOK, Steady, Roll
<1>4. SyncOK'
  BY <1>1 DEF Inv1, SyncOK, Steady, Roll, EpochsWithRollover
<1> QED BY <1>2, <1>3, <1>4 DEF Inv1

\* Every step keeps the invariant.
LEMMA Inv1Step ==
    ASSUME Inv1, [Next]_vars
    PROVE  Inv1'
<1>1. CASE SetupDone
  BY <1>1, SetupStep
<1>2. CASE Revert
  BY <1>2, RevertStep
<1>3. CASE \E v \in Joiners : Join(v)
  BY <1>3, JoinStep
<1>4. CASE effects = {} /\ ChainActs
  BY <1>4, KeyGenStep, SubmitStep, StageStep, BlockStep DEF ChainActs, Include, AnyoneStages
<1>5. CASE effects = {} /\ FaultyActs
  BY <1>5, FaultyStep
<1>6. CASE UNCHANGED vars
  BY <1>6, StutterStep
<1> QED BY <1>1, <1>2, <1>3, <1>4, <1>5, <1>6 DEF Next

\* The first layer of the invariant holds in every state: the validators that were there
\* from the start are at the same point of the same key generation.
THEOREM Inv1Always == Spec => []Inv1
<1>1. Init => Inv1
  BY InitialStep
<1>2. Inv1 /\ [Next]_vars => Inv1'
  BY Inv1Step
<1> QED BY <1>1, <1>2, PTL DEF Spec

\* The honest validators agree, whoever of them got bad shares, is left out, is slow or
\* joined late: the handlers of keygen.rs restart with the same group everywhere.
THEOREM Agreement == Spec => []HonestAgree
<1>1. Inv1 => HonestAgree
  BY DEF Inv1, AgreeOK, HonestAgree, Roll
<1> QED BY <1>1, Inv1Always, PTL

\* handle_rollover_new_block and _epochsWithRollover roll over at the same block.
THEOREM ActiveAgreement == Spec => []ActiveEpochAgrees
<1>1. Inv1 => ActiveEpochAgrees
  BY DEF Inv1, SyncOK, ActiveEpochAgrees
<1> QED BY <1>1, Inv1Always, PTL

-----------------------------------------------------------------------------
(* The second layer: what the validators know of a group, and what the       *)
(* coordinator has of it                                                    *)

Complaint(plaintiff, accused) == [plaintiff |-> plaintiff, accused |-> accused]

\* What a validator has told, or is about to tell, the coordinator.
Complained(v, g, a) ==
    Complaint(v, a) \in Entry(g).complaints \/ Transaction(v, KeyGenComplain(g, a)) \in pool
Confirmed(v, g) == v \in Entry(g).confirmed \/ Transaction(v, KeyGenConfirm(g)) \in pool

MayComplain(r, g) == (r.group = g /\ r.stage # "CollectingCommitments") \/ Past(r, g)
MayConfirm(r, g) == (r.group = g /\ r.confirmed) \/ Past(r, g)

\* A validator complains in the rounds that follow the commitments, and confirms only
\* when it has its key share.
HistoryOK ==
    \A v \in Honest, g \in Group :
        /\ \A a \in Participants : Complained(v, g, a) => MayComplain(Roll(v), g)
        /\ Confirmed(v, g) => MayConfirm(Roll(v), g)

\* The complaints that a validator counts are those of the coordinator, and are too few.
Counted(r, G) ==
    \A a \in Participants :
        /\ r.complaints[a].total = Accusations(G, a)
        /\ Accusations(G, a) < GroupThreshold(r.group.members)

\* A validator is in no later round than the coordinator, whose entry for its group is G.
Follow(r, G) ==
    /\ r.stage = "CollectingCommitments" => r.commitments \subseteq G.registered
    /\ r.stage \in {"CollectingShares", "CollectingConfirmations"} =>
          G.status # "COMMITTING" /\ Counted(r, G)
    /\ r.stage = "CollectingShares" => r.shared \subseteq G.keys
    /\ r.stage = "CollectingConfirmations" => G.status # "SHARING" /\ r.confirmations = G.confirmed
    /\ r.stage = "SigningRollover" => G.status = "FINALIZED"

FollowOK == \A u \in Steady : Roll(u).group # NoGroup => Follow(Roll(u), Entry(Roll(u).group))

Inv2 == HistoryOK /\ FollowOK /\ StagedKeyHeld

\* The entries after a call.
LEMMA EntrySet ==
    ASSUME NEW group, NEW H, SetGroup(group, H)
    PROVE  Entry(group)' = H /\ \A h : h # group => Entry(h)' = Entry(h)
<1>1. /\ DOMAIN groups' = DOMAIN groups \cup {group} /\ groups'[group] = H
      /\ \A h \in DOMAIN groups' : h # group => h \in DOMAIN groups /\ groups'[h] = groups[h]
  BY SetGroupGroups
<1> QED BY <1>1 DEF Entry

\* Every entry is well formed.
LEMMA EntryOK ==
    ASSUME Inv1, NEW g
    PROVE  GroupOK(g, Entry(g))
  BY EmptyGroupOK DEF Inv1, ContractOK, Entry

\* Those that accuse somebody are finitely many, and each does it once.
LEMMA Accusers ==
    ASSUME NEW G, G.complaints \subseteq [plaintiff : Participants, accused : Participants], NEW a
    PROVE  /\ IsFiniteSet({c \in G.complaints : c.accused = a}) /\ Accusations(G, a) \in Nat
           /\ \A S \in SUBSET Participants :
                 (\A c \in G.complaints : c.accused = a => c.plaintiff \in S) =>
                    Accusations(G, a) <= Cardinality(S)
<1> DEFINE C == {c \in G.complaints : c.accused = a}
           f == [c \in C |-> c.plaintiff]
<1>1. ASSUME NEW S \in SUBSET Participants, \A c \in G.complaints : c.accused = a => c.plaintiff \in S
      PROVE  IsFiniteSet(C) /\ Cardinality(C) <= Cardinality(S)
  <2>1. f \in [C -> S]
    BY <1>1
  <2>2. ASSUME NEW c \in C, NEW d \in C, f[c] = f[d] PROVE c = d
    BY <2>2
  <2>3. f \in Injection(C, S)
    <3> HIDE DEF f, C
    <3> QED BY <2>1, <2>2 DEF Injection, IsInjective
  <2>4. IsFiniteSet(S)
    BY ParticipantsAssumption, FS_Subset
  <2> HIDE DEF C, f
  <2> QED BY <2>3, <2>4, FS_Injection
<1>2. IsFiniteSet(C)
  <2>1. Participants \in SUBSET Participants /\ \A c \in G.complaints : c.plaintiff \in Participants
    OBVIOUS
  <2> HIDE DEF C
  <2> QED BY <1>1, <2>1
<1>3. Accusations(G, a) = Cardinality(C)
  BY DEF Accusations
<1> HIDE DEF C
<1>4. Cardinality(C) \in Nat
  BY <1>2, FS_CardinalityType
<1>5. \A S \in SUBSET Participants :
         (\A c \in G.complaints : c.accused = a => c.plaintiff \in S) => Accusations(G, a) <= Cardinality(S)
  BY <1>1, <1>3
<1> QED BY <1>2, <1>3, <1>4, <1>5 DEF C

\* A new complaint is one more accusation.
LEMMA AccusationsCount ==
    ASSUME NEW G, G.complaints \subseteq [plaintiff : Participants, accused : Participants],
           NEW H, NEW plaintiff, NEW accused, Complaint(plaintiff, accused) \notin G.complaints,
           H.complaints = G.complaints \cup {Complaint(plaintiff, accused)}, NEW a
    PROVE  Accusations(H, a) = IF a = accused THEN Accusations(G, a) + 1 ELSE Accusations(G, a)
<1> DEFINE C == {c \in G.complaints : c.accused = a}
           D == {c \in H.complaints : c.accused = a}
           e == Complaint(plaintiff, accused)
<1>1. e.accused = accused
  BY DEF Complaint
<1>2. a = accused => D = C \cup {e}
  BY <1>1
<1>3. a # accused => D = C
  BY <1>1
<1>4. e \notin C /\ IsFiniteSet(C)
  BY Accusers
<1>5. Accusations(G, a) = Cardinality(C) /\ Accusations(H, a) = Cardinality(D)
  BY DEF Accusations
<1> HIDE DEF C, D, e
<1>6. a = accused => Cardinality(D) = Cardinality(C) + 1
  BY <1>2, <1>4, FS_AddElement
<1> QED BY <1>3, <1>5, <1>6

\* No complaint, no accusation.
LEMMA NoAccusations ==
    ASSUME NEW G, G.complaints = {}, NEW a
    PROVE  Accusations(G, a) = 0
<1>1. {c \in G.complaints : c.accused = a} = {}
  OBVIOUS
<1> QED BY <1>1, FS_EmptySet DEF Accusations

\* A validator that is at group g, whose entry is G.
Following(me, r, g, G) ==
    /\ g \in Group /\ Formed(g) /\ GroupOK(g, G)
    /\ Shape(me, r) /\ r.group = g /\ r.stage \in Busy /\ Follow(r, G)

\* keyGenAndCommit
LEMMA CommitFollows ==
    ASSUME NEW me, NEW r, NEW g, NEW G, Following(me, r, g, G), NEW p \in g.members,
           G.status = "COMMITTING", NEW q, NEW commands, NEW valid \in BOOLEAN,
           CommitEffect(r, q, commands, p, valid)
    PROVE  Follow(q, Registering(g, G, p))
<1> DEFINE H == Registering(g, G, p)
           done == IF valid THEN r.commitments \cup {p} ELSE r.commitments
<1>1. G \in ContractGroup /\ GroupOK(g, G) /\ r.group = g
  BY DEF GroupOK, Following
<1>2. /\ H.registered = G.registered \cup {p} /\ H.complaints = G.complaints
      /\ H.status = IF G.registered \cup {p} = g.members THEN "SHARING" ELSE G.status
  BY <1>1 DEF Registering, ContractGroup
<1>3. r.stage = "CollectingCommitments" /\ r.commitments \subseteq G.registered
  BY DEF Following, Follow, Busy
<1>4. done \subseteq H.registered
  BY <1>2, <1>3
<1> HIDE DEF H, done
<1>5. CASE SameRound(r, q) /\ q.commitments = done
  BY <1>3, <1>4, <1>5 DEF SameRound, Follow, H
<1>6. CASE /\ q.stage = "CollectingShares" /\ q.group = r.group /\ done = r.group.members
           /\ q.shared = {} /\ q.complaints = [a \in Participants |-> NoComplaint]
  <2>1. H.status = "SHARING" /\ H.complaints = {}
    BY <1>1, <1>2, <1>4, <1>6 DEF GroupOK
  <2>2. GroupThreshold(g.members) \in Nat /\ GroupThreshold(g.members) > 0
    <3>1. IsFiniteSet(g.members)
      BY FaultyMinority DEF Following
    <3>2. Cardinality(g.members) \in Nat
      BY <3>1, FS_CardinalityType
    <3> QED BY <3>2 DEF GroupThreshold
  <2>3. ASSUME NEW a \in Participants
        PROVE  q.complaints[a].total = Accusations(H, a) /\ Accusations(H, a) < GroupThreshold(q.group.members)
    <3>1. Accusations(H, a) = 0
      BY <2>1, NoAccusations
    <3>2. q.complaints[a].total = 0
      BY <1>6 DEF NoComplaint
    <3> QED BY <1>1, <1>6, <2>2, <3>1, <3>2
  <2>4. Counted(q, H)
    BY <2>3 DEF Counted
  <2> QED BY <1>6, <2>1, <2>4 DEF Follow, H
<1> QED BY <1>3, <1>5, <1>6 DEF CommitEffect, done

\* The accusations are the same.
LEMMA CountedSame ==
    ASSUME NEW r, NEW G, Counted(r, G), NEW q, NEW H, q.complaints = r.complaints,
           q.group = r.group, H.complaints = G.complaints
    PROVE  Counted(q, H)
<1>1. \A a : Accusations(H, a) = Accusations(G, a)
  BY DEF Accusations
<1> QED BY <1>1 DEF Counted

\* keyGenSecretShare
LEMMA ShareFollows ==
    ASSUME NEW me, NEW r, NEW g, NEW G, Following(me, r, g, G), NEW p \in g.members,
           G.status = "SHARING", NEW q, NEW commands, NEW b, NEW valid \in BOOLEAN, NEW cheated,
           ShareEffect(me, r, q, commands, b, p, valid, cheated)
    PROVE  Follow(q, Sharing(g, G, p))
<1> DEFINE H == Sharing(g, G, p)
           shared == IF valid THEN r.shared \cup {p} ELSE r.shared
<1>1. G \in ContractGroup /\ GroupOK(g, G) /\ r.group = g
  BY DEF GroupOK, Following
<1>2. /\ H.registered = G.registered /\ H.complaints = G.complaints /\ H.keys = G.keys \cup {p}
      /\ H.confirmed = G.confirmed
      /\ H.status = IF G.keys \cup {p} = g.members THEN "CONFIRMING" ELSE G.status
  BY <1>1 DEF Sharing, ContractGroup
<1>3. CASE r.stage # "CollectingShares"
  <2>1. q = r /\ r.stage = "CollectingCommitments" /\ r.commitments \subseteq G.registered
    BY <1>3 DEF ShareEffect, Unmoved, Following, Follow, Busy
  <2> HIDE DEF H
  <2> QED BY <1>2, <2>1 DEF Follow, H
<1>4. CASE r.stage = "CollectingShares"
  <2>1. r.shared \subseteq G.keys /\ Counted(r, G)
    BY <1>4 DEF Following, Follow
  <2>2. shared \subseteq H.keys
    BY <1>2, <2>1
  <2>3. q.group = r.group /\ q.complaints = r.complaints
    BY <1>4 DEF ShareEffect
  <2> HIDE DEF H, shared
  <2>4. Counted(q, H)
    BY <1>2, <2>1, <2>3, CountedSame
  <2>5. CASE SameRound(r, q) /\ q.shared = shared
    BY <1>2, <1>4, <2>2, <2>4, <2>5 DEF Follow, SameRound, H
  <2>6. CASE q.stage = "CollectingConfirmations" /\ shared = r.group.members /\ q.confirmations = {}
    <3>1. H.keys = g.members /\ H.confirmed = {}
      BY <1>1, <1>2, <2>2, <2>6 DEF GroupOK
    <3>2. H.status = "CONFIRMING"
      BY <1>2, <3>1
    <3> QED BY <2>4, <2>6, <3>1, <3>2 DEF Follow, H
  <2> QED BY <1>4, <2>5, <2>6 DEF ShareEffect, shared
<1> QED BY <1>3, <1>4

\* keyGenConfirm
LEMMA ConfirmFollows ==
    ASSUME NEW me, NEW r, NEW g, NEW G, Following(me, r, g, G), NEW p \in g.members,
           G.status = "CONFIRMING", NEW q, NEW commands, ConfirmEffect(r, q, commands, p), q.group = g
    PROVE  Follow(q, Confirming(g, G, p))
<1> DEFINE H == Confirming(g, G, p)
<1>1. G \in ContractGroup /\ GroupOK(g, G) /\ r.group = g
  BY DEF GroupOK, Following
<1>2. /\ H.registered = G.registered /\ H.complaints = G.complaints /\ H.keys = G.keys
      /\ H.confirmed = G.confirmed \cup {p}
      /\ H.status = IF G.confirmed \cup {p} = g.members THEN "FINALIZED" ELSE G.status
  BY <1>1 DEF Confirming, ContractGroup
<1> HIDE DEF H
<1>3. CASE r.stage = "CollectingCommitments"
  BY <1>2, <1>3 DEF ConfirmEffect, Unmoved, Following, Follow, H
<1>4. CASE r.stage = "CollectingShares"
  <2>1. q = r /\ r.shared \subseteq G.keys /\ Counted(r, G)
    BY <1>4 DEF ConfirmEffect, Unmoved, Following, Follow
  <2>2. Counted(q, H)
    BY <1>2, <2>1, CountedSame
  <2> QED BY <1>2, <1>4, <2>1, <2>2 DEF Follow, H
<1>5. CASE r.stage = "CollectingConfirmations"
  <2>1. r.confirmations = G.confirmed /\ Counted(r, G)
    BY <1>5 DEF Following, Follow
  <2>2. CASE SameRound(r, q) /\ q.confirmations = r.confirmations \cup {p} /\ q.complaints = r.complaints
    <3>1. Counted(q, H)
      BY <1>2, <2>1, <2>2, CountedSame DEF SameRound
    <3> QED BY <1>2, <1>5, <2>1, <2>2, <3>1 DEF Follow, SameRound, H
  <2>3. CASE q.stage = "SigningRollover" /\ r.confirmations \cup {p} = r.group.members
    BY <1>1, <1>2, <2>1, <2>3 DEF Follow, H
  <2> QED BY <1>1, <1>5, <2>2, <2>3 DEF ConfirmEffect, LeavesGenesis
<1> QED BY <1>3, <1>4, <1>5 DEF Following, Follow, Busy

\* keyGenComplain
LEMMA ComplainFollows ==
    ASSUME NEW me, NEW r, NEW g, NEW G, Following(me, r, g, G), NEW plaintiff \in Participants,
           NEW accused \in g.members, G.status \in {"SHARING", "CONFIRMING"},
           Complaint(plaintiff, accused) \notin G.complaints,
           NEW q, NEW commands, NEW b,
           ComplainEffect(me, r, q, commands, b, plaintiff, accused), q.group = g
    PROVE  Follow(q, Complaining(g, G, plaintiff, accused))
<1> DEFINE H == Complaining(g, G, plaintiff, accused)
           I == [G EXCEPT !.complaints = @ \cup {Complaint(plaintiff, accused)}]
<1>1. /\ G \in ContractGroup /\ GroupOK(g, G) /\ r.group = g /\ r \in RolloverState
      /\ G.complaints \subseteq [plaintiff : Participants, accused : Participants]
      /\ accused \in Participants
  BY DEF GroupOK, Following, ContractGroup, Shape, Group
<1>2. /\ I \in [status : {"SHARING", "CONFIRMING"}, registered : SUBSET Participants, keys : SUBSET Participants,
                confirmed : SUBSET Participants, complaints : {G.complaints \cup {Complaint(plaintiff, accused)}},
                responded : SUBSET [plaintiff : Participants, accused : Participants]]
      /\ I.registered = G.registered /\ I.keys = G.keys /\ I.confirmed = G.confirmed
      /\ I.complaints = G.complaints \cup {Complaint(plaintiff, accused)} /\ I.status = G.status
  BY <1>1 DEF ContractGroup
<1>3. H \in {I, [I EXCEPT !.status = "COMPROMISED"]}
  BY DEF Complaining, Complaint
<1> HIDE DEF H, I
<1>4. /\ H.registered = G.registered /\ H.keys = G.keys /\ H.confirmed = G.confirmed
      /\ H.complaints = G.complaints \cup {Complaint(plaintiff, accused)}
      /\ H.status \in {G.status, "COMPROMISED"}
  BY <1>2, <1>3
<1>5. CASE r.stage = "CollectingCommitments"
  BY <1>4, <1>5 DEF ComplainEffect, Unmoved, Following, Follow, H
<1>6. CASE r.stage \in {"CollectingShares", "CollectingConfirmations"}
  <2> DEFINE new == CountComplaint(r.complaints[accused], plaintiff, RequiresResponse(r, b))
  <2>1. /\ SameRound(r, q) /\ ~ (new.total >= GroupThreshold(r.group.members))
        /\ q.complaints = [r.complaints EXCEPT ![accused] = new]
        /\ q.shared = r.shared /\ q.confirmations = r.confirmations
    BY <1>1, <1>6 DEF ComplainEffect, Leaves
  <2>2. new.total = r.complaints[accused].total + 1
    BY DEF CountComplaint
  <2> HIDE DEF new
  <2>3. Counted(r, G)
    BY <1>6 DEF Following, Follow
  <2>4. r.complaints \in [Participants -> [total : Nat, unresponded : SUBSET Participants]]
    BY <1>1 DEF RolloverState
  <2>5. GroupThreshold(g.members) \in Nat
    BY FaultyMinority DEF Following
  <2>6. ASSUME NEW a \in Participants
        PROVE  q.complaints[a].total = Accusations(H, a) /\ Accusations(H, a) < GroupThreshold(q.group.members)
    <3>1. Accusations(H, a) = IF a = accused THEN Accusations(G, a) + 1 ELSE Accusations(G, a)
      BY <1>1, <1>4, AccusationsCount
    <3>2. r.complaints[a].total = Accusations(G, a) /\ Accusations(G, a) < GroupThreshold(g.members)
          /\ r.complaints[a].total \in Nat
      BY <1>1, <2>3, <2>4 DEF Counted
    <3>3. q.complaints[a] = IF a = accused THEN new ELSE r.complaints[a]
      BY <1>1, <2>1, <2>4
    <3> QED BY <1>1, <2>1, <2>2, <2>5, <3>1, <3>2, <3>3 DEF SameRound
  <2>7. Counted(q, H)
    BY <2>6 DEF Counted
  <2>8. /\ r.stage = "CollectingShares" => r.shared \subseteq G.keys
        /\ r.stage = "CollectingConfirmations" => G.status # "SHARING" /\ r.confirmations = G.confirmed
    BY DEF Following, Follow
  <2> QED BY <1>4, <1>6, <2>1, <2>7, <2>8 DEF Follow, SameRound, H
<1> QED BY <1>5, <1>6 DEF Following, Follow, Busy

\* keyGenComplaintResponse
LEMMA RespondFollows ==
    ASSUME NEW me, NEW r, NEW g, NEW G, Following(me, r, g, G), NEW plaintiff, NEW accused \in Participants,
           G.status \in {"SHARING", "CONFIRMING"}, NEW q, NEW commands, NEW b, NEW valid \in BOOLEAN,
           RespondEffect(me, r, q, commands, b, plaintiff, accused, valid), q.group = g
    PROVE  Follow(q, Responding(G, plaintiff, accused))
<1> DEFINE H == Responding(G, plaintiff, accused)
<1>1. G \in ContractGroup /\ GroupOK(g, G) /\ r.group = g /\ r \in RolloverState
  BY DEF GroupOK, Following, Shape
<1>2. /\ H.registered = G.registered /\ H.complaints = G.complaints /\ H.keys = G.keys
      /\ H.confirmed = G.confirmed /\ H.status = G.status
  BY <1>1 DEF Responding, ContractGroup
<1> HIDE DEF H
<1>3. ASSUME Counted(r, G), q.group = r.group, \A a \in Participants : q.complaints[a].total = r.complaints[a].total
      PROVE  Counted(q, H)
  <2>1. \A a : Accusations(H, a) = Accusations(G, a)
    BY <1>2 DEF Accusations
  <2> QED BY <1>3, <2>1 DEF Counted
<1>4. CASE q = r
  BY <1>2, <1>3, <1>4 DEF Following, Follow, H
<1>5. CASE q # r
  <2>1. /\ r.stage \in {"CollectingShares", "CollectingConfirmations"} /\ SameRound(r, q)
        /\ q.complaints = [r.complaints EXCEPT ![accused].unresponded = @ \ {plaintiff}]
        /\ q.shared = r.shared /\ q.confirmations = r.confirmations
    BY <1>1, <1>5 DEF RespondEffect, Unmoved, Awaited, Leaves
  <2>2. \A a \in Participants : q.complaints[a].total = r.complaints[a].total
    BY <1>1, <2>1 DEF RolloverState
  <2>3. Counted(q, H)
    BY <1>3, <2>1, <2>2 DEF Following, Follow, SameRound
  <2> QED BY <1>2, <2>1, <2>3 DEF Following, Follow, SameRound, H
<1> QED BY <1>4, <1>5

\* The honest part of an entry is what honest validators had sent.
Told(g, H) ==
    \A v \in Honest : /\ v \in H.confirmed => Confirmed(v, g)
                      /\ \A a \in Participants : Complaint(v, a) \in H.complaints => Complained(v, g, a)

\* What a validator has told stays in its past.
LEMMA HistoryKeeps ==
    ASSUME Inv1, HistoryOK, effects = {}, NEW transactions, NEW seen, Handled(transactions, seen),
           NEW b, Stepped(seen, b), \A g \in Group : Told(g, Entry(g)')
    PROVE  HistoryOK'
<1>1. \A v \in Honest : Roll(v)' = seen[v].state.rollover
  BY HandledViews
<1>2. \A x \in pool' : x \in pool \/ (Sent(x, seen) /\ x.c \in Command /\ ~ IsEffect(x.c))
  BY HandledQueues DEF Inv1
<1> SUFFICES ASSUME NEW v \in Honest, NEW g \in Group
             PROVE  /\ \A a \in Participants : Complained(v, g, a)' => MayComplain(Roll(v)', g)
                    /\ Confirmed(v, g)' => MayConfirm(Roll(v)', g)
  BY DEF HistoryOK
<1> DEFINE r == Roll(v)
           q == seen[v].state.rollover
<1>3. Turn(v, r, q, seen[v].commands) /\ g # NoGroup /\ Roll(v)' = q
  BY <1>1, NoGroupAssumption DEF Stepped, Good, Roll, Group
<1>4. MayComplain(r, g) => MayComplain(q, g)
  BY <1>3 DEF MayComplain, Turn, Advance, Reached
<1>5. MayConfirm(r, g) => MayConfirm(q, g)
  BY <1>3 DEF MayConfirm, Turn, Advance, Reached
<1>6. ASSUME NEW c, Transaction(v, c) \in pool', Transaction(v, c) \notin pool
      PROVE  c \in seen[v].commands
  <2>1. Sent(Transaction(v, c), seen)
    BY <1>2, <1>6
  <2> QED BY <2>1 DEF Sent, Transaction
<1>7. ASSUME NEW a \in Participants, Complained(v, g, a)' PROVE MayComplain(q, g)
  <2> DEFINE c == KeyGenComplain(g, a)
  <2>0. c.kind = "KeyGenComplain" /\ c.group = g
    BY DEF KeyGenComplain
  <2> HIDE DEF c
  <2>1. CASE Complained(v, g, a)
    BY <1>4, <2>1 DEF HistoryOK
  <2>2. CASE Complaint(v, a) \in Entry(g)'.complaints
    BY <2>1, <2>2 DEF Told
  <2>3. CASE Transaction(v, c) \in pool' /\ Transaction(v, c) \notin pool
    <3>1. c \in seen[v].commands
      BY <1>6, <2>3
    <3>2. q.group = g /\ q.stage # "CollectingCommitments"
      BY <1>3, <2>0, <3>1 DEF Turn
    <3> QED BY <3>2 DEF MayComplain
  <2>4. CASE Transaction(v, c) \in pool
    BY <2>1, <2>4 DEF Complained, c
  <2> QED BY <1>7, <2>2, <2>3, <2>4 DEF Complained, c
<1>8. ASSUME Confirmed(v, g)' PROVE MayConfirm(q, g)
  <2> DEFINE c == KeyGenConfirm(g)
  <2>0. c.kind = "KeyGenConfirm" /\ c.group = g
    BY DEF KeyGenConfirm
  <2> HIDE DEF c
  <2>1. CASE Confirmed(v, g)
    BY <1>5, <2>1 DEF HistoryOK
  <2>2. CASE v \in Entry(g)'.confirmed
    BY <2>1, <2>2 DEF Told
  <2>3. CASE Transaction(v, c) \in pool' /\ Transaction(v, c) \notin pool
    <3>1. c \in seen[v].commands
      BY <1>6, <2>3
    <3>2. q.group = g /\ q.confirmed
      BY <1>3, <2>0, <3>1 DEF Turn
    <3> QED BY <3>2 DEF MayConfirm
  <2>4. CASE Transaction(v, c) \in pool
    BY <2>1, <2>4 DEF Confirmed, c
  <2> QED BY <1>8, <2>2, <2>3, <2>4 DEF Confirmed, c
<1> QED BY <1>3, <1>7, <1>8

\* Whoever is at the group keeps up with its entry, and the others stay or start anew.
Tracks(seen, group, H) ==
    \A u \in Steady :
        LET q == seen[u].state.rollover IN
        /\ q.group = group => Follow(q, H)
        /\ q.group # group => \/ q = Roll(u)
                              \/ q.group # Roll(u).group /\ Roll(u).stage # "WaitingForGenesis"

\* A call for a group keeps the second layer.
LEMMA CallHolds ==
    ASSUME Inv1, Inv2, effects = {}, NEW transactions, NEW seen, Handled(transactions, seen), Event(seen),
           NEW group, NEW H, SetGroup(group, H), group_of' = group_of, Told(group, H),
           Tracks(seen, group, H)
    PROVE  Inv2'
<1>1. /\ Steady' = Steady /\ Steady \subseteq Honest
      /\ \A v \in Honest : view'[v] = seen[v].state /\ Roll(v)' = seen[v].state.rollover
  BY HandledViews DEF Steady
<1>2. Entry(group)' = H /\ \A h : h # group => Entry(h)' = Entry(h)
  BY EntrySet
<1>3. HistoryOK'
  <2>1. \A g \in Group : Told(g, Entry(g)')
    <3> SUFFICES ASSUME NEW g \in Group PROVE Told(g, Entry(g)')
      OBVIOUS
    <3>1. CASE g = group
      BY <1>2, <3>1
    <3>2. CASE g # group
      <4>1. Told(g, Entry(g))
        BY DEF Told, Confirmed, Complained
      <4> QED BY <1>2, <3>2, <4>1
    <3> QED BY <3>1, <3>2
  <2>2. Stepped(seen, block)
    BY DEF Event
  <2> QED BY <2>1, <2>2, HistoryKeeps DEF Inv2
<1>4. FollowOK'
  <2> SUFFICES ASSUME NEW u \in Steady, NEW g, g = Roll(u)'.group, g # NoGroup
               PROVE  Follow(Roll(u)', Entry(g)')
    BY <1>1 DEF FollowOK, Entry
  <2> DEFINE q == seen[u].state.rollover
             r == Roll(u)
  <2>1. u \in Honest /\ Roll(u)' = q /\ q.group = g
    BY <1>1
  <2>2. CASE q.group = group
    BY <1>2, <2>1, <2>2 DEF Tracks
  <2>3. CASE q.group # group /\ q = r
    <3>1. Follow(q, Entry(q.group))
      BY <2>1, <2>3 DEF Inv2, FollowOK
    <3> QED BY <1>2, <2>1, <2>3, <3>1
  <2>4. CASE q.group # r.group /\ r.stage # "WaitingForGenesis"
    <3>1. Turn(u, r, q, seen[u].commands)
      BY <2>1 DEF Event, Stepped, Good, Roll
    <3>2. q.stage = "CollectingCommitments" /\ q.commitments = {}
      BY <2>1, <2>4, <3>1 DEF Turn
    <3> QED BY <2>1, <3>2 DEF Follow
  <2> QED BY <2>2, <2>3, <2>4 DEF Tracks
<1>5. StagedKeyHeld'
  <2> SUFFICES ASSUME NEW e \in Epochs \ {Genesis}, group_of[e] # NoGroup, NEW v \in Steady \cap group_of[e].members
               PROVE  view'[v].epochs[e] = group_of[e]
    BY <1>1 DEF StagedKeyHeld
  <2>1. view'[v].epochs[e] = view[v].epochs[e]
    BY <1>1 DEF Event, Quiet
  <2> QED BY <2>1 DEF Inv2, StagedKeyHeld
<1> QED BY <1>3, <1>4, <1>5 DEF Inv2

\* A validator that is at a group, and its entry.
LEMMA IsFollowing ==
    ASSUME Inv1, Inv2, NEW u \in Steady, NEW group, Roll(u).group = group, group # NoGroup
    PROVE  Following(u, Roll(u), group, Entry(group))
<1>1. Shape(u, Roll(u)) /\ Formed(group)
  BY DEF Inv1, ViewsOK, Shape, Steady
<1>2. GroupOK(group, Entry(group))
  BY EntryOK
<1>3. Follow(Roll(u), Entry(group))
  BY DEF Inv2, FollowOK
<1> QED BY <1>1, <1>2, <1>3 DEF Following, Formed, Shape

-----------------------------------------------------------------------------
(* A call, and what exactly its event does to those that are at the group    *)

\* A call for a group that leaves entry H; its event is handled as seen.
Called(x, group, H, seen) ==
    /\ Handled({x}, seen) /\ Event(seen) /\ SetGroup(group, H) /\ group \in Group
    /\ block' = block /\ group_of' = group_of /\ late' = late /\ cancelled \subseteq cancelled'
    /\ consensus' \in {consensus, EpochsWithRollover}

\* Nobody else notices.
Elsewhere(group, seen) ==
    \A u \in Honest \ asleep : Roll(u).group # group => seen[u] = Ignored(view[u])

ShareCalled(x, group, p, valid, cheated, seen) ==
    LET G == Entry(group) IN
    /\ Called(x, group, Sharing(group, G, p), seen) /\ Elsewhere(group, seen)
    /\ p \in group.members \ G.keys /\ G.status = "SHARING"
    /\ \A u \in Honest \ asleep : Roll(u).group = group =>
          ShareEffect(u, Roll(u), seen[u].state.rollover, seen[u].commands, block, p, valid, cheated)

\* keyGenSecretShare
LEMMA ShareCall ==
    ASSUME Inv1, effects = {}, NEW x, NEW group, NEW p, NEW valid \in BOOLEAN, NEW cheated,
           CallKeyGenSecretShare(x, group, p, valid, cheated)
    PROVE  \E seen : ShareCalled(x, group, p, valid, cheated, seen)
<1> DEFINE G == groups[group]
           seen == [v \in Honest |-> IF v \in asleep THEN Ignored(view[v])
                     ELSE HandleKeyGenSecretShared(view[v], v, block, group, p, valid, cheated)]
<1>1. /\ group \in DOMAIN groups /\ G.status = "SHARING" /\ p \in G.registered \ G.keys
      /\ SetGroup(group, Sharing(group, G, p))
      /\ block' = block /\ group_of' = group_of /\ consensus' = consensus /\ late' = late /\ cancelled \subseteq cancelled'
      /\ Handled({x}, seen)
  BY DEF CallKeyGenSecretShare, CanShare, Sharing, Included, Seen
<1>2. group \in Group /\ GroupOK(group, G) /\ p \in group.members /\ Entry(group) = G
  BY <1>1 DEF Inv1, TypesOK, ContractOK, GroupOK, Entry
<1>3. Event(seen)
  BY <1>2, SharedEvent
<1>4. ASSUME NEW u \in Honest \ asleep
      PROVE  /\ Roll(u).group # group => seen[u] = Ignored(view[u])
             /\ Roll(u).group = group =>
                   ShareEffect(u, Roll(u), seen[u].state.rollover, seen[u].commands, block, p, valid, cheated)
  <2>1. seen[u] = HandleKeyGenSecretShared(view[u], u, block, group, p, valid, cheated)
    OBVIOUS
  <2>2. Ready(u, view[u], block)
    BY AllReady
  <2> HIDE DEF seen
  <2>3. Roll(u).group # group => seen[u] = Ignored(view[u])
    BY <2>1, OthersIgnored DEF Roll
  <2>4. ASSUME view[u].rollover.group = group
        PROVE  ShareEffect(u, view[u].rollover, seen[u].state.rollover, seen[u].commands, block, p, valid, cheated)
    BY <1>2, <2>1, <2>2, <2>4, ShareExactly
  <2> QED BY <2>3, <2>4 DEF Roll
<1> HIDE DEF seen, G
<1>5. ShareCalled(x, group, p, valid, cheated, seen)
  BY <1>1, <1>2, <1>3, <1>4 DEF ShareCalled, Called, Elsewhere
<1> QED BY <1>5

ConfirmCalled(x, group, p, seen) ==
    LET G == Entry(group) IN
    /\ Called(x, group, Confirming(group, G, p), seen) /\ Elsewhere(group, seen)
    /\ p \in group.members \ G.confirmed /\ G.status = "CONFIRMING"
    /\ \A u \in Honest \ asleep : Roll(u).group = group =>
          ConfirmEffect(Roll(u), seen[u].state.rollover, seen[u].commands, p)

\* keyGenConfirm
LEMMA ConfirmCall ==
    ASSUME Inv1, effects = {}, NEW x, NEW group, NEW p, NEW callback,
           CallKeyGenConfirm(x, group, p, callback)
    PROVE  \E seen : ConfirmCalled(x, group, p, seen)
<1> DEFINE G == groups[group]
           seen == [v \in Honest |-> IF v \in asleep THEN Ignored(view[v])
                     ELSE HandleKeyGenConfirmed(view[v], v, block, group, p)]
<1>1. /\ group \in DOMAIN groups /\ G.status = "CONFIRMING" /\ p \in G.registered \ G.confirmed
      /\ SetGroup(group, Confirming(group, G, p))
      /\ block' = block /\ group_of' = group_of /\ consensus' \in {consensus, EpochsWithRollover} /\ late' = late /\ cancelled \subseteq cancelled'
      /\ Handled({x}, seen)
  BY DEF CallKeyGenConfirm, CanConfirm, Confirming, Included, Seen
<1>2. group \in Group /\ GroupOK(group, G) /\ p \in group.members /\ Entry(group) = G
  BY <1>1 DEF Inv1, TypesOK, ContractOK, GroupOK, Entry
<1>3. Event(seen)
  BY <1>2, ConfirmedEvent
<1>4. ASSUME NEW u \in Honest \ asleep
      PROVE  /\ Roll(u).group # group => seen[u] = Ignored(view[u])
             /\ Roll(u).group = group =>
                   ConfirmEffect(Roll(u), seen[u].state.rollover, seen[u].commands, p)
  <2>1. seen[u] = HandleKeyGenConfirmed(view[u], u, block, group, p)
    OBVIOUS
  <2>2. Ready(u, view[u], block)
    BY AllReady
  <2> HIDE DEF seen
  <2>3. Roll(u).group # group => seen[u] = Ignored(view[u])
    BY <2>1, OthersIgnored DEF Roll
  <2>4. ASSUME view[u].rollover.group = group
        PROVE  ConfirmEffect(view[u].rollover, seen[u].state.rollover, seen[u].commands, p)
    BY <1>2, <2>1, <2>2, <2>4, ConfirmExactly
  <2> QED BY <2>3, <2>4 DEF Roll
<1> HIDE DEF seen, G
<1>5. ConfirmCalled(x, group, p, seen)
  BY <1>1, <1>2, <1>3, <1>4 DEF ConfirmCalled, Called, Elsewhere
<1> QED BY <1>5

ComplainCalled(x, group, plaintiff, accused, seen) ==
    LET G == Entry(group) IN
    /\ Called(x, group, Complaining(group, G, plaintiff, accused), seen) /\ Elsewhere(group, seen)
    /\ plaintiff \in group.members /\ accused \in group.members /\ plaintiff # accused
    /\ G.status \in {"SHARING", "CONFIRMING"} /\ Complaint(plaintiff, accused) \notin G.complaints
    /\ \A u \in Honest \ asleep : Roll(u).group = group =>
          ComplainEffect(u, Roll(u), seen[u].state.rollover, seen[u].commands, block, plaintiff, accused)

\* keyGenComplain
LEMMA ComplainCall ==
    ASSUME Inv1, effects = {}, NEW x, NEW group, NEW plaintiff, NEW accused,
           CallKeyGenComplain(x, group, plaintiff, accused)
    PROVE  \E seen : ComplainCalled(x, group, plaintiff, accused, seen)
<1> DEFINE G == groups[group]
           seen == [v \in Honest |-> IF v \in asleep THEN Ignored(view[v])
                     ELSE HandleKeyGenComplained(view[v], v, block, group, plaintiff, accused)]
<1>1. /\ group \in DOMAIN groups /\ G.status \in {"SHARING", "CONFIRMING"} /\ plaintiff # accused
      /\ plaintiff \in G.registered \ G.confirmed /\ accused \in G.registered
      /\ Complaint(plaintiff, accused) \notin G.complaints
      /\ SetGroup(group, Complaining(group, G, plaintiff, accused))
      /\ block' = block /\ group_of' = group_of /\ consensus' = consensus /\ late' = late /\ cancelled \subseteq cancelled'
      /\ Handled({x}, seen)
  BY DEF CallKeyGenComplain, CanComplain, Complaining, Included, Seen, Complaint
<1>2. /\ group \in Group /\ GroupOK(group, G) /\ plaintiff \in group.members /\ plaintiff \in Participants
      /\ accused \in group.members /\ Entry(group) = G
  BY <1>1 DEF Inv1, TypesOK, ContractOK, GroupOK, ContractGroup, Entry
<1>3. Event(seen)
  BY <1>2, ComplainedEvent
<1>4. ASSUME NEW u \in Honest \ asleep
      PROVE  /\ Roll(u).group # group => seen[u] = Ignored(view[u])
             /\ Roll(u).group = group =>
                   ComplainEffect(u, Roll(u), seen[u].state.rollover, seen[u].commands, block, plaintiff, accused)
  <2>1. seen[u] = HandleKeyGenComplained(view[u], u, block, group, plaintiff, accused)
    OBVIOUS
  <2>2. Ready(u, view[u], block)
    BY AllReady
  <2> HIDE DEF seen
  <2>3. Roll(u).group # group => seen[u] = Ignored(view[u])
    BY <2>1, OthersIgnored DEF Roll
  <2>4. ASSUME view[u].rollover.group = group
        PROVE  ComplainEffect(u, view[u].rollover, seen[u].state.rollover, seen[u].commands, block, plaintiff, accused)
    BY <1>2, <2>1, <2>2, <2>4, ComplainExactly
  <2> QED BY <2>3, <2>4 DEF Roll
<1> HIDE DEF seen, G
<1>5. ComplainCalled(x, group, plaintiff, accused, seen)
  BY <1>1, <1>2, <1>3, <1>4 DEF ComplainCalled, Called, Elsewhere
<1> QED BY <1>5

RespondCalled(x, group, plaintiff, accused, valid, seen) ==
    LET G == Entry(group) IN
    /\ Called(x, group, Responding(G, plaintiff, accused), seen) /\ Elsewhere(group, seen)
    /\ plaintiff \in group.members /\ accused \in group.members
    /\ G.status \in {"SHARING", "CONFIRMING"}
    /\ Complaint(plaintiff, accused) \in G.complaints \ G.responded
    /\ \A u \in Honest \ asleep : Roll(u).group = group =>
          RespondEffect(u, Roll(u), seen[u].state.rollover, seen[u].commands, block, plaintiff, accused, valid)

\* keyGenComplaintResponse
LEMMA RespondCall ==
    ASSUME Inv1, effects = {}, NEW x, NEW group, NEW plaintiff, NEW accused, NEW valid \in BOOLEAN,
           CallKeyGenComplaintResponse(x, group, plaintiff, accused, valid)
    PROVE  \E seen : RespondCalled(x, group, plaintiff, accused, valid, seen)
<1> DEFINE G == groups[group]
           seen == [v \in Honest |-> IF v \in asleep THEN Ignored(view[v])
                     ELSE HandleKeyGenComplaintResponded(view[v], v, block, group, plaintiff, accused, valid)]
<1>1. /\ group \in DOMAIN groups /\ G.status \in {"SHARING", "CONFIRMING"}
      /\ [plaintiff |-> plaintiff, accused |-> accused] \in G.complaints \ G.responded
      /\ Complaint(plaintiff, accused) \in G.complaints \ G.responded
      /\ SetGroup(group, Responding(G, plaintiff, accused))
      /\ block' = block /\ group_of' = group_of /\ consensus' = consensus /\ late' = late /\ cancelled \subseteq cancelled'
      /\ Handled({x}, seen)
  BY DEF CallKeyGenComplaintResponse, CanRespond, Responding, Included, Seen, Complaint
<1>2. group \in Group /\ GroupOK(group, G) /\ Entry(group) = G
  BY <1>1 DEF Inv1, TypesOK, ContractOK, Entry
<1>3. plaintiff \in G.registered /\ accused \in G.registered
  BY <1>1, <1>2, RespondGroupOK
<1>4. plaintiff \in Participants /\ plaintiff \in group.members /\ accused \in group.members
  BY <1>2, <1>3 DEF GroupOK, ContractGroup
<1>5. Event(seen)
  BY <1>2, <1>4, RespondedEvent
<1>6. ASSUME NEW u \in Honest \ asleep
      PROVE  /\ Roll(u).group # group => seen[u] = Ignored(view[u])
             /\ Roll(u).group = group =>
                   RespondEffect(u, Roll(u), seen[u].state.rollover, seen[u].commands, block, plaintiff, accused, valid)
  <2>1. seen[u] = HandleKeyGenComplaintResponded(view[u], u, block, group, plaintiff, accused, valid)
    OBVIOUS
  <2>2. Ready(u, view[u], block)
    BY AllReady
  <2> HIDE DEF seen
  <2>3. Roll(u).group # group => seen[u] = Ignored(view[u])
    BY <2>1, OthersIgnored DEF Roll
  <2>4. ASSUME view[u].rollover.group = group
        PROVE  RespondEffect(u, view[u].rollover, seen[u].state.rollover, seen[u].commands, block, plaintiff, accused, valid)
    BY <1>2, <1>4, <2>1, <2>2, <2>4, RespondExactly
  <2> QED BY <2>3, <2>4 DEF Roll
<1> HIDE DEF seen, G
<1>7. RespondCalled(x, group, plaintiff, accused, valid, seen)
  BY <1>1, <1>2, <1>4, <1>5, <1>6 DEF RespondCalled, Called, Elsewhere
<1> QED BY <1>7

CommitCalled(x, group, p, valid, seen) ==
    LET G == Entry(group) IN
    /\ Called(x, group, Registering(group, G, p), seen) /\ Elsewhere(group, seen)
    /\ p \in group.members \ G.registered /\ G.status = "COMMITTING"
    /\ \A u \in Honest \ asleep : Roll(u).group = group =>
          CommitEffect(Roll(u), seen[u].state.rollover, seen[u].commands, p, valid)

\* Or the call creates the genesis group, and everybody starts with it.
GenesisCalled(x, p, valid, seen) ==
    /\ Called(x, GenesisGroup, Registering(GenesisGroup, EmptyGroup, p), seen)
    /\ Entry(GenesisGroup) = EmptyGroup /\ p \in GenesisGroup.members /\ p \notin Honest
    /\ \A u \in Honest : Roll(u).stage = "WaitingForGenesis"
    /\ \A u \in Honest \ asleep : \A c \in seen[u].commands : c.kind # "KeyGenComplain"
    /\ \A u \in Honest \ asleep : \E m, commands :
          /\ Shape(u, m) /\ m.group = GenesisGroup /\ m.stage = "CollectingCommitments" /\ m.commitments = {}
          /\ m.participation # "Participating"
          /\ CommitEffect(m, seen[u].state.rollover, commands, p, valid)

\* keyGenAndCommit
LEMMA CommitCall ==
    ASSUME Inv1, effects = {}, NEW x, NEW group, NEW p, NEW valid \in BOOLEAN, NEW cancels, Known(group),
           group = GenesisGroup /\ group \notin DOMAIN groups => p \notin Honest,
           CallKeyGenAndCommit(x, group, p, valid, cancels)
    PROVE  \E seen : \/ CommitCalled(x, group, p, valid, seen)
                     \/ group = GenesisGroup /\ GenesisCalled(x, p, valid, seen)
<1> DEFINE G == Entry(group)
           Created(v) == IF group \in DOMAIN groups THEN Ignored(view[v])
                         ELSE HandleGenesisKeyGen(view[v], v, group)
           seen == [v \in Honest |-> IF v \in asleep THEN Ignored(view[v])
                     ELSE AndThen(Created(v), HandleKeyGenCommitted(Created(v).state, block, group, p, valid))]
<1>1. /\ p \in group.members /\ (group \in DOMAIN groups => G.status = "COMMITTING" /\ p \notin G.registered)
      /\ SetGroup(group, Registering(group, G, p))
      /\ block' = block /\ group_of' = group_of /\ consensus' = consensus /\ late' = late /\ cancelled \subseteq cancelled'
      /\ Handled({x}, seen)
  BY DEF CallKeyGenAndCommit, CanCommit, Registering, Included, Seen, Entry
<1>2. group \in Group /\ G.status = "COMMITTING" /\ p \notin G.registered
  <2>1. EmptyGroup.status = "COMMITTING" /\ EmptyGroup.registered = {}
    BY DEF EmptyGroup
  <2> QED BY <1>1, <2>1 DEF Known, Formed, Entry
<1>4. asleep \subseteq Honest
  BY HonestAssumption DEF Inv1, TypesOK
<1>5. /\ \A v \in asleep : seen[v] = Ignored(view[v])
      /\ \A v \in Honest \ asleep :
            seen[v] = AndThen(Created(v), HandleKeyGenCommitted(Created(v).state, block, group, p, valid))
  BY <1>4
<1>0. \A v \in Honest : Ready(v, view[v], block) /\ view[v] \in State
  BY AllReady DEF Ready
<1>6. CASE group = GenesisGroup /\ group \notin DOMAIN groups
  <2>1. \A v \in Honest : Created(v) = HandleGenesisKeyGen(view[v], v, GenesisGroup)
    BY <1>6
  <2> HIDE DEF seen, Created
  <2>2. \A v \in Honest \ asleep :
              LET created == HandleGenesisKeyGen(view[v], v, GenesisGroup) IN
              seen[v] = AndThen(created, HandleKeyGenCommitted(created.state, block, GenesisGroup, p, valid))
    BY <1>5, <1>6, <2>1
  <2>3. p \in GenesisGroup.members /\ p \notin Honest /\ GenesisGroup \notin DOMAIN groups /\ G = EmptyGroup
    BY <1>1, <1>6 DEF Entry
  <2>4. Event(seen)
    BY <1>5, <2>2, <2>3, GenesisCommittedEvent
  <2>5. \A v \in Honest : Roll(v).stage = "WaitingForGenesis"
    BY <2>3 DEF Inv1, ViewsOK
  <2>6. ASSUME NEW u \in Honest \ asleep
        PROVE  /\ \A c \in seen[u].commands : c.kind # "KeyGenComplain"
               /\ \E m, commands :
                  /\ Shape(u, m) /\ m.group = GenesisGroup /\ m.stage = "CollectingCommitments" /\ m.commitments = {}
                  /\ m.participation # "Participating"
                  /\ CommitEffect(m, seen[u].state.rollover, commands, p, valid)
    <3> DEFINE s == Created(u).state
               t == HandleKeyGenCommitted(s, block, GenesisGroup, p, valid)
    <3>1. Created(u) = StartKeyGen(view[u], u, GenesisGroup, 0)
      BY <2>1, <2>5 DEF HandleGenesisKeyGen, Roll, GenesisGroup
    <3>2. Formed(GenesisGroup) /\ GenesisGroup.epoch = Genesis
      BY ViableFormed, EpochsAssumption DEF GenesisGroup
    <3>3. IsAhead(view[u].rollover, GenesisGroup)
      BY <2>5 DEF IsAhead, Roll
    <3>4. Started(u, view[u], view[u].rollover, GenesisGroup, 0, Created(u))
      BY <1>0, <3>1, <3>2, <3>3, StartTurn DEF Ready, GenesisGroup
    <3>5. /\ s \in State /\ Shape(u, s.rollover) /\ s.rollover.group = GenesisGroup
          /\ s.rollover.stage = "CollectingCommitments" /\ s.rollover.commitments = {}
          /\ s.rollover.participation # "Participating"
      BY <3>4 DEF Started, Turn
    <3>6. seen[u].state = t.state /\ seen[u].commands = Created(u).commands \cup t.commands
      <4>1. seen[u] = AndThen(Created(u), t)
        BY <1>5, <1>6
      <4> HIDE DEF t
      <4> QED BY <4>1 DEF AndThen, Result
    <3> HIDE DEF s
    <3>7. CommitEffect(s.rollover, t.state.rollover, t.commands, p, valid)
      BY <3>5, CommitExactly
    <3>8. \A c \in Created(u).commands : c.kind # "KeyGenComplain"
      BY <3>1 DEF StartKeyGen, Result, KeyGenSetup
    <3>9. \A c \in t.commands : c.kind # "KeyGenComplain"
      <4>1. t.commands \subseteq {KeyGenSecretShare(s.rollover.group)}
        BY <3>5, <3>7 DEF CommitEffect
      <4> HIDE DEF t
      <4> QED BY <4>1 DEF KeyGenSecretShare
    <3>10. \A c \in seen[u].commands : c.kind # "KeyGenComplain"
      BY <3>6, <3>8, <3>9
    <3> QED BY <3>5, <3>6, <3>7, <3>10
  <2>7. GenesisCalled(x, p, valid, seen)
    BY <1>1, <1>2, <1>6, <2>3, <2>4, <2>5, <2>6 DEF GenesisCalled, Called
  <2> QED BY <1>6, <2>7
<1>7. CASE ~ (group = GenesisGroup /\ group \notin DOMAIN groups)
  <2>1. \A v \in Honest : Created(v) = Ignored(view[v])
    BY <1>7 DEF HandleGenesisKeyGen, GenesisGroup
  <2> HIDE DEF seen, Created
  <2>2. ASSUME NEW v \in Honest PROVE Created(v).state = view[v] /\ Created(v).commands = {}
    <3>1. Ignored(view[v]).state = view[v] /\ Ignored(view[v]).commands = {}
      BY DEF Ignored, Result
    <3> QED BY <2>1, <3>1
  <2>3. ASSUME NEW v \in Honest \ asleep
        PROVE  /\ seen[v].state = HandleKeyGenCommitted(view[v], block, group, p, valid).state
               /\ seen[v].commands = HandleKeyGenCommitted(view[v], block, group, p, valid).commands
               /\ seen[v] = Result(HandleKeyGenCommitted(view[v], block, group, p, valid).state,
                                   HandleKeyGenCommitted(view[v], block, group, p, valid).commands)
    <3> DEFINE a == Created(v)
               b == HandleKeyGenCommitted(view[v], block, group, p, valid)
    <3>1. seen[v] = AndThen(a, b) /\ a.commands = {}
      BY <1>5, <2>2
    <3> HIDE DEF a, b
    <3>2. seen[v].state = b.state /\ seen[v].commands = b.commands /\ seen[v] = Result(b.state, b.commands)
      BY <3>1 DEF AndThen, Result
    <3> QED BY <3>2 DEF b
  <2>4. Event(seen)
    BY <1>1, <1>2, <1>5, <2>3, CommittedEvent
  <2>5. ASSUME NEW u \in Honest \ asleep, Roll(u).group # group PROVE seen[u] = Ignored(view[u])
    <3>1. HandleKeyGenCommitted(view[u], block, group, p, valid) = Ignored(view[u])
      BY <2>5, OthersIgnored DEF Roll
    <3>2. Ignored(view[u]) = Result(view[u], {}) /\ Ignored(view[u]).state = view[u] /\ Ignored(view[u]).commands = {}
      BY DEF Ignored, Result
    <3> QED BY <2>3, <3>1, <3>2
  <2>6. ASSUME NEW u \in Honest \ asleep, view[u].rollover.group = group
        PROVE  CommitEffect(view[u].rollover, seen[u].state.rollover, seen[u].commands, p, valid)
    <3>1. CommitEffect(view[u].rollover, HandleKeyGenCommitted(view[u], block, group, p, valid).state.rollover,
                       HandleKeyGenCommitted(view[u], block, group, p, valid).commands, p, valid)
      BY <1>0, <2>6, CommitExactly
    <3> QED BY <2>3, <3>1
  <2>7. CommitCalled(x, group, p, valid, seen)
    BY <1>1, <1>2, <2>4, <2>5, <2>6 DEF CommitCalled, Called, Elsewhere, Roll
  <2> QED BY <2>7
<1> QED BY <1>6, <1>7

-----------------------------------------------------------------------------
(* Every step keeps the second layer                                        *)

\* It is enough to look at those that are and stay at the group.
LEMMA TracksCall ==
    ASSUME Inv1, NEW seen, NEW group \in Group, NEW H, Elsewhere(group, seen),
           \A u \in Steady : Roll(u).group = group /\ seen[u].state.rollover.group = group =>
              Follow(seen[u].state.rollover, H)
    PROVE  Tracks(seen, group, H)
<1> SUFFICES ASSUME NEW u \in Steady
             PROVE  LET q == seen[u].state.rollover IN
                    /\ q.group = group => Follow(q, H)
                    /\ q.group # group => \/ q = Roll(u)
                                          \/ q.group # Roll(u).group /\ Roll(u).stage # "WaitingForGenesis"
  BY DEF Tracks
<1>1. u \in Honest \ asleep /\ group # NoGroup
  BY NoGroupAssumption DEF Steady, Group
<1>2. CASE Roll(u).group # group
  <2>1. Ignored(view[u]).state = view[u]
    BY DEF Ignored, Result
  <2>2. seen[u].state.rollover = Roll(u)
    BY <1>1, <1>2, <2>1 DEF Elsewhere, Roll
  <2> QED BY <1>2, <2>2
<1>3. CASE Roll(u).group = group
  <2>1. Roll(u).stage # "WaitingForGenesis"
    BY <1>1, <1>3 DEF Inv1, ViewsOK, Shape, Busy
  <2> QED BY <1>3, <2>1
<1> QED BY <1>2, <1>3

\* keyGenAndCommit
LEMMA CommitHolds ==
    ASSUME Inv1, Inv2, effects = {}, NEW x, NEW group, NEW p, NEW valid \in BOOLEAN, NEW seen,
           CommitCalled(x, group, p, valid, seen)
    PROVE  Inv2'
<1> DEFINE G == Entry(group)
           H == Registering(group, G, p)
<1>1. /\ Called(x, group, H, seen) /\ Elsewhere(group, seen) /\ group \in Group /\ group # NoGroup
      /\ p \in group.members /\ G.status = "COMMITTING" /\ G \in ContractGroup
  BY EntryOK, NoGroupAssumption DEF CommitCalled, Called, GroupOK, Group
<1>2. H.confirmed = G.confirmed /\ H.complaints = G.complaints
  BY <1>1 DEF Registering, ContractGroup
<1> HIDE DEF H
<1>3. Told(group, H)
  BY <1>2 DEF Told, Confirmed, Complained
<1>4. ASSUME NEW u \in Steady, Roll(u).group = group PROVE Follow(seen[u].state.rollover, H)
  <2>1. u \in Honest \ asleep
    BY DEF Steady
  <2>2. CommitEffect(Roll(u), seen[u].state.rollover, seen[u].commands, p, valid)
    BY <1>4, <2>1 DEF CommitCalled
  <2>3. Following(u, Roll(u), group, G)
    BY <1>1, <1>4, IsFollowing
  <2> QED BY <1>1, <2>2, <2>3, CommitFollows DEF H
<1>5. Tracks(seen, group, H)
  BY <1>1, <1>4, TracksCall
<1> QED BY <1>1, <1>3, <1>5, CallHolds DEF Called

\* keyGenAndCommit, of the genesis group
LEMMA GenesisHolds ==
    ASSUME Inv1, Inv2, effects = {}, NEW x, NEW p, NEW valid \in BOOLEAN, NEW seen,
           GenesisCalled(x, p, valid, seen)
    PROVE  Inv2'
<1> DEFINE group == GenesisGroup
           G == EmptyGroup
           H == Registering(group, G, p)
<1>1. /\ Called(x, group, H, seen) /\ group \in Group /\ Entry(group) = G
      /\ p \in group.members
  BY DEF GenesisCalled, Called
<1>2. /\ G.status = "COMMITTING" /\ H.confirmed = {} /\ H.complaints = {}
      /\ GroupOK(group, G) /\ Formed(group)
  BY EmptyGroupOK, ViableFormed, EpochsAssumption DEF EmptyGroup, Registering, GenesisGroup
<1> HIDE DEF H, group
<1>3. Told(group, H)
  BY <1>2 DEF Told
<1>4. ASSUME NEW u \in Steady PROVE Follow(seen[u].state.rollover, H) /\ seen[u].state.rollover.group = group
  <2> DEFINE q == seen[u].state.rollover
  <2>1. u \in Honest \ asleep
    BY DEF Steady
  <2>2. PICK m, commands :
          /\ Shape(u, m) /\ m.group = group /\ m.stage = "CollectingCommitments" /\ m.commitments = {}
          /\ CommitEffect(m, q, commands, p, valid)
    BY <2>1 DEF GenesisCalled, group
  <2> HIDE DEF q
  <2>3. Following(u, m, group, G)
    BY <1>1, <1>2, <2>2 DEF Following, Follow, Busy
  <2>4. Follow(q, H)
    BY <1>1, <1>2, <2>2, <2>3, CommitFollows DEF H
  <2>5. q.group = group
    BY <2>2 DEF CommitEffect, SameRound
  <2> QED BY <2>4, <2>5 DEF q
<1>5. Tracks(seen, group, H)
  BY <1>4 DEF Tracks
<1> QED BY <1>1, <1>3, <1>5, CallHolds DEF Called

\* keyGenSecretShare
LEMMA ShareHolds ==
    ASSUME Inv1, Inv2, effects = {}, NEW x, NEW group, NEW p, NEW valid \in BOOLEAN, NEW cheated, NEW seen,
           ShareCalled(x, group, p, valid, cheated, seen)
    PROVE  Inv2'
<1> DEFINE G == Entry(group)
           H == Sharing(group, G, p)
<1>1. /\ Called(x, group, H, seen) /\ Elsewhere(group, seen) /\ group \in Group /\ group # NoGroup
      /\ p \in group.members /\ G.status = "SHARING" /\ G \in ContractGroup
  BY EntryOK, NoGroupAssumption DEF ShareCalled, Called, GroupOK, Group
<1>2. H.confirmed = G.confirmed /\ H.complaints = G.complaints
  BY <1>1 DEF Sharing, ContractGroup
<1> HIDE DEF H
<1>3. Told(group, H)
  BY <1>2 DEF Told, Confirmed, Complained
<1>4. ASSUME NEW u \in Steady, Roll(u).group = group PROVE Follow(seen[u].state.rollover, H)
  <2>1. u \in Honest \ asleep
    BY DEF Steady
  <2>2. ShareEffect(u, Roll(u), seen[u].state.rollover, seen[u].commands, block, p, valid, cheated)
    BY <1>4, <2>1 DEF ShareCalled
  <2>3. Following(u, Roll(u), group, G)
    BY <1>1, <1>4, IsFollowing
  <2> QED BY <1>1, <2>2, <2>3, ShareFollows DEF H
<1>5. Tracks(seen, group, H)
  BY <1>1, <1>4, TracksCall
<1> QED BY <1>1, <1>3, <1>5, CallHolds DEF Called

\* keyGenConfirm, which an honest validator has sent itself
LEMMA ConfirmHolds ==
    ASSUME Inv1, Inv2, effects = {}, NEW x, NEW group, NEW p, NEW seen,
           ConfirmCalled(x, group, p, seen), p \in Honest => Transaction(p, KeyGenConfirm(group)) \in pool
    PROVE  Inv2'
<1> DEFINE G == Entry(group)
           H == Confirming(group, G, p)
<1>1. /\ Called(x, group, H, seen) /\ Elsewhere(group, seen) /\ group \in Group /\ group # NoGroup
      /\ p \in group.members /\ G.status = "CONFIRMING" /\ G \in ContractGroup
  BY EntryOK, NoGroupAssumption DEF ConfirmCalled, Called, GroupOK, Group
<1>2. H.confirmed = G.confirmed \cup {p} /\ H.complaints = G.complaints
  BY <1>1 DEF Confirming, ContractGroup
<1> HIDE DEF H
<1>3. Told(group, H)
  BY <1>2 DEF Told, Confirmed, Complained
<1>4. ASSUME NEW u \in Steady, Roll(u).group = group, seen[u].state.rollover.group = group
      PROVE  Follow(seen[u].state.rollover, H)
  <2>1. u \in Honest \ asleep
    BY DEF Steady
  <2>2. ConfirmEffect(Roll(u), seen[u].state.rollover, seen[u].commands, p)
    BY <1>4, <2>1 DEF ConfirmCalled
  <2>3. Following(u, Roll(u), group, G)
    BY <1>1, <1>4, IsFollowing
  <2> QED BY <1>1, <1>4, <2>2, <2>3, ConfirmFollows DEF H
<1>5. Tracks(seen, group, H)
  BY <1>1, <1>4, TracksCall
<1> QED BY <1>1, <1>3, <1>5, CallHolds DEF Called

\* keyGenComplain, which an honest validator has sent itself
LEMMA ComplainHolds ==
    ASSUME Inv1, Inv2, effects = {}, NEW x, NEW group, NEW plaintiff, NEW accused, NEW seen,
           ComplainCalled(x, group, plaintiff, accused, seen),
           plaintiff \in Honest => Transaction(plaintiff, KeyGenComplain(group, accused)) \in pool
    PROVE  Inv2'
<1> DEFINE G == Entry(group)
           H == Complaining(group, G, plaintiff, accused)
<1>1. /\ Called(x, group, H, seen) /\ Elsewhere(group, seen) /\ group \in Group /\ group # NoGroup
      /\ plaintiff \in Participants /\ accused \in group.members
      /\ Complaint(plaintiff, accused) \notin G.complaints
      /\ G.status \in {"SHARING", "CONFIRMING"} /\ G \in ContractGroup
  BY EntryOK, NoGroupAssumption DEF ComplainCalled, Called, GroupOK, Group
<1>2. H.confirmed = G.confirmed /\ H.complaints = G.complaints \cup {Complaint(plaintiff, accused)}
  <2> DEFINE I == [G EXCEPT !.complaints = @ \cup {Complaint(plaintiff, accused)}]
  <2>1. /\ I.confirmed = G.confirmed /\ I.complaints = G.complaints \cup {Complaint(plaintiff, accused)}
        /\ [I EXCEPT !.status = "COMPROMISED"].confirmed = I.confirmed
        /\ [I EXCEPT !.status = "COMPROMISED"].complaints = I.complaints
    BY <1>1 DEF ContractGroup
  <2>2. H \in {I, [I EXCEPT !.status = "COMPROMISED"]}
    BY DEF Complaining, Complaint
  <2> HIDE DEF I, H
  <2> QED BY <2>1, <2>2
<1> HIDE DEF H
<1>3. Told(group, H)
  <2>1. ASSUME NEW v \in Honest, NEW a \in Participants, Complaint(v, a) = Complaint(plaintiff, accused)
        PROVE  v = plaintiff /\ a = accused
    BY <2>1 DEF Complaint
  <2> QED BY <1>2, <2>1 DEF Told, Confirmed, Complained
<1>4. ASSUME NEW u \in Steady, Roll(u).group = group, seen[u].state.rollover.group = group
      PROVE  Follow(seen[u].state.rollover, H)
  <2>1. u \in Honest \ asleep
    BY DEF Steady
  <2>2. ComplainEffect(u, Roll(u), seen[u].state.rollover, seen[u].commands, block, plaintiff, accused)
    BY <1>4, <2>1 DEF ComplainCalled
  <2>3. Following(u, Roll(u), group, G)
    BY <1>1, <1>4, IsFollowing
  <2> QED BY <1>1, <1>4, <2>2, <2>3, ComplainFollows DEF H
<1>5. Tracks(seen, group, H)
  BY <1>1, <1>4, TracksCall
<1> QED BY <1>1, <1>3, <1>5, CallHolds DEF Called

\* keyGenComplaintResponse
LEMMA RespondHolds ==
    ASSUME Inv1, Inv2, effects = {}, NEW x, NEW group, NEW plaintiff, NEW accused, NEW valid \in BOOLEAN, NEW seen,
           RespondCalled(x, group, plaintiff, accused, valid, seen)
    PROVE  Inv2'
<1> DEFINE G == Entry(group)
           H == Responding(G, plaintiff, accused)
<1>1. /\ Called(x, group, H, seen) /\ Elsewhere(group, seen) /\ group \in Group /\ group # NoGroup
      /\ accused \in Participants
      /\ G.status \in {"SHARING", "CONFIRMING"} /\ G \in ContractGroup
  BY EntryOK, NoGroupAssumption DEF RespondCalled, Called, GroupOK, Group
<1>2. H.confirmed = G.confirmed /\ H.complaints = G.complaints
  BY <1>1 DEF Responding, ContractGroup
<1> HIDE DEF H
<1>3. Told(group, H)
  BY <1>2 DEF Told, Confirmed, Complained
<1>4. ASSUME NEW u \in Steady, Roll(u).group = group, seen[u].state.rollover.group = group
      PROVE  Follow(seen[u].state.rollover, H)
  <2>1. u \in Honest \ asleep
    BY DEF Steady
  <2>2. RespondEffect(u, Roll(u), seen[u].state.rollover, seen[u].commands, block, plaintiff, accused, valid)
    BY <1>4, <2>1 DEF RespondCalled
  <2>3. Following(u, Roll(u), group, G)
    BY <1>1, <1>4, IsFollowing
  <2> QED BY <1>1, <1>4, <2>2, <2>3, RespondFollows DEF H
<1>5. Tracks(seen, group, H)
  BY <1>1, <1>4, TracksCall
<1> QED BY <1>1, <1>3, <1>5, CallHolds DEF Called

\* keyGen
LEMMA KeyGenHolds ==
    ASSUME Inv1, Inv2, effects = {}, CallKeyGen
    PROVE  Inv2'
<1> DEFINE group == GenesisGroup
           seen == [v \in Honest |-> IF v \in asleep THEN Ignored(view[v])
                     ELSE HandleGenesisKeyGen(view[v], v, group)]
<1>1. /\ group \notin DOMAIN groups /\ SetGroup(group, EmptyGroup)
      /\ group_of' = group_of /\ Handled({}, seen)
  BY DEF CallKeyGen, Dispatch, Seen
<1>2. asleep \subseteq Honest /\ Steady \subseteq Honest \ asleep
  BY HonestAssumption DEF Inv1, TypesOK, Steady
<1>3. /\ \A v \in asleep : seen[v] = Ignored(view[v])
      /\ \A v \in Honest \ asleep : seen[v] = HandleGenesisKeyGen(view[v], v, group)
  BY <1>2
<1> HIDE DEF seen
<1>4. Event(seen)
  BY <1>1, <1>3, GenesisEvent
<1>5. ASSUME NEW u \in Steady
      PROVE  LET q == seen[u].state.rollover IN
             q.stage = "CollectingCommitments" /\ q.commitments = {} /\ q.group = group
  <2>1. u \in Honest \ asleep /\ Roll(u).stage = "WaitingForGenesis" /\ Ready(u, view[u], block)
    BY <1>1, <1>2, AllReady DEF Inv1, ViewsOK
  <2>2. seen[u] = StartKeyGen(view[u], u, group, 0)
    BY <1>3, <2>1 DEF HandleGenesisKeyGen, Roll, GenesisGroup
  <2>3. Formed(group) /\ group.epoch = Genesis /\ IsAhead(view[u].rollover, group)
    BY <2>1, ViableFormed, EpochsAssumption DEF GenesisGroup, IsAhead, Roll
  <2>4. Started(u, view[u], view[u].rollover, group, 0, seen[u])
    BY <2>1, <2>2, <2>3, StartTurn DEF Ready, GenesisGroup
  <2> QED BY <2>4 DEF Started
<1>6. Tracks(seen, group, EmptyGroup)
  BY <1>5 DEF Tracks, Follow
<1>7. Told(group, EmptyGroup)
  BY DEF Told, EmptyGroup
<1> QED BY <1>1, <1>4, <1>6, <1>7, CallHolds

StageCalled(group, seen) ==
    /\ Handled({}, seen) /\ Stepped(seen, block) /\ groups' = groups /\ block' = block /\ late' = late /\ cancelled \subseteq cancelled'
    /\ group \in Group /\ IsFinalized(group) /\ group_of' = [group_of EXCEPT ![group.epoch] = group]
    /\ \A v \in Honest : seen[v].commands = {}
    /\ \A u \in Steady :
          /\ Roll(u).group = group /\ seen[u].state.rollover = Idle("EpochStaged", group.epoch)
          /\ \A e \in Epochs \ {group.epoch} : seen[u].state.epochs[e] = view[u].epochs[e]
          /\ Roll(u).confirmed => seen[u].state.epochs[group.epoch] = group

\* stageEpoch, and what exactly it does to those that were there from the start
LEMMA StageCall ==
    ASSUME Inv1, effects = {}, NEW group \in DOMAIN groups, StageEpoch(group)
    PROVE  \E seen : StageCalled(group, seen)
<1> DEFINE seen == [v \in Honest |-> IF v \in asleep THEN Ignored(view[v])
                     ELSE HandleEpochStaged(view[v], group.epoch, group)]
<1>1. /\ group_of' = [group_of EXCEPT ![group.epoch] = group]
      /\ block' = block /\ groups' = groups /\ late' = late /\ cancelled \subseteq cancelled' /\ Handled({}, seen)
  BY DEF StageEpoch, Dispatch, Seen
<1>2. /\ group \in Group /\ group.epoch = NextNumber(block) /\ IsFinalized(group)
      /\ \A u \in Steady : Follows(view[u], "SigningRollover", group)
  BY StagedByAll
<1>3. asleep \subseteq Honest /\ Steady \subseteq Honest \ asleep
  BY HonestAssumption DEF Inv1, TypesOK, Steady
<1>4. /\ \A v \in asleep : seen[v] = Ignored(view[v])
      /\ \A v \in Honest \ asleep : seen[v] = HandleEpochStaged(view[v], group.epoch, group)
  BY <1>3
<1> HIDE DEF seen
<1>5. \A v \in Honest : Ready(v, view[v], block)
  BY AllReady
<1>6. Stepped(seen, block)
  <2>1. ASSUME NEW v \in Honest, v \in asleep PROVE Good(v, view[v], seen[v], block)
    BY <1>4, <1>5, <2>1, IgnoredGood
  <2>2. ASSUME NEW v \in Honest \ asleep PROVE Good(v, view[v], seen[v], block)
    BY <1>2, <1>4, <1>5, StagedGood
  <2> QED BY <1>4, <2>1, <2>2 DEF Stepped
<1>7. ASSUME NEW u \in Steady
      PROVE  /\ Roll(u).group = group /\ seen[u].state.rollover = Idle("EpochStaged", group.epoch)
             /\ \A e \in Epochs \ {group.epoch} : seen[u].state.epochs[e] = view[u].epochs[e]
             /\ Roll(u).confirmed => seen[u].state.epochs[group.epoch] = group
  <2>1. /\ \A e \in Epochs : e # group.epoch \/ view[u].rollover.group # group => seen[u].state.epochs[e] = view[u].epochs[e]
        /\ seen[u].state.rollover = Idle("EpochStaged", group.epoch)
        /\ view[u].rollover.confirmed => seen[u].state.epochs[group.epoch] = group
    BY <1>2, <1>3, <1>4, <1>5, StagedGood
  <2> QED BY <1>2, <2>1 DEF Follows, Roll
<1>8. ASSUME NEW v \in Honest PROVE seen[v].commands = {}
  <2>1. \A s : Ignored(s).commands = {}
    BY DEF Ignored, Result
  <2>2. HandleEpochStaged(view[v], group.epoch, group).commands = {}
    BY <2>1 DEF HandleEpochStaged
  <2> QED BY <1>3, <1>4, <2>1, <2>2
<1> QED BY <1>1, <1>2, <1>6, <1>7, <1>8 DEF StageCalled

\* Every member that was there has confirmed the key of the epoch that is staged.
LEMMA StageHolds ==
    ASSUME Inv1, Inv2, effects = {}, NEW group, group.epoch # Genesis, NEW seen, StageCalled(group, seen)
    PROVE  Inv2'
<1>1. /\ Handled({}, seen) /\ Stepped(seen, block) /\ group \in Group
      /\ group_of' = [group_of EXCEPT ![group.epoch] = group] /\ group_of \in [Epochs -> Group \cup {NoGroup}]
      /\ group.epoch \in Epochs
  BY DEF StageCalled, Group, Inv1, TypesOK
<1>2. /\ Steady' = Steady /\ Steady \subseteq Honest
      /\ \A v \in Honest : view'[v] = seen[v].state /\ Roll(v)' = seen[v].state.rollover
  BY <1>1, HandledViews DEF Steady
<1>3. \A g : Entry(g)' = Entry(g)
  BY DEF StageCalled, Entry
<1>4. HistoryOK'
  <2>1. \A g \in Group : Told(g, Entry(g)')
    <3>1. \A g \in Group : Told(g, Entry(g))
      BY DEF Told, Confirmed, Complained
    <3> QED BY <1>3, <3>1
  <2> QED BY <1>1, <2>1, HistoryKeeps DEF Inv2
<1>5. FollowOK'
  <2>1. ASSUME NEW u \in Steady PROVE Roll(u)'.group = NoGroup
    BY <1>2 DEF StageCalled, Idle, Rollover
  <2> QED BY <1>2, <2>1 DEF FollowOK
<1>6. StagedKeyHeld'
  <2> SUFFICES ASSUME NEW e \in Epochs \ {Genesis}, group_of'[e] # NoGroup, NEW v \in Steady, v \in group_of'[e].members
               PROVE  view'[v].epochs[e] = group_of'[e]
    BY <1>2 DEF StagedKeyHeld
  <2>1. CASE e # group.epoch
    <3>1. group_of'[e] = group_of[e]
      BY <1>1, <2>1
    <3>2. view[v].epochs[e] = group_of[e]
      BY <3>1 DEF Inv2, StagedKeyHeld
    <3> QED BY <1>2, <2>1, <3>1, <3>2 DEF StageCalled
  <2>2. CASE e = group.epoch
    <3>1. group_of'[e] = group
      BY <1>1, <2>2
    <3>2. v \in Entry(group).confirmed
      BY <3>1 DEF StageCalled, IsFinalized, Inv1, ContractOK, GroupOK, Entry
    <3>3. MayConfirm(Roll(v), group)
      BY <1>1, <1>2, <3>2 DEF Inv2, HistoryOK, Confirmed
    <3>4. Roll(v).group = group /\ Shape(v, Roll(v))
      BY <1>2 DEF StageCalled, Inv1, ViewsOK
    <3>5. ~ Past(Roll(v), group)
      BY <1>1, <3>4, NotBoth
    <3>6. Roll(v).confirmed
      BY <3>3, <3>5 DEF MayConfirm
    <3> QED BY <1>2, <2>2, <3>1, <3>6 DEF StageCalled
  <2> QED BY <2>1, <2>2
<1> QED BY <1>4, <1>5, <1>6 DEF Inv2

BlockCalled(seen) ==
    /\ block < MaxBlock /\ block' = block + 1 /\ late' = late \cup {x.from : x \in pool}
    /\ cancelled \subseteq cancelled'
    /\ consensus' = consensus /\ group_of' = group_of
    /\ Stepped(seen, block') /\ Handled({x \in pool : ~ IsFollowed(seen, x.c.group)}, seen)
    /\ \A g : Entry(g)' \in {Entry(g), EmptyGroup}
    /\ \A g : IsFollowed(seen, g) => Entry(g)' = Entry(g)
    /\ \A u \in Honest \ asleep :
          /\ BlockEffect(Roll(u), seen[u].state.rollover, seen[u].commands, block')
          /\ seen[u].state.epochs = view[u].epochs

\* A new block, and what exactly it does to the validators
LEMMA BlockCall ==
    ASSUME Inv1, effects = {}, NextBlock
    PROVE  \E seen : BlockCalled(seen)
<1> DEFINE seen == Blocked
           b == block + 1
<1>1. /\ block < MaxBlock /\ block' = b /\ late' = late \cup {x.from : x \in pool}
    /\ cancelled \subseteq cancelled'
      /\ consensus' = consensus /\ group_of' = group_of
      /\ groups' = [h \in {i \in DOMAIN groups : IsFollowed(seen, i)} |-> groups[h]]
      /\ Handled({x \in pool : ~ IsFollowed(seen, x.c.group)}, seen)
  BY DEF NextBlock, Seen, Blocked
<1>2. \A v \in Honest : ReadyForBlock(v, view[v], b)
  BY <1>1, AllReadyForBlock
<1>3. /\ Stepped(seen, b)
      /\ \A v \in Honest \ asleep : seen[v] = HandleNewBlock(view[v], v, b)
  BY <1>1, BlockStepped
<1> HIDE DEF seen, b
<1>4. \A g : Entry(g)' \in {Entry(g), EmptyGroup} /\ (IsFollowed(seen, g) => Entry(g)' = Entry(g))
  BY <1>1 DEF Entry
<1>5. ASSUME NEW u \in Honest \ asleep
      PROVE  /\ BlockEffect(Roll(u), seen[u].state.rollover, seen[u].commands, b)
             /\ seen[u].state.epochs = view[u].epochs
  BY <1>2, <1>3, BlockExactly, NewBlockGood DEF Roll
<1>6. BlockCalled(seen)
  BY <1>1, <1>3, <1>4, <1>5 DEF BlockCalled, b
<1> QED BY <1>6

\* A new block
LEMMA BlockHolds ==
    ASSUME Inv1, Inv2, effects = {}, NEW seen, BlockCalled(seen)
    PROVE  Inv2'
<1>1. /\ Stepped(seen, block') /\ group_of' = group_of
      /\ Handled({x \in pool : ~ IsFollowed(seen, x.c.group)}, seen)
  BY DEF BlockCalled
<1>2. /\ Steady' = Steady /\ Steady \subseteq Honest \ asleep
      /\ \A v \in Honest : view'[v] = seen[v].state /\ Roll(v)' = seen[v].state.rollover
  BY <1>1, HandledViews DEF Steady
<1>3. HistoryOK'
  <2>1. ASSUME NEW g \in Group PROVE Told(g, Entry(g)')
    <3>1. Told(g, Entry(g)) /\ Told(g, EmptyGroup)
      BY DEF Told, Confirmed, Complained, EmptyGroup
    <3> QED BY <3>1 DEF BlockCalled
  <2> QED BY <1>1, <2>1, HistoryKeeps DEF Inv2
<1>4. FollowOK'
  <2> SUFFICES ASSUME NEW u \in Steady, NEW g, g = Roll(u)'.group, g # NoGroup
               PROVE  Follow(Roll(u)', Entry(g)')
    BY <1>2 DEF FollowOK, Entry
  <2> DEFINE q == seen[u].state.rollover
             r == Roll(u)
  <2>1. u \in Honest \ asleep /\ Roll(u)' = q /\ q.group = g
    BY <1>2
  <2>2. BlockEffect(r, q, seen[u].commands, block')
    BY <2>1 DEF BlockCalled
  <2>3. CASE q.group = r.group
    <3>1. q = r
      BY <2>1, <2>2, <2>3 DEF BlockEffect, Leaves, Unmoved
    <3>2. Follow(q, Entry(g))
      BY <2>1, <3>1 DEF Inv2, FollowOK
    <3>3. IsFollowed(seen, g)
      BY <2>1 DEF IsFollowed
    <3> QED BY <2>1, <3>2, <3>3 DEF BlockCalled
  <2>4. CASE q.group # r.group
    <3>1. Turn(u, r, q, seen[u].commands)
      BY <1>1, <2>1 DEF Stepped, Good, Roll
    <3>2. r.stage # "WaitingForGenesis"
      <4>1. r.stage = "WaitingForGenesis" => ~ Rolls(r, block') /\ ~ IsExpired(r, block')
        BY <2>1 DEF Inv1, ViewsOK, Shape, Idle, Rollover, Rolls, IsExpired
      <4> QED BY <2>2, <2>4, <4>1 DEF BlockEffect, Unmoved
    <3>3. q.stage = "CollectingCommitments" /\ q.commitments = {}
      BY <2>1, <2>4, <3>1, <3>2 DEF Turn
    <3> QED BY <2>1, <3>3 DEF Follow
  <2> QED BY <2>3, <2>4
<1>5. StagedKeyHeld'
  BY <1>1, <1>2 DEF Inv2, StagedKeyHeld, BlockCalled
<1> QED BY <1>3, <1>4, <1>5 DEF Inv2

\* A command is what its fields say.
LEMMA CommandFields ==
    ASSUME NEW c \in Command
    PROVE  /\ c.kind = "KeyGenConfirm" => c = KeyGenConfirm(c.group)
           /\ c.kind = "KeyGenComplain" => c = KeyGenComplain(c.group, c.accused)
<1>1. CASE c.kind = "KeyGenConfirm"
  BY <1>1 DEF Command, KeyGenConfirm
<1>2. CASE c.kind = "KeyGenComplain"
  BY <1>2 DEF Command, KeyGenComplain
<1> QED BY <1>1, <1>2

\* The calls of honest validators.
LEMMA SubmitHolds ==
    ASSUME Inv1, Inv2, effects = {}, NEW x \in pool, Submit(x)
    PROVE  Inv2'
<1>1. /\ x.from \in Honest /\ x.c.group \in Group /\ Reached(Roll(x.from), x.c.group) /\ Known(x.c.group)
      /\ x = Transaction(x.from, x.c) /\ x.c \in Command
  BY KnownGroups DEF Inv1, QueuesOK, Formed
<1>2. x.c.group # GenesisGroup \/ x.c.group \in DOMAIN groups
  BY <1>1, ReachedEpoch DEF Inv1, ViewsOK
<1>3. TRUE \in BOOLEAN
  OBVIOUS
<1>4. CASE x.c.kind = "KeyGenAndCommit" /\ CallKeyGenAndCommit(x, x.c.group, x.from, TRUE, {})
  <2>1. PICK seen : \/ CommitCalled(x, x.c.group, x.from, TRUE, seen)
                    \/ GenesisCalled(x, x.from, TRUE, seen)
    BY <1>1, <1>2, <1>3, <1>4, CommitCall
  <2> QED BY <1>3, <2>1, CommitHolds, GenesisHolds
<1>5. CASE x.c.kind = "KeyGenSecretShare" /\ CallKeyGenSecretShare(x, x.c.group, x.from, TRUE, {})
  BY <1>3, <1>5, ShareCall, ShareHolds
<1>6. CASE x.c.kind = "KeyGenConfirm" /\ CallKeyGenConfirm(x, x.c.group, x.from, x.c.group.epoch # Genesis)
  <2>1. Transaction(x.from, KeyGenConfirm(x.c.group)) \in pool
    BY <1>1, <1>6, CommandFields
  <2> QED BY <1>6, <2>1, ConfirmCall, ConfirmHolds
<1>7. CASE x.c.kind = "KeyGenComplain" /\ CallKeyGenComplain(x, x.c.group, x.from, x.c.accused)
  <2>1. Transaction(x.from, KeyGenComplain(x.c.group, x.c.accused)) \in pool
    BY <1>1, <1>7, CommandFields
  <2> QED BY <1>7, <2>1, ComplainCall, ComplainHolds
<1>8. CASE /\ x.c.kind = "KeyGenComplaintResponse"
           /\ CallKeyGenComplaintResponse(x, x.c.group, x.c.plaintiff, x.from, TRUE)
  BY <1>3, <1>8, RespondCall, RespondHolds
<1> QED BY <1>4, <1>5, <1>6, <1>7, <1>8 DEF Submit

\* What the others do.
LEMMA FaultyHolds ==
    ASSUME Inv1, Inv2, effects = {}, FaultyActs
    PROVE  Inv2'
<1>0. \A p \in Faulty : p \notin Honest
  BY DEF Faulty
<1>1. CASE FaultyCommits
  <2>1. PICK p \in Faulty, valid \in BOOLEAN,
             group \in ({view[v].rollover.group : v \in Honest} \ {NoGroup}) \cup {GenesisGroup} :
                \E cancels : CallKeyGenAndCommit(Nobody, group, p, valid, cancels)
    BY <1>1 DEF FaultyCommits
  <2>2. Known(group)
    BY KnownGroups DEF Roll
  <2>3. PICK seen : \/ CommitCalled(Nobody, group, p, valid, seen)
                    \/ GenesisCalled(Nobody, p, valid, seen)
    BY <1>0, <2>1, <2>2, CommitCall
  <2> QED BY <2>3, CommitHolds, GenesisHolds
<1>2. CASE FaultyShares
  BY <1>2, ShareCall, ShareHolds DEF FaultyShares
<1>3. CASE FaultyConfirms
  BY <1>0, <1>3, ConfirmCall, ConfirmHolds DEF FaultyConfirms
<1>4. CASE FaultyComplains
  BY <1>0, <1>4, ComplainCall, ComplainHolds DEF FaultyComplains
<1>5. CASE FaultyResponds
  BY <1>5, RespondCall, RespondHolds DEF FaultyResponds
<1> QED BY <1>1, <1>2, <1>3, <1>4, <1>5 DEF FaultyActs

\* Only the participation of a validator changes, and its commitment is on the way.
SetupEffect(me, g, s) ==
    /\ me \in Honest /\ s \in State /\ Keeps(view[me], s)
    /\ Roll(me).group = g /\ g \in Group /\ g # NoGroup /\ Roll(me).stage = "CollectingCommitments"
    /\ s.rollover = [Roll(me) EXCEPT !.participation = "Participating"]
    /\ view'[me] = s /\ Roll(me)' = s.rollover /\ me \notin asleep
    /\ \A v \in Honest : v # me => view'[v] = view[v] /\ Roll(v)' = Roll(v)
    /\ block' = block /\ groups' = groups /\ consensus' = consensus /\ group_of' = group_of
    /\ Steady' = Steady /\ late' = late /\ cancelled \subseteq cancelled'
    /\ pool' = pool \cup {Transaction(me, KeyGenAndCommit(g))}

\* handle_key_gen_setup
LEMMA SetupCall ==
    ASSUME Inv1, SetupDone
    PROVE  \E me, g, s : SetupEffect(me, g, s)
<1>0. TypesOK /\ ViewsOK /\ QueuesOK
  BY DEF Inv1
<1>1. PICK x \in effects :
        LET r == HandleKeyGenSetup(view[x.from], x.from, x.c.group) IN
        /\ effects' = effects \ {x}
        /\ view' = [view EXCEPT ![x.from] = r.state]
        /\ pool' = pool \cup {[from |-> x.from, c |-> c] : c \in r.commands}
        /\ UNCHANGED <<chainVars, asleep, joined, misdeeds, late, began>>
  BY DEF SetupDone
<1> DEFINE me == x.from
           g == x.c.group
           s == view[me]
           r == HandleKeyGenSetup(s, me, g)
<1>2. /\ me \in Honest /\ s \in State /\ s.rollover.group = g /\ s.rollover.participation = "Setup"
      /\ Shape(me, s.rollover)
  BY <1>0 DEF QueuesOK, TypesOK, ViewsOK, Roll
<1>3. /\ r.state \in State /\ r.state.rollover = [s.rollover EXCEPT !.participation = "Participating"]
      /\ Keeps(s, r.state) /\ r.commands = {KeyGenAndCommit(g)}
  <2> HIDE DEF me, g, s
  <2>1. SetUp(me, s, g, r)
    BY <1>2, SetupGood
  <2> HIDE DEF r
  <2> QED BY <2>1 DEF SetUp
<1>4. s.rollover.stage = "CollectingCommitments" /\ g \in Group /\ g # NoGroup
  BY <1>2, NoGroupAssumption DEF Shape, Busy, Formed, Group
<1>5. me \notin asleep
  BY <1>0, <1>2, <1>4 DEF ViewsOK, InitialState, Idle, Rollover, Roll
<1>6. view'[me] = r.state /\ \A v \in Honest : v # me => view'[v] = view[v]
  BY <1>0, <1>1, <1>2 DEF TypesOK
<1>7. /\ block' = block /\ groups' = groups /\ consensus' = consensus /\ group_of' = group_of
      /\ Steady' = Steady /\ late' = late /\ cancelled \subseteq cancelled'
      /\ pool' = pool \cup {Transaction(me, KeyGenAndCommit(g))}
  BY <1>1, <1>3 DEF chainVars, Steady, Transaction
<1>8. SetupEffect(me, g, r.state)
  <2> HIDE DEF r, g, me
  <2> QED BY <1>2, <1>3, <1>4, <1>5, <1>6, <1>7 DEF SetupEffect, Roll
<1> QED BY <1>8

\* The effect of a set up.
LEMMA SetupHolds ==
    ASSUME Inv1, Inv2, SetupDone
    PROVE  Inv2'
<1>1. PICK me, g, s : SetupEffect(me, g, s)
  BY SetupCall
<1>2. /\ Steady' = Steady /\ Steady \subseteq Honest /\ groups' = groups /\ group_of' = group_of
      /\ pool' = pool \cup {Transaction(me, KeyGenAndCommit(g))} /\ me \in Honest
  BY <1>1 DEF SetupEffect, Steady
<1>3. \A v \in Honest :
        /\ Roll(v)'.group = Roll(v).group /\ Roll(v)'.stage = Roll(v).stage
        /\ Roll(v)'.next_epoch = Roll(v).next_epoch /\ Roll(v)'.commitments = Roll(v).commitments
        /\ Roll(v)'.confirmed = Roll(v).confirmed
        /\ Roll(v)'.stage = "CollectingCommitments" \/ Roll(v)' = Roll(v)
        /\ view'[v].epochs = view[v].epochs
  <2>1. Roll(me) \in RolloverState
    BY <1>2 DEF Inv1, ViewsOK, Shape
  <2> QED BY <1>1, <2>1 DEF SetupEffect, RolloverState, Keeps
<1>4. \A h : Entry(h)' = Entry(h)
  BY <1>2 DEF Entry
<1>5. HistoryOK'
  <2> SUFFICES ASSUME NEW v \in Honest, NEW h \in Group
               PROVE  /\ \A a \in Participants : Complained(v, h, a)' => MayComplain(Roll(v)', h)
                      /\ Confirmed(v, h)' => MayConfirm(Roll(v)', h)
    BY DEF HistoryOK
  <2>1. /\ MayComplain(Roll(v), h) => MayComplain(Roll(v)', h)
        /\ MayConfirm(Roll(v), h) => MayConfirm(Roll(v)', h)
    BY <1>3 DEF MayComplain, MayConfirm, Past
  <2>2. \A a : KeyGenComplain(h, a).kind = "KeyGenComplain"
    BY DEF KeyGenComplain
  <2>3. KeyGenConfirm(h).kind = "KeyGenConfirm" /\ KeyGenAndCommit(g).kind = "KeyGenAndCommit"
    BY DEF KeyGenConfirm, KeyGenAndCommit
  <2>4. \A c : Transaction(v, c) = Transaction(me, KeyGenAndCommit(g)) => c = KeyGenAndCommit(g)
    BY DEF Transaction
  <2>5. \A a : Complained(v, h, a)' => Complained(v, h, a)
    BY <1>2, <1>4, <2>2, <2>3, <2>4 DEF Complained
  <2>6. Confirmed(v, h)' => Confirmed(v, h)
    BY <1>2, <1>4, <2>3, <2>4 DEF Confirmed
  <2> QED BY <2>1, <2>5, <2>6 DEF Inv2, HistoryOK
<1>6. FollowOK'
  <2> SUFFICES ASSUME NEW u \in Steady, NEW h, h = Roll(u)'.group, h # NoGroup
               PROVE  Follow(Roll(u)', Entry(h)')
    BY <1>2 DEF FollowOK, Entry
  <2>1. Follow(Roll(u), Entry(h)) /\ u \in Honest
    BY <1>2, <1>3 DEF Inv2, FollowOK
  <2>2. Follow(Roll(u)', Entry(h))
    <3>1. CASE Roll(u)' = Roll(u)
      BY <2>1, <3>1
    <3>2. CASE Roll(u)'.stage = "CollectingCommitments"
      BY <1>3, <2>1, <3>2 DEF Follow
    <3> QED BY <1>3, <2>1, <3>1, <3>2
  <2> QED BY <1>4, <2>2
<1>7. StagedKeyHeld'
  BY <1>2, <1>3 DEF Inv2, StagedKeyHeld
<1> QED BY <1>5, <1>6, <1>7 DEF Inv2

\* Nothing that the validators know changes, and nothing is sent.
LEMMA IdleHolds ==
    ASSUME Inv2, pool' \subseteq pool, Steady' = Steady, UNCHANGED <<groups, group_of, view>>
    PROVE  Inv2'
<1>1. (\A h : Entry(h)' = Entry(h)) /\ (\A v : Roll(v)' = Roll(v))
  BY DEF Entry, Roll
<1>2. HistoryOK'
  <2> SUFFICES ASSUME NEW v \in Honest, NEW h \in Group
               PROVE  /\ \A a \in Participants : Complained(v, h, a)' => MayComplain(Roll(v)', h)
                      /\ Confirmed(v, h)' => MayConfirm(Roll(v)', h)
    BY DEF HistoryOK
  <2>1. Confirmed(v, h)' => Confirmed(v, h)
    BY <1>1 DEF Confirmed
  <2>2. \A a : Complained(v, h, a)' => Complained(v, h, a)
    BY <1>1 DEF Complained
  <2> QED BY <1>1, <2>1, <2>2 DEF Inv2, HistoryOK
<1>3. FollowOK'
  <2> SUFFICES ASSUME NEW u \in Steady, NEW h, h = Roll(u)'.group, h # NoGroup
               PROVE  Follow(Roll(u)', Entry(h)')
    BY DEF FollowOK, Entry
  <2> QED BY <1>1 DEF Inv2, FollowOK
<1>4. StagedKeyHeld'
  BY DEF Inv2, StagedKeyHeld
<1> QED BY <1>2, <1>3, <1>4 DEF Inv2

\* The first state.
LEMMA InitialHolds ==
    ASSUME Init
    PROVE  Inv2
<1>1. /\ groups = << >> /\ pool = {} /\ view = [v \in Honest |-> InitialState]
      /\ group_of = [e \in Epochs |-> IF e = Genesis THEN GenesisGroup ELSE NoGroup]
  BY DEF Init
<1>2. \A h : Entry(h) = EmptyGroup
  BY <1>1 DEF Entry
<1>3. HistoryOK
  BY <1>1, <1>2 DEF HistoryOK, Complained, Confirmed, EmptyGroup
<1>4. \A v \in Honest : Roll(v).group = NoGroup
  BY <1>1 DEF Roll, InitialState, Idle, Rollover
<1>5. FollowOK
  BY <1>4 DEF FollowOK, Steady
<1>6. StagedKeyHeld
  BY <1>1 DEF StagedKeyHeld
<1> QED BY <1>3, <1>5, <1>6 DEF Inv2

\* Every step keeps the second layer.
LEMMA Inv2Step ==
    ASSUME Inv1, Inv2, [Next]_vars
    PROVE  Inv2'
<1>1. CASE SetupDone
  BY <1>1, SetupHolds
<1>2. CASE Revert
  <2>1. pool' \subseteq pool /\ UNCHANGED <<groups, group_of, view, asleep, joined>>
    BY <1>2 DEF Revert, chainVars
  <2> QED BY <2>1, IdleHolds DEF Steady
<1>3. CASE \E v \in Joiners : Join(v)
  <2>1. Steady' = Steady /\ UNCHANGED <<groups, group_of, view, pool>>
    BY <1>3 DEF Join, chainVars, Steady
  <2> QED BY <2>1, IdleHolds
<1>4. CASE effects = {} /\ ChainActs
  <2>1. CASE CallKeyGen
    BY <1>4, <2>1, KeyGenHolds
  <2>2. CASE Include
    BY <1>4, <2>2, SubmitHolds DEF Include
  <2>3. CASE AnyoneStages
    BY <1>4, <2>3, StageCall, StageHolds DEF AnyoneStages
  <2>4. CASE NextBlock
    BY <1>4, <2>4, BlockCall, BlockHolds
  <2> QED BY <1>4, <2>1, <2>2, <2>3, <2>4 DEF ChainActs
<1>5. CASE effects = {} /\ FaultyActs
  BY <1>5, FaultyHolds
<1>6. CASE UNCHANGED vars
  <2>1. UNCHANGED <<groups, group_of, view, pool, asleep, joined>>
    BY <1>6 DEF vars, chainVars
  <2> QED BY <2>1, IdleHolds DEF Steady
<1> QED BY <1>1, <1>2, <1>3, <1>4, <1>5, <1>6 DEF Next

\* The second layer holds in every state: the validators count the coordinator's complaints
\* and are never ahead of it.
THEOREM Inv2Always == Spec => []Inv2
<1>1. Init => Inv2
  BY InitialHolds
<1>2. Inv1 /\ Inv2 /\ [Next]_vars => Inv2'
  BY Inv2Step
<1> QED BY <1>1, <1>2, Inv1Always, PTL DEF Spec

\* handle_epoch_staged: every member of a staged group that was there from the start has
\* confirmed the group, so it holds its key share.
THEOREM StagedKeysHeld == Spec => []StagedKeyHeld
<1>1. Inv2 => StagedKeyHeld
  BY DEF Inv2
<1> QED BY <1>1, Inv2Always, PTL

\* While the validators collect commitments, nobody honest complains of the group.
LEMMA HonestSilent ==
    ASSUME Inv1, Inv2, NEW u \in Steady, NEW g \in Group, Roll(u).group = g,
           Roll(u).stage = "CollectingCommitments", NEW v \in Honest, NEW a \in Participants
    PROVE  ~ Complained(v, g, a)
<1>0. g # NoGroup
  BY NoGroupAssumption DEF Group
<1>1. ~ MayComplain(Roll(v), g)
  <2>1. ASSUME Roll(v).stage = "WaitingForGenesis" PROVE ~ MayComplain(Roll(v), g)
    <3>1. Roll(v).group = NoGroup
      BY <2>1 DEF Inv1, ViewsOK, Shape, Busy
    <3> QED BY <1>0, <2>1, <3>1 DEF MayComplain, Past
  <2>2. CASE v \in asleep
    <3>1. Roll(v).stage = "WaitingForGenesis"
      BY <2>2 DEF Inv1, ViewsOK, InitialState, Idle, Rollover, Roll
    <3> QED BY <2>1, <3>1
  <2>3. CASE v \notin asleep
    <3>1. Common(Roll(u)) = Common(Roll(v)) \/ Roll(v).stage = "WaitingForGenesis"
      BY <2>3 DEF Inv1, AgreeOK
    <3>2. ASSUME Common(Roll(u)) = Common(Roll(v)) PROVE ~ MayComplain(Roll(v), g)
      <4>1. Roll(v).group = g /\ Roll(v).stage = "CollectingCommitments"
        BY <3>2, CommonAlike DEF Alike
      <4>2. ~ Past(Roll(v), g)
        BY <4>1, NotBoth DEF Inv1, ViewsOK
      <4> QED BY <4>1, <4>2 DEF MayComplain
    <3> QED BY <2>1, <3>1, <3>2
  <2> QED BY <2>2, <2>3
<1> QED BY <1>1 DEF Inv2, HistoryOK

\* handle_key_gen_complained: a validator leaves a group with the complaint that makes it
\* compromised, however late, since it has counted the others.
LEMMA Abandoned ==
    ASSUME Inv1, Inv2
    PROVE  CompromisedAbandoned
<1> SUFFICES ASSUME NEW g \in DOMAIN groups, groups[g].status = "COMPROMISED",
                    NEW u \in Steady, Roll(u).group = g
             PROVE  FALSE
  BY DEF CompromisedAbandoned, Roll
<1> DEFINE G == Entry(g)
<1>1. g \in Group /\ g # NoGroup /\ G.status = "COMPROMISED"
  BY NoGroupAssumption DEF Inv1, TypesOK, Group, Entry
<1> HIDE DEF G
<1>2. Following(u, Roll(u), g, G)
  BY <1>1, IsFollowing DEF G
<1>3. PICK a \in Participants : Accusations(G, a) >= GroupThreshold(g.members)
  BY <1>1, <1>2 DEF Following, GroupOK
<1>4. Formed(g) /\ Roll(u).stage \in Busy /\ G \in ContractGroup
  BY <1>2 DEF Following, GroupOK
<1>5. GroupThreshold(g.members) \in Nat /\ Accusations(G, a) \in Nat
  BY <1>4, FaultyMinority, Accusers DEF ContractGroup
<1>6. CASE Roll(u).stage = "CollectingCommitments"
  <2>1. ASSUME NEW c \in G.complaints, c.accused = a PROVE c.plaintiff \in Faulty \cap g.members
    <3>1. c = Complaint(c.plaintiff, a) /\ c.plaintiff \in G.registered
      BY <1>2, <2>1 DEF Following, GroupOK, Complaint
    <3>2. c.plaintiff \in g.members /\ g.members \subseteq Participants
      BY <1>1, <1>2, <3>1 DEF Following, GroupOK, Group
    <3>3. c.plaintiff \notin Honest
      <4>1. ASSUME c.plaintiff \in Honest PROVE FALSE
        <5>1. Complained(c.plaintiff, g, a)
          BY <2>1, <3>1 DEF Complained, G
        <5> QED BY <1>1, <1>6, <4>1, <5>1, HonestSilent
      <4> QED BY <4>1
    <3> QED BY <3>2, <3>3 DEF Faulty
  <2>2. Faulty \cap g.members \in SUBSET Participants /\ Faulty \cap g.members \in SUBSET (Faulty \cap g.members)
    BY DEF Faulty
  <2>3. Accusations(G, a) <= Cardinality(Faulty \cap g.members)
    BY <1>4, <2>1, <2>2, Accusers DEF ContractGroup
  <2>4. Cardinality(Faulty \cap g.members) < GroupThreshold(g.members)
    BY <1>4, <2>2, FaultyMinority
  <2>5. Cardinality(Faulty \cap g.members) \in Nat
    BY <1>4, FaultyMinority, FS_Subset, FS_CardinalityType
  <2> QED BY <1>3, <1>5, <2>3, <2>4, <2>5
<1>7. CASE Roll(u).stage \in {"CollectingShares", "CollectingConfirmations"}
  <2>1. Accusations(G, a) < GroupThreshold(g.members)
    BY <1>2, <1>7 DEF Following, Follow, Counted
  <2> QED BY <1>3, <1>5, <2>1
<1>8. CASE Roll(u).stage = "SigningRollover"
  BY <1>1, <1>2, <1>8 DEF Following, Follow
<1> QED BY <1>4, <1>6, <1>7, <1>8 DEF Busy

\* No validator that was there from the start goes on with a group that the coordinator
\* holds compromised.
THEOREM CompromisedIsAbandoned == Spec => []CompromisedAbandoned
<1>1. Inv1 /\ Inv2 => CompromisedAbandoned
  BY Abandoned
<1> QED BY <1>1, Inv1Always, Inv2Always, PTL

-----------------------------------------------------------------------------
(* The third layer: what a validator that is never slow does in time         *)

\* The transactions of a validator that are not included yet.
Queued(v) == {x.c : x \in {y \in pool : y.from = v}}

\* The members whose shares a validator should have.
Owed(r) == IF r.stage = "CollectingShares" THEN r.shared ELSE r.group.members

\* It is about to complain of p, and in time.
WillComplain(me, r, G, S, b, p) ==
    /\ KeyGenComplain(r.group, p) \in S /\ Complaint(me, p) \notin G.complaints
    /\ r.stage = "CollectingConfirmations" => b < r.deadline

\* A share is there, or has been complained of.
SharesDue(me, r, G, S, b) ==
    \A p \in Owed(r) : \/ p \in r.shares
                       \/ me \in r.complaints[p].unresponded
                       \/ WillComplain(me, r, G, S, b, p)

\* A complaint is of somebody who has sent shares, and of none that is there.
BlamesDue(me, r, G, S) ==
    /\ r.shares \subseteq G.keys
    /\ \A p \in Participants :
          /\ KeyGenComplain(r.group, p) \in S => p \in G.keys \ r.shares /\ Complaint(me, p) \notin G.complaints
          /\ Complaint(me, p) \in G.complaints =>
                p \in G.keys /\ (p \in r.shares => Complaint(me, p) \in G.responded)

\* A complaint without response is one for the coordinator too, and the response is on the way.
ResponsesDue(me, r, G, S) ==
    \A p, a \in Participants :
        p \in r.complaints[a].unresponded =>
            /\ Complaint(p, a) \in G.complaints \ G.responded
            /\ a = me => KeyGenComplaintResponse(r.group, p) \in S

ConfirmationDue(me, r, S, b) ==
    /\ r.confirmed <=> r.shares = r.group.members
    /\ r.confirmed => me \in r.confirmations \/ KeyGenConfirm(r.group) \in S
    /\ Unresponded(r) # {} => b < ResponseDeadline(r)

\* The part of member me in a round; G is the coordinator's entry and S its queue.
Duty(me, r, G, S, b) ==
    /\ r.stage = "CollectingCommitments" =>
          /\ me \in G.registered => me \in r.commitments
          /\ r.participation = "Participating" => me \in r.commitments \/ KeyGenAndCommit(r.group) \in S
          /\ \A p \in Participants : KeyGenComplain(r.group, p) \notin S
    /\ r.stage = "CollectingShares" =>
          /\ me \in G.keys => me \in r.shared
          /\ me \in r.shared \/ KeyGenSecretShare(r.group) \in S
    /\ r.stage \in {"CollectingShares", "CollectingConfirmations"} =>
          SharesDue(me, r, G, S, b) /\ BlamesDue(me, r, G, S) /\ ResponsesDue(me, r, G, S)
    /\ r.stage = "CollectingConfirmations" => ConfirmationDue(me, r, S, b)

\* A key generation with deadlines that validator v is a member of.
Serves(v, r) == r.group # NoGroup /\ Timed(r) /\ v \in r.group.members

\* Whom something hinders at an epoch: the slow ones, and those whose verifying share was
\* cancelled.
Hindered == {h \in Epochs \X Participants : h[2] \in late \/ h[2] \in Robbed(h[1])}

Prompt == {v \in Steady : <<Roll(v).group.epoch, v>> \notin Hindered}

DutiesOK ==
    \A v \in Prompt :
        Serves(v, Roll(v)) => Duty(v, Roll(v), Entry(Roll(v).group), Queued(v), block)

\* Honest validators complain only of faulty members.
BlameOK ==
    \A v \in Honest, g \in Group, a \in Participants : Complained(v, g, a) => a \in Faulty

Inv3 == BlameOK /\ DutiesOK /\ HonestKept

\* The commands differ.
LEMMA Kinds ==
    ASSUME NEW g
    PROVE  /\ KeyGenSetup(g).kind = "KeyGenSetup" /\ KeyGenSetup(g).group = g
           /\ KeyGenAndCommit(g).kind = "KeyGenAndCommit" /\ KeyGenAndCommit(g).group = g
           /\ KeyGenSecretShare(g).kind = "KeyGenSecretShare" /\ KeyGenSecretShare(g).group = g
           /\ KeyGenConfirm(g).kind = "KeyGenConfirm" /\ KeyGenConfirm(g).group = g
           /\ \A p : /\ KeyGenComplain(g, p).kind = "KeyGenComplain" /\ KeyGenComplain(g, p).group = g
                     /\ KeyGenComplain(g, p).accused = p
           /\ \A p : /\ KeyGenComplaintResponse(g, p).kind = "KeyGenComplaintResponse"
                     /\ KeyGenComplaintResponse(g, p).group = g
                     /\ KeyGenComplaintResponse(g, p).plaintiff = p
  BY DEF KeyGenSetup, KeyGenAndCommit, KeyGenSecretShare, KeyGenConfirm, KeyGenComplain, KeyGenComplaintResponse

\* A member that is not slow, at group g whose entry is G, with queue S.
Serving(me, r, g, G, S, b) ==
    /\ Following(me, r, g, G) /\ Serves(me, r) /\ Duty(me, r, G, S, b)
    /\ r.participation # "Setup" /\ b \in Nat

\* The queue becomes T: commands are sent, and transaction c goes if it is the validator's own.
Requeued(S, T, commands, c, own) ==
    /\ commands \subseteq T /\ T \subseteq S \cup commands
    /\ \A d \in S : d \in T \/ (own /\ d = c)
    /\ own /\ c \notin commands => c \notin T

\* A member takes part.
LEMMA ServingMember ==
    ASSUME NEW me, NEW r, NEW g, NEW G, NEW S, NEW b, Serving(me, r, g, G, S, b)
    PROVE  /\ me \in g.members /\ g.members \subseteq Participants /\ r.group = g /\ r \in RolloverState
           /\ r.stage # "SigningRollover" => r.participation = "Participating"
           /\ r.deadline \in Nat /\ b \in Nat /\ Timed(r)
           /\ r.complaints \in [Participants -> [total : Nat, unresponded : SUBSET Participants]]
  BY DEF Serving, Following, Serves, Shape, RolloverState, Busy, Group

\* keyGenAndCommit
LEMMA CommitDuty ==
    ASSUME NEW me, NEW r, NEW g, NEW G, NEW S, NEW b, Serving(me, r, g, G, S, b), NEW p \in g.members,
           G.status = "COMMITTING", NEW q, NEW commands, NEW valid \in BOOLEAN, p = me => valid,
           CommitEffect(r, q, commands, p, valid), NEW T, Requeued(S, T, commands, KeyGenAndCommit(g), p = me)
    PROVE  Duty(me, q, Registering(g, G, p), T, b)
<1> DEFINE H == Registering(g, G, p)
<1>1. G \in ContractGroup /\ GroupOK(g, G) /\ r.group = g
  BY DEF Serving, Following, GroupOK
<1>2. /\ H.registered = G.registered \cup {p} /\ H.complaints = {} /\ H.keys = {}
  BY <1>1 DEF Registering, ContractGroup, GroupOK
<1>3. r.stage = "CollectingCommitments"
  BY DEF Serving, Following, Follow, Busy
<1>4. r.participation = "Participating" /\ me \in g.members /\ g.members \subseteq Participants
  BY <1>3, ServingMember
<1>5. /\ me \in G.registered => me \in r.commitments
      /\ me \in r.commitments \/ KeyGenAndCommit(g) \in S
      /\ \A a \in Participants : KeyGenComplain(g, a) \notin S
  BY <1>1, <1>3, <1>4 DEF Serving, Duty
<1> HIDE DEF H
<1>6. CASE /\ SameRound(r, q) /\ commands = {}
           /\ q.commitments = IF valid THEN r.commitments \cup {p} ELSE r.commitments
  <2>1. me \in q.commitments \/ (p # me /\ q.commitments \subseteq r.commitments \cup {p} /\ r.commitments \subseteq q.commitments)
    BY <1>6
  <2>2. me \in H.registered => me \in q.commitments
    BY <1>2, <1>5, <2>1, <1>6
  <2>3. me \in q.commitments \/ KeyGenAndCommit(g) \in T
    BY <1>5, <1>6, <2>1 DEF Requeued
  <2>4. \A a \in Participants : KeyGenComplain(g, a) \notin T
    BY <1>5, <1>6 DEF Requeued
  <2>5. q.stage = "CollectingCommitments" /\ q.group = g
    BY <1>1, <1>3, <1>6 DEF SameRound
  <2> QED BY <2>2, <2>3, <2>4, <2>5 DEF Duty, H
<1>7. CASE /\ q.stage = "CollectingShares" /\ q.group = r.group /\ q.shared = {} /\ q.shares = {}
           /\ q.complaints = [a \in Participants |-> NoComplaint]
           /\ commands = IF r.participation = "Observing" THEN {} ELSE {KeyGenSecretShare(r.group)}
  <2>1. KeyGenSecretShare(g) \in T
    BY <1>1, <1>4, <1>7 DEF Requeued
  <2>2. SharesDue(me, q, H, T, b)
    BY <1>7 DEF SharesDue, Owed
  <2>3. \A a \in Participants : KeyGenComplain(g, a) \notin T
    <3>1. \A a : KeyGenComplain(g, a) # KeyGenSecretShare(g)
      BY Kinds
    <3> QED BY <1>1, <1>4, <1>5, <1>7, <3>1 DEF Requeued
  <2>4. BlamesDue(me, q, H, T)
    BY <1>1, <1>2, <1>7, <2>3 DEF BlamesDue
  <2>5. ResponsesDue(me, q, H, T)
    BY <1>7 DEF ResponsesDue, NoComplaint
  <2> QED BY <1>1, <1>2, <1>7, <2>1, <2>2, <2>4, <2>5 DEF Duty, H
<1> QED BY <1>3, <1>6, <1>7 DEF CommitEffect

\* keyGenSecretShare
LEMMA ShareDuty ==
    ASSUME NEW me, NEW r, NEW g, NEW G, NEW S, NEW b, Serving(me, r, g, G, S, b), NEW p \in g.members,
           G.status = "SHARING", p \notin G.keys, NEW q, NEW commands, NEW valid \in BOOLEAN, NEW cheated,
           p = me => valid /\ cheated = {},
           ShareEffect(me, r, q, commands, b, p, valid, cheated),
           NEW T, Requeued(S, T, commands, KeyGenSecretShare(g), p = me)
    PROVE  Duty(me, q, Sharing(g, G, p), T, b)
<1> DEFINE H == Sharing(g, G, p)
           shared == IF valid THEN r.shared \cup {p} ELSE r.shared
           complaint == IF valid /\ r.participation = "Participating" /\ me \in cheated
                        THEN {KeyGenComplain(r.group, p)} ELSE {}
<1>1. G \in ContractGroup /\ GroupOK(g, G) /\ r.group = g
  BY DEF Serving, Following, GroupOK
<1>2. /\ H.keys = G.keys \cup {p} /\ H.complaints = G.complaints /\ H.responded = G.responded
      /\ H.registered = G.registered
  BY <1>1 DEF Sharing, ContractGroup
<1> HIDE DEF H
<1>0. /\ me \in g.members /\ g.members \subseteq Participants /\ b \in Nat /\ Timed(r)
  BY ServingMember
<1>3. CASE r.stage = "CollectingCommitments"
  <2>1. q = r /\ commands = {}
    BY <1>3 DEF ShareEffect, Unmoved
  <2>2. \A c : c # KeyGenSecretShare(g) => (c \in S <=> c \in T)
    BY <2>1 DEF Requeued
  <2>3. /\ KeyGenAndCommit(g) # KeyGenSecretShare(g)
        /\ \A a : KeyGenComplain(g, a) # KeyGenSecretShare(g)
    BY Kinds
  <2> QED BY <1>1, <1>2, <1>3, <2>1, <2>2, <2>3 DEF Serving, Duty, H
<1>4. CASE r.stage = "CollectingConfirmations"
  <2>1. G.status # "SHARING"
    BY <1>4 DEF Serving, Following, Follow
  <2> QED BY <2>1
<1>5. CASE r.stage = "SigningRollover"
  <2>1. G.status = "FINALIZED"
    BY <1>5 DEF Serving, Following, Follow
  <2> QED BY <2>1
<1>6. CASE r.stage = "CollectingShares"
  <2>1. r.participation = "Participating"
    BY <1>6, ServingMember
  <2>2. /\ me \in G.keys => me \in r.shared
        /\ me \in r.shared \/ KeyGenSecretShare(g) \in S
        /\ SharesDue(me, r, G, S, b) /\ BlamesDue(me, r, G, S) /\ ResponsesDue(me, r, G, S)
    BY <1>1, <1>6 DEF Serving, Duty
  <2>3. /\ q.group = g /\ q.next_epoch = r.next_epoch /\ q.participation = "Participating"
        /\ q.complaints = r.complaints
        /\ q.shares = IF valid /\ me \notin cheated THEN r.shares \cup {p} ELSE r.shares
        /\ \/ SameRound(r, q) /\ q.shared = shared /\ q.confirmed = r.confirmed /\ commands = complaint
           \/ /\ q.stage = "CollectingConfirmations" /\ shared = g.members
              /\ q.confirmations = {} /\ q.deadline = After(r, b)
              /\ q.confirmed = (r.participation = "Participating" /\ q.shares = g.members)
              /\ commands = (IF q.confirmed THEN {KeyGenConfirm(g)} ELSE {}) \cup complaint
    BY <1>1, <1>6, <2>1 DEF ShareEffect, OwnShares
  <2>4. complaint = IF valid /\ me \in cheated THEN {KeyGenComplain(g, p)} ELSE {}
    BY <1>1, <2>1
  <2>5. complaint \subseteq commands /\ commands \subseteq complaint \cup {KeyGenConfirm(g)}
    BY <2>3
  <2>6. shared = IF valid THEN r.shared \cup {p} ELSE r.shared
    OBVIOUS
  <2> HIDE DEF complaint, shared
  <2>7. \A a : KeyGenComplain(g, a) \in T <=> KeyGenComplain(g, a) \in S \/ (a = p /\ valid /\ me \in cheated)
    <3>1. \A a : KeyGenComplain(g, a) # KeyGenConfirm(g) /\ KeyGenComplain(g, a) # KeyGenSecretShare(g)
      BY Kinds
    <3>2. \A a : KeyGenComplain(g, a) = KeyGenComplain(g, p) => a = p
      BY Kinds
    <3>3. ASSUME NEW a, KeyGenComplain(g, a) \in T
          PROVE  KeyGenComplain(g, a) \in S \/ (a = p /\ valid /\ me \in cheated)
      BY <2>4, <2>5, <3>1, <3>2, <3>3 DEF Requeued
    <3>4. ASSUME NEW a, KeyGenComplain(g, a) \in S PROVE KeyGenComplain(g, a) \in T
      BY <3>1, <3>4 DEF Requeued
    <3>5. ASSUME valid, me \in cheated PROVE KeyGenComplain(g, p) \in T
      BY <2>4, <2>5, <3>5 DEF Requeued
    <3> QED BY <3>3, <3>4, <3>5
  <2>8. p \in Participants /\ KeyGenComplain(g, p) \notin S /\ Complaint(me, p) \notin G.complaints /\ p \notin r.shares
    BY <1>0, <1>1, <2>2 DEF BlamesDue
  <2>9. BlamesDue(me, q, H, T)
    <3>1. q.shares \subseteq H.keys
      BY <1>2, <2>2, <2>3 DEF BlamesDue
    <3> SUFFICES ASSUME NEW a \in Participants
                 PROVE  /\ KeyGenComplain(g, a) \in T => a \in H.keys \ q.shares /\ Complaint(me, a) \notin H.complaints
                        /\ Complaint(me, a) \in H.complaints =>
                              a \in H.keys /\ (a \in q.shares => Complaint(me, a) \in H.responded)
      BY <2>3, <3>1 DEF BlamesDue
    <3>2. CASE a = p
      BY <1>2, <2>3, <2>7, <2>8, <3>2
    <3>3. CASE a # p
      <4>1. /\ KeyGenComplain(g, a) \in S => a \in G.keys \ r.shares /\ Complaint(me, a) \notin G.complaints
            /\ Complaint(me, a) \in G.complaints =>
                              a \in G.keys /\ (a \in r.shares => Complaint(me, a) \in G.responded)
        BY <1>1, <2>2 DEF BlamesDue
      <4>2. a \in q.shares <=> a \in r.shares
        BY <2>3, <3>3
      <4> QED BY <1>2, <2>7, <3>3, <4>1, <4>2
    <3> QED BY <3>2, <3>3
  <2>10. ResponsesDue(me, q, H, T)
    <3>1. \A a : KeyGenComplaintResponse(g, a) # KeyGenSecretShare(g)
      BY Kinds
    <3>2. \A a : KeyGenComplaintResponse(g, a) \in S => KeyGenComplaintResponse(g, a) \in T
      BY <3>1 DEF Requeued
    <3> QED BY <1>1, <1>2, <2>2, <2>3, <3>2 DEF ResponsesDue
  <2>11. q.stage = "CollectingConfirmations" => b < q.deadline
    <3>1. After(r, b) = b + KeyGenTimeout /\ b < b + KeyGenTimeout
      BY <1>0, KeyGenTimeoutAssumption DEF After
    <3> QED BY <1>6, <2>3, <3>1 DEF SameRound
  <2>12. Owed(q) \subseteq shared
    BY <1>6, <2>3 DEF Owed, SameRound
  <2>13. SharesDue(me, q, H, T, b)
    <3> SUFFICES ASSUME NEW a \in shared
                 PROVE  a \in q.shares \/ me \in q.complaints[a].unresponded \/ WillComplain(me, q, H, T, b, a)
      BY <2>12 DEF SharesDue
    <3>1. CASE a = p /\ valid
      <4>1. CASE me \notin cheated
        BY <2>3, <3>1, <4>1
      <4>2. CASE me \in cheated
        BY <1>2, <2>3, <2>7, <2>8, <2>11, <3>1, <4>2 DEF WillComplain
      <4> QED BY <4>1, <4>2
    <3>2. CASE a \in r.shared
      <4>1. a \in r.shares \/ me \in r.complaints[a].unresponded \/ WillComplain(me, r, G, S, b, a)
        BY <1>6, <2>2, <3>2 DEF SharesDue, Owed
      <4>2. ASSUME WillComplain(me, r, G, S, b, a) PROVE WillComplain(me, q, H, T, b, a)
        BY <1>1, <1>2, <2>3, <2>7, <2>11, <4>2 DEF WillComplain
      <4> QED BY <2>3, <4>1, <4>2
    <3> QED BY <2>6, <3>1, <3>2
  <2>14. CASE SameRound(r, q) /\ q.shared = shared
    <3>1. q.stage = "CollectingShares"
      BY <1>6, <2>14 DEF SameRound
    <3>2. me \in H.keys => me \in q.shared
      BY <1>2, <2>2, <2>6, <2>14
    <3>3. me \in q.shared \/ KeyGenSecretShare(g) \in T
      BY <2>2, <2>6, <2>14 DEF Requeued
    <3> QED BY <2>3, <2>9, <2>10, <2>13, <3>1, <3>2, <3>3 DEF Duty, H
  <2>15. CASE /\ q.stage = "CollectingConfirmations"
              /\ q.confirmed = (r.participation = "Participating" /\ q.shares = g.members)
              /\ commands = (IF q.confirmed THEN {KeyGenConfirm(g)} ELSE {}) \cup complaint
    <3>1. q.confirmed <=> q.shares = q.group.members
      BY <2>1, <2>3, <2>15
    <3>2. q.confirmed => KeyGenConfirm(g) \in T
      BY <2>15 DEF Requeued
    <3>3. b < ResponseDeadline(q)
      <4>1. q.deadline = b + KeyGenTimeout
        BY <1>0, <1>6, <2>3, <2>15 DEF After, SameRound
      <4> QED BY <1>0, <4>1, KeyGenTimeoutAssumption DEF ResponseDeadline
    <3>4. ConfirmationDue(me, q, T, b)
      BY <2>3, <3>1, <3>2, <3>3 DEF ConfirmationDue
    <3> QED BY <2>9, <2>10, <2>13, <2>15, <3>4 DEF Duty, H
  <2> QED BY <2>3, <2>14, <2>15
<1> QED BY <1>3, <1>4, <1>5, <1>6 DEF Serving, Following, Busy

\* Only the transactions for the group matter.
LEMMA SameDuty ==
    ASSUME NEW me, NEW r, NEW G, NEW S, NEW b, Duty(me, r, G, S, b),
           NEW T, \A c : c.group = r.group => (c \in S <=> c \in T)
    PROVE  Duty(me, r, G, T, b)
<1> DEFINE g == r.group
<1>1. /\ KeyGenAndCommit(g) \in S <=> KeyGenAndCommit(g) \in T
      /\ KeyGenSecretShare(g) \in S <=> KeyGenSecretShare(g) \in T
      /\ KeyGenConfirm(g) \in S <=> KeyGenConfirm(g) \in T
  BY Kinds
<1>2. \A p : KeyGenComplain(g, p) \in S <=> KeyGenComplain(g, p) \in T
  BY Kinds
<1>3. \A p : KeyGenComplaintResponse(g, p) \in S <=> KeyGenComplaintResponse(g, p) \in T
  BY Kinds
<1>4. SharesDue(me, r, G, S, b) => SharesDue(me, r, G, T, b)
  BY <1>2 DEF SharesDue, WillComplain
<1>5. BlamesDue(me, r, G, S) => BlamesDue(me, r, G, T)
  BY <1>2 DEF BlamesDue
<1>6. ResponsesDue(me, r, G, S) => ResponsesDue(me, r, G, T)
  BY <1>3 DEF ResponsesDue
<1>7. ConfirmationDue(me, r, S, b) => ConfirmationDue(me, r, T, b)
  BY <1>1 DEF ConfirmationDue
<1> QED BY <1>1, <1>2, <1>4, <1>5, <1>6, <1>7 DEF Duty

\* keyGenConfirm
LEMMA ConfirmDuty ==
    ASSUME NEW me, NEW r, NEW g, NEW G, NEW S, NEW b, Serving(me, r, g, G, S, b), NEW p \in g.members,
           G.status = "CONFIRMING", NEW q, NEW commands, ConfirmEffect(r, q, commands, p), q.group = g,
           NEW T, Requeued(S, T, commands, KeyGenConfirm(g), p = me)
    PROVE  Duty(me, q, Confirming(g, G, p), T, b)
<1> DEFINE H == Confirming(g, G, p)
<1>1. G \in ContractGroup /\ r.group = g /\ Duty(me, r, G, S, b)
  BY DEF Serving, Following, GroupOK
<1>2. /\ H.keys = G.keys /\ H.complaints = G.complaints /\ H.responded = G.responded
      /\ H.registered = G.registered
  BY <1>1 DEF Confirming, ContractGroup
<1>0. \A c : c # KeyGenConfirm(g) => (c \in S /\ commands = {} => c \in T)
  BY DEF Requeued
<1> HIDE DEF H
<1>3. CASE r.stage # "CollectingConfirmations"
  <2>1. q = r /\ commands = {}
    BY <1>3 DEF ConfirmEffect, Unmoved
  <2>2. /\ KeyGenAndCommit(g) # KeyGenConfirm(g) /\ KeyGenSecretShare(g) # KeyGenConfirm(g)
        /\ \A a : KeyGenComplain(g, a) # KeyGenConfirm(g) /\ KeyGenComplaintResponse(g, a) # KeyGenConfirm(g)
    BY Kinds
  <2>3. T \subseteq S
    BY <2>1 DEF Requeued
  <2>4. SharesDue(me, r, G, S, b) => SharesDue(me, r, H, T, b)
    BY <1>0, <1>1, <1>2, <2>1, <2>2 DEF SharesDue, WillComplain
  <2>5. BlamesDue(me, r, G, S) => BlamesDue(me, r, H, T)
    BY <1>1, <1>2, <2>3 DEF BlamesDue
  <2>6. ResponsesDue(me, r, G, S) => ResponsesDue(me, r, H, T)
    BY <1>0, <1>1, <1>2, <2>1, <2>2 DEF ResponsesDue
  <2> QED BY <1>0, <1>1, <1>2, <1>3, <2>1, <2>2, <2>3, <2>4, <2>5, <2>6 DEF Duty, H
<1>4. CASE /\ SameRound(r, q) /\ q.confirmations = r.confirmations \cup {p} /\ r.stage = "CollectingConfirmations"
           /\ q.complaints = r.complaints /\ q.shares = r.shares /\ q.confirmed = r.confirmed
           /\ commands = {}
  <2>1. /\ SharesDue(me, r, G, S, b) /\ BlamesDue(me, r, G, S) /\ ResponsesDue(me, r, G, S)
        /\ ConfirmationDue(me, r, S, b)
    BY <1>1, <1>4 DEF Duty
  <2>2. q.stage = "CollectingConfirmations" /\ q.deadline = r.deadline
    BY <1>4 DEF SameRound
  <2>3. T \subseteq S
    BY <1>4 DEF Requeued
  <2>4. \A a : KeyGenComplain(g, a) # KeyGenConfirm(g) /\ KeyGenComplaintResponse(g, a) # KeyGenConfirm(g)
    BY Kinds
  <2>5. SharesDue(me, q, H, T, b)
    BY <1>0, <1>1, <1>2, <1>4, <2>1, <2>2, <2>4 DEF SharesDue, WillComplain, Owed
  <2>6. BlamesDue(me, q, H, T)
    BY <1>1, <1>2, <1>4, <2>1, <2>3 DEF BlamesDue
  <2>7. ResponsesDue(me, q, H, T)
    BY <1>0, <1>1, <1>2, <1>4, <2>1, <2>4 DEF ResponsesDue
  <2>8. ConfirmationDue(me, q, T, b)
    <3>1. me \in r.confirmations \/ KeyGenConfirm(g) \in S => me \in q.confirmations \/ KeyGenConfirm(g) \in T
      BY <1>4 DEF Requeued
    <3>2. Unresponded(q) = Unresponded(r) /\ ResponseDeadline(q) = ResponseDeadline(r)
      BY <1>4, <2>2 DEF Unresponded, ResponseDeadline
    <3> QED BY <1>1, <1>4, <2>1, <3>1, <3>2 DEF ConfirmationDue
  <2> QED BY <2>2, <2>5, <2>6, <2>7, <2>8 DEF Duty, H
<1>5. CASE q.stage = "SigningRollover"
  BY <1>5 DEF Duty
<1> QED BY <1>1, <1>3, <1>4, <1>5 DEF ConfirmEffect, LeavesGenesis

\* keyGenComplain
LEMMA ComplainDuty ==
    ASSUME NEW me, NEW r, NEW g, NEW G, NEW S, NEW b, Serving(me, r, g, G, S, b), NEW plaintiff \in Participants,
           NEW accused \in g.members, G.status \in {"SHARING", "CONFIRMING"},
           Complaint(plaintiff, accused) \notin G.complaints,
           plaintiff = me => KeyGenComplain(g, accused) \in S,
           NEW q, NEW commands, ComplainEffect(me, r, q, commands, b, plaintiff, accused), q.group = g,
           NEW T, Requeued(S, T, commands, KeyGenComplain(g, accused), plaintiff = me)
    PROVE  Duty(me, q, Complaining(g, G, plaintiff, accused), T, b)
<1> DEFINE H == Complaining(g, G, plaintiff, accused)
<1>1. /\ G \in ContractGroup /\ r.group = g /\ r \in RolloverState /\ GroupOK(g, G)
      /\ me \in g.members /\ g.members \subseteq Participants /\ b \in Nat /\ Timed(r) /\ r.deadline \in Nat
      /\ r.complaints \in [Participants -> [total : Nat, unresponded : SUBSET Participants]]
  BY ServingMember DEF Serving, Following, GroupOK
<1>2. /\ H.keys = G.keys /\ H.responded = G.responded /\ H.registered = G.registered
      /\ H.complaints = G.complaints \cup {Complaint(plaintiff, accused)}
  <2> DEFINE I == [G EXCEPT !.complaints = @ \cup {Complaint(plaintiff, accused)}]
             J == [I EXCEPT !.status = "COMPROMISED"]
  <2>1. /\ I.keys = G.keys /\ I.responded = G.responded /\ I.registered = G.registered
        /\ I.complaints = G.complaints \cup {Complaint(plaintiff, accused)}
        /\ J.keys = I.keys /\ J.responded = I.responded /\ J.registered = I.registered
        /\ J.complaints = I.complaints
    BY <1>1 DEF ContractGroup
  <2>2. H \in {I, J}
    BY DEF Complaining, Complaint
  <2> HIDE DEF I, J, H
  <2> QED BY <2>1, <2>2
<1> HIDE DEF H
<1>3. CASE r.stage = "CollectingCommitments"
  <2>1. q = r /\ commands = {}
    BY <1>3 DEF ComplainEffect, Unmoved
  <2>2. /\ KeyGenAndCommit(g) # KeyGenComplain(g, accused)
    BY Kinds
  <2> QED BY <1>1, <1>2, <1>3, <2>1, <2>2 DEF Serving, Duty, Requeued, H
<1>4. CASE r.stage = "SigningRollover"
  <2>1. q = r
    BY <1>4 DEF ComplainEffect, Unmoved
  <2> QED BY <1>4, <2>1 DEF Duty
<1>5. CASE r.stage \in {"CollectingShares", "CollectingConfirmations"}
  <2> DEFINE required == RequiresResponse(r, b)
             new == CountComplaint(r.complaints[accused], plaintiff, required)
  <2>1. r.participation = "Participating"
    BY <1>5, ServingMember
  <2>2. /\ SameRound(r, q) /\ q.complaints = [r.complaints EXCEPT ![accused] = new]
        /\ q.shared = r.shared /\ q.shares = r.shares
        /\ q.confirmations = r.confirmations /\ q.confirmed = r.confirmed
        /\ commands = IF accused = me /\ required THEN {KeyGenComplaintResponse(g, plaintiff)} ELSE {}
    BY <1>1, <1>5, <2>1 DEF ComplainEffect, Leaves
  <2>3. /\ SharesDue(me, r, G, S, b) /\ BlamesDue(me, r, G, S) /\ ResponsesDue(me, r, G, S)
        /\ r.stage = "CollectingShares" =>
              (me \in G.keys => me \in r.shared) /\ (me \in r.shared \/ KeyGenSecretShare(g) \in S)
        /\ r.stage = "CollectingConfirmations" => ConfirmationDue(me, r, S, b)
    BY <1>1, <1>5 DEF Serving, Duty
  <2>4. new.unresponded = IF required THEN r.complaints[accused].unresponded \cup {plaintiff}
                          ELSE r.complaints[accused].unresponded
    BY DEF CountComplaint
  <2>5. required <=> (r.stage = "CollectingConfirmations" => b <= r.deadline)
    BY <1>1 DEF RequiresResponse, ComplainDeadline
  <2> HIDE DEF required, new
  <2>6. /\ accused \in Participants /\ q.complaints[accused].unresponded = new.unresponded
        /\ \A a \in Participants : a # accused => q.complaints[a].unresponded = r.complaints[a].unresponded
    BY <1>1, <2>2
  <2>7. /\ \A a \in Participants : r.complaints[a].unresponded \subseteq q.complaints[a].unresponded
        /\ \A a, p \in Participants : p \in q.complaints[a].unresponded =>
              p \in r.complaints[a].unresponded \/ (a = accused /\ p = plaintiff /\ required)
    BY <2>4, <2>6
  <2>8. /\ q.stage = r.stage /\ q.group = g /\ q.deadline = r.deadline
    BY <1>1, <2>2 DEF SameRound
  <2>9. /\ \A a : KeyGenComplain(g, a) \in T => KeyGenComplain(g, a) \in S
        /\ \A a : KeyGenComplain(g, a) \in S /\ ~ (a = accused /\ plaintiff = me) => KeyGenComplain(g, a) \in T
        /\ plaintiff = me => KeyGenComplain(g, accused) \notin T
        /\ \A a : KeyGenComplaintResponse(g, a) \in S => KeyGenComplaintResponse(g, a) \in T
        /\ KeyGenConfirm(g) \in S => KeyGenConfirm(g) \in T
        /\ KeyGenSecretShare(g) \in S => KeyGenSecretShare(g) \in T
    <3>1. ASSUME NEW a, NEW p PROVE KeyGenComplain(g, a) # KeyGenComplaintResponse(g, p)
      BY Kinds
    <3>2. ASSUME NEW a PROVE KeyGenComplain(g, a) # KeyGenConfirm(g) /\ KeyGenComplain(g, a) # KeyGenSecretShare(g)
      BY Kinds
    <3>3. ASSUME NEW a, KeyGenComplain(g, a) = KeyGenComplain(g, accused) PROVE a = accused
      BY <3>3 DEF KeyGenComplain
    <3> QED BY <2>2, <3>1, <3>2, <3>3 DEF Requeued
  <2>10. ASSUME NEW a, Complaint(me, a) = Complaint(plaintiff, accused) PROVE me = plaintiff /\ a = accused
    BY <2>10 DEF Complaint
  <2>11. BlamesDue(me, q, H, T)
    <3> SUFFICES ASSUME NEW a \in Participants
                 PROVE  /\ KeyGenComplain(g, a) \in T => a \in G.keys \ r.shares /\ Complaint(me, a) \notin H.complaints
                        /\ Complaint(me, a) \in H.complaints =>
                              a \in G.keys /\ (a \in r.shares => Complaint(me, a) \in G.responded)
      BY <1>1, <1>2, <2>2, <2>3, <2>8 DEF BlamesDue
    <3>1. /\ KeyGenComplain(g, a) \in S => a \in G.keys \ r.shares /\ Complaint(me, a) \notin G.complaints
          /\ Complaint(me, a) \in G.complaints =>
                              a \in G.keys /\ (a \in r.shares => Complaint(me, a) \in G.responded)
      BY <1>1, <2>3 DEF BlamesDue
    <3>2. a = accused /\ plaintiff = me => KeyGenComplain(g, a) \in S /\ KeyGenComplain(g, a) \notin T
      BY <2>9
    <3> QED BY <1>2, <2>9, <2>10, <3>1, <3>2
  <2>12. ResponsesDue(me, q, H, T)
    <3> SUFFICES ASSUME NEW p \in Participants, NEW a \in Participants, p \in q.complaints[a].unresponded
                 PROVE  /\ Complaint(p, a) \in H.complaints \ H.responded
                        /\ a = me => KeyGenComplaintResponse(g, p) \in T
      BY <2>8 DEF ResponsesDue
    <3>1. CASE p \in r.complaints[a].unresponded
      BY <1>1, <1>2, <2>3, <2>9, <3>1 DEF ResponsesDue
    <3>2. CASE a = accused /\ p = plaintiff /\ required
      <4>1. Complaint(p, a) \in H.complaints
        BY <1>2, <3>2
      <4>2. Complaint(p, a) \notin H.responded
        BY <1>1, <1>2, <3>2 DEF GroupOK
      <4>3. a = me => KeyGenComplaintResponse(g, p) \in T
        BY <2>2, <3>2 DEF Requeued
      <4> QED BY <4>1, <4>2, <4>3
    <3> QED BY <2>7, <3>1, <3>2
  <2>13. SharesDue(me, q, H, T, b)
    <3> SUFFICES ASSUME NEW a \in Owed(r)
                 PROVE  a \in r.shares \/ me \in q.complaints[a].unresponded \/ WillComplain(me, q, H, T, b, a)
      BY <1>1, <2>2, <2>8 DEF SharesDue, Owed
    <3>0. a \in Participants
      BY <1>1 DEF Owed, RolloverState
    <3>1. CASE a \in r.shares \/ me \in r.complaints[a].unresponded
      BY <2>7, <3>0, <3>1
    <3>2. CASE WillComplain(me, r, G, S, b, a)
      <4>1. CASE a = accused /\ plaintiff = me
        <5>1. required
          BY <1>1, <2>5, <3>2 DEF WillComplain
        <5> QED BY <2>4, <2>6, <4>1, <5>1
      <4>2. CASE ~ (a = accused /\ plaintiff = me)
        <5>1. Complaint(me, a) \notin H.complaints
          BY <1>2, <2>10, <3>2, <4>2 DEF WillComplain
        <5> QED BY <1>1, <2>8, <2>9, <3>2, <4>2, <5>1 DEF WillComplain
      <4> QED BY <4>1, <4>2
    <3> QED BY <2>3, <3>1, <3>2 DEF SharesDue
  <2>14. ASSUME r.stage = "CollectingConfirmations" PROVE ConfirmationDue(me, q, T, b)
    <3>1. ConfirmationDue(me, r, S, b)
      BY <2>3, <2>14
    <3>2. ASSUME Unresponded(q) # {} PROVE b < ResponseDeadline(q)
      <4>1. PICK a \in Participants : q.complaints[a].unresponded # {}
        BY <3>2 DEF Unresponded
      <4>2. CASE Unresponded(r) # {}
        BY <2>8, <3>1, <4>2 DEF ConfirmationDue, ResponseDeadline
      <4>3. CASE Unresponded(r) = {}
        <5>1. r.complaints[a].unresponded = {}
          BY <4>3 DEF Unresponded
        <5>2. required
          BY <2>4, <2>6, <4>1, <5>1
        <5>3. b <= r.deadline
          BY <2>5, <2>14, <5>2
        <5> QED BY <1>1, <2>8, <5>3, KeyGenTimeoutAssumption DEF ResponseDeadline
      <4> QED BY <4>2, <4>3
    <3> QED BY <1>1, <2>2, <2>8, <2>9, <3>1, <3>2 DEF ConfirmationDue
  <2>15. q.stage = "CollectingShares" =>
            (me \in H.keys => me \in q.shared) /\ (me \in q.shared \/ KeyGenSecretShare(g) \in T)
    BY <1>2, <2>2, <2>3, <2>8, <2>9
  <2> QED BY <1>5, <2>8, <2>11, <2>12, <2>13, <2>14, <2>15 DEF Duty, H
<1> QED BY <1>3, <1>4, <1>5 DEF Serving, Following, Busy

\* keyGenComplaintResponse
LEMMA RespondDuty ==
    ASSUME NEW me, NEW r, NEW g, NEW G, NEW S, NEW b, Serving(me, r, g, G, S, b), NEW plaintiff \in Participants,
           NEW accused \in g.members, NEW q, NEW commands, NEW valid \in BOOLEAN,
           Complaint(plaintiff, accused) \in G.complaints,
           RespondEffect(me, r, q, commands, b, plaintiff, accused, valid), q.group = g,
           NEW T, Requeued(S, T, commands, KeyGenComplaintResponse(g, plaintiff), accused = me)
    PROVE  Duty(me, q, Responding(G, plaintiff, accused), T, b)
<1> DEFINE H == Responding(G, plaintiff, accused)
<1>1. /\ G \in ContractGroup /\ r.group = g /\ r \in RolloverState
      /\ me \in g.members /\ g.members \subseteq Participants /\ b \in Nat /\ Timed(r) /\ r.deadline \in Nat
      /\ r.complaints \in [Participants -> [total : Nat, unresponded : SUBSET Participants]]
      /\ accused \in Participants
  BY ServingMember DEF Serving, Following, GroupOK
<1>2. /\ H.keys = G.keys /\ H.complaints = G.complaints /\ H.registered = G.registered
      /\ H.responded = G.responded \cup {Complaint(plaintiff, accused)}
  BY <1>1 DEF Responding, ContractGroup, Complaint
<1> HIDE DEF H
<1>3. CASE r.stage = "CollectingCommitments"
  <2>1. q = r /\ commands = {}
    BY <1>3 DEF RespondEffect, Unmoved, Awaited
  <2>2. KeyGenAndCommit(g) # KeyGenComplaintResponse(g, plaintiff)
    BY Kinds
  <2> QED BY <1>1, <1>2, <1>3, <2>1, <2>2 DEF Serving, Duty, Requeued, H
<1>4. CASE r.stage = "SigningRollover"
  <2>1. q = r
    BY <1>4 DEF RespondEffect, Unmoved, Awaited
  <2> QED BY <1>4, <2>1 DEF Duty
<1>5. CASE r.stage \in {"CollectingShares", "CollectingConfirmations"}
  <2> DEFINE awaited == Awaited(r, b, plaintiff, accused)
             settles == awaited /\ plaintiff = me /\ ~ r.confirmed
             completes == /\ awaited /\ r.stage = "CollectingConfirmations" /\ ~ r.confirmed
                          /\ q.shares = g.members
  <2>1. r.participation = "Participating"
    BY <1>5, ServingMember
  <2>2. /\ SharesDue(me, r, G, S, b) /\ BlamesDue(me, r, G, S) /\ ResponsesDue(me, r, G, S)
        /\ r.stage = "CollectingShares" =>
              (me \in G.keys => me \in r.shared) /\ (me \in r.shared \/ KeyGenSecretShare(g) \in S)
        /\ r.stage = "CollectingConfirmations" => ConfirmationDue(me, r, S, b)
    BY <1>1, <1>5 DEF Serving, Duty
  <2>3. ASSUME plaintiff \in r.complaints[accused].unresponded PROVE awaited
    <3>1. ASSUME r.stage = "CollectingConfirmations" PROVE b <= ResponseDeadline(r)
      <4>1. Unresponded(r) # {}
        BY <1>1, <2>3 DEF Unresponded
      <4>2. b < ResponseDeadline(r)
        BY <2>2, <3>1, <4>1 DEF ConfirmationDue
      <4>3. ResponseDeadline(r) \in Nat
        BY <1>1, KeyGenTimeoutAssumption DEF ResponseDeadline
      <4> QED BY <1>1, <4>2, <4>3
    <3> QED BY <1>5, <2>3, <3>1 DEF Awaited
  <2>4. /\ q.stage = r.stage /\ q.group = g /\ q.deadline = r.deadline /\ q.shared = r.shared
        /\ q.confirmations = r.confirmations
        /\ q.shares = IF settles THEN r.shares \cup {accused} ELSE r.shares
        /\ q.confirmed <=> (r.confirmed \/ completes)
        /\ commands = IF completes THEN {KeyGenConfirm(g)} ELSE {}
    <3>1. CASE ~ awaited
      <4>1. q = r /\ commands = {}
        BY <3>1 DEF RespondEffect, Unmoved
      <4> QED BY <1>1, <3>1, <4>1
    <3>2. CASE awaited
      <4>1. /\ SameRound(r, q)
            /\ q.shared = r.shared /\ q.confirmations = r.confirmations
            /\ q.shares = IF plaintiff = me /\ ~ r.confirmed THEN r.shares \cup {accused} ELSE r.shares
        BY <1>1, <3>2 DEF RespondEffect, Leaves
      <4>2. /\ q.confirmed = (r.confirmed \/ completes)
            /\ commands = IF completes THEN {KeyGenConfirm(g)} ELSE {}
        BY <1>1, <2>1, <3>2 DEF RespondEffect, Leaves
      <4> QED BY <1>1, <3>2, <4>1, <4>2 DEF SameRound
    <3> QED BY <3>1, <3>2
  <2>5. /\ q.complaints[accused].unresponded = r.complaints[accused].unresponded \ {plaintiff}
        /\ \A a \in Participants : a # accused => q.complaints[a].unresponded = r.complaints[a].unresponded
    <3>1. CASE ~ awaited
      <4>1. q = r
        BY <3>1 DEF RespondEffect, Unmoved
      <4>2. plaintiff \notin r.complaints[accused].unresponded
        BY <2>3, <3>1
      <4> QED BY <4>1, <4>2
    <3>2. CASE awaited
      <4>1. q.complaints = [r.complaints EXCEPT ![accused].unresponded = @ \ {plaintiff}]
        BY <1>1, <3>2 DEF RespondEffect, Leaves
      <4> QED BY <1>1, <4>1
    <3> QED BY <3>1, <3>2
  <2> HIDE DEF awaited, completes, settles
  <2>6. /\ \A a : KeyGenComplain(g, a) \in T <=> KeyGenComplain(g, a) \in S
        /\ \A a : KeyGenComplaintResponse(g, a) \in S /\ ~ (a = plaintiff /\ accused = me) =>
              KeyGenComplaintResponse(g, a) \in T
        /\ KeyGenConfirm(g) \in S \/ completes => KeyGenConfirm(g) \in T
        /\ KeyGenSecretShare(g) \in S => KeyGenSecretShare(g) \in T
    <3>1. ASSUME NEW a PROVE /\ KeyGenComplain(g, a) # KeyGenComplaintResponse(g, plaintiff)
                             /\ KeyGenComplain(g, a) # KeyGenConfirm(g)
      BY Kinds
    <3>2. ASSUME NEW a, KeyGenComplaintResponse(g, a) = KeyGenComplaintResponse(g, plaintiff) PROVE a = plaintiff
      BY <3>2 DEF KeyGenComplaintResponse
    <3>3. /\ KeyGenSecretShare(g) # KeyGenComplaintResponse(g, plaintiff)
          /\ KeyGenConfirm(g) # KeyGenComplaintResponse(g, plaintiff)
      BY Kinds
    <3> QED BY <2>4, <3>1, <3>2, <3>3 DEF Requeued
  <2>7. ASSUME NEW p, NEW a, Complaint(p, a) = Complaint(plaintiff, accused) PROVE p = plaintiff /\ a = accused
    BY <2>7 DEF Complaint
  <2>8. ASSUME settles
        PROVE  /\ plaintiff = me /\ Complaint(me, accused) \in H.responded /\ accused \in G.keys
               /\ KeyGenComplain(g, accused) \notin S
    <3>1. plaintiff = me
      BY <2>8 DEF settles
    <3>2. Complaint(me, accused) \in G.complaints
      BY <3>1
    <3> QED BY <1>1, <1>2, <2>2, <3>1, <3>2 DEF BlamesDue
  <2>9. BlamesDue(me, q, H, T)
    <3>1. q.shares \subseteq H.keys
      BY <1>2, <2>2, <2>4, <2>8 DEF BlamesDue
    <3> SUFFICES ASSUME NEW a \in Participants
                 PROVE  /\ KeyGenComplain(g, a) \in T => a \in H.keys \ q.shares /\ Complaint(me, a) \notin H.complaints
                        /\ Complaint(me, a) \in H.complaints =>
                              a \in H.keys /\ (a \in q.shares => Complaint(me, a) \in H.responded)
      BY <2>4, <3>1 DEF BlamesDue
    <3>2. /\ KeyGenComplain(g, a) \in S => a \in G.keys \ r.shares /\ Complaint(me, a) \notin G.complaints
          /\ Complaint(me, a) \in G.complaints =>
                a \in G.keys /\ (a \in r.shares => Complaint(me, a) \in G.responded)
      BY <1>1, <2>2 DEF BlamesDue
    <3>3. CASE settles /\ a = accused
      BY <1>2, <2>4, <2>6, <2>8, <3>2, <3>3
    <3>4. CASE ~ (settles /\ a = accused)
      <4>1. a \in q.shares <=> a \in r.shares
        BY <2>4, <3>4
      <4> QED BY <1>2, <2>6, <3>2, <4>1
    <3> QED BY <3>3, <3>4
  <2>10. ResponsesDue(me, q, H, T)
    <3> SUFFICES ASSUME NEW p \in Participants, NEW a \in Participants, p \in q.complaints[a].unresponded
                 PROVE  /\ Complaint(p, a) \in H.complaints \ H.responded
                        /\ a = me => KeyGenComplaintResponse(g, p) \in T
      BY <2>4 DEF ResponsesDue
    <3>1. p \in r.complaints[a].unresponded /\ ~ (p = plaintiff /\ a = accused)
      BY <2>5
    <3>2. /\ Complaint(p, a) \in G.complaints \ G.responded
          /\ a = me => KeyGenComplaintResponse(g, p) \in S
      BY <1>1, <2>2, <3>1 DEF ResponsesDue
    <3>3. Complaint(p, a) # Complaint(plaintiff, accused)
      BY <2>7, <3>1
    <3> QED BY <1>2, <2>6, <3>1, <3>2, <3>3
  <2>11. SharesDue(me, q, H, T, b)
    <3> SUFFICES ASSUME NEW a \in Owed(r)
                 PROVE  a \in q.shares \/ me \in q.complaints[a].unresponded \/ WillComplain(me, q, H, T, b, a)
      BY <1>1, <2>4 DEF SharesDue, Owed
    <3>0. a \in Participants
      BY <1>1 DEF Owed, RolloverState
    <3>1. CASE a \in r.shares
      BY <2>4, <3>1
    <3>2. CASE me \in r.complaints[a].unresponded
      <4>1. CASE a = accused /\ plaintiff = me
        <5>1. awaited
          BY <2>3, <3>2, <4>1
        <5>2. CASE r.confirmed
          <6>1. r.stage = "CollectingConfirmations"
            BY <1>5, <5>2 DEF Serving, Following, Shape
          <6>2. r.shares = g.members
            BY <1>1, <2>2, <5>2, <6>1 DEF ConfirmationDue
          <6> QED BY <2>4, <4>1, <6>2
        <5>3. CASE ~ r.confirmed
          BY <2>4, <4>1, <5>1, <5>3 DEF settles
        <5> QED BY <5>2, <5>3
      <4>2. CASE ~ (a = accused /\ plaintiff = me)
        BY <2>5, <3>0, <3>2, <4>2
      <4> QED BY <4>1, <4>2
    <3>3. CASE WillComplain(me, r, G, S, b, a)
      BY <1>1, <1>2, <2>4, <2>6, <3>3 DEF WillComplain
    <3> QED BY <2>2, <3>1, <3>2, <3>3 DEF SharesDue
  <2>12. ASSUME r.stage = "CollectingConfirmations" PROVE ConfirmationDue(me, q, T, b)
    <3>1. ConfirmationDue(me, r, S, b)
      BY <2>2, <2>12
    <3>2. q.confirmed <=> q.shares = g.members
      <4>1. CASE r.confirmed
        BY <1>1, <2>4, <3>1, <4>1 DEF ConfirmationDue, settles
      <4>2. CASE ~ r.confirmed /\ awaited
        BY <2>4, <2>12, <4>2 DEF completes
      <4>3. CASE ~ r.confirmed /\ ~ awaited
        BY <1>1, <2>4, <3>1, <4>3 DEF ConfirmationDue, settles, completes
      <4> QED BY <4>1, <4>2, <4>3
    <3>3. q.confirmed => me \in q.confirmations \/ KeyGenConfirm(g) \in T
      BY <1>1, <2>4, <2>6, <3>1 DEF ConfirmationDue
    <3>4. Unresponded(q) \subseteq Unresponded(r)
      BY <2>5 DEF Unresponded
    <3>5. ResponseDeadline(q) = ResponseDeadline(r)
      BY <2>4 DEF ResponseDeadline
    <3> QED BY <2>4, <3>1, <3>2, <3>3, <3>4, <3>5 DEF ConfirmationDue
  <2>13. q.stage = "CollectingShares" =>
            (me \in H.keys => me \in q.shared) /\ (me \in q.shared \/ KeyGenSecretShare(g) \in T)
    BY <1>2, <2>2, <2>4, <2>6
  <2> QED BY <1>5, <2>4, <2>9, <2>10, <2>11, <2>12, <2>13 DEF Duty, H
<1> QED BY <1>3, <1>4, <1>5 DEF Serving, Following, Busy

-----------------------------------------------------------------------------
(* What a step does to the queues, the duties and the groups                 *)

\* A validator's queue after a step.
LEMMA HandledQueue ==
    ASSUME Inv1, effects = {}, NEW transactions, NEW seen, Handled(transactions, seen),
           NEW b, Stepped(seen, b), NEW v \in Honest, NEW c
    PROVE  /\ c \in Queued(v) <=> Transaction(v, c) \in pool
           /\ c \in Queued(v)' <=> \/ c \in Queued(v) /\ Transaction(v, c) \notin transactions
                                   \/ c \in seen[v].commands /\ ~ IsEffect(c)
<1> DEFINE issued == UNION {{[from |-> w, c |-> d] : d \in seen[w].commands} : w \in Honest}
<1>1. pool' = (pool \ transactions) \cup {y \in issued : ~ IsEffect(y.c)}
  BY DEF Handled
<1>2. Transaction(v, c).from = v /\ Transaction(v, c).c = c
  BY DEF Transaction
<1>3. \A x \in pool : x = Transaction(x.from, x.c)
  BY DEF Inv1, QueuesOK
<1>4. \A x \in pool' : x = Transaction(x.from, x.c)
  BY <1>3, HandledQueues DEF Inv1, Sent
<1>5. Transaction(v, c) \in issued <=> c \in seen[v].commands
  <2>1. ASSUME NEW w \in Honest, NEW d \in seen[w].commands, Transaction(v, c) = [from |-> w, c |-> d]
        PROVE  c \in seen[v].commands
    BY <2>1 DEF Transaction
  <2>2. ASSUME c \in seen[v].commands PROVE Transaction(v, c) \in issued
    BY <2>2 DEF Transaction
  <2> QED BY <2>1, <2>2
<1> HIDE DEF issued
<1>6. c \in Queued(v) <=> Transaction(v, c) \in pool
  BY <1>2, <1>3 DEF Queued
<1>7. c \in Queued(v)' <=> Transaction(v, c) \in pool'
  BY <1>2, <1>4 DEF Queued
<1> QED BY <1>1, <1>2, <1>5, <1>6, <1>7

\* A call takes its transaction from the sender's queue.
LEMMA Requeue ==
    ASSUME Inv1, effects = {}, NEW x, NEW seen, Handled({x}, seen), NEW b, Stepped(seen, b), NEW v \in Honest,
           seen[v].state.rollover.participation # "Setup", NEW c, NEW own \in BOOLEAN,
           own => x = Transaction(v, c), ~ own => \A d : x # Transaction(v, d)
    PROVE  Requeued(Queued(v), Queued(v)', seen[v].commands, c, own)
<1>1. \A d \in seen[v].commands : ~ IsEffect(d)
  BY DEF Stepped, Good, Turn, IsEffect
<1>2. ASSUME NEW d
      PROVE  d \in Queued(v)' <=> (d \in Queued(v) /\ Transaction(v, d) # x) \/ d \in seen[v].commands
  BY <1>1, HandledQueue
<1>3. ASSUME NEW d PROVE Transaction(v, d) = x <=> (own /\ d = c)
  <2>1. Transaction(v, d).c = d /\ Transaction(v, c).c = c
    BY DEF Transaction
  <2> QED BY <2>1
<1> QED BY <1>2, <1>3 DEF Requeued

\* In a group that is new, a member has nothing to do yet.
LEMMA FreshDuty ==
    ASSUME Inv1, effects = {}, NEW transactions, NEW seen, Handled(transactions, seen),
           NEW b, Stepped(seen, b), NEW u \in Steady, NEW g, g = seen[u].state.rollover.group,
           g # NoGroup, g # Roll(u).group, Roll(u).stage # "WaitingForGenesis",
           Entry(g)' \in {Entry(g), EmptyGroup}
    PROVE  Duty(u, seen[u].state.rollover, Entry(g)', Queued(u)', block')
<1> DEFINE r == Roll(u)
           q == seen[u].state.rollover
<1>1. Turn(u, r, q, seen[u].commands) /\ u \in Honest
  BY DEF Stepped, Good, Roll, Steady
<1>2. /\ q.stage = "CollectingCommitments" /\ q.participation # "Participating" /\ q.group = g
      /\ Shape(u, q) /\ Advance(r, q)
  BY <1>1 DEF Turn
<1>3. g \in Group
  BY <1>2 DEF Shape, Formed
<1>4. ~ Reached(r, g)
  <2>1. ~ Past(q, g)
    BY <1>2, <1>3, NotBoth
  <2> QED BY <1>2, <1>3, <2>1 DEF Advance, Reached
<1>5. g \notin DOMAIN groups /\ \A x \in pool : x.c.group # g
  BY <1>4 DEF Inv1, GroupsOK
<1>6. Entry(g)' = EmptyGroup
  BY <1>5 DEF Entry
<1>7. ASSUME NEW p PROVE KeyGenComplain(g, p) \notin Queued(u)'
  <2> DEFINE c == KeyGenComplain(g, p)
  <2>1. c.group = g /\ c.kind = "KeyGenComplain" /\ Transaction(u, c).c = c
    BY DEF KeyGenComplain, Transaction
  <2> HIDE DEF c
  <2>2. Transaction(u, c) \notin pool
    BY <1>5, <2>1
  <2>3. c \notin seen[u].commands
    BY <1>1, <1>2, <2>1 DEF Turn
  <2>4. c \notin Queued(u)'
    BY <1>1, <2>2, <2>3, HandledQueue
  <2> QED BY <2>4 DEF c
<1>8. EmptyGroup.registered = {}
  BY DEF EmptyGroup
<1> HIDE DEF q
<1> QED BY <1>2, <1>6, <1>7, <1>8 DEF Duty, q

\* The commands blame nobody honest.
Blameless(commands) == \A c \in commands : c.kind = "KeyGenComplain" => c.accused \in Faulty

\* Honest validators complain only of faulty members.
LEMMA BlameKeeps ==
    ASSUME Inv1, BlameOK, effects = {}, NEW transactions, NEW seen, Handled(transactions, seen),
           NEW b, Stepped(seen, b), \A g \in Group : Told(g, Entry(g)'),
           \A v \in Honest : Blameless(seen[v].commands)
    PROVE  BlameOK'
<1> SUFFICES ASSUME NEW v \in Honest, NEW g \in Group, NEW a \in Participants, Complained(v, g, a)'
             PROVE  a \in Faulty
  BY DEF BlameOK
<1> DEFINE c == KeyGenComplain(g, a)
<1>1. c.kind = "KeyGenComplain" /\ c.accused = a /\ Transaction(v, c).c = c /\ Transaction(v, c).from = v
  BY DEF KeyGenComplain, Transaction
<1> HIDE DEF c
<1>2. CASE Complaint(v, a) \in Entry(g)'.complaints
  BY <1>2 DEF Told, BlameOK
<1>3. CASE Transaction(v, c) \in pool
  BY <1>3 DEF BlameOK, Complained, c
<1>4. CASE Transaction(v, c) \in pool' /\ Transaction(v, c) \notin pool
  <2>1. Sent(Transaction(v, c), seen)
    BY <1>4, HandledQueues DEF Inv1
  <2> QED BY <1>1, <2>1 DEF Sent, Blameless
<1> QED BY <1>2, <1>3, <1>4 DEF Complained, c

\* The group stays, or is left for one that has everybody or all that are not slow.
Kept(r, q, slow) ==
    \/ q.group = r.group \/ q.group = NoGroup \/ q.group.members = Configured[q.group.epoch]
    \/ /\ r.group # NoGroup /\ q.group.epoch = r.group.epoch
       /\ \A v \in Steady : v \in r.group.members => v \in q.group.members \/ <<r.group.epoch, v>> \in slow

\* Those who are hindered remain so.
LEMMA HinderedGrows ==
    ASSUME late \subseteq late', cancelled \subseteq cancelled'
    PROVE  Hindered \subseteq Hindered' /\ \A e : Robbed(e) \subseteq Robbed(e)'
<1>1. ASSUME NEW e PROVE Robbed(e) \subseteq Robbed(e)'
  BY DEF Robbed
<1> QED BY <1>1 DEF Hindered

\* Only hindered validators are left out.
LEMMA KeptKeeps ==
    ASSUME HonestKept, Steady' = Steady, late \subseteq late', cancelled \subseteq cancelled',
           \A u \in Steady : Kept(Roll(u), Roll(u)', Hindered')
    PROVE  HonestKept'
<1> SUFFICES ASSUME NEW u \in Steady, NEW v \in Steady, NEW q, q = Roll(u)', q.group # NoGroup,
                    NEW e, e = q.group.epoch, v \in Configured[e], v \notin late', v \notin Robbed(e)'
             PROVE  v \in q.group.members
  BY DEF HonestKept, Roll, Robbed
<1>1. \A r : r = Roll(u) /\ r.group # NoGroup /\ v \in Configured[r.group.epoch] =>
                v \in r.group.members \/ v \in late \/ v \in Robbed(r.group.epoch)
  BY DEF HonestKept, Roll
<1>2. <<e, v>> \notin Hindered'
  BY DEF Hindered
<1>3. v \notin late /\ v \notin Robbed(e)
  BY HinderedGrows
<1> QED BY <1>1, <1>2, <1>3 DEF Kept

\* Who is prompt after a step that keeps its group was prompt before.
LEMMA StaysPrompt ==
    ASSUME Steady' = Steady, late \subseteq late', cancelled \subseteq cancelled', NEW u \in Prompt'
    PROVE  u \in Steady /\ (Roll(u).group = Roll(u)'.group => u \in Prompt)
<1>1. u \in Steady' /\ <<Roll(u)'.group.epoch, u>> \notin Hindered'
  BY DEF Prompt
<1>2. <<Roll(u)'.group.epoch, u>> \notin Hindered
  BY <1>1, HinderedGrows
<1> QED BY <1>1, <1>2 DEF Prompt

\* What the honest have told of the group they had told before, and so of all groups.
LEMMA ToldCall ==
    ASSUME NEW group, NEW H, SetGroup(group, H), Told(group, H)
    PROVE  \A g \in Group : Told(g, Entry(g)')
<1>1. Entry(group)' = H /\ \A h : h # group => Entry(h)' = Entry(h)
  BY EntrySet
<1>2. \A g : Told(g, Entry(g))
  BY DEF Told, Confirmed, Complained
<1> QED BY <1>1, <1>2

\* A member of the group that is not slow.
LEMMA IsServing ==
    ASSUME Inv1, Inv2, Inv3, effects = {}, NEW u \in Prompt, NEW group, Roll(u).group = group,
           Serves(u, Roll(u))
    PROVE  Serving(u, Roll(u), group, Entry(group), Queued(u), block)
<1>1. group # NoGroup /\ u \in Honest /\ u \in Steady
  BY DEF Serves, Steady, Prompt
<1>2. Following(u, Roll(u), group, Entry(group))
  BY <1>1, IsFollowing
<1>3. Roll(u).participation # "Setup" /\ block \in Nat
  BY <1>1, AllReady DEF Ready, Roll
<1>4. Duty(u, Roll(u), Entry(group), Queued(u), block)
  BY DEF Inv3, DutiesOK
<1> QED BY <1>2, <1>3, <1>4 DEF Serving

\* A call for a group keeps the third layer, if its event does for those that are at the group.
LEMMA CallKeeps ==
    ASSUME Inv1, Inv2, Inv3, effects = {}, NEW x, NEW group, NEW H, NEW seen, Called(x, group, H, seen),
           Elsewhere(group, seen), Told(group, H),
           \A v, c : x = Transaction(v, c) => c.group = group,
           \A u \in Honest \ asleep : Roll(u).group = group => Blameless(seen[u].commands),
           \A u \in Steady : Roll(u).group = group => Kept(Roll(u), seen[u].state.rollover, Hindered),
           \A u \in Prompt :
              /\ Roll(u).group = group /\ seen[u].state.rollover.group = group /\ Serves(u, Roll(u))
              => Duty(u, seen[u].state.rollover, H, Queued(u)', block)
    PROVE  Inv3'
<1>1. /\ Handled({x}, seen) /\ Stepped(seen, block) /\ SetGroup(group, H) /\ group \in Group
      /\ block' = block /\ late' = late /\ cancelled \subseteq cancelled'
  BY DEF Called, Event
<1>2. /\ Steady' = Steady /\ Steady \subseteq Honest \ asleep /\ asleep' = asleep /\ asleep \subseteq Honest
      /\ \A v \in Honest : Roll(v)' = seen[v].state.rollover
  BY <1>1, HandledViews, HonestAssumption DEF Steady, Inv1, TypesOK
<1>3. Entry(group)' = H /\ \A h : h # group => Entry(h)' = Entry(h)
  BY <1>1, EntrySet
<1>4. \A s : Ignored(s).state = s /\ Ignored(s).commands = {}
  BY DEF Ignored, Result
<1>5. ASSUME NEW v \in Honest, Roll(v).group # group \/ v \in asleep
      PROVE  seen[v].state.rollover = Roll(v) /\ seen[v].commands = {}
  <2>1. seen[v] = Ignored(view[v])
    BY <1>1, <1>5 DEF Elsewhere, Stepped
  <2> QED BY <1>4, <2>1 DEF Roll
<1>6. BlameOK'
  <2>1. ASSUME NEW v \in Honest PROVE Blameless(seen[v].commands)
    BY <1>5 DEF Blameless
  <2>2. \A g \in Group : Told(g, Entry(g)')
    BY <1>1, ToldCall
  <2> QED BY <1>1, <2>1, <2>2, BlameKeeps DEF Inv3
<1>7. HonestKept'
  <2>0. Hindered \subseteq Hindered'
    BY <1>1, HinderedGrows
  <2>1. ASSUME NEW u \in Steady PROVE Kept(Roll(u), Roll(u)', Hindered')
    BY <1>1, <1>2, <1>5, <2>0 DEF Kept
  <2> QED BY <1>1, <1>2, <2>1, KeptKeeps DEF Inv3
<1>8. DutiesOK'
  <2> SUFFICES ASSUME NEW u \in Prompt', NEW g, g = Roll(u)'.group, Serves(u, Roll(u)')
               PROVE  Duty(u, Roll(u)', Entry(g)', Queued(u)', block')
    BY DEF DutiesOK, Entry
  <2>0. u \in Steady /\ (Roll(u).group = g => u \in Prompt)
    BY <1>1, <1>2, StaysPrompt
  <2> DEFINE r == Roll(u)
             q == seen[u].state.rollover
  <2>1. u \in Honest /\ Roll(u)' = q /\ q.group = g /\ g # NoGroup /\ Timed(q) /\ u \in g.members
    BY <1>2, <2>0 DEF Serves
  <2>2. Turn(u, r, q, seen[u].commands) /\ Shape(u, r) /\ Shape(u, q)
    BY <1>1, <2>1 DEF Stepped, Good, Turn, Roll, Inv1, ViewsOK
  <2>3. CASE r.group # group
    <3>1. q = r /\ seen[u].commands = {} /\ Entry(g)' = Entry(g) /\ r.group = g
      BY <1>3, <1>5, <2>1, <2>3
    <3>2. Duty(u, r, Entry(g), Queued(u), block)
      BY <2>0, <2>1, <3>1 DEF Inv3, DutiesOK
    <3>3. ASSUME NEW c, c.group = r.group PROVE c \in Queued(u) <=> c \in Queued(u)'
      <4>1. x # Transaction(u, c)
        BY <2>3, <3>3
      <4> QED BY <1>1, <2>1, <3>1, <4>1, HandledQueue
    <3>4. Duty(u, r, Entry(g), Queued(u)', block)
      BY <3>2, <3>3, SameDuty
    <3> QED BY <1>1, <2>1, <3>1, <3>4
  <2>4. CASE r.group = group /\ q.group = group
    <3>1. Timed(r)
      BY <2>1, <2>2, <2>4 DEF Shape, Timed
    <3>2. Serves(u, r)
      BY <2>1, <2>4, <3>1 DEF Serves
    <3> QED BY <1>1, <1>3, <2>0, <2>1, <2>4, <3>2
  <2>5. CASE r.group = group /\ q.group # group
    <3>1. r.stage # "WaitingForGenesis" /\ Entry(g)' \in {Entry(g), EmptyGroup}
      BY <1>1, <1>3, <2>1, <2>2, <2>5, NoGroupAssumption DEF Shape, Busy, Group
    <3>2. Duty(u, q, Entry(g)', Queued(u)', block')
      BY <1>1, <2>0, <2>1, <2>5, <3>1, FreshDuty
    <3> QED BY <2>1, <3>2
  <2> QED BY <2>3, <2>4, <2>5
<1> QED BY <1>6, <1>7, <1>8 DEF Inv3

\* The call is of an honest validator, from its queue, or of a faulty member.
SentBy(x, p, c) == (x = Transaction(p, c) /\ x \in pool) \/ (x = Nobody /\ p \in Faulty)

\* Only the sender's queue changes.
LEMMA SenderOwns ==
    ASSUME NEW x, NEW p, NEW c, SentBy(x, p, c), NEW v \in Honest
    PROVE  /\ p = v => x = Transaction(v, c)
           /\ p # v => \A d : x # Transaction(v, d)
<1>1. ASSUME x = Nobody, NEW d PROVE x # Transaction(v, d)
  <2>1. DOMAIN Nobody = {"from"} /\ DOMAIN Transaction(v, d) = {"from", "c"}
    BY DEF Nobody, Transaction
  <2> QED BY <1>1, <2>1
<1>2. ASSUME NEW d, p # v PROVE Transaction(p, c) # Transaction(v, d)
  BY <1>2 DEF Transaction
<1> QED BY <1>1, <1>2 DEF SentBy, Faulty

\* A transaction is for the group of its command.
LEMMA SenderGroup ==
    ASSUME NEW x, NEW p, NEW c, SentBy(x, p, c), NEW v, NEW d, x = Transaction(v, d)
    PROVE  d = c
<1>1. CASE x = Nobody
  <2>1. DOMAIN Nobody = {"from"} /\ DOMAIN Transaction(v, d) = {"from", "c"}
    BY DEF Nobody, Transaction
  <2> QED BY <1>1, <2>1
<1>2. CASE x = Transaction(p, c)
  BY <1>2 DEF Transaction
<1> QED BY <1>1, <1>2 DEF SentBy

\* What a call does to the queue of a member of its group.
LEMMA CallQueue ==
    ASSUME Inv1, effects = {}, NEW x, NEW group, NEW H, NEW seen, Called(x, group, H, seen),
           NEW p, NEW c, SentBy(x, p, c), NEW v \in Honest, seen[v].state.rollover.participation # "Setup"
    PROVE  Requeued(Queued(v), Queued(v)', seen[v].commands, c, p = v)
<1>1. Handled({x}, seen) /\ Stepped(seen, block) /\ (p = v) \in BOOLEAN
  BY DEF Called, Event
<1>2. /\ (p = v) => x = Transaction(v, c)
      /\ ~ (p = v) => \A d : x # Transaction(v, d)
  BY SenderOwns
<1> QED BY <1>1, <1>2, Requeue

-----------------------------------------------------------------------------
(* Every step keeps the third layer                                         *)

\* Somebody that leaves a group blames nobody in the same step.
LEMMA LeftBlameless ==
    ASSUME NEW me, NEW r, NEW q, NEW commands, Turn(me, r, q, commands), r.stage # "WaitingForGenesis",
           q.group # r.group
    PROVE  Blameless(commands)
<1> SUFFICES ASSUME NEW c \in commands, c.kind = "KeyGenComplain" PROVE FALSE
  BY DEF Blameless
<1>1. c \in Command /\ c.group = q.group /\ q.stage # "CollectingCommitments"
  BY DEF Turn
<1>2. c.group \in Group
  BY <1>1 DEF Command
<1>3. q.group # NoGroup
  BY <1>1, <1>2, NoGroupAssumption DEF Group
<1> QED BY <1>1, <1>3 DEF Turn

\* A validator at the group of a call.
LEMMA CallTurn ==
    ASSUME Inv1, effects = {}, NEW x, NEW group, NEW H, NEW seen, Called(x, group, H, seen),
           NEW u \in Honest, Roll(u).group = group
    PROVE  /\ Turn(u, Roll(u), seen[u].state.rollover, seen[u].commands) /\ Roll(u).stage # "WaitingForGenesis"
           /\ Shape(u, Roll(u)) /\ Shape(u, seen[u].state.rollover) /\ Roll(u).participation # "Setup"
<1>1. group # NoGroup
  BY NoGroupAssumption DEF Called, Group
<1>2. Shape(u, Roll(u)) /\ Roll(u).participation # "Setup"
  BY AllReady DEF Ready, Roll
<1>3. Turn(u, Roll(u), seen[u].state.rollover, seen[u].commands)
  BY DEF Called, Event, Stepped, Good, Roll
<1> QED BY <1>1, <1>2, <1>3 DEF Turn, Shape, Busy

\* keyGenAndCommit
LEMMA CommitKeeps ==
    ASSUME Inv1, Inv2, Inv3, effects = {}, NEW x, NEW group, NEW p, NEW valid \in BOOLEAN, NEW seen,
           CommitCalled(x, group, p, valid, seen), SentBy(x, p, KeyGenAndCommit(group)), p \in Honest => valid
    PROVE  Inv3'
<1> DEFINE G == Entry(group)
           H == Registering(group, G, p)
<1>1. /\ Called(x, group, H, seen) /\ Elsewhere(group, seen) /\ group \in Group /\ group # NoGroup
      /\ p \in group.members /\ G.status = "COMMITTING" /\ G \in ContractGroup
  BY EntryOK, NoGroupAssumption DEF CommitCalled, Called, GroupOK, Group
<1>2. H.confirmed = G.confirmed /\ H.complaints = G.complaints
  BY <1>1 DEF Registering, ContractGroup
<1> HIDE DEF H
<1>3. Told(group, H)
  BY <1>2 DEF Told, Confirmed, Complained
<1>4. ASSUME NEW v, NEW c, x = Transaction(v, c) PROVE c.group = group
  BY <1>4, SenderGroup, Kinds
<1>5. ASSUME NEW u \in Honest \ asleep, Roll(u).group = group
      PROVE  LET q == seen[u].state.rollover IN
             /\ CommitEffect(Roll(u), q, seen[u].commands, p, valid)
             /\ Blameless(seen[u].commands) /\ q.group = group /\ q.participation # "Setup"
  <2> DEFINE q == seen[u].state.rollover
  <2>1. CommitEffect(Roll(u), q, seen[u].commands, p, valid)
    BY <1>5 DEF CommitCalled
  <2>2. Roll(u).participation # "Setup"
    BY <1>1, <1>5, CallTurn
  <2> HIDE DEF q
  <2>3. q.group = group /\ q.participation # "Setup" /\ seen[u].commands \subseteq {KeyGenSecretShare(group)}
    BY <1>5, <2>1, <2>2 DEF CommitEffect, Unmoved, SameRound
  <2>4. Blameless(seen[u].commands)
    BY <2>3 DEF Blameless, KeyGenSecretShare
  <2> QED BY <2>1, <2>3, <2>4 DEF q
<1>6. ASSUME NEW u \in Prompt, Roll(u).group = group, Serves(u, Roll(u))
      PROVE  Duty(u, seen[u].state.rollover, H, Queued(u)', block)
  <2>1. u \in Honest \ asleep
    BY DEF Steady, Prompt
  <2>2. Serving(u, Roll(u), group, G, Queued(u), block)
    BY <1>6, IsServing
  <2>3. Requeued(Queued(u), Queued(u)', seen[u].commands, KeyGenAndCommit(group), p = u)
    BY <1>1, <1>5, <1>6, <2>1, CallQueue
  <2>4. CommitEffect(Roll(u), seen[u].state.rollover, seen[u].commands, p, valid)
    BY <1>5, <1>6, <2>1
  <2> QED BY <1>1, <2>1, <2>2, <2>3, <2>4, CommitDuty DEF H
<1>7. ASSUME NEW u \in Steady, Roll(u).group = group PROVE Kept(Roll(u), seen[u].state.rollover, Hindered)
  BY <1>5, <1>7 DEF Kept, Steady
<1> QED BY <1>1, <1>3, <1>4, <1>5, <1>6, <1>7, CallKeeps

\* keyGenSecretShare; the shares of an honest validator are right.
LEMMA ShareKeeps ==
    ASSUME Inv1, Inv2, Inv3, effects = {}, NEW x, NEW group, NEW p, NEW valid \in BOOLEAN, NEW cheated, NEW seen,
           ShareCalled(x, group, p, valid, cheated, seen), SentBy(x, p, KeyGenSecretShare(group)),
           p \in Honest => valid /\ cheated = {}
    PROVE  Inv3'
<1> DEFINE G == Entry(group)
           H == Sharing(group, G, p)
<1>1. /\ Called(x, group, H, seen) /\ Elsewhere(group, seen) /\ group \in Group /\ group # NoGroup
      /\ p \in group.members /\ p \notin G.keys /\ p \in Participants /\ G.status = "SHARING" /\ G \in ContractGroup
  BY EntryOK, NoGroupAssumption DEF ShareCalled, Called, GroupOK, Group
<1>2. H.confirmed = G.confirmed /\ H.complaints = G.complaints
  BY <1>1 DEF Sharing, ContractGroup
<1> HIDE DEF H
<1>3. Told(group, H)
  BY <1>2 DEF Told, Confirmed, Complained
<1>4. ASSUME NEW v, NEW c, x = Transaction(v, c) PROVE c.group = group
  BY <1>4, SenderGroup, Kinds
<1>5. ASSUME NEW u \in Honest \ asleep, Roll(u).group = group
      PROVE  LET q == seen[u].state.rollover IN
             /\ ShareEffect(u, Roll(u), q, seen[u].commands, block, p, valid, cheated)
             /\ Blameless(seen[u].commands) /\ q.group = group /\ q.participation # "Setup"
  <2> DEFINE q == seen[u].state.rollover
  <2>1. ShareEffect(u, Roll(u), q, seen[u].commands, block, p, valid, cheated)
    BY <1>5 DEF ShareCalled
  <2>2. Roll(u).participation # "Setup"
    BY <1>1, <1>5, CallTurn
  <2> HIDE DEF q
  <2>3. /\ q.group = group /\ q.participation # "Setup"
        /\ seen[u].commands \subseteq {KeyGenConfirm(group)} \cup (IF u \in cheated THEN {KeyGenComplain(group, p)} ELSE {})
    BY <1>5, <2>1, <2>2 DEF ShareEffect, Unmoved, SameRound
  <2>4. u \in cheated => p \in Faulty
    BY <1>1 DEF Faulty
  <2>5. Blameless(seen[u].commands)
    BY <2>3, <2>4 DEF Blameless, KeyGenConfirm, KeyGenComplain
  <2> QED BY <2>1, <2>3, <2>5 DEF q
<1>6. ASSUME NEW u \in Prompt, Roll(u).group = group, Serves(u, Roll(u))
      PROVE  Duty(u, seen[u].state.rollover, H, Queued(u)', block)
  <2>1. u \in Honest \ asleep
    BY DEF Steady, Prompt
  <2>2. Serving(u, Roll(u), group, G, Queued(u), block)
    BY <1>6, IsServing
  <2>3. Requeued(Queued(u), Queued(u)', seen[u].commands, KeyGenSecretShare(group), p = u)
    BY <1>1, <1>5, <1>6, <2>1, CallQueue
  <2>4. ShareEffect(u, Roll(u), seen[u].state.rollover, seen[u].commands, block, p, valid, cheated)
    BY <1>5, <1>6, <2>1
  <2> QED BY <1>1, <2>1, <2>2, <2>3, <2>4, ShareDuty DEF H
<1>7. ASSUME NEW u \in Steady, Roll(u).group = group PROVE Kept(Roll(u), seen[u].state.rollover, Hindered)
  BY <1>5, <1>7 DEF Kept, Steady
<1> QED BY <1>1, <1>3, <1>4, <1>5, <1>6, <1>7, CallKeeps

\* keyGenConfirm; after the genesis key generation everybody is in the next one.
LEMMA ConfirmKeeps ==
    ASSUME Inv1, Inv2, Inv3, effects = {}, NEW x, NEW group, NEW p, NEW seen,
           ConfirmCalled(x, group, p, seen), SentBy(x, p, KeyGenConfirm(group))
    PROVE  Inv3'
<1> DEFINE G == Entry(group)
           H == Confirming(group, G, p)
<1>1. /\ Called(x, group, H, seen) /\ Elsewhere(group, seen) /\ group \in Group /\ group # NoGroup
      /\ p \in group.members /\ G.status = "CONFIRMING" /\ G \in ContractGroup
  BY EntryOK, NoGroupAssumption DEF ConfirmCalled, Called, GroupOK, Group
<1>2. H.confirmed = G.confirmed \cup {p} /\ H.complaints = G.complaints
  BY <1>1 DEF Confirming, ContractGroup
<1> HIDE DEF H
<1>3. Told(group, H)
  BY <1>2 DEF Told, Confirmed, Complained, SentBy, Faulty
<1>4. ASSUME NEW v, NEW c, x = Transaction(v, c) PROVE c.group = group
  BY <1>4, SenderGroup, Kinds
<1>5. ASSUME NEW u \in Honest \ asleep, Roll(u).group = group
      PROVE  LET q == seen[u].state.rollover IN
             /\ ConfirmEffect(Roll(u), q, seen[u].commands, p)
             /\ Blameless(seen[u].commands) /\ (q.group = group => q.participation # "Setup")
  <2> DEFINE q == seen[u].state.rollover
  <2>1. ConfirmEffect(Roll(u), q, seen[u].commands, p)
    BY <1>5 DEF ConfirmCalled
  <2>2. /\ Roll(u).participation # "Setup" /\ Shape(u, q) /\ Roll(u).stage # "WaitingForGenesis"
        /\ Turn(u, Roll(u), q, seen[u].commands)
    BY <1>1, <1>5, CallTurn
  <2> HIDE DEF q
  <2>3. q.group = group => q.participation # "Setup" /\ seen[u].commands = {}
    BY <1>5, <2>1, <2>2 DEF ConfirmEffect, Unmoved, SameRound, LeavesGenesis, Shape
  <2>4. Blameless(seen[u].commands)
    BY <1>5, <2>2, <2>3, LeftBlameless DEF Blameless
  <2> QED BY <2>1, <2>3, <2>4 DEF q
<1>6. ASSUME NEW u \in Prompt, Roll(u).group = group, seen[u].state.rollover.group = group, Serves(u, Roll(u))
      PROVE  Duty(u, seen[u].state.rollover, H, Queued(u)', block)
  <2>1. u \in Honest \ asleep
    BY DEF Steady, Prompt
  <2>2. Serving(u, Roll(u), group, G, Queued(u), block)
    BY <1>6, IsServing
  <2>3. Requeued(Queued(u), Queued(u)', seen[u].commands, KeyGenConfirm(group), p = u)
    BY <1>1, <1>5, <1>6, <2>1, CallQueue
  <2>4. ConfirmEffect(Roll(u), seen[u].state.rollover, seen[u].commands, p)
    BY <1>5, <1>6, <2>1
  <2> QED BY <1>1, <1>6, <2>1, <2>2, <2>3, <2>4, ConfirmDuty DEF H
<1>7. ASSUME NEW u \in Steady, Roll(u).group = group PROVE Kept(Roll(u), seen[u].state.rollover, Hindered)
  <2>1. ConfirmEffect(Roll(u), seen[u].state.rollover, seen[u].commands, p)
    BY <1>5, <1>7 DEF Steady
  <2> QED BY <2>1 DEF Kept, ConfirmEffect, Unmoved, SameRound, LeavesGenesis
<1> QED BY <1>1, <1>3, <1>4, <1>5, <1>6, <1>7, CallKeeps

\* A group with one member less, which is faulty.
LEMMA FaultyLeaves ==
    ASSUME NEW r, NEW q, NEW a \in Faulty, Leaves(r, q, {a}), r.group # NoGroup, NEW slow
    PROVE  Kept(r, q, slow)
<1>1. \A v \in Steady : v # a
  BY DEF Steady, Faulty
<1> QED BY <1>1 DEF Kept, Leaves

\* Too few are faulty for enough complaints about an honest member.
LEMMA OnlyFaultyBlamed ==
    ASSUME NEW group, Formed(group), NEW H, BlameOK, Told(group, H),
           H.complaints \subseteq [plaintiff : group.members, accused : group.members],
           NEW a \in group.members, Accusations(H, a) >= GroupThreshold(group.members)
    PROVE  a \in Faulty
<1>1. group \in Group /\ group.members \subseteq Participants
  BY DEF Formed, Group
<1>2. H.complaints \subseteq [plaintiff : Participants, accused : Participants]
  BY <1>1
<1>3. SUFFICES ASSUME a \notin Faulty PROVE FALSE
  OBVIOUS
<1>4. ASSUME NEW c \in H.complaints, c.accused = a PROVE c.plaintiff \in Faulty \cap group.members
  <2>1. c = Complaint(c.plaintiff, a) /\ c.plaintiff \in group.members
    BY <1>4 DEF Complaint
  <2>2. c.plaintiff \notin Honest
    <3>1. ASSUME c.plaintiff \in Honest PROVE FALSE
      <4>1. Complained(c.plaintiff, group, a)
        BY <1>1, <2>1, <3>1 DEF Told
      <4> QED BY <1>1, <1>3, <3>1, <4>1 DEF BlameOK
    <3> QED BY <3>1
  <2> QED BY <1>1, <2>1, <2>2 DEF Faulty
<1>5. /\ Faulty \cap group.members \in SUBSET Participants
      /\ Faulty \cap group.members \in SUBSET (Faulty \cap group.members)
  BY DEF Faulty
<1>6. Accusations(H, a) <= Cardinality(Faulty \cap group.members) /\ Accusations(H, a) \in Nat
  BY <1>2, <1>4, <1>5, Accusers
<1>7. Cardinality(Faulty \cap group.members) < GroupThreshold(group.members) /\ GroupThreshold(group.members) \in Nat
  BY <1>5, FaultyMinority
<1>8. Cardinality(Faulty \cap group.members) \in Nat
  BY FaultyMinority, FS_Subset, FS_CardinalityType
<1> QED BY <1>6, <1>7, <1>8

\* keyGenComplain; only a faulty member is accused often enough to be left out.
LEMMA ComplainKeeps ==
    ASSUME Inv1, Inv2, Inv3, effects = {}, NEW x, NEW group, NEW plaintiff, NEW accused, NEW seen,
           ComplainCalled(x, group, plaintiff, accused, seen), SentBy(x, plaintiff, KeyGenComplain(group, accused))
    PROVE  Inv3'
<1> DEFINE G == Entry(group)
           H == Complaining(group, G, plaintiff, accused)
<1>1. /\ Called(x, group, H, seen) /\ Elsewhere(group, seen) /\ group \in Group /\ group # NoGroup
      /\ plaintiff \in group.members /\ plaintiff \in Participants /\ accused \in group.members
      /\ Complaint(plaintiff, accused) \notin G.complaints /\ group.members \subseteq Participants
      /\ G.status \in {"SHARING", "CONFIRMING"} /\ G \in ContractGroup /\ GroupOK(group, G)
  BY EntryOK, NoGroupAssumption DEF ComplainCalled, Called, GroupOK, Group
<1>2. H.confirmed = G.confirmed /\ H.complaints = G.complaints \cup {Complaint(plaintiff, accused)}
  <2> DEFINE I == [G EXCEPT !.complaints = @ \cup {Complaint(plaintiff, accused)}]
  <2>1. /\ I.confirmed = G.confirmed /\ I.complaints = G.complaints \cup {Complaint(plaintiff, accused)}
        /\ [I EXCEPT !.status = "COMPROMISED"].confirmed = I.confirmed
        /\ [I EXCEPT !.status = "COMPROMISED"].complaints = I.complaints
    BY <1>1 DEF ContractGroup
  <2>2. H \in {I, [I EXCEPT !.status = "COMPROMISED"]}
    BY DEF Complaining, Complaint
  <2> HIDE DEF I, H
  <2> QED BY <2>1, <2>2
<1> HIDE DEF H
<1>3. Told(group, H)
  <2>1. ASSUME NEW v \in Honest, NEW a \in Participants, Complaint(v, a) = Complaint(plaintiff, accused)
        PROVE  v = plaintiff /\ a = accused
    BY <2>1 DEF Complaint
  <2>2. plaintiff \in Honest => Transaction(plaintiff, KeyGenComplain(group, accused)) \in pool
    BY DEF SentBy, Faulty
  <2> QED BY <1>2, <2>1, <2>2 DEF Told, Confirmed, Complained
<1>4. ASSUME NEW v, NEW c, x = Transaction(v, c) PROVE c.group = group
  BY <1>4, SenderGroup, Kinds
<1>5. ASSUME NEW u \in Honest \ asleep, Roll(u).group = group
      PROVE  LET q == seen[u].state.rollover IN
             /\ ComplainEffect(u, Roll(u), q, seen[u].commands, block, plaintiff, accused)
             /\ Blameless(seen[u].commands) /\ (q.group = group => q.participation # "Setup")
  <2> DEFINE q == seen[u].state.rollover
  <2>1. ComplainEffect(u, Roll(u), q, seen[u].commands, block, plaintiff, accused)
    BY <1>5 DEF ComplainCalled
  <2>2. /\ Roll(u).participation # "Setup" /\ Roll(u).stage # "WaitingForGenesis"
        /\ Turn(u, Roll(u), q, seen[u].commands)
    BY <1>1, <1>5, CallTurn
  <2> HIDE DEF q
  <2>3. q.group = group => /\ q.participation # "Setup"
                           /\ seen[u].commands \subseteq {KeyGenComplaintResponse(group, plaintiff)}
    BY <1>5, <2>1, <2>2 DEF ComplainEffect, Unmoved, SameRound, Leaves
  <2>4. q.group = group => Blameless(seen[u].commands)
    BY <2>3 DEF Blameless, KeyGenComplaintResponse
  <2>5. Blameless(seen[u].commands)
    BY <1>5, <2>2, <2>4, LeftBlameless
  <2> QED BY <2>1, <2>3, <2>5 DEF q
<1>6. ASSUME NEW u \in Prompt, Roll(u).group = group, seen[u].state.rollover.group = group, Serves(u, Roll(u))
      PROVE  Duty(u, seen[u].state.rollover, H, Queued(u)', block)
  <2>1. u \in Honest \ asleep
    BY DEF Steady, Prompt
  <2>2. Serving(u, Roll(u), group, G, Queued(u), block)
    BY <1>6, IsServing
  <2>3. Requeued(Queued(u), Queued(u)', seen[u].commands, KeyGenComplain(group, accused), plaintiff = u)
    BY <1>1, <1>5, <1>6, <2>1, CallQueue
  <2>4. ComplainEffect(u, Roll(u), seen[u].state.rollover, seen[u].commands, block, plaintiff, accused)
    BY <1>5, <1>6, <2>1
  <2>5. plaintiff = u => KeyGenComplain(group, accused) \in Queued(u)
    <3>1. ASSUME plaintiff = u PROVE Transaction(u, KeyGenComplain(group, accused)) \in pool
      BY <2>1, <3>1 DEF SentBy, Faulty
    <3>2. /\ Transaction(u, KeyGenComplain(group, accused)).from = u
          /\ Transaction(u, KeyGenComplain(group, accused)).c = KeyGenComplain(group, accused)
      BY DEF Transaction
    <3> QED BY <3>1, <3>2 DEF Queued
  <2> QED BY <1>1, <1>6, <2>1, <2>2, <2>3, <2>4, <2>5, ComplainDuty DEF H
<1>7. ASSUME NEW u \in Steady, Roll(u).group = group PROVE Kept(Roll(u), seen[u].state.rollover, Hindered)
  <2> DEFINE r == Roll(u)
             q == seen[u].state.rollover
  <2>1. ComplainEffect(u, r, q, seen[u].commands, block, plaintiff, accused)
    BY <1>5, <1>7 DEF Steady
  <2>2. Following(u, r, group, G)
    BY <1>1, <1>7, IsFollowing
  <2> HIDE DEF r, q
  <2>3. CASE q.group = r.group
    BY <2>3 DEF Kept, r, q
  <2>4. CASE q.group # r.group
    <3>1. /\ r.stage \in {"CollectingShares", "CollectingConfirmations"} /\ Leaves(r, q, {accused})
          /\ CountComplaint(r.complaints[accused], plaintiff, RequiresResponse(r, block)).total
                >= GroupThreshold(r.group.members)
      BY <2>1, <2>4 DEF ComplainEffect, Unmoved, SameRound
    <3>2. r.complaints[accused].total + 1 >= GroupThreshold(group.members)
      BY <1>7, <3>1 DEF CountComplaint, r
    <3>3. r.complaints[accused].total = Accusations(G, accused)
      BY <1>1, <2>2, <3>1 DEF Following, Follow, Counted
    <3>4. Accusations(H, accused) = Accusations(G, accused) + 1
      BY <1>1, <1>2, AccusationsCount DEF ContractGroup
    <3>5. H.complaints \subseteq [plaintiff : group.members, accused : group.members]
      BY <1>1, <1>2 DEF GroupOK, Complaint
    <3>6. accused \in Faulty
      BY <1>1, <1>3, <2>2, <3>2, <3>3, <3>4, <3>5, OnlyFaultyBlamed DEF Inv3, Following
    <3> QED BY <1>1, <1>7, <3>1, <3>6, FaultyLeaves DEF r, q
  <2> QED BY <2>3, <2>4
<1> QED BY <1>1, <1>3, <1>4, <1>5, <1>6, <1>7, CallKeeps

\* keyGenComplaintResponse; that of an honest validator is right.
LEMMA RespondKeeps ==
    ASSUME Inv1, Inv2, Inv3, effects = {}, NEW x, NEW group, NEW plaintiff, NEW accused, NEW valid \in BOOLEAN, NEW seen,
           RespondCalled(x, group, plaintiff, accused, valid, seen),
           SentBy(x, accused, KeyGenComplaintResponse(group, plaintiff)), accused \in Honest => valid
    PROVE  Inv3'
<1> DEFINE G == Entry(group)
           H == Responding(G, plaintiff, accused)
<1>1. /\ Called(x, group, H, seen) /\ Elsewhere(group, seen) /\ group \in Group /\ group # NoGroup
      /\ plaintiff \in Participants /\ accused \in group.members /\ accused \in Participants
      /\ Complaint(plaintiff, accused) \in G.complaints /\ G \in ContractGroup
  BY EntryOK, NoGroupAssumption DEF RespondCalled, Called, GroupOK, Group
<1>2. H.confirmed = G.confirmed /\ H.complaints = G.complaints
  BY <1>1 DEF Responding, ContractGroup
<1> HIDE DEF H
<1>3. Told(group, H)
  BY <1>2 DEF Told, Confirmed, Complained
<1>4. ASSUME NEW v, NEW c, x = Transaction(v, c) PROVE c.group = group
  BY <1>4, SenderGroup, Kinds
<1>5. ASSUME NEW u \in Honest \ asleep, Roll(u).group = group
      PROVE  LET q == seen[u].state.rollover IN
             /\ RespondEffect(u, Roll(u), q, seen[u].commands, block, plaintiff, accused, valid)
             /\ Blameless(seen[u].commands) /\ (q.group = group => q.participation # "Setup")
  <2> DEFINE q == seen[u].state.rollover
  <2>1. RespondEffect(u, Roll(u), q, seen[u].commands, block, plaintiff, accused, valid)
    BY <1>5 DEF RespondCalled
  <2>2. /\ Roll(u).participation # "Setup" /\ Roll(u).stage # "WaitingForGenesis"
        /\ Turn(u, Roll(u), q, seen[u].commands)
    BY <1>1, <1>5, CallTurn
  <2> HIDE DEF q
  <2>3. q.group = group => q.participation # "Setup" /\ seen[u].commands \subseteq {KeyGenConfirm(group)}
    BY <1>5, <2>1, <2>2 DEF RespondEffect, Unmoved, SameRound, Leaves
  <2>4. q.group = group => Blameless(seen[u].commands)
    BY <2>3 DEF Blameless, KeyGenConfirm
  <2>5. Blameless(seen[u].commands)
    BY <1>5, <2>2, <2>4, LeftBlameless
  <2> QED BY <2>1, <2>3, <2>5 DEF q
<1>6. ASSUME NEW u \in Prompt, Roll(u).group = group, seen[u].state.rollover.group = group, Serves(u, Roll(u))
      PROVE  Duty(u, seen[u].state.rollover, H, Queued(u)', block)
  <2>1. u \in Honest \ asleep
    BY DEF Steady, Prompt
  <2>2. Serving(u, Roll(u), group, G, Queued(u), block)
    BY <1>6, IsServing
  <2>3. Requeued(Queued(u), Queued(u)', seen[u].commands, KeyGenComplaintResponse(group, plaintiff), accused = u)
    BY <1>1, <1>5, <1>6, <2>1, CallQueue
  <2>4. RespondEffect(u, Roll(u), seen[u].state.rollover, seen[u].commands, block, plaintiff, accused, valid)
    BY <1>5, <1>6, <2>1
  <2> QED BY <1>1, <1>6, <2>1, <2>2, <2>3, <2>4, RespondDuty DEF H
<1>7. ASSUME NEW u \in Steady, Roll(u).group = group PROVE Kept(Roll(u), seen[u].state.rollover, Hindered)
  <2> DEFINE r == Roll(u)
             q == seen[u].state.rollover
  <2>1. RespondEffect(u, r, q, seen[u].commands, block, plaintiff, accused, valid)
    BY <1>5, <1>7 DEF Steady
  <2> HIDE DEF r, q
  <2>2. CASE q.group = r.group
    BY <2>2 DEF Kept, r, q
  <2>3. CASE q.group # r.group
    <3>1. ~ valid /\ Leaves(r, q, {accused})
      BY <2>1, <2>3 DEF RespondEffect, Unmoved, SameRound
    <3>2. accused \in Faulty
      BY <1>1, <3>1 DEF Faulty
    <3> QED BY <1>1, <1>7, <3>1, <3>2, FaultyLeaves DEF r, q
  <2> QED BY <2>2, <2>3
<1> QED BY <1>1, <1>3, <1>4, <1>5, <1>6, <1>7, CallKeeps

\* A step after which no validator has a key generation with deadlines.
LEMMA UnservedKeeps ==
    ASSUME Inv1, Inv3, effects = {}, NEW transactions, NEW seen, Handled(transactions, seen),
           NEW b, Stepped(seen, b), late' = late /\ cancelled \subseteq cancelled', \A g \in Group : Told(g, Entry(g)'),
           \A v \in Honest : Blameless(seen[v].commands),
           \A u \in Steady : LET q == seen[u].state.rollover IN Kept(Roll(u), q, Hindered) /\ ~ Serves(u, q)
    PROVE  Inv3'
<1>1. /\ Steady' = Steady /\ Steady \subseteq Honest
      /\ \A v \in Honest : Roll(v)' = seen[v].state.rollover
  BY HandledViews DEF Steady
<1>2. BlameOK'
  BY BlameKeeps DEF Inv3
<1>3. HonestKept'
  <2>0. Hindered \subseteq Hindered'
    BY HinderedGrows
  <2>1. \A u \in Steady : Kept(Roll(u), Roll(u)', Hindered')
    BY <1>1, <2>0 DEF Kept
  <2> QED BY <1>1, <2>1, KeptKeeps DEF Inv3
<1>4. DutiesOK'
  <2>1. \A u \in Steady : ~ Serves(u, Roll(u)')
    BY <1>1
  <2> QED BY <1>1, <2>1 DEF DutiesOK, Serves, Prompt
<1> QED BY <1>2, <1>3, <1>4 DEF Inv3

\* The genesis key generation has everybody, and no deadlines.
LEMMA GenesisKept ==
    ASSUME NEW me, NEW r, NEW q, Shape(me, q), q.group = GenesisGroup, NEW slow
    PROVE  Kept(r, q, slow) /\ ~ Serves(me, q)
<1>1. /\ GenesisGroup.epoch = Genesis /\ GenesisGroup.members = Configured[Genesis] /\ GenesisGroup \in Group
  <2>1. /\ GenesisGroup.epoch = Genesis /\ GenesisGroup.members = Configured[Genesis] \ {}
        /\ GenesisGroup \in Group
    BY ViableFormed, EpochsAssumption DEF GenesisGroup
  <2>2. Configured[Genesis] \ {} = Configured[Genesis]
    OBVIOUS
  <2> QED BY <2>1, <2>2
<1>2. GenesisGroup # NoGroup
  BY <1>1, NoGroupAssumption DEF Group
<1>3. q.next_epoch = Genesis
  BY <1>1, <1>2 DEF Shape
<1> QED BY <1>1, <1>3 DEF Kept, Serves, Timed

\* keyGenAndCommit, of the genesis group
LEMMA GenesisCallKeeps ==
    ASSUME Inv1, Inv2, Inv3, effects = {}, NEW x, NEW p, NEW valid \in BOOLEAN, NEW seen,
           GenesisCalled(x, p, valid, seen)
    PROVE  Inv3'
<1> DEFINE group == GenesisGroup
           H == Registering(group, EmptyGroup, p)
<1>1. /\ Called(x, group, H, seen) /\ Handled({x}, seen) /\ Stepped(seen, block) /\ SetGroup(group, H)
      /\ late' = late /\ cancelled \subseteq cancelled'
  BY DEF GenesisCalled, Called, Event
<1>2. H.confirmed = {} /\ H.complaints = {}
  BY DEF EmptyGroup, Registering
<1> HIDE DEF H, group
<1>3. Told(group, H)
  BY <1>2 DEF Told
<1>4. \A g \in Group : Told(g, Entry(g)')
  BY <1>1, <1>3, ToldCall
<1>5. ASSUME NEW v \in Honest PROVE Blameless(seen[v].commands)
  <2>1. CASE v \in asleep
    <3>1. Ignored(view[v]).commands = {}
      BY DEF Ignored, Result
    <3> QED BY <1>1, <2>1, <3>1 DEF Stepped, Blameless
  <2>2. CASE v \notin asleep
    BY <2>2 DEF GenesisCalled, Blameless
  <2> QED BY <2>1, <2>2
<1>6. ASSUME NEW u \in Steady
      PROVE  LET q == seen[u].state.rollover IN Kept(Roll(u), q, Hindered) /\ ~ Serves(u, q)
  <2> DEFINE q == seen[u].state.rollover
  <2>1. u \in Honest \ asleep
    BY DEF Steady
  <2>2. Shape(u, q)
    BY <1>1, <2>1 DEF Stepped, Good, Turn
  <2>3. PICK m, commands : m.group = GenesisGroup /\ CommitEffect(m, q, commands, p, valid)
    BY <2>1 DEF GenesisCalled
  <2> HIDE DEF q
  <2>4. q.group = GenesisGroup
    BY <2>3 DEF CommitEffect, SameRound, Unmoved
  <2> QED BY <2>2, <2>4, GenesisKept DEF q
<1> QED BY <1>1, <1>4, <1>5, <1>6, UnservedKeeps

\* keyGen
LEMMA KeyGenCallKeeps ==
    ASSUME Inv1, Inv2, Inv3, effects = {}, CallKeyGen
    PROVE  Inv3'
<1> DEFINE group == GenesisGroup
           seen == [v \in Honest |-> IF v \in asleep THEN Ignored(view[v])
                     ELSE HandleGenesisKeyGen(view[v], v, group)]
<1>1. /\ group \notin DOMAIN groups /\ SetGroup(group, EmptyGroup)
      /\ late' = late /\ cancelled \subseteq cancelled' /\ Handled({}, seen)
  BY DEF CallKeyGen, Dispatch, Seen
<1>2. asleep \subseteq Honest /\ Steady \subseteq Honest \ asleep
  BY HonestAssumption DEF Inv1, TypesOK, Steady
<1>3. /\ \A v \in asleep : seen[v] = Ignored(view[v])
      /\ \A v \in Honest \ asleep : seen[v] = HandleGenesisKeyGen(view[v], v, group)
  BY <1>2
<1> HIDE DEF seen
<1>4. Stepped(seen, block)
  BY <1>1, <1>3, GenesisEvent DEF Event
<1>5. \A g \in Group : Told(g, Entry(g)')
  <2>1. Told(group, EmptyGroup)
    BY DEF Told, EmptyGroup
  <2> HIDE DEF group
  <2> QED BY <1>1, <2>1, ToldCall
<1>6. ASSUME NEW v \in Honest \ asleep PROVE seen[v] = StartKeyGen(view[v], v, group, 0)
  <2>1. Roll(v).stage = "WaitingForGenesis"
    BY <1>1 DEF Inv1, ViewsOK
  <2> QED BY <1>3, <2>1 DEF HandleGenesisKeyGen, Roll, GenesisGroup
<1>7. ASSUME NEW v \in Honest PROVE Blameless(seen[v].commands)
  <2>1. CASE v \in asleep
    <3>1. Ignored(view[v]).commands = {}
      BY DEF Ignored, Result
    <3> QED BY <1>3, <2>1, <3>1 DEF Blameless
  <2>2. CASE v \notin asleep
    <3>1. seen[v] = StartKeyGen(view[v], v, group, 0)
      BY <1>6, <2>2
    <3>2. \A c \in seen[v].commands : c.kind # "KeyGenComplain"
      BY <3>1 DEF StartKeyGen, Result, KeyGenSetup
    <3> QED BY <3>2 DEF Blameless
  <2> QED BY <2>1, <2>2
<1>8. ASSUME NEW u \in Steady
      PROVE  LET q == seen[u].state.rollover IN Kept(Roll(u), q, Hindered) /\ ~ Serves(u, q)
  <2>1. u \in Honest \ asleep /\ Roll(u).stage = "WaitingForGenesis" /\ Ready(u, view[u], block)
    BY <1>1, <1>2, AllReady DEF Inv1, ViewsOK
  <2>2. Formed(group) /\ group.epoch = Genesis /\ IsAhead(view[u].rollover, group)
    BY <2>1, ViableFormed, EpochsAssumption DEF GenesisGroup, IsAhead, Roll
  <2>3. Started(u, view[u], view[u].rollover, group, 0, seen[u])
    BY <1>6, <2>1, <2>2, StartTurn DEF Ready, GenesisGroup
  <2>4. Shape(u, seen[u].state.rollover) /\ seen[u].state.rollover.group = GenesisGroup
    BY <2>3 DEF Started, Turn
  <2> QED BY <2>4, GenesisKept
<1> QED BY <1>1, <1>4, <1>5, <1>7, <1>8, UnservedKeeps

\* stageEpoch
LEMMA StageCallKeeps ==
    ASSUME Inv1, Inv2, Inv3, effects = {}, NEW group, NEW seen, StageCalled(group, seen)
    PROVE  Inv3'
<1>1. Handled({}, seen) /\ Stepped(seen, block) /\ late' = late /\ cancelled \subseteq cancelled'
  BY DEF StageCalled
<1>2. \A g \in Group : Told(g, Entry(g)')
  <2>1. \A g : Entry(g)' = Entry(g)
    BY DEF StageCalled, Entry
  <2>2. \A g : Told(g, Entry(g))
    BY DEF Told, Confirmed, Complained
  <2> QED BY <2>1, <2>2
<1>3. \A v \in Honest : Blameless(seen[v].commands)
  BY DEF StageCalled, Blameless
<1>4. ASSUME NEW u \in Steady
      PROVE  LET q == seen[u].state.rollover IN Kept(Roll(u), q, Hindered) /\ ~ Serves(u, q)
  <2>1. seen[u].state.rollover.group = NoGroup
    BY DEF StageCalled, Idle, Rollover
  <2> QED BY <2>1 DEF Kept, Serves
<1> QED BY <1>1, <1>2, <1>3, <1>4, UnservedKeeps

\* The effect of a set up: the commitment is on the way.
LEMMA SetupKeeps ==
    ASSUME Inv1, Inv2, Inv3, SetupDone
    PROVE  Inv3'
<1>1. PICK me, g, s : SetupEffect(me, g, s)
  BY SetupCall
<1>2. /\ Steady' = Steady /\ Steady \subseteq Honest /\ groups' = groups /\ block' = block /\ late' = late /\ cancelled \subseteq cancelled'
      /\ pool' = pool \cup {Transaction(me, KeyGenAndCommit(g))} /\ me \in Honest
      /\ Roll(me).group = g /\ Roll(me).stage = "CollectingCommitments"
      /\ Roll(me)' = [Roll(me) EXCEPT !.participation = "Participating"]
      /\ \A v \in Honest : v # me => Roll(v)' = Roll(v)
  BY <1>1 DEF SetupEffect, Steady
<1>3. Roll(me) \in RolloverState
  BY <1>2 DEF Inv1, ViewsOK, Shape
<1>4. \A h : Entry(h)' = Entry(h)
  BY <1>2 DEF Entry
<1>5. KeyGenAndCommit(g).kind = "KeyGenAndCommit"
  BY Kinds
<1>6. BlameOK'
  <2> SUFFICES ASSUME NEW v \in Honest, NEW h \in Group, NEW a \in Participants, Complained(v, h, a)'
               PROVE  a \in Faulty
    BY DEF BlameOK
  <2>1. KeyGenComplain(h, a) # KeyGenAndCommit(g)
    BY DEF KeyGenComplain, KeyGenAndCommit
  <2>2. Transaction(v, KeyGenComplain(h, a)) # Transaction(me, KeyGenAndCommit(g))
    BY <2>1 DEF Transaction
  <2>3. Complained(v, h, a)
    BY <1>2, <1>4, <2>2 DEF Complained
  <2> QED BY <2>3 DEF Inv3, BlameOK
<1>7. HonestKept'
  <2>1. ASSUME NEW u \in Steady PROVE Kept(Roll(u), Roll(u)', Hindered')
    BY <1>2, <1>3 DEF Kept, RolloverState
  <2> QED BY <1>2, <2>1, KeptKeeps DEF Inv3
<1>8. DutiesOK'
  <2> SUFFICES ASSUME NEW u \in Prompt', NEW h, h = Roll(u)'.group, Serves(u, Roll(u)')
               PROVE  Duty(u, Roll(u)', Entry(h)', Queued(u)', block')
    BY DEF DutiesOK, Entry
  <2>0. u \in Steady /\ (Roll(u).group = h => u \in Prompt)
    BY <1>2, StaysPrompt
  <2>1. /\ Transaction(me, KeyGenAndCommit(g)).from = me
        /\ Transaction(me, KeyGenAndCommit(g)).c = KeyGenAndCommit(g)
    BY DEF Transaction
  <2>2. CASE u # me
    <3>1. Queued(u)' = Queued(u)
      BY <1>2, <2>1, <2>2 DEF Queued
    <3>2. Roll(u)' = Roll(u) /\ h = Roll(u).group
      BY <1>2, <2>0, <2>2
    <3>3. Duty(u, Roll(u), Entry(h), Queued(u), block)
      BY <2>0, <3>2 DEF Inv3, DutiesOK
    <3> QED BY <1>2, <1>4, <3>1, <3>2, <3>3
  <2>3. CASE u = me
    <3> DEFINE r == Roll(me)
               q == Roll(me)'
    <3>1. Queued(me)' = Queued(me) \cup {KeyGenAndCommit(g)}
      BY <1>2, <2>1 DEF Queued
    <3>2. /\ q.group = g /\ q.stage = "CollectingCommitments" /\ q.commitments = r.commitments
          /\ q.next_epoch = r.next_epoch /\ h = g
      BY <1>2, <1>3, <2>3 DEF RolloverState
    <3>3. Serves(me, r)
      BY <1>2, <2>3, <3>2 DEF Serves, Timed
    <3>4. Duty(me, r, Entry(g), Queued(me), block)
      BY <1>2, <2>0, <2>3, <3>2, <3>3 DEF Inv3, DutiesOK
    <3>5. \A a : KeyGenComplain(g, a) # KeyGenAndCommit(g)
      BY DEF KeyGenComplain, KeyGenAndCommit
    <3>6. /\ me \in Entry(g).registered => me \in r.commitments
          /\ \A a \in Participants : KeyGenComplain(g, a) \notin Queued(me)
      BY <1>2, <3>4 DEF Duty
    <3>7. KeyGenAndCommit(g) \in Queued(me)' /\ \A a \in Participants : KeyGenComplain(g, a) \notin Queued(me)'
      BY <3>1, <3>5, <3>6
    <3> HIDE DEF q
    <3>8. Duty(me, q, Entry(g), Queued(me)', block)
      BY <3>2, <3>6, <3>7 DEF Duty
    <3> QED BY <1>2, <1>4, <2>3, <3>2, <3>8 DEF q
  <2> QED BY <2>2, <2>3
<1> QED BY <1>6, <1>7, <1>8 DEF Inv3

\* A member with an empty queue has done its part in the round.
LEMMA NotStalled ==
    ASSUME NEW me, NEW r, NEW g, NEW G, NEW b, Serving(me, r, g, G, {}, b), r.stage # "SigningRollover"
    PROVE  me \notin Stalled(r)
<1>1. /\ me \in g.members /\ r.group = g /\ r.participation = "Participating" /\ g.members \subseteq Participants
      /\ Duty(me, r, G, {}, b) /\ r.stage \in Busy /\ GroupOK(g, G)
  BY ServingMember DEF Serving, Following
<1>2. CASE r.stage = "CollectingCommitments"
  BY <1>1, <1>2 DEF Duty, Stalled
<1>3. CASE r.stage = "CollectingShares"
  BY <1>1, <1>3 DEF Duty, Stalled
<1>4. CASE r.stage = "CollectingConfirmations"
  <2>1. SharesDue(me, r, G, {}, b) /\ BlamesDue(me, r, G, {}) /\ ResponsesDue(me, r, G, {}) /\ ConfirmationDue(me, r, {}, b)
    BY <1>1, <1>4 DEF Duty
  <2>2. CASE Unresponded(r) # {}
    <3>1. me \notin Unresponded(r)
      <4>1. r.complaints[me].unresponded \subseteq Participants /\ me \in Participants
        BY <1>1, ServingMember
      <4> QED BY <2>1, <4>1 DEF ResponsesDue, Unresponded
    <3> QED BY <1>4, <2>2, <3>1 DEF Stalled
  <2>3. CASE Unresponded(r) = {}
    <3>1. ASSUME NEW p \in g.members PROVE p \in r.shares
      <4>1. me \notin r.complaints[p].unresponded
        BY <1>1, <2>3 DEF Unresponded
      <4> QED BY <1>1, <1>4, <2>1, <4>1 DEF SharesDue, Owed, WillComplain
    <3>2. r.shares \subseteq g.members
      BY <1>1, <2>1 DEF BlamesDue, GroupOK
    <3>3. r.shares = g.members
      BY <3>1, <3>2
    <3>4. me \in r.confirmations
      BY <1>1, <2>1, <3>3 DEF ConfirmationDue
    <3> QED BY <1>4, <2>3, <3>4 DEF Stalled
  <2> QED BY <2>2, <2>3
<1> QED BY <1>1, <1>2, <1>3, <1>4 DEF Busy

\* Who has sent nothing that is pending is not slow, and an expired round does not leave it out.
LEMMA PromptKept ==
    ASSUME Inv1, Inv2, Inv3, effects = {}, NEW u \in Steady, NEW b, Timed(Roll(u)), IsExpired(Roll(u), b),
           NEW v \in Steady, <<Roll(u).group.epoch, v>> \notin Hindered, Queued(v) = {},
           v \in Roll(u).group.members
    PROVE  v \notin Stalled(Roll(u))
<1>1. u \in Honest /\ v \in Honest \ asleep /\ v \notin joined /\ v \in Steady
  BY DEF Steady
<1>2. Alike(Roll(u), Roll(v))
  BY <1>1, CommonAlike DEF Inv1, AgreeOK
<1>3. Stalled(Roll(u)) = Stalled(Roll(v)) /\ IsExpired(Roll(v), b)
  BY <1>2, StalledAlike
<1>4. Roll(v).stage \in {"CollectingCommitments", "CollectingShares", "CollectingConfirmations"}
  BY <1>3 DEF IsExpired
<1>5. Roll(v).group = Roll(u).group /\ Timed(Roll(v)) /\ Roll(v).group # NoGroup
  BY <1>1, <1>2, <1>4 DEF Alike, Timed, Inv1, ViewsOK, Shape, Busy
<1>6. Serves(v, Roll(v))
  BY <1>5 DEF Serves
<1>7. Serving(v, Roll(v), Roll(v).group, Entry(Roll(v).group), {}, block)
  <2>1. v \in Prompt
    BY <1>5 DEF Prompt
  <2> QED BY <1>6, <2>1, IsServing
<1>8. v \notin Stalled(Roll(v))
  BY <1>4, <1>7, NotStalled
<1> QED BY <1>3, <1>8

\* A block that ends no round leaves a member with an empty queue its duty.
LEMMA BlockDuty ==
    ASSUME NEW me, NEW r, NEW g, NEW G, NEW b, Serving(me, r, g, G, {}, b), ~ IsExpired(r, b + 1)
    PROVE  Duty(me, r, G, {}, b + 1)
<1>1. Duty(me, r, G, {}, b) /\ b \in Nat /\ r.deadline \in Nat
  BY ServingMember DEF Serving
<1>2. SharesDue(me, r, G, {}, b) => SharesDue(me, r, G, {}, b + 1)
  BY DEF SharesDue, WillComplain
<1>3. ASSUME r.stage = "CollectingConfirmations", Unresponded(r) # {} PROVE b + 1 < ResponseDeadline(r)
  <2>1. ResponseDeadline(r) \in Nat
    BY <1>1, KeyGenTimeoutAssumption DEF ResponseDeadline
  <2> QED BY <1>1, <1>3, <2>1 DEF IsExpired
<1>4. r.stage = "CollectingConfirmations" /\ ConfirmationDue(me, r, {}, b) => ConfirmationDue(me, r, {}, b + 1)
  BY <1>3 DEF ConfirmationDue
<1> QED BY <1>1, <1>2, <1>4 DEF Duty

\* A new block: a validator that has something pending is slow now, and the others have done
\* what the rounds that expire were waiting for.
LEMMA BlockCallKeeps ==
    ASSUME Inv1, Inv2, Inv3, effects = {}, NEW seen, BlockCalled(seen)
    PROVE  Inv3'
<1> DEFINE gone == {x \in pool : ~ IsFollowed(seen, x.c.group)}
<1>1. /\ Stepped(seen, block') /\ Handled(gone, seen) /\ block' = block + 1 /\ late \subseteq late' /\ cancelled \subseteq cancelled'
  BY DEF BlockCalled
<1> HIDE DEF gone
<1>2. /\ Steady' = Steady /\ Steady \subseteq Honest \ asleep
      /\ \A v \in Honest : Roll(v)' = seen[v].state.rollover
  BY <1>1, HandledViews DEF Steady
<1>3. ASSUME NEW v \in Honest
      PROVE  LET r == Roll(v) q == seen[v].state.rollover IN
             /\ Turn(v, r, q, seen[v].commands) /\ Shape(v, r)
             /\ v \notin asleep => BlockEffect(r, q, seen[v].commands, block')
             /\ Unmoved(r, q, seen[v].commands) \/ r.stage # "WaitingForGenesis"
  <2> DEFINE r == Roll(v)
             q == seen[v].state.rollover
  <2>1. Turn(v, r, q, seen[v].commands) /\ Shape(v, r)
    BY <1>1 DEF Stepped, Good, Roll, Inv1, ViewsOK
  <2>2. CASE v \in asleep
    <3>1. Ignored(view[v]).state = view[v] /\ Ignored(view[v]).commands = {}
      BY DEF Ignored, Result
    <3>2. Unmoved(r, q, seen[v].commands)
      BY <1>1, <2>2, <3>1 DEF Stepped, Unmoved, Roll
    <3> QED BY <2>1, <2>2, <3>2
  <2>3. CASE v \notin asleep
    <3>1. BlockEffect(r, q, seen[v].commands, block')
      BY <2>3 DEF BlockCalled
    <3>2. r.stage = "WaitingForGenesis" => ~ Rolls(r, block') /\ ~ IsExpired(r, block')
      BY <2>1 DEF Shape, Idle, Rollover, Rolls, IsExpired
    <3> QED BY <2>1, <3>1, <3>2 DEF BlockEffect
  <2> QED BY <2>2, <2>3
<1>4. BlameOK'
  <2>1. ASSUME NEW g \in Group PROVE Told(g, Entry(g)')
    <3>1. Told(g, Entry(g)) /\ Told(g, EmptyGroup)
      BY DEF Told, Confirmed, Complained, EmptyGroup
    <3> QED BY <3>1 DEF BlockCalled
  <2>2. ASSUME NEW v \in Honest PROVE Blameless(seen[v].commands)
    <3> DEFINE r == Roll(v)
               q == seen[v].state.rollover
    <3>1. CASE Unmoved(r, q, seen[v].commands)
      BY <3>1 DEF Unmoved, Blameless
    <3>2. CASE r.stage # "WaitingForGenesis" /\ q.group # r.group
      BY <1>3, <3>2, LeftBlameless
    <3>3. CASE ~ Unmoved(r, q, seen[v].commands) /\ q.group = r.group
      <4>1. BlockEffect(r, q, seen[v].commands, block') \/ v \in asleep
        BY <1>3
      <4>2. v \notin asleep
        <5>1. Ignored(view[v]).state = view[v] /\ Ignored(view[v]).commands = {}
          BY DEF Ignored, Result
        <5> QED BY <1>1, <3>3, <5>1 DEF Stepped, Unmoved, Roll
      <4>3. q.group = NoGroup
        BY <3>3, <4>1, <4>2 DEF BlockEffect, Leaves
      <4>4. \A c \in seen[v].commands : c \in Command /\ c.group = NoGroup
        BY <1>3, <4>3 DEF Turn
      <4>5. \A c \in Command : c.group # NoGroup
        BY NoGroupAssumption DEF Command, Group
      <4> QED BY <4>4, <4>5 DEF Blameless
    <3> QED BY <1>3, <3>1, <3>2, <3>3
  <2> QED BY <1>1, <2>1, <2>2, BlameKeeps DEF Inv3
<1>5. ASSUME NEW v \in Steady, NEW e \in Epochs, <<e, v>> \notin Hindered'
      PROVE  Queued(v) = {} /\ <<e, v>> \notin Hindered
  <2>1. <<e, v>> \in Epochs \X Participants
    BY HonestAssumption DEF Steady
  <2>2. v \notin late'
    BY <1>5, <2>1 DEF Hindered
  <2>3. Queued(v) = {}
    BY <2>2 DEF BlockCalled, Queued
  <2> QED BY <1>1, <1>5, <2>3, HinderedGrows
<1>6. HonestKept'
  <2>1. ASSUME NEW u \in Steady PROVE Kept(Roll(u), Roll(u)', Hindered')
    <3> DEFINE r == Roll(u)
               q == seen[u].state.rollover
    <3>1. /\ BlockEffect(r, q, seen[u].commands, block') /\ Roll(u)' = q /\ Shape(u, r)
      BY <1>2, <1>3
    <3>2. CASE Rolls(r, block')
      <4>1. Kept(r, q, Hindered')
        BY <3>1, <3>2 DEF BlockEffect, Kept
      <4> QED BY <3>1, <4>1
    <3>3. CASE ~ Rolls(r, block') /\ Timed(r) /\ IsExpired(r, block')
      <4>1. Leaves(r, q, Stalled(r))
        BY <3>1, <3>3 DEF BlockEffect
      <4>3. r.group # NoGroup /\ r.group.epoch \in Epochs
        BY <3>1, <3>3 DEF IsExpired, Shape, Busy, Formed, Group
      <4>2. ASSUME NEW v \in Steady, v \in r.group.members, <<r.group.epoch, v>> \notin Hindered'
            PROVE  v \notin Stalled(r)
        BY <1>5, <3>3, <4>2, <4>3, PromptKept
      <4>4. Kept(r, q, Hindered')
        BY <4>1, <4>2, <4>3 DEF Leaves, Kept
      <4> QED BY <3>1, <4>4
    <3>4. CASE ~ Rolls(r, block') /\ ~ (Timed(r) /\ IsExpired(r, block'))
      <4>1. q = r
        BY <3>1, <3>4 DEF BlockEffect, Unmoved
      <4>2. Kept(r, q, Hindered')
        BY <4>1 DEF Kept
      <4> QED BY <3>1, <4>2
    <3> QED BY <3>2, <3>3, <3>4
  <2> QED BY <1>1, <1>2, <2>1, KeptKeeps DEF Inv3
<1>7. DutiesOK'
  <2> SUFFICES ASSUME NEW u \in Prompt', NEW g, g = Roll(u)'.group, Serves(u, Roll(u)')
               PROVE  Duty(u, Roll(u)', Entry(g)', Queued(u)', block')
    BY DEF DutiesOK, Entry
  <2>0. u \in Steady /\ (Roll(u).group = g => u \in Prompt)
    BY <1>1, <1>2, StaysPrompt
  <2> DEFINE r == Roll(u)
             q == seen[u].state.rollover
  <2>1. /\ u \in Honest \ asleep /\ Roll(u)' = q /\ q.group = g /\ g # NoGroup /\ Queued(u) = {}
        /\ Serves(u, q)
    <3>1. u \in Honest \ asleep /\ Roll(u)' = q /\ q.group = g /\ g # NoGroup /\ Serves(u, q)
      BY <1>2, <2>0 DEF Serves
    <3>2. Shape(u, q)
      BY <1>1, <3>1 DEF Stepped, Good, Turn
    <3>3. g.epoch \in Epochs
      BY <3>1, <3>2 DEF Shape, Formed, Group
    <3>4. <<g.epoch, u>> \notin Hindered'
      BY DEF Prompt
    <3> QED BY <1>5, <2>0, <3>1, <3>3, <3>4
  <2>2. BlockEffect(r, q, seen[u].commands, block')
    BY <1>3, <2>1
  <2>3. CASE q.group = r.group
    <3>1. q = r /\ seen[u].commands = {} /\ ~ (Timed(r) /\ IsExpired(r, block'))
      BY <2>1, <2>2, <2>3 DEF BlockEffect, Leaves, Unmoved
    <3>2. ~ IsExpired(r, block + 1)
      BY <1>1, <2>1, <3>1 DEF Serves
    <3>3. Entry(g)' = Entry(g)
      <4>1. IsFollowed(seen, g)
        BY <2>1 DEF IsFollowed
      <4> QED BY <4>1 DEF BlockCalled
    <3>4. Queued(u)' = {}
      <4>1. ASSUME NEW c PROVE c \notin Queued(u)'
        BY <1>1, <2>1, <3>1, HandledQueue
      <4> QED BY <4>1
    <3>5. Serving(u, r, g, Entry(g), {}, block)
      BY <2>0, <2>1, <2>3, <3>1, IsServing
    <3>6. Duty(u, r, Entry(g), {}, block + 1)
      BY <3>2, <3>5, BlockDuty
    <3> QED BY <1>1, <2>1, <3>1, <3>3, <3>4, <3>6
  <2>4. CASE q.group # r.group
    <3>1. r.stage # "WaitingForGenesis"
      BY <1>3, <2>1, <2>4 DEF Unmoved
    <3>2. Entry(g)' \in {Entry(g), EmptyGroup}
      BY DEF BlockCalled
    <3>3. Duty(u, q, Entry(g)', Queued(u)', block')
      BY <1>1, <2>0, <2>1, <2>4, <3>1, <3>2, FreshDuty
    <3> QED BY <2>1, <3>3
  <2> QED BY <2>3, <2>4
<1> QED BY <1>4, <1>6, <1>7 DEF Inv3

\* The coordinator is in the round of a member that collects shares or confirmations.
LEMMA RoundOpen ==
    ASSUME Inv1, Inv2, NEW u \in Steady, NEW g, Roll(u).group = g, Serves(u, Roll(u)),
           Roll(u).stage \in {"CollectingShares", "CollectingConfirmations"}
    PROVE  LET G == groups[g] IN
           /\ g \in DOMAIN groups /\ Entry(g) = G /\ GroupOK(g, G) /\ Following(u, Roll(u), g, G)
           /\ G.status \in {"SHARING", "CONFIRMING"} /\ G.registered = g.members
           /\ Roll(u).stage = "CollectingConfirmations" => G.status = "CONFIRMING"
           /\ u \in G.confirmed => Roll(u).confirmed
<1> DEFINE r == Roll(u)
           G == Entry(g)
<1>1. g # NoGroup /\ u \in Honest /\ Timed(r) /\ u \in g.members
  BY DEF Serves, Steady
<1>2. Following(u, r, g, G)
  BY <1>1, IsFollowing
<1>3. g \in Group /\ GroupOK(g, G) /\ Shape(u, r) /\ Follow(r, G)
  BY <1>2 DEF Following
<1>4. G.status # "COMMITTING"
  BY <1>3 DEF Follow
<1>5. g \in DOMAIN groups /\ groups[g] = G
  BY <1>4 DEF Entry, EmptyGroup
<1>6. G.status # "COMPROMISED"
  BY <1>5, Abandoned DEF CompromisedAbandoned, Roll
<1>7. u \in G.confirmed => r.confirmed
  <2>1. ASSUME u \in G.confirmed PROVE MayConfirm(r, g)
    BY <1>1, <1>3, <2>1 DEF Inv2, HistoryOK, Confirmed
  <2>2. ~ Past(r, g)
    BY <1>3, NotBoth
  <2> QED BY <2>1, <2>2 DEF MayConfirm
<1>8. G.status # "FINALIZED"
  <2> SUFFICES ASSUME G.status = "FINALIZED" PROVE FALSE
    OBVIOUS
  <2>1. G.confirmed = g.members
    BY <1>3 DEF GroupOK
  <2>2. r.confirmed
    BY <1>1, <1>7, <2>1
  <2>3. r.stage = "CollectingConfirmations"
    BY <1>3, <2>2 DEF Shape
  <2>4. r.confirmations = g.members
    BY <1>3, <2>1, <2>3 DEF Follow
  <2> QED BY <1>1, <1>3, <2>3, <2>4 DEF Shape, Open
<1>9. /\ G.status \in {"SHARING", "CONFIRMING"} /\ G.registered = g.members
      /\ r.stage = "CollectingConfirmations" => G.status = "CONFIRMING"
  BY <1>3, <1>4, <1>6, <1>8 DEF GroupOK, ContractGroup, Follow
<1> HIDE DEF G
<1> QED BY <1>2, <1>3, <1>5, <1>7, <1>9 DEF G

\* Consensus accepts the rollover that the validators prepare.
LEMMA RolloverAccepted ==
    ASSUME Inv1, NEW u \in Steady, NEW g, Roll(u).group = g, Serves(u, Roll(u))
    PROVE  IsValidRollover(g.epoch)
<1> DEFINE r == Roll(u)
<1>1. u \in Honest /\ g # NoGroup /\ Timed(r) /\ Shape(u, r)
  BY DEF Serves, Steady, Inv1, ViewsOK
<1>2. r.stage \in Busy /\ r.next_epoch = g.epoch /\ g \in Group
  BY <1>1 DEF Shape, Formed
<1>3. r.next_epoch = NextNumber(block)
  BY <1>1, <1>2 DEF Inv1, ViewsOK, Busy, Timed
<1>4. /\ view[u].active_epoch = EpochsWithRollover.active /\ view[u].active_epoch < NextNumber(block)
      /\ EpochsWithRollover.staged = Genesis
  BY <1>2 DEF Inv1, SyncOK, Busy
<1>5. block \in Nat /\ g.epoch \in Nat
  <2>1. block \in Nat
    BY BlocksAssumption DEF Inv1, TypesOK
  <2>2. g.epoch \in Nat
    BY <1>2, EpochsAssumption DEF Group
  <2> QED BY <2>1, <2>2
<1>6. RolloverBlock(g.epoch) \in Nat /\ ~ (RolloverBlock(g.epoch) <= block)
  BY <1>2, <1>3, <1>5, RolloverBlockPassed
<1>7. RolloverBlock(g.epoch) > block
  BY <1>5, <1>6
<1> QED BY <1>2, <1>3, <1>4, <1>7 DEF IsValidRollover

\* A transaction of member u of group g that is refused is one that u's duty does without.
LEMMA RefusedDuty ==
    ASSUME Inv1, Inv2, Inv3, NEW u \in Prompt, NEW g, Roll(u).group = g, Serves(u, Roll(u)),
           NEW x \in pool, x.from = u, x.c.group = g, Refused(x),
           NEW T, T \subseteq Queued(u), \A d \in Queued(u) : d \in T \/ d = x.c
    PROVE  Duty(u, Roll(u), Entry(g), T, block)
<1> DEFINE r == Roll(u)
           G == Entry(g)
           S == Queued(u)
<1>1. /\ g # NoGroup /\ u \in Honest /\ u \in g.members /\ Timed(r) /\ Following(u, r, g, G)
      /\ Duty(u, r, G, S, block) /\ u \in Steady
  BY IsFollowing DEF Serves, Steady, Inv3, DutiesOK, Prompt
<1>2. g \in Group /\ GroupOK(g, G) /\ Shape(u, r) /\ r.stage \in Busy /\ g.members \subseteq Participants
  BY <1>1 DEF Following, Group
<1>3. x.c \in S /\ x.c \in Command
  BY DEF Queued, Inv1, QueuesOK
<1>0. /\ \A c : c = KeyGenAndCommit(g) => c.kind = "KeyGenAndCommit"
      /\ \A c : c = KeyGenSecretShare(g) => c.kind = "KeyGenSecretShare"
      /\ \A c : c = KeyGenConfirm(g) => c.kind = "KeyGenConfirm"
  BY Kinds
<1>4. CASE r.stage = "CollectingCommitments"
  <2>1. ASSUME KeyGenAndCommit(g) = x.c, u \notin r.commitments PROVE FALSE
    <3>1. x.c.kind = "KeyGenAndCommit"
      BY <1>0, <2>1
    <3>2. ~ CanCommit(g, u)
      BY <3>1 DEF Refused
    <3>3. u \notin G.registered
      BY <1>1, <1>4, <2>1 DEF Duty
    <3>4. G.status = "COMMITTING"
      BY <1>1, <1>2, <3>3 DEF GroupOK
    <3> QED BY <1>1, <3>2, <3>3, <3>4 DEF CanCommit, Entry
  <2> QED BY <1>1, <1>4, <2>1 DEF Duty
<1>5. CASE r.stage \in {"CollectingShares", "CollectingConfirmations"}
  <2>1. /\ g \in DOMAIN groups /\ groups[g] = G
        /\ G.status \in {"SHARING", "CONFIRMING"} /\ G.registered = g.members
        /\ r.stage = "CollectingConfirmations" => G.status = "CONFIRMING"
        /\ u \in G.confirmed => r.confirmed
    BY <1>1, <1>5, RoundOpen
  <2>2. SharesDue(u, r, G, S, block) /\ BlamesDue(u, r, G, S) /\ ResponsesDue(u, r, G, S)
    BY <1>1, <1>5 DEF Duty
  <2>3. G.keys \subseteq g.members
    BY <1>2 DEF GroupOK
  <2> HIDE DEF G
  <2>4. ASSUME r.stage = "CollectingShares", u \notin r.shared PROVE KeyGenSecretShare(g) \in T
    <3>1. KeyGenSecretShare(g) \in S /\ u \notin G.keys
      BY <1>1, <2>4 DEF Duty
    <3>2. G.status = "SHARING"
      BY <1>1, <1>2, <2>1, <3>1 DEF GroupOK
    <3>3. CanShare(g, u, TRUE)
      <4>1. <<g.epoch, u>> \in Epochs \X Participants /\ <<g.epoch, u>> \notin Hindered
        BY <1>1, <1>2 DEF Group, Prompt
      <4>2. [group |-> g, member |-> u] \notin cancelled
        BY <4>1 DEF Hindered, Robbed
      <4> QED BY <1>1, <2>1, <3>1, <3>2, <4>2 DEF CanShare
    <3>4. KeyGenSecretShare(g) # x.c
      BY <1>0, <3>3 DEF Refused
    <3> QED BY <3>1, <3>4
  <2>5. ASSUME r.stage = "CollectingConfirmations", r.confirmed, u \notin r.confirmations
        PROVE  KeyGenConfirm(g) \in T
    <3>1. ConfirmationDue(u, r, S, block)
      BY <1>1, <2>5 DEF Duty
    <3>2. KeyGenConfirm(g) \in S /\ r.shares = g.members
      BY <2>5, <3>1 DEF ConfirmationDue
    <3>3. u \notin G.confirmed /\ G.status = "CONFIRMING"
      BY <1>1, <2>1, <2>5 DEF Following, Follow
    <3>4. OpenComplaints(G, u) = {}
      <4>1. ASSUME NEW c \in G.complaints \ G.responded, c.plaintiff = u PROVE FALSE
        <5>1. c = Complaint(u, c.accused) /\ c.accused \in Participants
          BY <1>2, <4>1 DEF GroupOK, ContractGroup, Complaint
        <5>2. c.accused \in G.keys /\ (c.accused \in r.shares => c \in G.responded)
          BY <2>2, <4>1, <5>1 DEF BlamesDue
        <5> QED BY <2>3, <3>2, <4>1, <5>2
      <4> QED BY <4>1 DEF OpenComplaints
    <3>5. IsValidRollover(g.epoch)
      BY <1>1, RolloverAccepted
    <3>6. CanConfirm(g, u, g.epoch # Genesis)
      BY <1>1, <2>1, <3>3, <3>4, <3>5 DEF CanConfirm
    <3>7. KeyGenConfirm(g) # x.c
      BY <1>0, <3>6 DEF Refused
    <3> QED BY <3>2, <3>7
  <2>6. ASSUME NEW p \in Participants, KeyGenComplain(g, p) \in S PROVE KeyGenComplain(g, p) \in T
    <3>1. p \in G.keys \ r.shares /\ Complaint(u, p) \notin G.complaints
      BY <2>2, <2>6 DEF BlamesDue
    <3>2. Transaction(u, KeyGenComplain(g, p)) \in pool
      <4>1. PICK y \in pool : y.from = u /\ y.c = KeyGenComplain(g, p)
        BY <2>6 DEF Queued
      <4>2. y = Transaction(u, KeyGenComplain(g, p))
        BY <4>1 DEF Inv1, QueuesOK
      <4> QED BY <4>1, <4>2
    <3>3. p \in Faulty /\ p # u
      BY <1>1, <1>2, <3>2 DEF Inv3, BlameOK, Complained, Faulty
    <3>4. u \notin G.confirmed
      <4>1. SUFFICES ASSUME u \in G.confirmed PROVE FALSE
        OBVIOUS
      <4>2. r.confirmed /\ r.stage = "CollectingConfirmations"
        BY <1>2, <1>5, <2>1, <4>1 DEF Shape
      <4>3. r.shares = g.members
        BY <1>1, <4>2 DEF Duty, ConfirmationDue
      <4> QED BY <2>3, <3>1, <4>3
    <3>5. [plaintiff |-> u, accused |-> p] \notin G.complaints
      BY <3>1 DEF Complaint
    <3>6. CanComplain(g, u, p)
      BY <1>1, <2>1, <2>3, <3>1, <3>3, <3>4, <3>5 DEF CanComplain
    <3>7. KeyGenComplain(g, p).kind = "KeyGenComplain" /\ KeyGenComplain(g, p).accused = p
      BY DEF KeyGenComplain
    <3>8. KeyGenComplain(g, p) # x.c
      BY <3>6, <3>7 DEF Refused
    <3> QED BY <2>6, <3>8
  <2>7. ASSUME NEW p \in Participants, p \in r.complaints[u].unresponded
        PROVE  KeyGenComplaintResponse(g, p) \in T
    <3>1. Complaint(p, u) \in G.complaints \ G.responded /\ KeyGenComplaintResponse(g, p) \in S
      BY <1>1, <1>2, <2>2, <2>7 DEF ResponsesDue
    <3>2. CanRespond(g, p, u)
      BY <2>1, <3>1 DEF CanRespond, Complaint
    <3>3. KeyGenComplaintResponse(g, p).kind = "KeyGenComplaintResponse" /\ KeyGenComplaintResponse(g, p).plaintiff = p
      BY DEF KeyGenComplaintResponse
    <3>4. KeyGenComplaintResponse(g, p) # x.c
      BY <3>2, <3>3 DEF Refused
    <3> QED BY <3>1, <3>4
  <2>8. Owed(r) \subseteq Participants
    BY <1>2 DEF Owed, Shape, RolloverState
  <2>9. SharesDue(u, r, G, T, block)
    BY <2>2, <2>6, <2>8 DEF SharesDue, WillComplain
  <2>10. BlamesDue(u, r, G, T)
    BY <2>2 DEF BlamesDue
  <2>11. ResponsesDue(u, r, G, T)
    BY <2>2, <2>7 DEF ResponsesDue
  <2>12. r.stage = "CollectingConfirmations" => ConfirmationDue(u, r, T, block)
    BY <1>1, <2>5 DEF Duty, ConfirmationDue
  <2>13. r.stage = "CollectingShares" => (u \in G.keys => u \in r.shared) /\ (u \in r.shared \/ KeyGenSecretShare(g) \in T)
    BY <1>1, <2>4 DEF Duty
  <2> QED BY <1>5, <2>9, <2>10, <2>11, <2>12, <2>13 DEF Duty, G
<1>6. CASE r.stage = "SigningRollover"
  BY <1>6 DEF Duty
<1> QED BY <1>2, <1>4, <1>5, <1>6 DEF Busy

\* What the validators and the coordinator know stays; a queue may lose what its owner can do without.
LEMMA QuietKeeps ==
    ASSUME Inv3, pool' \subseteq pool, Steady' = Steady, UNCHANGED <<block, groups, view, late, cancelled>>,
           \A u \in Prompt :
              Serves(u, Roll(u)) => Duty(u, Roll(u), Entry(Roll(u).group), Queued(u)', block)
    PROVE  Inv3'
<1>1. (\A h : Entry(h)' = Entry(h)) /\ (\A v : Roll(v)' = Roll(v))
  BY DEF Entry, Roll
<1>2. BlameOK'
  BY <1>1 DEF Inv3, BlameOK, Complained
<1>3. HonestKept'
  BY DEF Inv3, HonestKept, Robbed
<1>4. DutiesOK'
  <2> SUFFICES ASSUME NEW u \in Prompt', NEW g, g = Roll(u)'.group, Serves(u, Roll(u)')
               PROVE  Duty(u, Roll(u)', Entry(g)', Queued(u)', block')
    BY DEF DutiesOK, Entry
  <2>1. u \in Prompt
    BY <1>1, StaysPrompt
  <2> QED BY <1>1, <2>1
<1> QED BY <1>2, <1>3, <1>4 DEF Inv3

\* A transaction is refused.
LEMMA RevertKeeps ==
    ASSUME Inv1, Inv2, Inv3, Revert
    PROVE  Inv3'
<1>1. PICK x \in pool : Refused(x) /\ pool' = pool \ {x}
  BY DEF Revert
<1>2. Steady' = Steady /\ UNCHANGED <<block, groups, view, late, cancelled>>
  BY DEF Revert, chainVars, Steady
<1>3. ASSUME NEW u \in Prompt, Serves(u, Roll(u))
      PROVE  Duty(u, Roll(u), Entry(Roll(u).group), Queued(u)', block)
  <2> DEFINE g == Roll(u).group
             T == Queued(u)'
  <2>1. Duty(u, Roll(u), Entry(g), Queued(u), block)
    BY <1>3 DEF Inv3, DutiesOK
  <2>2. T \subseteq Queued(u)
    BY <1>1 DEF Queued
  <2>3. ASSUME NEW d \in Queued(u), d \notin T PROVE x.from = u /\ d = x.c
    BY <1>1, <2>3 DEF Queued
  <2> HIDE DEF T
  <2>4. CASE x.from = u /\ x.c.group = g
    BY <1>1, <1>3, <2>2, <2>3, <2>4, RefusedDuty DEF T
  <2>5. CASE ~ (x.from = u /\ x.c.group = g)
    <3>1. \A c : c.group = g => (c \in Queued(u) <=> c \in T)
      BY <2>2, <2>3, <2>5
    <3> QED BY <2>1, <3>1, SameDuty DEF T
  <2> QED BY <2>4, <2>5
<1> QED BY <1>1, <1>2, <1>3, QuietKeeps

\* A transaction of the pool, and what it calls.
LEMMA SubmitKeeps ==
    ASSUME Inv1, Inv2, Inv3, effects = {}, NEW x \in pool, Submit(x)
    PROVE  Inv3'
<1>1. x = Transaction(x.from, x.c) /\ x.from \in Honest /\ x.c \in Command /\ Known(x.c.group)
  BY KnownGroups DEF Inv1, QueuesOK
<1>2. TRUE \in BOOLEAN
  OBVIOUS
<1>3. ASSUME NEW c, x.c = c PROVE SentBy(x, x.from, c)
  BY <1>1, <1>3 DEF SentBy
<1>4. CASE x.c.kind = "KeyGenAndCommit" /\ CallKeyGenAndCommit(x, x.c.group, x.from, TRUE, {})
  <2>1. x.c = KeyGenAndCommit(x.c.group)
    BY <1>1, <1>4 DEF Command, KeyGenAndCommit
  <2>2. x.c.group = GenesisGroup => x.c.group \in DOMAIN groups
    <3>1. ASSUME x.c.group = GenesisGroup, x.c.group \notin DOMAIN groups PROVE FALSE
      <4>1. Roll(x.from).stage = "WaitingForGenesis" /\ Shape(x.from, Roll(x.from)) /\ Reached(Roll(x.from), x.c.group)
        BY <1>1, <3>1 DEF Inv1, ViewsOK, QueuesOK
      <4>2. Roll(x.from).group = NoGroup
        BY <4>1 DEF Shape, Busy
      <4>3. x.c.group # NoGroup
        BY <1>1, NoGroupAssumption DEF Command, Group
      <4> QED BY <4>1, <4>2, <4>3 DEF Reached, Past
    <3> QED BY <3>1
  <2>3. PICK seen : \/ CommitCalled(x, x.c.group, x.from, TRUE, seen)
                    \/ GenesisCalled(x, x.from, TRUE, seen)
    BY <1>1, <1>2, <1>4, <2>2, CommitCall
  <2> QED BY <1>2, <1>3, <2>1, <2>3, CommitKeeps, GenesisCallKeeps
<1>5. CASE x.c.kind = "KeyGenSecretShare" /\ CallKeyGenSecretShare(x, x.c.group, x.from, TRUE, {})
  <2>1. x.c = KeyGenSecretShare(x.c.group)
    BY <1>1, <1>5 DEF Command, KeyGenSecretShare
  <2> QED BY <1>2, <1>3, <1>5, <2>1, ShareCall, ShareKeeps
<1>6. CASE x.c.kind = "KeyGenConfirm" /\ CallKeyGenConfirm(x, x.c.group, x.from, x.c.group.epoch # Genesis)
  <2>1. x.c = KeyGenConfirm(x.c.group)
    BY <1>1, <1>6, CommandFields
  <2> QED BY <1>3, <1>6, <2>1, ConfirmCall, ConfirmKeeps
<1>7. CASE x.c.kind = "KeyGenComplain" /\ CallKeyGenComplain(x, x.c.group, x.from, x.c.accused)
  <2>1. x.c = KeyGenComplain(x.c.group, x.c.accused)
    BY <1>1, <1>7, CommandFields
  <2> QED BY <1>3, <1>7, <2>1, ComplainCall, ComplainKeeps
<1>8. CASE /\ x.c.kind = "KeyGenComplaintResponse"
           /\ CallKeyGenComplaintResponse(x, x.c.group, x.c.plaintiff, x.from, TRUE)
  <2>1. x.c = KeyGenComplaintResponse(x.c.group, x.c.plaintiff)
    BY <1>1, <1>8 DEF Command, KeyGenComplaintResponse
  <2> QED BY <1>2, <1>3, <1>8, <2>1, RespondCall, RespondKeeps
<1> QED BY <1>4, <1>5, <1>6, <1>7, <1>8 DEF Submit

\* What the others do.
LEMMA FaultyKeeps ==
    ASSUME Inv1, Inv2, Inv3, effects = {}, FaultyActs
    PROVE  Inv3'
<1>0. \A p \in Faulty : p \notin Honest /\ \A c : SentBy(Nobody, p, c)
  BY DEF Faulty, SentBy
<1>1. CASE FaultyCommits
  <2>1. PICK p \in Faulty, valid \in BOOLEAN,
             group \in ({view[v].rollover.group : v \in Honest} \ {NoGroup}) \cup {GenesisGroup} :
                \E cancels : CallKeyGenAndCommit(Nobody, group, p, valid, cancels)
    BY <1>1 DEF FaultyCommits
  <2>2. Known(group)
    BY KnownGroups DEF Roll
  <2>3. PICK seen : \/ CommitCalled(Nobody, group, p, valid, seen)
                    \/ GenesisCalled(Nobody, p, valid, seen)
    BY <1>0, <2>1, <2>2, CommitCall
  <2> QED BY <1>0, <2>3, CommitKeeps, GenesisCallKeeps
<1>2. CASE FaultyShares
  <2>1. PICK p \in Faulty, group \in DOMAIN groups, valid \in BOOLEAN, cheated \in SUBSET Honest :
           CallKeyGenSecretShare(Nobody, group, p, valid, cheated)
    BY <1>2 DEF FaultyShares
  <2>2. PICK seen : ShareCalled(Nobody, group, p, valid, cheated, seen)
    BY <2>1, ShareCall
  <2> QED BY <1>0, <2>2, ShareKeeps
<1>3. CASE FaultyConfirms
  <2>1. PICK p \in Faulty, group \in DOMAIN groups, callback \in BOOLEAN :
           CallKeyGenConfirm(Nobody, group, p, callback)
    BY <1>3 DEF FaultyConfirms
  <2>2. PICK seen : ConfirmCalled(Nobody, group, p, seen)
    BY <2>1, ConfirmCall
  <2> QED BY <1>0, <2>2, ConfirmKeeps
<1>4. CASE FaultyComplains
  <2>1. PICK p \in Faulty, group \in DOMAIN groups, accused \in Participants :
           CallKeyGenComplain(Nobody, group, p, accused)
    BY <1>4 DEF FaultyComplains
  <2>2. PICK seen : ComplainCalled(Nobody, group, p, accused, seen)
    BY <2>1, ComplainCall
  <2> QED BY <1>0, <2>2, ComplainKeeps
<1>5. CASE FaultyResponds
  <2>1. PICK p \in Faulty, group \in DOMAIN groups, plaintiff \in Participants, valid \in BOOLEAN :
           CallKeyGenComplaintResponse(Nobody, group, plaintiff, p, valid)
    BY <1>5 DEF FaultyResponds
  <2>2. PICK seen : RespondCalled(Nobody, group, plaintiff, p, valid, seen)
    BY <2>1, RespondCall
  <2> QED BY <1>0, <2>2, RespondKeeps
<1> QED BY <1>1, <1>2, <1>3, <1>4, <1>5 DEF FaultyActs

\* The first state.
LEMMA InitialKeeps ==
    ASSUME Init
    PROVE  Inv3
<1>1. /\ groups = << >> /\ pool = {} /\ view = [v \in Honest |-> InitialState]
  BY DEF Init
<1>2. \A h : Entry(h) = EmptyGroup
  BY <1>1 DEF Entry
<1>3. \A v \in Honest : Roll(v).group = NoGroup
  BY <1>1 DEF Roll, InitialState, Idle, Rollover
<1>4. BlameOK
  BY <1>1, <1>2 DEF BlameOK, Complained, EmptyGroup
<1>5. DutiesOK
  BY <1>3 DEF DutiesOK, Serves, Steady, Prompt
<1>6. HonestKept
  BY <1>3 DEF HonestKept, Steady, Roll
<1> QED BY <1>4, <1>5, <1>6 DEF Inv3

\* Every step keeps the third layer.
LEMMA Inv3Step ==
    ASSUME Inv1, Inv2, Inv3, [Next]_vars
    PROVE  Inv3'
<1>0. ASSUME pool' = pool, Steady' = Steady, UNCHANGED <<block, groups, view, late, cancelled>> PROVE Inv3'
  <2>1. \A u : Queued(u)' = Queued(u)
    BY <1>0 DEF Queued
  <2>2. \A u \in Prompt :
           Serves(u, Roll(u)) => Duty(u, Roll(u), Entry(Roll(u).group), Queued(u)', block)
    BY <2>1 DEF Inv3, DutiesOK
  <2> QED BY <1>0, <2>2, QuietKeeps
<1>1. CASE SetupDone
  BY <1>1, SetupKeeps
<1>2. CASE Revert
  BY <1>2, RevertKeeps
<1>3. CASE \E v \in Joiners : Join(v)
  <2>1. pool' = pool /\ Steady' = Steady /\ UNCHANGED <<block, groups, view, late, cancelled>>
    BY <1>3 DEF Join, chainVars, Steady
  <2> QED BY <1>0, <2>1
<1>4. CASE effects = {} /\ ChainActs
  <2>1. CASE CallKeyGen
    BY <1>4, <2>1, KeyGenCallKeeps
  <2>2. CASE Include
    BY <1>4, <2>2, SubmitKeeps DEF Include
  <2>3. CASE AnyoneStages
    BY <1>4, <2>3, StageCall, StageCallKeeps DEF AnyoneStages
  <2>4. CASE NextBlock
    BY <1>4, <2>4, BlockCall, BlockCallKeeps
  <2> QED BY <1>4, <2>1, <2>2, <2>3, <2>4 DEF ChainActs
<1>5. CASE effects = {} /\ FaultyActs
  BY <1>5, FaultyKeeps
<1>6. CASE UNCHANGED vars
  <2>1. UNCHANGED <<block, groups, view, pool, asleep, joined, late, cancelled>>
    BY <1>6 DEF vars, chainVars
  <2> QED BY <1>0, <2>1 DEF Steady
<1> QED BY <1>1, <1>2, <1>3, <1>4, <1>5, <1>6 DEF Next

\* The third layer holds in every state: a validator that is never slow, and whose verifying
\* share nobody cancelled in a group of the epoch, has done, or has on the way, what each round
\* waits for; and no honest validator complains of another.
THEOREM Inv3Always == Spec => []Inv3
<1>1. Init => Inv3
  BY InitialKeeps
<1>2. Inv1 /\ Inv2 /\ Inv3 /\ [Next]_vars => Inv3'
  BY Inv3Step
<1> QED BY <1>1, <1>2, Inv1Always, Inv2Always, PTL DEF Spec

\* restart_key_gen_excluding and handle_key_gen_timeouts leave an honest validator out only when
\* it kept something pending over a block, or the last member to commit cancelled its verifying
\* share in a group of the same epoch and FROSTParticipantMap.set refused it. Nothing else that
\* the faulty members commit, share, claim or leave undone does it.
THEOREM NobodyPromptLeftOut == Spec => []HonestKept
<1>1. Inv3 => HonestKept
  BY DEF Inv3
<1> QED BY <1>1, Inv3Always, PTL
=============================================================================
