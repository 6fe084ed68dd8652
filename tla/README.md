# Safenet: TLA+ models, model checking and proofs

Safenet attests Safe transactions with a threshold (FROST) signature made by a set of validators
that watch a consensus chain; sentinels vote, with bonds, on whether a transaction is to be
attested. This project models the parts of the repository whose correctness depends on ordering,
concurrency, reorgs, restarts, money or arithmetic, checks them with TLC on small instances, and
proves with TLAPS, for every value of the constants, the safety properties of the secret store, of
the signing ceremonies (among several validators, and of one validator under reorgs) and of the
transaction queue. `PROJECT.json` maps every definition to the source lines it stands for, and lists the
runs, the faulty variants each property catches, the hazards and the findings.

Contents: [inventory](#inventory), [modules](#modules), [runs](#runs),
[findings](#findings-and-limitations), [fairness](#fairness), [proofs](#proofs),
[what is not modelled](#what-is-not-modelled), [plan](#plan).

## Inventory

### Parts, their state and their operations

| Part | Source | State | Operations | Module |
| --- | --- | --- | --- | --- |
| Secret store | `crates/validator/src/secrets/store.rs` | DKG secrets, signing nonces, reconciliation marker (SQLite) | store, take, schedule deletion, collect | `SecretStore` |
| Validator effect handler | `crates/validator/src/service/effect.rs` | none; runs effects against the store | one per effect, housekeeping | `SecretStore`, `SigningReorg` |
| Chain index | `crates/core/src/index` | pending block, safe block, recent blocks, queued updates, event step | initialize, next block, uncle, warp, logs, revalidation | `Indexer` |
| State machine, snapshot store | `crates/core/src/state` | live state, status, snapshots by block | handle update, handle resume, roll back, commit, prune | `StateMachine` |
| Driver, effect manager | `crates/core/src/driver.rs`, `effects.rs` | effects in progress | select an update or a resume, dispatch its commands | `Driver` |
| Transaction queue | `crates/core/src/tx` | queued transactions, allocated nonces, account cache | queue, mark, unmark, prune, resubmit, submit; fees and batches | `TransactionQueue`, `Submissions` |
| Validator: signing | `crates/validator/src/state/sign.rs`, `transactions.rs` | a session per message, signature id to message | one transition per event, resume and block | `Signing` |
| Validator: key generation | `crates/validator/src/state/keygen.rs`, `consensus/group.rs` | rollover stage, active epoch, epochs with their groups | one transition per event, resume and block | `KeyGen` |
| Validator: FROST arithmetic, Merkle trees | `crates/validator/src/frost`, `merkle.rs` | none | secrets, commitments, shares, complaints, nonces, signature shares, proofs | `Frost`, `MerkleTree`, `FrostCeremony` |
| FROSTCoordinator | `contracts/src/FROSTCoordinator.sol`, libraries | groups, participants, complaints; signatures and their shares | key generation calls; sign, commit nonces, share | `KeyGenNetwork`, `SigningNetwork`; its checks: `FrostCeremony` |
| Consensus | `contracts/src/Consensus.sol` | epochs, group per epoch, attestations | propose and stage an epoch, propose and attest a transaction | `KeyGenNetwork`, `SigningNetwork` |
| SimpleOracle | `contracts/src/SimpleOracle.sol` | open requests | post a request, give a result | `SigningNetwork` |
| SentinelOracle | `contracts/src/SentinelOracle.sol`, libraries | requests, commitments, bonds, escrow | request, commit, reveal, finalize, dispute, claim | `SentinelOracle`, `SentinelEscrow` |
| Sentinel | `crates/sentinel` | a state per request, recorded verdicts | one transition per event, engine answer and block | `Sentinel`, `SentinelNetwork` |
| Sentinel engine | `crates/sentinel-engine` | none between requests | parse, flatten, one check per checker, compose a verdict | `SafeProposal`, `Checkers`, `SentinelEngine` |
| Safenet7702Executor | `contracts/src/Safenet7702Executor.sol` | nonce of the account | execute a batch | `TransactionQueue`, `Submissions` |
| Staking | `contracts/src/Staking.sol` | stakes, linked withdrawal queues, delayed changes | stake, initiate and claim withdrawals | no |
| SafenetGuard | `contracts/src/guard` | trusted epochs, announcements | update epoch, announce, cancel, check | no |
| Explorer, scripts | `explorer`, `scripts` | none of the protocol's | | no |

### How they interact

A service (a validator or a sentinel) is a pure transition function. The **driver** feeds it block
updates from the **chain index** and resumes of completed effects, one at a time; the **state
machine** keeps a snapshot of its state per block and rolls back to one when the index reports an
uncle. A transition returns commands: *actions*, which become transactions in the **transaction
queue**, and *effects*, which run concurrently as tasks, are not undone by a reorg, are lost by a
restart, and come back later as resumes. What an effect does to the validator's **secret store**, or
to the sentinel's **verdict store**, outlives the branch that asked for it. The **contracts** emit
the events that every service reads in the same order, and are the only channel between services.
A proposed transaction is posted to an **oracle**; when that is the SentinelOracle, sentinels ask
their **engine** for a verdict, commit to it, reveal it, and claim their bonds.

### What is hard, and what makes each part correct

* **Secret store.** Effects repeat, race and complete out of order. A nonce pair may be handed out
  once only; nothing may be deleted that a rollback can bring back.
* **Chain index, state machine, driver.** Reorgs at every point (between two requests, during a
  warp, while logs are fetched, while the service is down), failing requests, crashes between two
  writes. The state must be that of one branch, each block applied once, and catch up eventually.
* **Transaction queue.** The chain moves between two requests of one call; a submission may be
  mined, uncled and mined again; the account's owner uses nonces too. Nothing runs twice, nothing is
  forgotten before it is final, and no gap in the nonces blocks the rest. A resubmission must be one
  that nodes take for a replacement, and a batch must have the gas for its last call.
* **Signing.** Timeouts race late commitments and shares; ceremonies restart with fewer signers;
  members lie or stay silent. Only approved transactions are attested, approved ones are, and the
  number of restarts is bounded. Under reorgs a signature id may name another message, and nonces
  taken on one branch must not sign on another.
* **Key generation and rollover.** Commitments, shares, complaints, responses and confirmations in
  any order around their deadlines. Honest validators must agree on the group, none of them may be
  thrown out by a lie, and the epoch must switch at the same block everywhere.
* **FROST.** What two validators compute from the same messages must fit together: identifiers,
  interpolation, encrypted shares, binding factors and Merkle roots are computed separately by
  members and by the contracts, from words a dishonest member chose.
* **Sentinel and its oracle.** The vote that is revealed must be the one that was committed to,
  although the engine may answer differently after a reorg or a restart. Deadlines decide who is
  slashed; several claims share one balance and its rounding.
* **Sentinel engine.** A verdict is composed of what several checkers vouch for, over nested
  batches, from a provider that may fail and an order API that may fail or lie. A gap between two
  checkers is an attested transaction nobody looked at.

## Modules

Actions are named after the functions they model. Definitions that start with *Faulty variant* in
their comment are not part of any specification; they are the mutations `PROJECT.json` uses to show
that each property depends on the code it is about.

* **`SecretStore`**: the three SQLite tables as sets of rows, one action per method. Every method is
  one database transaction, so every action is atomic. A random sample is a member of `Samples`,
  never sampled twice. History variables record what was published, how often each pair was taken
  and since when every accepted reconciliation has dropped a group.
* **`Indexer`**: a node whose chain grows and reorgs, `BlockWatcher` (`initialize` in two steps,
  since it reads the chain twice; `next`; `revalidate_last_block`), `EventWatcher` and the `Watcher`
  that couples them. Every block carries one log, named by the block's hash. Waiting for a block is
  waiting for it to exist, so clocks and timers are left out.
* **`StateMachine`**: `handle_update`, `handle_resume`, `prune` and the snapshot table. The state of
  a service *is* the sequence of messages it was given, which tells apart whatever any transition
  function could.
* **`Driver`** composes the two: boot, update, resume, failure, and crashes, also one between the
  write of a snapshot and the rest of the step. `Settings` are the configurations it starts in: a
  start block, and how deep reorgs really are. A history variable, `byNumber`, holds the blocks that
  a start took over by number alone: its anchor, and those it warps over.
* **`Signing`**: the handlers of `sign.rs` and `transactions.rs` as functions from a state to a
  state and a set of commands. Shared by the next two modules.
* **`SigningNetwork`**: honest validators that run `Signing`, members that do whatever the
  contracts accept, the signing part of the coordinator, attestations and the oracle. No reorgs.
* **`SigningReorg`**: one validator, `Signing` and `SecretStore` together, driven as `driver.rs`
  does: a chain that reorgs (with the contracts' state), restarts, effects that repeat, fail and
  complete late, housekeeping that prunes to the safe block. `collections` counts how often the row
  of a ceremony was deleted.
* **`TransactionQueue`**: the two tables of the queue, `update_block_status` and `queue` as the
  sequence of their requests, the account and its delegation (EIP-7702), a mempool, and a watcher.
  Here a submission is accepted or underpriced.
* **`Submissions`**: the fees and the batches that `TransactionQueue` abstracts from: the cap of the
  priority fee, the bump of a resubmission, the gas of a bundle and what the executor does with it.
* **`KeyGen`**: the handlers of `keygen.rs` and the group arithmetic, in the style of `Signing`.
* **`KeyGenNetwork`**: honest validators that run `KeyGen`, one of which may start late, members
  that do whatever the contracts accept, the coordinator's key generation and the epochs. Among what
  they can do is to *cancel* the verifying shares of others with the last commitment to a group: the
  contract then refuses the zero public key share of the victim. Which coefficients do it is
  `FrostCeremony`'s matter; here the last to commit picks the victims, fewer than the threshold.
* **`MerkleTree`**, **`Frost`**: pure operators, the validator's trees and the arithmetic of its
  FROST code over a field of `Q` elements; a point is its discrete logarithm, a word is what travels
  on chain and may decode to nothing.
* **`FrostCeremony`**: a key generation and a signing ceremony computed with `Frost`: members that
  run the validator's code, members that publish any words, and the contracts' checks.
* **`SafeProposal`**, **`Checkers`**: the flattening of nested batches, the aspects of a call, and the
  checkers that need no history, as functions.
* **`SentinelEngine`**: one request through the checkers in their order; a step per request to the
  provider or to the order API, each of which may fail; the chunks of a lookup; the head moving
  meanwhile.
* **`Sentinel`**: the handlers of `service.rs` for one request, as functions.
* **`SentinelOracle`**: the calls of the contract as a guard (false where it reverts) and the state
  after it, with the money the request brought in and paid out.
* **`SentinelNetwork`** composes them on a chain that reorgs: the sentinel, its verdict store, its
  engine (any answer every time it is asked), its transactions, other sentinels and an arbitrator
  that do whatever the contract lets them.
* **`SentinelEscrow`**: the abstract specification of the request's money: held until it is settled,
  then exactly what is owed, paid once each, nobody losing more than the slash. `SentinelNetwork`
  instantiates it with a refinement mapping (`Escrow`), and `EscrowImplemented` says that every step
  of the network is a step of the escrow, a stutter, or a rollback to another branch.
* **`SecretStoreProofs`**, **`SigningProofs`** (what each handler of `Signing` keeps, shared by the next
  two), **`SigningNetworkProofs`**, **`SigningReorgProofs`**, **`TransactionQueueProofs`**,
  **`DriverProofs`**, **`KeyGenProofs`** (what each handler of `KeyGen` does),
  **`KeyGenNetworkProofs`**: the theorems, see [proofs](#proofs).

`MC*` modules define model values, sets and symmetry for TLC. Two also evaluate pure operators on all
small inputs, as assumptions that TLC checks before the run:

* `MCTransactionQueue`: `ResubmissionReplaces` (a bumped submission is one that a node takes for a
  replacement, at fees so small that ten percent round to nothing, exactly when in both fees the old
  one or the estimate is above zero), `CapIsExact` (the capped priority fee is the largest that respects the percentage),
  `BatchesExecute` (a bundle is a prefix of the queue within the limit, or one call, and its gas
  suffices for every call of it).
* `MCFrostCeremony`: `ProofsOfLargerTrees` (in trees of up to 9 leaves each leaf has a proof that
  the contracts accept for it and for no other).

Abstractions worth knowing: outside `FrostCeremony` keys, shares and proofs are reduced to whether
they verify; a hash is its preimage; call data is the function it decodes to with the arguments a
checker reads; in `KeyGenNetwork` the ceremony that signs a rollover is reduced to enough members of
the active group being willing (`SigningNetwork` models the ceremony itself).

## Runs

| Run | Bounds, and why they are enough | Shows |
| --- | --- | --- |
| `secret_store` | 2 groups (one kept, one dropped), 2 ceremonies, 3 samples (a ceremony that loses its row gets a second pair), 3 blocks (a deadline strictly between an absence and the marker) | `NonceTakenAtMostOnce`, `TakenPairWasPublished`, `ScheduledSinceAbsent`, `DeadlineNeverMoved` |
| `driver` | `max_reorg_depth` = 2, pages of 2, 4 blocks mined beyond a chain of 4, 1 crash, 1 resume; two settings: a start block with reorgs within the depth, and none with reorgs one deeper. Enough for a full-depth reorg, one that uncles blocks of another, a warp after a restart, a refused reorg, a restart after one, an anchor that was uncled | `SurvivesReorgs`, `AnchorCanonical`, `LiveFollowsTracked`, `EventuallyInSync` where reorgs respect the depth; `LinkedState` in both |
| `signing_network` | 3 members, 2 honest and prompt, threshold 2, 3 ceremonies (restarts or further proposals), each timeout 1 block | `IndexExactEverywhere`, `AttestedOnlyApproved`, `ApprovedIsAttested` |
| `signing_rollover` | a rollover among the same members, who need not be prompt, 7 blocks, so that every ceremony can time out in each stage | `SameSelection`, `RestartsShrink`, `CeremoniesEnd` |
| `signing_reorg` | 1 validator and a peer, threshold 1 (the validator may go on alone, so that one pair can meet two selections), 2 messages under 1 id, 2 nonce pairs, 3 blocks with 2 events each, reorgs of up to 2 blocks, 3 reorgs, restarts or failed effects; an effect may be outstanding for any number of blocks: a ceremony that is reorged out, dropped with its epoch, collected, brought back and signed for again | `NoncePairSignsOnce`, `SharedOnlyApproved`, `OneSharePerRow` |
| `transaction_queue` | 2 transactions, with and without expiry, batched, reorg depth 1, 4 blocks mined up to height 3, 1 crash, 1 outside transaction | `ExecutedOnce`, `GoneOnlyWhenDone`, `NothingStuck` |
| `transaction_queue_offline` | the same, with reorgs while the service is down | violation, see findings |
| `keygen_network` | 3 honest validators (1 may join late) and 1 other, epochs of 5 blocks, timeout 1, genesis in the first block, 2 troubles (slow validators, invalid or false messages): enough for an attempt, a restart without a member, staging, rollover and the next epoch's start; cancelling a share is one of the troubles | `HonestAgree`, `StagedKeyHeld`, `ActiveEpochAgrees`, `CompromisedAbandoned`, `HonestKept`, `KeyGenInTime` |
| `engine` | about 2000 transactions: every call alone, all pairs, longer and nested batches (depth 2), refunds; histories with a friend, a lookalike or nobody; ranges of 1 block, a head that moves at the largest block number; amounts that overflow | `SecureIsHarmless`, `SecureGrantsBacked`, `FailuresOnlyAbstain`, `VerdictReached` |
| `sentinel` | 3 sentinels, a fee of 8 that splits unevenly among 3, windows of 1 and 2 blocks, 7 blocks, 1 reorg of up to 2 blocks or a restart at any point; a replayed proposal comes back in its old block | `RevealMatchesCommitment`, `BelievesTheChain`, `EscrowImplemented`, `BondReturned` |
| `sentinel_replay` | 2 sentinels, 3 blocks, 1 reorg of 1 block after which the proposal may come a block later | violation, see findings |
| `frost` | 3 members, 1 dishonest with any word for its unproved coefficient, threshold 2, a field of 7 with words of 3 bits (so some do not decode), identifiers in another order than the addresses, 1 or 2 polynomials and 2 or 3 nonce pairs each, every set of signers | `HonestNeverBlamed`, `KeyedTogether`, `SelectionSigns` |

Deadlock is not checked: every model stops when its bounds are used up, and a store or a service
without input may rest. Symmetry is used where model values are interchangeable, never in a run with
a liveness property.

`SameSelection` and `RestartsShrink` are stated for rollovers only: a *transaction* may be proposed
again while part of the group is still at an earlier ceremony for it, and then honest validators
may briefly run ceremonies with different selections. They time out and nothing wrong is signed.

Some properties say under which condition the code gives a guarantee, because it gives it under no
weaker one; the limitations below describe what happens otherwise, inside the same models. `LinkedState`
excepts blocks that were taken by number on a chain with deeper reorgs than configured;
`OneSharePerRow` allows a further share for every collection of a row; `HonestKept` and `KeyGenInTime`
except members whose verifying share was cancelled; `BondReturned` starts when the sentinel follows
its commitment and has counted those of the others.

## Findings and limitations

Two runs show a disagreement between the code and what it says of itself:

* **The queue forgets a transaction that was uncled while the service was down**
  (`transaction_queue_offline`, `tx/mod.rs:183`). At the first status after a start, markers up to
  the safe block are pruned before any is invalidated. `tx/storage.rs:314` says that prune removes
  "transactions that can no longer be affected by a reorg".
* **A replayed proposal may not find its verdict** (`sentinel_replay`, `sentinel/src/effect.rs:79`).
  `verdicts.rs:22-25` says that verdicts are "tagged with the latest block their proposal was seen in"
  and pruned below the safe block, "so a proposal the state machine can still replay always finds its
  verdict". The tag moves forward only when the check of the replayed proposal reads the row, in a
  task of its own; if the proposal comes back in a later block, the housekeeping of the block after
  that may run first and prune the row by its old tag. The engine is then asked again, and if it
  answers differently the sentinel holds, and is about to commit to, a verdict other than the one in
  its commitment on the chain, which was still queued and was mined. It cannot reveal that commitment
  any more: on the trace of the run it has not counted it as its own and drops the request at the
  deadline (`service.rs:425-427`), and the bond is lost. It was met while looking for an inductive invariant
  of `RevealMatchesCommitment`, which therefore has no theorem.

Boundaries of what the code guarantees. The models contain them, unless said otherwise:

* **A fresh start without `start_block` keeps an anchor that can be uncled** (`index/blocks.rs:309`).
  The first snapshot is that of the block the service started at, which is not final yet; a restart
  resumes after it by its number alone. If it was uncled while the service was down, its logs stay in
  the state and the other branch is joined to them, although line 250 speaks of "replaying everything
  after its safe rollback anchor". The `driver` run reaches this in its second setting: `LinkedState`
  without its last disjunct is violated there. For the same reason a reorg of full depth right after
  the first start stops such a service: there is no snapshot before its first block
  (`state/storage.rs:124`). The theorems about `Driver` assume a configured block that was final at
  the first start (`StartsFinal`).
* **A deep reorg is noticed only by comparing hashes.** One deeper than `max_reorg_depth` stops the
  service (`blocks.rs:86-91`); the restart after it continues without complaint, and one that happens
  during a warp is not noticed.
* **A reorg of two blocks, or a late or failed reconciliation, lets a ceremony be signed for twice**
  (`secrets/store.rs:334` and `365`). On the instance of `signing_reorg` the invariant that every
  signature id has at most one share is violated within a minute; `OneSharePerRow` is what holds. A
  block `d` of one branch drops a group and gives its rows the deadline `d`; a later block of that
  branch moves the marker past `d`. On the branch that replaces both, block `d` retains the group, but
  its reconciliation is below the marker and rejected, so the deadline stays; when a later block of
  the new branch drops the group, `COALESCE` keeps the old deadline. Once `d` is safe the row goes, with
  the mark that its pair was used, although the state of block `d` retains the group. A rollback to
  that state, or a restart, then commits a fresh pair for the same signature id and signs again. A
  reconciliation that fails, or completes after the next one, has the same effect with reorgs of one
  block: the deadline that it would have cancelled stays. `docs/overview.md:68` says that "the
  validator neither commits nonces nor signs for that signature ID again", and `store.rs:35-36` that
  "a rollback the state machine can still make cannot outrun the deletion"; `store.rs:38-41` does
  expect that "a deep rollback" may "collect material a ceremony needs", but that such a secret is not
  "recreated". No pair is used twice (`PairSignsOnce` is proved for every depth), so no key share is
  revealed.
* **The contract refuses a public key share that the commitments cancel** (`FROSTParticipantMap.sol:162`,
  `y.requireNonZero()`). Only the constant coefficient comes with a proof of knowledge, so the last
  member to commit can choose the others such that the verifying share of a victim is the identity.
  The validator prepares for it: `frost/serialization.rs:4-9` has an encoding for the identity, and
  the test at `frost/mod.rs:299-324` says that such a share "must not be rejected". It reverts on
  chain, and the victim is excluded at the deadline (`state/keygen.rs:1082`). With up to
  threshold - 1 victims per attempt an epoch may be skipped. `HonestKept`, `KeyGenInTime` and
  `SelectionSigns` say that this is the only way, and the runs contain it. `KeyGenNetwork` lets the one
  who cancels do more than it could: it does not always know the shares it owes to its victims.
* **A sentinel's answer can be rolled back without its proposal** (`sentinel/src/effect.rs:72`). The
  engine's answer is handled in a later block than its proposal, as a rule; if only that block is
  uncled, the answer is gone from the state and nothing asks again, while the queued commitment lands
  once more. The vote is then not revealed and the bond is slashed, which `verdicts.rs:7-13` sets out
  to avoid for the replays it covers. The `sentinel` run has such behaviours; `BelievesTheChain` says
  that the sentinel is then at worst behind the chain, never at odds with it, and `BondReturned` is
  about sentinels that follow their commitment.
* **A delegation can be lost** (`tx/mod.rs:130`). If a branch replaces the delegating transaction of a
  batch by another transaction with its nonce, a later batch without an authorization lands on an
  account without code, where it succeeds and does nothing, and is forgotten as done. `TransactionQueue`
  models it; `GoneOnlyWhenDone` speaks of inclusion for that reason.
* A `Committed` event that arrives while the engine has not answered is not counted, so that
  `finalize` may be sent too early and revert; a sentinel that missed its own reveal drops the
  request after the reveal window if others revealed, and claims nothing of what is left of its bond; a queued commitment that waits for longer than
  `InclusionDelay` may outlive the pruned verdict.
* A priority fee of zero, which a cap of 0% makes of any (`fees.rs:10-11`), is not raised by a
  resubmission (`fees.rs:53`): a node that demands a strictly higher tip would refuse the replacement
  until the estimate rises. `BumpReplaces` says that there is no other such case.
* In direct mode more transactions than `max_in_flight_transactions` may be in flight after a reorg
  unmarks some.
* After a reorg in the middle of a key generation the replayed commitments *and* shares may be
  handled before the second `KeyGenSetup` resumes; the shares are then ignored and the validator
  cannot finish that epoch's key generation. `KeyGenNetwork` has no reorgs.

## Fairness

* `driver`: weak fairness of booting and of `Update`. `Driver::run` calls `next_input` in a loop that
  retries errors after a delay, and a stopped service is started again. Effects, the chain, crashes
  and failed requests have no fairness. `EventuallyInSync` assumes that the chain settles at a height
  it never had before: the watcher only looks again when the *next* block exists.
* `signing_rollover`: weak fairness of blocks only, which is the consensus chain producing blocks.
* `signing_network`: blocks, completion of effects, inclusion of honest transactions. The queue
  resubmits until a transaction is included, and tasks run to completion. Other members get none.
* `sentinel`: weak fairness of the chain, the sentinel's effects and resumes and the inclusion of its
  transactions taken together, with `InclusionDelay` bounding how long one waits: the queue
  resubmits. Other sentinels, the arbitrator and reorgs get none.
* `engine`: weak fairness of the engine's own steps, a sequential function whose requests return or
  time out.

## Proofs

Checked by TLAPS, for every value of the constants that satisfies the named assumptions. Each
inductive invariant was first checked by TLC on the run's instance.

| Module, theorem | Statement |
| --- | --- |
| `SecretStoreProofs` | |
| `StoreTyped` | `StoreSpec => []StoreTypeOK` |
| `NonceInvariant`, `NonceUsedOnce` | `StoreSpec => []NonceTakenAtMostOnce`: no order and no repetition of effects makes the store hand out a pair twice |
| `TakenWasPublished` | `StoreSpec => []TakenPairWasPublished` |
| `ScheduledOnlyAbsent` | `StoreSpec => []ScheduledSinceAbsent` |
| `DeadlinesStand` | `StoreSpec => DeadlineNeverMoved` |
| `SigningNetworkProofs` | |
| `NetworkInvariant`, `IndicesExact` | `Spec => []IndexExactEverywhere` |
| `OnlyApprovedAttested` | `Spec => []AttestedOnlyApproved` |
| `RolloverInvariant`, `SelectionsAgree` | `Spec => []SameSelection` |
| `EveryRestartShrinks` | `Spec => RestartsShrink` |
| `SigningReorgProofs` | |
| `ReorgInvariant`, `StoreImplemented` | `Spec => StoreSpec`: the reorganising validator uses the store by its methods only, so the theorems above hold of it |
| `PairSignsOnce` | `Spec => []NoncePairSignsOnce` |
| `SharesApproved` | `Spec => []SharedOnlyApproved` |
| `RowInvariant`, `OneShareUntilCollected` | `Spec => []OneSharePerRow`, for every `max_reorg_depth` |
| `TransactionQueueProofs` | |
| `BumpReplaces` | a resubmission's fees are those of a replacement exactly when in each of them the previous or the fresh one is above zero, for all fees below saturation |
| `QueueInvariant`, `RunsOnce` | `Spec => []ExecutedOnce`, also when the service misses reorgs |
| `FinalInvariant`, `ForgottenIsFinal` | `~ OfflineReorgs` implies `Spec => []GoneOnlyWhenDone` |
| `GapInvariant`, `NobodyStuck` | `~ OfflineReorgs` implies `Spec => []NothingStuck` |
| `DriverProofs` | |
| `DriverInvariant`, `ServiceNeverStopped` | `StartsFinal` implies `DriverSpec => []SurvivesReorgs`, for every `max_reorg_depth`, page size and number of crashes |
| `AnchorIsFinal` | `StartsFinal` implies `DriverSpec => []OldestIsFinal`: the snapshot a restart trusts by its number is always that of a final block, the first half of `AnchorCanonical` |
| `KeyGenNetworkProofs` | |
| `Inv1Always`, `Agreement` | `Spec => []HonestAgree` |
| `ActiveAgreement` | `Spec => []ActiveEpochAgrees` |
| `Inv2Always`, `StagedKeysHeld` | `Spec => []StagedKeyHeld` |
| `CompromisedIsAbandoned` | `Spec => []CompromisedAbandoned` |
| `Inv3Always`, `NobodyPromptLeftOut` | `Spec => []HonestKept`: a faulty member cannot get a prompt honest one left out, but by cancelling its verifying share |

`SigningProofs` and `KeyGenProofs` hold lemmas only. `SigningProofs`: what every handler of `Signing` keeps of a state's shape
(`StateOK`) and of the index from signature ids to messages (`Linked`), and which commands it emits.
`KeyGenProofs`: every handler of `KeyGen` keeps a rollover's shape, never returns to a group that was
left, and issues commands for the group it goes to (`Good`); two validators at the same point of a
key generation, given the same event, go to the same point (the lemmas named `...Alike`); and what
an event does to a validator that follows its group (the lemmas named `...Exactly`).

*Assumptions.* Blocks, heights and ids are natural numbers; thresholds and timeouts are positive; the
markers for "nothing" (`Null`, `Used`, `NoId`, `NoMessage`, `NoBlock`) are none of the values they stand beside;
groups of participants and sets of transactions are finite; the epochs that the blocks up to the
bound belong to are configured, as is the genesis. Four are about the world:
`FaultyAssumption` of `SigningNetwork`, that the members who do not run the validator are fewer than
the threshold (what a threshold signature presumes); `FaultyAssumption` of `KeyGenNetwork`, the same
of every group that can be formed for an epoch, the configured one or one that exclusions leave
large enough; `~ OfflineReorgs` in
`ForgottenIsFinal` and `NobodyStuck`, because `transaction_queue_offline` is a counterexample to the
first without it and the second rests on the first's invariant; and `StartsFinal` of `DriverProofs`, that where reorgs respect `max_reorg_depth` the service indexes from a `start_block` that was final
when it was first started, as in the `driver` run. The bounds of the runs (heights,
numbers of reorgs, restarts, ceremonies, outside transactions) are constants like the others: the
theorems hold for all of them, and those about `SigningReorg` for every reorg depth.

*The store.* `NonceTakenAtMostOnce` is not inductive: a row might hold a pair that was taken before,
or two rows the same pair. `NonceInv` adds what the code maintains: signature ids are keys of the
table, two rows never hold the same pair, a pair still in a row was never taken and was published for
that row's id, and published pairs of two ids are disjoint. `store_signing_nonces` keeps it because
the sample is fresh and an existing row is never overwritten; `take_signing_nonces` because reading
and clearing are one transaction; scheduling because it changes deadlines only; pruning because it
only removes rows. `ScheduledSinceAbsent` needs `AbsenceInv`: no absence starts after the
marker, so a deadline set at an accepted block lies between the absence and the new marker.
`DeadlineNeverMoved` rests on the ids being keys: scheduling writes only where no deadline is set.

*The signing network.* `NetworkInv` says of every honest validator that its state is well formed and
exactly indexed; of every transaction it has queued that a share is for the message of its ceremony
and approved where that is needed; of the coordinator that no ceremony without approval has a share
of an honest member, hence none is complete: a selection that is complete has at least a threshold
of members, one of them honest by `FaultyAssumption`. For rollovers `RolloverInv` adds that honest validators which have
a ceremony for a rollover have the *same* session, that nobody honest has shared before the shares
are collected, that all honest shares of a ceremony are for one selection, and that a selection in
which everybody shared is complete; so a restart always leaves somebody out. Every validator
registers a rollover at the same event, once, and a session that has ended is not opened again by
`sign`; that is why sessions cannot drift apart as those of transactions, which may be proposed
again, can.

*Reorgs.* `ReorgInv` says that the live state fits the live branch and every snapshot the branch
it was taken on, so that a rollback restores both; that is also why a share is made only where the
approval is. Effects and resumes are not rolled back, so they are only well formed. `PairsInv`
follows a pair from the store to the share: a resume that carries a pair is the only one, the pair
was taken exactly once, and no share was made of it yet; handling it uses the resume up.
`RowInv` counts pairs instead of shares: a ceremony was published at most one pair more than rows of
it were collected, and no more than that while it has no row (`PairsOK`), since `store_signing_nonces`
makes a pair only where there is no row, and only `Housekeeping` removes one. A session of any branch
has an own commitment only from a pair that was published for its id (`SoundOK`), so a share is made of
such a pair, and two shares of one id are made of two pairs by `PairSignsOnce`.

*The transaction queue.* `QueueInv` relates five places in which a transaction may be: the table, the
requests of the call in progress, the mempool, the chain and what was forgotten. Its heart
is `NoncesOK`: a transaction is given one nonce at most (`Given`), and whatever carries it anywhere
has that nonce, so that no chain runs it twice. `FinalInv` is about what a block number means after a
reorg: a marker names a block the watcher has seen, and if that block is still the node's then the
account had used the nonce there; chains that share a block share those before it. Markers at or below the safe
block are then final, because unmarking comes before pruning, which is exactly what fails when a
reorg is missed while the service is down. `NothingStuck` speaks of what is in flight at the end of a
call; `GapInv` makes it inductive. Every nonce below one that the chain has used, the cache holds, the
table holds or that is broadcast is accounted for: it is in the table, was used in a final block, or is that of a
transaction of the account's owner (`GapsOK`). And the row of an authorization stays beside that of the
transaction that carries it, with the same marker, for as long as that transaction is not replaced
(`Paired`), so that neither is pruned without the other. Pruning takes final rows only (`FinalInv`),
and the next nonce skips only nonces that the account used.

*The driver.* `SurvivesReorgs` needs to know what the watcher returns next and that the state machine
awaits exactly that. `DriverInv` says so by five modes: the next update is that of a block
(`AtBlock`), a warp (`AtWarp`) or the synthetic uncle of a restart (`AtUncle`), or the logs of a block
(`InBlock`) or of a warp's page (`InWarp`) are being fetched. Each fixes the queue, the status of
the state machine and which snapshots are stored. Beside them stand two facts. `WindowOK`: the safe block is final
and on the chain, and a tracked block that is on the chain takes those before it along; it is kept
because an evicted block is `max_reorg_depth` below the head, hence final. `SnapshotsUpTo`: the snapshots
are those of an unbroken range that starts at a *pinned* block, one that is final and that the
watcher holds, so a block that is uncled always has a stored parent. The queue is a run of
consecutive blocks, and the logs of a page come out sorted
(`PageSorted`, from the cardinality of the logs before one), so that `handle_update` accepts them. A crash leaves
`TableOK`, whichever of the writes it follows, and `BootScanKeeps` shows that the uncle, the warp and
the blocks that `initialize` queues from it bring the two back in step.

*Key generation.* The invariant has three layers, each inductive given the ones before. `HonestAgree`
alone is not: validators that agree may part when one of them ignores an event, so `Inv1` adds what
decides whether it does. The rollover is that of the block's epoch (`ViewsOK`), the coordinator's groups and the queued
transactions are of groups that all validators have reached, so none is taken for a new start by
some (`GroupsOK`), the coordinator's rounds are consistent (`GroupOK`), and Consensus and the
validators have rolled over alike (`SyncOK`): a validator rolls over by its own clock, the block, and
the contract lazily, at the next call. A group goes from being at hand to being *past* and never
comes back, because a restart has strictly fewer members and a new epoch a larger number.
`Inv2` compares the two sides of a group. A validator is in no later round than the coordinator and
counts the same complaints (`FollowOK`), all of them below the threshold, which gives `CompromisedAbandoned`; and an honest
member confirms only after it has its key share (`HistoryOK`), so that a group which everybody confirmed, and
a group needs that to be staged, has a key share with each honest member.
`Inv3` is what makes `HonestKept` inductive. A validator is left out if it misses a round, does not answer
a complaint or is accused by a threshold; `DutiesOK` says of a prompt one, neither slow
nor cancelled in the epoch (`Hindered`, which only grows), that each of these is done or
queued while there is still time: its commitment, its shares, a complaint for every share that
is missing or bad, a response for every complaint of it, its confirmation. `BlameOK` says that honest
validators complain of faulty members only, so that accusers of an honest one are too few
(`FaultyAssumption`).

*Only model-checked, and why.*

* Liveness: `EventuallyInSync`, `CeremoniesEnd`, `ApprovedIsAttested`, `VerdictReached`,
  `BondReturned`. `KeyGenInTime` is the safety form of a deadline: it counts the restarts by the
  members they leave out, and adds up their deadlines; not attempted.
* `RevealMatchesCommitment` does not hold for all constants, see findings. `BelievesTheChain`
  is inductive only together with the snapshots, the queue and the oracle's counts; not attempted.
* `AnchorCanonical` (but for `AnchorIsFinal`), `LiveFollowsTracked` and `LinkedState` of `Driver`
  compare a state with the messages of all blocks up to a height, filtered and concatenated, which
  needs induction over data.
* `EscrowImplemented`: sums over sets of sentinels, which need induction over data.
* `SentinelEngine` and `FrostCeremony` rest on recursive operators (flattened batches, trees,
  interpolation), which the prover cannot unfold.

## What is not modelled

* Message hashing and ABI encoding: a hash is its preimage, call data what it decodes to.
* Clocks and polling intervals; telemetry, configuration parsing, key derivation and transport.
* In `FrostCeremony`: computing discrete logarithms, proofs of knowledge of unknown ones and hash
  collisions are excluded from what dishonest members do. So are a group key and nonce sums of zero:
  their terms come with a proof of knowledge or are hashed before they are used, which makes such a
  sum as unlikely as guessing a key. Verifying shares of zero are not excluded. Side channels and the
  quality of randomness are no matter for a model.
* Key generation under reorgs (see limitations); more than one request at a time in
  `SentinelNetwork`: requests share only the token balance and the allowance, and the escrow is
  accounted for per request.
* In the oracle: the delayed changes of its parameters, which a request copies when it is created,
  and of the sentinel set. In the executor: failures of single
  calls inside a bundle.
* `AlwaysApproveOracle` (stateless); Staking and SafenetGuard, which no other component reads: they
  are the next contracts in the plan; the explorer and the scripts, which hold no protocol state. The
  Certora specifications are a separate verification of the contracts.

## Plan

Done, in this order: `SecretStore` with its proofs; `Indexer`, `StateMachine`, `Driver`; `Signing`,
`SigningNetwork`, `SigningReorg`; `TransactionQueue`; `KeyGen`, `KeyGenNetwork`; `SafeProposal`,
`Checkers`, `SentinelEngine`; `SentinelOracle`, `Sentinel`, `SentinelNetwork` and the abstract
`SentinelEscrow`; `MerkleTree`, `Frost`, `FrostCeremony`; `Submissions`; the proofs about `Signing`,
`SigningNetwork`, `SigningReorg`, `TransactionQueue`, `Driver`, `KeyGen` and `KeyGenNetwork`.

Next, most important first:

1. **Proofs**: `KeyGenInTime`.
2. **`KeyGenReorg`**: `KeyGen` with `SecretStore` on a chain that reorgs, as `SigningReorg` does for
   signing: secrets behind a commitment survive, one polynomial never serves two groups.
3. **`Staking`**: the linked withdrawal queue, refined to an abstract sorted sequence, with delays
   that change; totals equal to the sum of stakes and withdrawals.
4. **`SafenetGuard`**: the trusted epochs form a forest rooted in the genesis key; announcements are
   used once, in their window, and never by an attested transaction.
