--------------------------- MODULE SentinelNetwork --------------------------
(***************************************************************************)
(* A sentinel (Sentinel) voting on a request of the SentinelOracle, on a    *)
(* chain that reorgs, next to sentinels and an arbitrator that do whatever  *)
(* the contract lets them. The driver rolls the sentinel's entry back with  *)
(* the chain; the verdict store (crates/sentinel/src/verdicts.rs) and the   *)
(* transactions that were queued are not rolled back, and engine checks     *)
(* (effect.rs) that are under way go on, except in a restart.               *)
(***************************************************************************)
EXTENDS Sentinel, SentinelOracle, BagsExt, SequencesExt

CONSTANTS
    ReorgDepth,         \* max_reorg_depth
    InclusionDelay,     \* blocks that a queued transaction may have to wait
    NoVerdict,
    MaxBlock,           \* bound: height
    LastProposal,       \* bound: the last block a proposal may be in
    MaxReorgs           \* bound: reorgs and restarts

ASSUME MeAssumption == Me \in Sentinels
ASSUME DelaysAssumption == ReorgDepth \in Nat /\ InclusionDelay \in Nat

VARIABLES
    block, observed,    \* the block whose events are handled; it was observed
    entry,              \* the state machine's entry for the request
    chain,              \* [oracle, allowance] on the current branch
    past,               \* snapshots: [block -> [entry, chain]] as of its end
    effects, resumes,   \* engine checks in progress, and their outcomes
    verdicts,           \* the request's row of engine_verdicts, or NoVerdict
    queue,              \* the transactions to include, in the order of their nonces
    included,           \* the ones that a rollback may bring back: [tx, block]
    reorgs

driverVars == <<block, observed, past, reorgs>>
effectVars == <<effects, resumes, verdicts>>
vars == <<driverVars, effectVars, entry, chain, queue, included>>

Others == Sentinels \ {Me}

Init ==
    /\ block = 1 /\ observed = TRUE
    /\ entry = Untracked
    /\ chain = [oracle |-> Unrequested, allowance |-> 0]
    /\ past = [n \in {0} |-> [entry |-> entry, chain |-> chain]]
    /\ effects = EmptyBag /\ resumes = EmptyBag /\ verdicts = NoVerdict
    /\ queue = <<>> /\ included = <<>> /\ reorgs = 0

-----------------------------------------------------------------------------
(* Commands                                                                 *)

Queued(commands, number) ==
    LET actions == SelectSeq(commands, LAMBDA c : c.kind # "EngineCheck")
    IN  [i \in DOMAIN actions |-> [action |-> actions[i], at |-> number, mined |-> FALSE]]

\* The driver dispatches what a transition emits: actions to the queue, effects
\* to the effect manager.
Dispatch(r, waiting, number) ==
    /\ entry' = r.entry
    /\ queue' = waiting \o Queued(r.commands, number)
    /\ effects' = effects (+) SetToBag({[block |-> c.block, asked |-> FALSE]
                       : c \in {r.commands[i] : i \in {j \in DOMAIN r.commands :
                                                        r.commands[j].kind = "EngineCheck"}}})

\* An event follows another one of the same transaction.
Then(r, next) == Result(next.entry, r.commands \o next.commands)

-----------------------------------------------------------------------------
(* The driver                                                               *)

Safe(latest) == IF latest < ReorgDepth THEN 0 ELSE latest - ReorgDepth

\* Not code: snapshots that no rollback within the bound needs are left out of the
\* state, whose number it keeps down.
Needed(snapshots, count) == IF count < MaxReorgs THEN snapshots ELSE << >>

\* Faulty variant: the row is of no use once its block is over.
PrunedLatest(row, safe) == IF row # NoVerdict /\ row.block < safe + ReorgDepth THEN NoVerdict ELSE row

\* VerdictStore::prune. What a failed one leaves, the next one removes.
Pruned(row, safe) == IF row # NoVerdict /\ row.block < safe THEN NoVerdict ELSE row

\* The driver runs the block's transition and Handler::housekeeping.
Observe(number) ==
    /\ Dispatch(HandleBlockAdvance(entry, number), queue, number)
    /\ block' = number /\ observed' = TRUE
    /\ verdicts' = Pruned(verdicts, Safe(number))
    /\ UNCHANGED <<resumes, chain, reorgs>>

\* The block's logs are complete: its snapshot is committed, older ones are pruned.
NextBlock ==
    /\ observed /\ block < MaxBlock
    /\ \A i \in DOMAIN queue : block < queue[i].at + InclusionDelay
    /\ past' = Needed([n \in {k \in DOMAIN past : k >= Safe(block + 1)} \cup {block} |->
                   IF n = block THEN [entry |-> entry, chain |-> chain] ELSE past[n]], reorgs)
    /\ included' = IF past' = << >> THEN <<>>
                   ELSE SelectSeq(included, LAMBDA i : \E n \in DOMAIN past' : n < i.block)
    /\ Observe(block + 1)

\* The first block after a rollback.
ReplacementBlock ==
    /\ ~ observed
    /\ Observe(block)
    /\ UNCHANGED <<past, included>>

\* The transactions of uncled blocks wait again, ahead of the others.
Uncled(n) ==
    LET back == SelectSeq(included, LAMBDA i : i.block > n)
    IN  [i \in DOMAIN back |-> [back[i].tx EXCEPT !.mined = TRUE]]

RollBack(n) ==
    /\ reorgs < MaxReorgs /\ reorgs' = reorgs + 1
    /\ entry' = past[n].entry /\ chain' = past[n].chain
    /\ past' = Needed([k \in {j \in DOMAIN past : j <= n} |-> past[k]], reorgs')
    /\ queue' = Uncled(n) \o queue
    /\ included' = IF past' = << >> THEN <<>> ELSE SelectSeq(included, LAMBDA i : i.block <= n)
    /\ block' = n + 1 /\ observed' = FALSE
    /\ UNCHANGED verdicts

\* Uncled blocks: the effects that they started go on.
Reorg ==
    /\ \E n \in DOMAIN past : n < block /\ RollBack(n)
    /\ UNCHANGED <<effects, resumes>>

\* A restart replays everything after the oldest snapshot; effects are lost.
Restart ==
    /\ \E n \in DOMAIN past : (\A k \in DOMAIN past : n <= k) /\ RollBack(n)
    /\ effects' = EmptyBag /\ resumes' = EmptyBag

-----------------------------------------------------------------------------
(* Handler::engine_check                                                    *)

\* VerdictStore::get and the update of record: the row is kept for the later block.
Kept(row, number) == [row EXCEPT !.block = Max({@, number})]

Resume(e, outcome) ==
    /\ effects' = effects (-) SetToBag({e})
    /\ resumes' = resumes (+) SetToBag({outcome})

\* VerdictStore::get: a recorded verdict is the answer, otherwise the engine is asked.
EngineCheck(e) ==
    /\ ~ e.asked
    /\ IF verdicts = NoVerdict
       THEN /\ effects' = (effects (-) SetToBag({e})) (+) SetToBag({[e EXCEPT !.asked = TRUE]})
            /\ UNCHANGED <<resumes, verdicts>>
       ELSE /\ verdicts' = Kept(verdicts, e.block)
            /\ Resume(e, verdicts.verdict)

\* VerdictStore::record of a decisive outcome: the first one stays.
Recorded(row, number, outcome) ==
    IF row = NoVerdict THEN [verdict |-> outcome, block |-> number] ELSE Kept(row, number)

\* The engine answers, differently every time it is asked.
EngineAnswers(e, outcome) ==
    /\ e.asked
    /\ IF outcome = "Unknown" THEN Resume(e, outcome) /\ UNCHANGED verdicts
       ELSE /\ verdicts' = Recorded(verdicts, e.block, outcome)
            /\ Resume(e, verdicts'.verdict)

EffectStep ==
    /\ \E e \in BagToSet(effects) :
          EngineCheck(e) \/ \E outcome \in Outcomes : EngineAnswers(e, outcome)
    /\ UNCHANGED <<driverVars, entry, chain, queue, included>>

\* The store fails, before or after the engine answered.
EffectFails ==
    /\ \E e \in BagToSet(effects) : Resume(e, "Unknown")
    /\ UNCHANGED <<driverVars, verdicts, entry, chain, queue, included>>

\* A resume is handled on whatever entry there is by then.
HandleResume ==
    /\ \E outcome \in BagToSet(resumes) :
          LET r == HandleEngineCheckResult(entry, outcome) IN
          /\ entry' = r.entry /\ queue' = queue \o Queued(r.commands, block)
          /\ resumes' = resumes (-) SetToBag({outcome})
    /\ UNCHANGED <<driverVars, effects, verdicts, chain, included>>

-----------------------------------------------------------------------------
(* Calls of the oracle, and what the sentinel makes of their events         *)

\* A transaction of somebody else is included in the current block.
Included(oracle, r) ==
    /\ observed
    /\ chain' = [chain EXCEPT !.oracle = oracle]
    /\ Dispatch(r, queue, block)
    /\ UNCHANGED <<driverVars, resumes, verdicts, included>>

Open(oracle) ==
    [bond_target |-> BondTarget, commit_deadline |-> oracle.commit_deadline,
     reveal_deadline |-> oracle.reveal_deadline]

\* Consensus.proposeTransaction: TransactionProposed, then the oracle's NewRequest.
Propose ==
    LET next == PostRequest(chain.oracle, block)
        seen == HandleOracleTransactionProposed(entry, block)
    IN
    /\ block <= LastProposal /\ CanPostRequest(chain.oracle)
    /\ Included(next, Then(seen, HandleNewRequest(seen.entry, Open(next))))

\* What finalize emits, by the state it reached.
OnFinalized(at, oracle) ==
    CASE oracle.state = "FROZEN" -> HandleDisputeTriggered(at, oracle.arbitration_deadline)
      [] oracle.state = "TIMED_OUT" -> HandleRequestTimedOut(at)
      [] OTHER -> HandleOracleResult(at)

OnRevealed(oracle, s) ==
    LET r == HandleRevealed(entry, s)
    IN  IF oracle.state = "PENDING" THEN r ELSE Then(r, OnFinalized(r.entry, oracle))

OtherCommits(s) ==
    /\ CanCommit(chain.oracle, s, block)
    /\ \E v \in Verdicts :
          Included(Commit(chain.oracle, s, v), HandleCommitted(entry, s))

OtherReveals(s) ==
    LET v    == chain.oracle.commitments[s].hash
        next == Reveal(chain.oracle, s, Approves(v), block)
    IN  CanReveal(chain.oracle, s, v, block) /\ Included(next, OnRevealed(next, s))

AnyoneFinalizes ==
    LET next == Finalized(chain.oracle, block)
    IN  CanFinalize(chain.oracle, block) /\ Included(next, OnFinalized(entry, next))

ArbitratorRules(approves) ==
    /\ CanResolveDispute(chain.oracle)
    /\ Included(ResolveDispute(chain.oracle, approves), HandleResolved(entry))

\* markOutOfScope, or anybody's timeoutArbitration.
ArbitrationEnds ==
    /\ chain.oracle.state = "FROZEN"
    /\ Included(OutOfScope(chain.oracle), HandleArbitrationTimeout(entry))

OtherClaims(s) ==
    CanClaim(chain.oracle, s) /\ Included(Claim(chain.oracle, s), HandleClaimed(entry))

Outside ==
    \/ Propose \/ AnyoneFinalizes \/ ArbitrationEnds
    \/ \E s \in Others : OtherCommits(s) \/ OtherReveals(s) \/ OtherClaims(s)
    \/ \E approves \in BOOLEAN : ArbitratorRules(approves)

-----------------------------------------------------------------------------
(* The sentinel's own transactions                                          *)

\* encode_action_kind: the call, if the oracle does not revert it, as the state of
\* the chain after it and the handlers' result.
Calls(tx) ==
    LET o == chain.oracle
        On(next, r) == {[chain |-> [chain EXCEPT !.oracle = next], r |-> r]}
    IN
    CASE tx.kind = "ApproveToken" ->
            {[chain |-> [chain EXCEPT !.allowance = tx.bond], r |-> Ignored(entry)]}
      [] tx.kind = "Commit" /\ CanCommit(o, Me, block) /\ chain.allowance >= BondTarget ->
            {[chain |-> [chain EXCEPT !.oracle = Commit(o, Me, tx.hash),
                                      !.allowance = @ - BondTarget],
              r |-> HandleCommitted(entry, Me)]}
      [] tx.kind = "Reveal" /\ CanReveal(o, Me, tx.verdict, block) ->
            LET next == Reveal(o, Me, Approves(tx.verdict), block)
            IN  On(next, OnRevealed(next, Me))
      [] tx.kind = "Finalize" /\ CanFinalize(o, block) ->
            LET next == Finalized(o, block) IN On(next, OnFinalized(entry, next))
      [] tx.kind = "TimeoutArbitration" /\ CanTimeoutArbitration(o, block) ->
            On(OutOfScope(o), HandleArbitrationTimeout(entry))
      [] tx.kind = "Claim" /\ CanClaim(o, Me) -> On(Claim(o, Me), HandleClaimed(entry))
      [] OTHER -> {}

\* In the order of nonces; a transaction that reverts uses up its nonce, too.
Execute ==
    /\ observed /\ queue # <<>>
    /\ LET calls == Calls(Head(queue).action)
           reverted == [chain |-> chain, r |-> Ignored(entry)]
       IN  \E c \in IF calls = {} THEN {reverted} ELSE calls :
              chain' = c.chain /\ Dispatch(c.r, Tail(queue), block)
    /\ included' = IF past = << >> THEN <<>>
                   ELSE Append(included, [tx |-> Head(queue), block |-> block])
    /\ UNCHANGED <<driverVars, resumes, verdicts>>

\* The queue drops what it did not submit by the block that it expires at; the
\* latest block that it knows is the one before.
Expire ==
    /\ \E i \in DOMAIN queue :
          /\ ~ queue[i].mined /\ queue[i].action.expires_at \in 0 .. block - 1
          /\ queue' = RemoveAt(queue, i)
    /\ UNCHANGED <<driverVars, effectVars, entry, chain, included>>

Next ==
    \/ NextBlock \/ ReplacementBlock \/ Reorg \/ Restart
    \/ EffectStep \/ EffectFails \/ HandleResume
    \/ Outside \/ Execute \/ Expire

Spec == Init /\ [][Next]_vars

\* Blocks keep coming, effects complete, and the sentinel's transactions are
\* included; nobody else has to do anything.
FairSpec ==
    /\ Spec
    /\ WF_vars(NextBlock \/ ReplacementBlock \/ EffectStep \/ HandleResume \/ Execute)

-----------------------------------------------------------------------------
(* Properties                                                               *)

Mine == chain.oracle.commitments[Me]

\* verdicts.rs: the sentinel never reveals "a vote it never committed to": while its
\* commitment is not revealed, what it is going to reveal is what the commitment
\* was made of, on every branch and after every restart, although the engine
\* answers differently when it is asked again.
RevealMatchesCommitment ==
    Mine.vote = "PENDING" =>
        /\ entry # Untracked /\ entry.tag \notin {"WaitingForEngineCheck", "WaitingForRequest"} =>
              entry.verdict = Mine.hash
        /\ \A i \in DOMAIN queue :
              queue[i].action.kind = "Reveal" => queue[i].action.verdict = Mine.hash

\* What the sentinel believes of the request it votes on is so on the branch it is
\* on: an answer that comes late, after a deadline or a reorg, commits it to no other
\* request; it starts to reveal only for a bond that is locked; and it never waits for
\* more reveals than there are commitments, which would keep it from finalizing.
BelievesTheChain ==
    LET o == chain.oracle IN
    /\ Is(entry, "CollectingCommitments") =>
          /\ o.state # "NONE" /\ entry.committed_count <= o.committed
          /\ entry.commit_deadline = o.commit_deadline /\ entry.reveal_deadline = o.reveal_deadline
          /\ entry.self_committed => Mine.vote # "NONE"
    /\ Is(entry, "CollectingVotes") =>
          /\ Mine.vote # "NONE" /\ entry.reveal_deadline = o.reveal_deadline
          /\ entry.committed_count <= o.committed /\ entry.revealed_count <= o.revealed
          /\ entry.self_revealed => Mine.vote # "PENDING"

\* The sentinel follows its own commitment, and has counted those of the others:
\* committed_count "tallies every `Committed` event, from any sentinel" (state.rs),
\* except those that came before the engine's answer.
Follows ==
    /\ \/ Is(entry, "CollectingCommitments") /\ entry.self_committed
       \/ Is(entry, "CollectingVotes")
    /\ entry.committed_count = chain.oracle.committed

\* The bond comes back, less what is slashed, whatever the other sentinels and the
\* arbitrator do or omit: a sentinel that follows its commitment reveals, finalizes,
\* times the arbitration out and claims, unless a rollback takes it back.
BondReturned ==
    \A k \in 0 .. MaxReorgs :
        Follows /\ reorgs = k ~> Mine.claimed \/ reorgs > k

Phase(o) == CASE o.state = "NONE" -> "none" [] o.state = "PENDING" -> "open"
              [] o.state = "FROZEN" -> "disputed" [] OTHER -> "settled"
Unclaimed(o, s) == o.commitments[s].vote # "NONE" /\ ~ o.commitments[s].claimed

Escrow == INSTANCE SentinelEscrow WITH
    Slash <- SlashAmount,
    phase <- Phase(chain.oracle),
    held <- chain.oracle.escrow,
    bonds <- [s \in Sentinels |-> IF Unclaimed(chain.oracle, s) THEN BondTarget ELSE 0],
    owed <- [s \in Sentinels |->
               IF chain.oracle.state \in Resolved /\ Unclaimed(chain.oracle, s)
               THEN Payout(chain.oracle, s) ELSE 0]

\* On every branch the contract implements SentinelEscrow: bonds, slashes, the fee
\* and its division add up, so that every claim can be paid and nothing is left.
EscrowImplemented ==
    Escrow!Init /\ [][Escrow!Next \/ reorgs' # reorgs]_(Escrow!escrowVars)
=============================================================================
