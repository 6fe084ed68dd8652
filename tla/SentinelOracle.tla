--------------------------- MODULE SentinelOracle ---------------------------
(***************************************************************************)
(* The SentinelOracle contract (contracts/src/SentinelOracle.sol and its    *)
(* request and commitment libraries), as seen by one request: sentinels     *)
(* lock a bond behind a blind commitment, reveal, and claim what is theirs  *)
(* once the request is resolved, by agreement, by an arbitrator or by time. *)
(*                                                                          *)
(* A call is a guard `CanX(o, ...)`, false where the contract reverts, and  *)
(* the contract's state after it. `escrow` is what the request has brought  *)
(* in less what was paid out for it: requests share one token balance, so a *)
(* payment that exceeds it would be another request's money.                *)
(***************************************************************************)
EXTENDS Integers, FiniteSets

CONSTANTS
    Sentinels,
    Fee, BondMultiplier, SlashingMultiplier,
    DaoFeeShare, FeeShareDenominator,
    CommitWindow, RevealWindow, ArbitrationTimeout

ASSUME FeeAssumption == Fee \in Nat \ {0}
ASSUME MultiplierAssumption ==
    /\ BondMultiplier \in Nat /\ SlashingMultiplier \in 1 .. BondMultiplier
ASSUME ShareAssumption == FeeShareDenominator \in Nat \ {0} /\ DaoFeeShare \in 0 .. FeeShareDenominator
ASSUME WindowAssumption == {CommitWindow, RevealWindow} \subseteq Nat \ {0} /\ ArbitrationTimeout \in Nat

BondTarget == Fee * BondMultiplier
SlashAmount == Fee * SlashingMultiplier

NoHash == "NoHash"
NotCommitted == [hash |-> NoHash, vote |-> "NONE", claimed |-> FALSE]
Resolved == {"RESOLVED_APPROVED", "RESOLVED_DENIED", "TIMED_OUT"}

\* Before postRequest: the request's slots are zero.
Unrequested ==
    [state |-> "NONE", fee |-> 0, commit_deadline |-> 0, reveal_deadline |-> 0,
     arbitration_deadline |-> 0, committed |-> 0, revealed |-> 0, approve |-> 0, deny |-> 0,
     commitments |-> [s \in Sentinels |-> NotCommitted],
     escrow |-> 0]

-----------------------------------------------------------------------------
(* Voting                                                                   *)

CanPostRequest(o) == o.state = "NONE"

PostRequest(o, block) ==
    [o EXCEPT !.state = "PENDING", !.fee = Fee,
              !.commit_deadline = block + CommitWindow,
              !.reveal_deadline = block + CommitWindow + RevealWindow,
              !.escrow = @ + Fee]

\* applyCommit, add. Every sentinel here is an active one.
CanCommit(o, s, block) ==
    o.state = "PENDING" /\ block <= o.commit_deadline /\ o.commitments[s].vote = "NONE"

Commit(o, s, hash) ==
    [o EXCEPT !.committed = @ + 1,
              !.commitments[s] = [hash |-> hash, vote |-> "PENDING", claimed |-> FALSE],
              !.escrow = @ + BondTarget]

CanReveal(o, s, hash, block) ==
    /\ o.commitments[s].vote = "PENDING" /\ o.commitments[s].hash = hash
    /\ o.state = "PENDING" /\ o.commit_deadline < block /\ block <= o.reveal_deadline

\* applyReveal. The reveal that completes the commitments also finalizes.
Revealed(o, s, approve) ==
    [o EXCEPT !.revealed = @ + 1,
              !.approve = IF approve THEN @ + 1 ELSE @,
              !.deny = IF approve THEN @ ELSE @ + 1,
              !.commitments[s].vote = IF approve THEN "APPROVED" ELSE "DENIED"]

-----------------------------------------------------------------------------
(* Finalisation                                                             *)

EveryoneRevealed(o) == o.committed > 0 /\ o.revealed = o.committed

CanFinalize(o, block) ==
    /\ o.state = "PENDING"
    /\ \/ block > o.reveal_deadline
       \/ EveryoneRevealed(o)
       \/ o.committed = 0 /\ block > o.commit_deadline

\* Faulty variant: the remainder of the division stays in the contract.
DaoFeeCutWithoutDust(o, winners) ==
    LET cut == (o.fee * DaoFeeShare) \div FeeShareDenominator
    IN  [cut |-> cut, pot |-> o.fee - cut]

\* applyDaoFeeCut: the pot is a multiple of the winners, the rest is the DAO's.
DaoFeeCut(o, winners) ==
    LET raw  == (o.fee * DaoFeeShare) \div FeeShareDenominator
        dust == (o.fee - raw) % winners
    IN  [cut |-> raw + dust, pot |-> o.fee - raw - dust]

\* Non-revealers lose SlashAmount as soon as somebody has revealed.
Finalized(o, block) ==
    LET unrevealed == (o.committed - o.revealed) * SlashAmount
        split      == DaoFeeCut(o, o.approve + o.deny)
    IN
    CASE o.approve > 0 /\ o.deny > 0 ->
            [o EXCEPT !.state = "FROZEN", !.arbitration_deadline = block + ArbitrationTimeout,
                      !.escrow = @ - unrevealed]
      [] o.approve = 0 /\ o.deny = 0 ->
            [o EXCEPT !.state = "TIMED_OUT", !.fee = 0, !.escrow = @ - o.fee]
      [] OTHER ->
            [o EXCEPT !.state = IF o.approve > 0 THEN "RESOLVED_APPROVED" ELSE "RESOLVED_DENIED",
                      !.fee = split.pot,
                      !.escrow = @ - unrevealed - split.cut]

Reveal(o, s, approve, block) ==
    LET next == Revealed(o, s, approve)
    IN  IF EveryoneRevealed(next) THEN Finalized(next, block) ELSE next

-----------------------------------------------------------------------------
(* Arbitration                                                              *)

CanResolveDispute(o) == o.state = "FROZEN"

\* The losers' slashes pay the sponsor's fee back; the original fee is the
\* winners' pot.
ResolveDispute(o, approves) ==
    LET losers == IF approves THEN o.deny ELSE o.approve
        split  == DaoFeeCut(o, IF approves THEN o.approve ELSE o.deny)
    IN  [o EXCEPT !.state = IF approves THEN "RESOLVED_APPROVED" ELSE "RESOLVED_DENIED",
                  !.fee = split.pot,
                  !.escrow = @ - o.fee - (losers * SlashAmount - o.fee + split.cut)]

\* outOfScope refuses the dispute; timeoutArbitration does once it is overdue.
CanTimeoutArbitration(o, block) == o.state = "FROZEN" /\ block > o.arbitration_deadline

OutOfScope(o) == [o EXCEPT !.state = "TIMED_OUT", !.fee = 0, !.escrow = @ - o.fee]

-----------------------------------------------------------------------------
(* Claims                                                                   *)

\* The side that a resolved request was won by.
Winning(o) == CASE o.state = "RESOLVED_APPROVED" -> "APPROVED"
                [] o.state = "RESOLVED_DENIED" -> "DENIED"
                [] OTHER -> "NONE"

CalcFeeReward(o, vote) ==
    IF vote # Winning(o) THEN 0
    ELSE o.fee \div (IF vote = "APPROVED" THEN o.approve ELSE o.deny)

SlashAmountFor(o, vote) ==
    LET slashed == IF vote = "PENDING" THEN o.approve > 0 \/ o.deny > 0
                   ELSE /\ Winning(o) \notin {"NONE", vote}
                        /\ o.approve > 0 /\ o.deny > 0
    IN  IF slashed THEN SlashAmount ELSE 0

Payout(o, s) ==
    LET vote == o.commitments[s].vote
    IN  BondTarget - SlashAmountFor(o, vote) + CalcFeeReward(o, vote)

\* requireResolved, markClaimed
CanClaim(o, s) ==
    o.state \in Resolved /\ o.commitments[s].vote # "NONE" /\ ~ o.commitments[s].claimed

Claim(o, s) ==
    [o EXCEPT !.commitments[s].claimed = TRUE, !.escrow = @ - Payout(o, s)]
=============================================================================
