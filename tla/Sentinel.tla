------------------------------ MODULE Sentinel ------------------------------
(***************************************************************************)
(* The sentinel's state transition (crates/sentinel/src/service.rs), for    *)
(* one request: State maps request ids to entries, and every handler looks  *)
(* at the entry of its own id only. A handler is a function of the entry    *)
(* and the event, and returns the entry and the commands it emits, in order.*)
(*                                                                          *)
(* A vote is its verdict: "Approved" or the rule that is cited. commit_hash *)
(* is injective in it, and the salt is a function of the request, so the    *)
(* verdict also stands for the commitment's hash. What is kept for metrics  *)
(* only (slash_amount, the tallies of each side) is left out.               *)
(***************************************************************************)
EXTENDS Integers, Sequences

CONSTANTS
    Me,
    Rules,              \* the charter's rules that a denial may cite
    VotingWindow,       \* voting_window
    Untracked,          \* no entry
    NoRequest           \* WaitingForEngineCheck::request is None

ASSUME VotingWindowAssumption == VotingWindow \in Nat

Verdicts == {"Approved"} \cup Rules
Outcomes == Verdicts \cup {"Unknown"}
Approves(verdict) == verdict = "Approved"

Result(entry, commands) == [entry |-> entry, commands |-> commands]
Ignored(entry) == Result(entry, <<>>)
Is(entry, tag) == entry # Untracked /\ entry.tag = tag

NoExpiry == -1
ClaimAction == [kind |-> "Claim", expires_at |-> NoExpiry]
FinalizeAction == [kind |-> "Finalize", expires_at |-> NoExpiry]

-----------------------------------------------------------------------------
(* Proposal, engine check and commitment                                    *)

HandleOracleTransactionProposed(entry, block) ==
    IF entry # Untracked THEN Ignored(entry)
    ELSE Result([tag |-> "WaitingForEngineCheck", deadline |-> block + VotingWindow,
                 request |-> NoRequest],
                <<[kind |-> "EngineCheck", block |-> block]>>)

CommitVote(verdict, request) ==
    Result([tag |-> "CollectingCommitments", verdict |-> verdict,
            commit_deadline |-> request.commit_deadline,
            reveal_deadline |-> request.reveal_deadline,
            committed_count |-> 0, self_committed |-> FALSE],
           <<[kind |-> "ApproveToken", bond |-> request.bond_target,
              expires_at |-> request.commit_deadline],
             [kind |-> "Commit", hash |-> verdict, expires_at |-> request.commit_deadline]>>)

HandleEngineCheckResult(entry, outcome) ==
    CASE ~ Is(entry, "WaitingForEngineCheck") -> Ignored(entry)
      [] outcome = "Unknown" -> Result(Untracked, <<>>)
      [] entry.request # NoRequest -> CommitVote(outcome, entry.request)
      [] OTHER -> Result([tag |-> "WaitingForRequest", verdict |-> outcome,
                          deadline |-> entry.deadline], <<>>)

HandleNewRequest(entry, request) ==
    CASE Is(entry, "WaitingForRequest") -> CommitVote(entry.verdict, request)
      [] Is(entry, "WaitingForEngineCheck") /\ entry.request = NoRequest ->
            Result([entry EXCEPT !.request = request], <<>>)
      [] OTHER -> Ignored(entry)

\* Faulty variant: anybody's commitment is taken for the sentinel's own.
HandleCommittedByAnyone(entry, sentinel) ==
    IF ~ Is(entry, "CollectingCommitments") THEN Ignored(entry)
    ELSE Result([entry EXCEPT !.committed_count = @ + 1, !.self_committed = TRUE], <<>>)

HandleCommitted(entry, sentinel) ==
    IF ~ Is(entry, "CollectingCommitments") THEN Ignored(entry)
    ELSE Result([entry EXCEPT !.committed_count = @ + 1,
                              !.self_committed = @ \/ sentinel = Me], <<>>)

-----------------------------------------------------------------------------
(* Reveals and finalization                                                 *)

\* Nobody revealed, or this sentinel did: worth a finalization. Otherwise dropped.
Finalize(entry) ==
    IF ~ entry.self_revealed /\ entry.revealed_count # 0 THEN Result(Untracked, <<>>)
    ELSE Result([tag |-> "WaitingForOutcome", verdict |-> entry.verdict], <<FinalizeAction>>)

HandleRevealed(entry, sentinel) ==
    IF ~ Is(entry, "CollectingVotes") THEN Ignored(entry)
    ELSE LET next == [entry EXCEPT !.revealed_count = @ + 1,
                                   !.self_revealed = @ \/ sentinel = Me]
         IN  IF next.revealed_count < next.committed_count THEN Result(next, <<>>)
             ELSE Finalize(next)

StartReveal(entry) ==
    Result([tag |-> "CollectingVotes", verdict |-> entry.verdict,
            reveal_deadline |-> entry.reveal_deadline,
            committed_count |-> entry.committed_count,
            revealed_count |-> 0, self_revealed |-> FALSE],
           <<[kind |-> "Reveal", verdict |-> entry.verdict,
              expires_at |-> entry.reveal_deadline]>>)

\* Faulty variant: it is left to others to end the arbitration.
TimeOutDisputeNever(entry, block) == Ignored(entry)

TimeOutDispute(entry, block) ==
    IF block <= entry.arbitration_deadline THEN Ignored(entry)
    ELSE Result(Untracked, <<[kind |-> "TimeoutArbitration", expires_at |-> NoExpiry],
                             ClaimAction>>)

HandleBlockAdvance(entry, block) ==
    CASE entry = Untracked -> Ignored(entry)
      [] Is(entry, "WaitingForEngineCheck") ->
            IF block <= (IF entry.request = NoRequest THEN entry.deadline
                         ELSE entry.request.commit_deadline)
            THEN Ignored(entry) ELSE Ignored(Untracked)
      [] Is(entry, "WaitingForRequest") ->
            IF block <= entry.deadline THEN Ignored(entry) ELSE Ignored(Untracked)
      [] Is(entry, "CollectingCommitments") ->
            CASE block <= entry.commit_deadline -> Ignored(entry)
              [] ~ entry.self_committed -> Ignored(Untracked)
              [] OTHER -> StartReveal(entry)
      [] Is(entry, "CollectingVotes") ->
            IF block <= entry.reveal_deadline THEN Ignored(entry) ELSE Finalize(entry)
      [] Is(entry, "WaitingForOutcome") -> Ignored(entry)
      [] OTHER -> TimeOutDispute(entry, block)

-----------------------------------------------------------------------------
(* Outcomes                                                                 *)

\* SentinelRequestState::approve_and_slash_amount: a bond of ours is at stake.
Bonded(entry) ==
    /\ entry.tag \notin {"WaitingForEngineCheck", "WaitingForRequest"}
    /\ entry.tag = "CollectingCommitments" => entry.self_committed

HandleRequestTimedOut(entry) ==
    IF entry = Untracked THEN Ignored(entry)
    ELSE Result(Untracked, IF Bonded(entry) THEN <<ClaimAction>> ELSE <<>>)

\* As above; only the metrics differ.
HandleOracleResult(entry) == HandleRequestTimedOut(entry)

HandleDisputeTriggered(entry, deadline) ==
    CASE entry = Untracked -> Ignored(entry)
      [] Bonded(entry) ->
            Result([tag |-> "WaitingForDisputeResolution", verdict |-> entry.verdict,
                    arbitration_deadline |-> deadline], <<>>)
      [] OTHER -> Result(Untracked, <<>>)

HandleResolved(entry) ==
    IF Is(entry, "WaitingForDisputeResolution") THEN Result(Untracked, <<ClaimAction>>)
    ELSE Ignored(entry)

\* Claimed is counted only.
HandleClaimed(entry) == Ignored(entry)

\* ArbitrationTimedOut and DisputeOutOfScope: claims from any state.
HandleArbitrationTimeout(entry) ==
    IF entry = Untracked THEN Ignored(entry) ELSE Result(Untracked, <<ClaimAction>>)
=============================================================================
