--------------------------- MODULE SentinelEngine ---------------------------
(***************************************************************************)
(* The sentinel engine's answer to one request (crates/sentinel-engine): the*)
(* proposal is parsed, the checkers run in the order of main.rs, and the    *)
(* first denial, or what all of them vouch for, decides. The history of the *)
(* Safe is read from a provider in chunks, and CoW orders from an API; both *)
(* may fail at every request.                                               *)
(***************************************************************************)
EXTENDS Checkers, FiniteSets

CONSTANTS
    Requests,           \* [tx, block, logs]: what may be asked, on which chain
    Display(_),         \* the digits of an address that a wallet shows
    ProviderChain,      \* the chain id of the provider
    Heads,              \* the latest block, which may grow during a check
    MaxU64,
    Lookback,           \* address_poisoning_lookback_blocks
    MaxRange,           \* address_poisoning_max_block_range
    OtherOrder,         \* an order that the API returns in place of another
    Latest, NoVerdict, NoScan

ASSUME RangeAssumption == MaxRange \in 1..MaxU64
ASSUME HeadsAssumption == Heads \subseteq 0..MaxU64

VARIABLES
    request,
    calls,              \* the proposal's calls
    next,               \* the number of the next checker, 0 before parsing
    covered,            \* the union of the claims so far
    scan,               \* the lookup that address poisoning is at, or NoScan
    verdict

vars == <<request, calls, next, covered, scan, verdict>>

Tx == request.tx

-----------------------------------------------------------------------------
(* AddressPoisoningChecker                                                  *)

\* The first and the last four digits are the same, and some other is not.
IsLookalike(established, candidate) ==
    established # candidate /\ Display(established) = Display(candidate)

\* decode_target: the recipient or spender of a call, with the rule it is under.
NoTarget == [rule |-> "none"]
DecodeTarget(call) ==
    CASE call.operation # "Call" -> NoTarget
      [] call.data.fn = "transfer" /\ call.data.amount # 0 ->
            [rule |-> "R4_3", candidate |-> call.data.to]
      [] call.data.fn = "transferFrom" /\ call.data.from = Safe /\ call.data.amount # 0 ->
            [rule |-> "R4_3", candidate |-> call.data.to]
      [] call.data.fn = "approve" /\ call.data.amount # 0 ->
            [rule |-> "R4_4", candidate |-> call.data.to]
      [] OTHER -> NoTarget

SaturatingSub(a, b) == IF a < b THEN 0 ELSE a - b
SaturatingAdd(a, b) == IF a + b > MaxU64 THEN MaxU64 ELSE a + b

\* block_chunks: the end of the chunk that begins at start, and whether it is the last.
ChunkEnd(start, to) ==
    LET end == SaturatingAdd(start, MaxRange) IN IF end > to THEN to ELSE end

\* Faulty variant: the chunks end when the next one begins after the range.
LastChunkByStart(end, to) == SaturatingAdd(end, 1) > to

LastChunk(end, to) == end >= to

\* The logs that a chunk's filter selects, and the targets of those that decode
\* with an amount that is not zero.
GetLogs(token, from, to) ==
    {log \in request.logs : log.token = token /\ log.safe = Safe /\ log.block \in from..to}
Targets(logs) == {log.to : log \in {l \in logs : l.decodes /\ l.amount # 0}}

\* A scan of the calls cs at a block: the lookup of its i-th call has seen the
\* recipients and reads the chunk at start next.
Scan(cs, block) ==
    [calls |-> cs, block |-> block, i |-> 1, abstain |-> FALSE,
     start |-> SaturatingSub(block, Lookback), recipients |-> {}]

NextCall(s, abstains) ==
    [s EXCEPT !.i = @ + 1, !.abstain = @ \/ abstains,
              !.start = SaturatingSub(s.block, Lookback), !.recipients = {}]

-----------------------------------------------------------------------------
(* RefundChecker                                                            *)

HasRefundTransfer(tx) ==
    tx.gas_price # 0 /\ tx.gas_token # Zero /\ tx.refund_receiver # Zero

RefundTransfer(tx) ==
    MetaTransaction(tx.gas_token, 0,
        [fn |-> "transfer", to |-> tx.refund_receiver,
         amount |-> Saturated(tx.gas_price * tx.gas)], "Call")

-----------------------------------------------------------------------------
(* The engine                                                               *)

LocalCheckers == <<"cancellation", "escape_hatch", "base", "blocklist", "nested_safe",
                   "excessive_approval", "cow", "staking">>
CheckerNames == LocalCheckers \o <<"refund", "address_poisoning">>

CheckLocal(name, response) ==
    CASE name = "cancellation" -> CheckCancellation(Tx, calls)
      [] name = "escape_hatch" -> CheckEscapeHatch(calls)
      [] name = "base" -> CheckBase(calls)
      [] name = "blocklist" -> CheckBlocklist(calls)
      [] name = "nested_safe" -> CheckNestedSafe(calls)
      [] name = "excessive_approval" -> CheckExcessiveApproval(calls)
      [] name = "cow" -> CheckCow(Tx, calls, response)
      [] name = "staking" -> CheckStaking(Tx, calls)

\* A denial is the verdict; a claim adds to what is covered.
Assessed(assessment) ==
    /\ scan' = NoScan
    /\ \/ /\ assessment.kind = "Insecure"
          /\ verdict' = assessment
          /\ UNCHANGED <<request, calls, next, covered>>
       \/ /\ assessment.kind # "Insecure"
          /\ covered' = IF assessment.kind = "Secure" THEN Union(covered, assessment.coverage)
                        ELSE covered
          /\ next' = next + 1
          /\ UNCHANGED <<request, calls, verdict>>

Running == verdict = NoVerdict /\ next > 0

\* security_check parses the request first.
ParseRequest ==
    /\ verdict = NoVerdict /\ next = 0
    /\ LET parsed == Parse(Tx) IN
       \/ /\ parsed = TooDeep
          /\ verdict' = Abstain
          /\ UNCHANGED <<calls, next, covered>>
       \/ /\ parsed # TooDeep
          /\ calls' = parsed /\ next' = 1 /\ covered' = NoClaim(parsed)
          /\ UNCHANGED verdict
    /\ UNCHANGED <<request, scan>>

\* The order that the presignature of the calls is for, as the API has it.
TrueOrder(cs) ==
    LET uid == (CHOOSE p \in ApprovalAndPresignature(cs) : TRUE)[2].data.uid
    IN  [owner |-> uid.owner, receiver |-> uid.digest.receiver,
         sell_token |-> uid.digest.sell_token, sell_amount |-> uid.digest.sell_amount]

\* What the order API answers, once asked: the order, one with another owner or
\* other terms, or an error.
OrderResponses(cs) ==
    IF WantsOrder(cs)
    THEN {TrueOrder(cs), [TrueOrder(cs) EXCEPT !.owner = OtherOrder.owner], OtherOrder, NoData}
    ELSE {NoData}

RunLocalChecker ==
    /\ Running /\ next <= Len(LocalCheckers)
    /\ \E response \in (IF LocalCheckers[next] = "cow" THEN OrderResponses(calls) ELSE {NoData}) :
          Assessed(CheckLocal(LocalCheckers[next], response))

\* The calls that the refund checker and address poisoning itself look at.
Scanned == IF CheckerNames[next] = "refund" THEN <<RefundTransfer(Tx)>> ELSE calls
ScanDue == Running /\ next \in Len(LocalCheckers) + 1 .. Len(CheckerNames) /\ scan = NoScan

\* Nothing to scan: there is no refund, or the provider serves another chain, or
\* it cannot tell the latest block.
SkipScan ==
    /\ ScanDue
    /\ \/ CheckerNames[next] = "refund" /\ ~ HasRefundTransfer(Tx)
       \/ Tx.chain_id # ProviderChain
       \/ request.block = Latest
    /\ Assessed(Abstain)

StartScan ==
    /\ ScanDue
    /\ CheckerNames[next] = "refund" => HasRefundTransfer(Tx)
    /\ Tx.chain_id = ProviderChain
    /\ \E block \in (IF request.block = Latest THEN Heads ELSE {request.block}) :
          scan' = Scan(Scanned, block)
    /\ UNCHANGED <<request, calls, next, covered, verdict>>

Scanning == scan # NoScan /\ verdict = NoVerdict
Continue(s) == scan' = s /\ UNCHANGED <<request, calls, next, covered, verdict>>

\* A call without a target cannot be vouched for; the scan goes on to the next one.
SkipCall ==
    /\ Scanning /\ scan.i <= Len(scan.calls)
    /\ DecodeTarget(scan.calls[scan.i]) = NoTarget
    /\ Continue(NextCall(scan, TRUE))

\* Faulty variant: an incomplete lookup denies like a complete one.
ConcludeDespiteGaps(target, recipients, complete) ==
    IF \E r \in recipients : IsLookalike(r, target.candidate)
    THEN Assessed(Insecure(target.rule))
    ELSE Continue(NextCall(scan, TRUE))

\* The end of a lookup without an exact match.
Conclude(target, recipients, complete) ==
    IF complete /\ \E r \in recipients : IsLookalike(r, target.candidate)
    THEN Assessed(Insecure(target.rule))
    ELSE Continue(NextCall(scan, TRUE))

\* One chunk of established_recipients: eth_getLogs answers, or fails. A failure
\* ends the lookup, with what it has seen if that is anything.
ReadChunk ==
    /\ Scanning /\ scan.i <= Len(scan.calls)
    /\ LET call   == scan.calls[scan.i]
           target == DecodeTarget(call)
           end    == ChunkEnd(scan.start, scan.block)
           seen   == Targets(GetLogs(call.to, scan.start, end))
           all    == scan.recipients \cup seen
       IN  /\ target # NoTarget
           /\ \/ /\ target.candidate \in seen
                 /\ Continue(NextCall(scan, FALSE))
              \/ /\ target.candidate \notin seen /\ ~ LastChunk(end, scan.block)
                 /\ Continue([scan EXCEPT !.recipients = all, !.start = SaturatingAdd(end, 1)])
              \/ /\ target.candidate \notin seen /\ LastChunk(end, scan.block)
                 /\ Conclude(target, all, TRUE)

ChunkFails ==
    /\ Scanning /\ scan.i <= Len(scan.calls)
    /\ LET target == DecodeTarget(scan.calls[scan.i]) IN
       /\ target # NoTarget
       /\ Conclude(target, scan.recipients, FALSE)

FinishScan ==
    /\ Scanning /\ scan.i > Len(scan.calls)
    /\ Assessed(IF scan.abstain THEN Abstain
                ELSE IF CheckerNames[next] = "refund" THEN Secure(RefundClaim(calls))
                ELSE Secure(Claim(calls, {"TO", "DATA"})))

\* Every checker has run, and none denied.
Decide ==
    /\ Running /\ next > Len(CheckerNames)
    /\ verdict' = IF Covers(covered, RequiredFor(Tx, calls)) THEN Secure(covered) ELSE Abstain
    /\ UNCHANGED <<request, calls, next, covered, scan>>

Init ==
    /\ request \in Requests
    /\ calls = <<>> /\ next = 0 /\ covered = NoClaim(<<>>)
    /\ scan = NoScan /\ verdict = NoVerdict

\* Everything but a failing request.
Progress ==
    \/ ParseRequest \/ RunLocalChecker \/ SkipScan \/ StartScan
    \/ SkipCall \/ ReadChunk \/ FinishScan \/ Decide

Next == Progress \/ ChunkFails

Spec == Init /\ [][Next]_vars
\* The checks run on the async runtime until they answer, and so does a request
\* to the provider or the API: with an answer or, possibly, an error.
FairSpec == Spec /\ WF_vars(Progress)

-----------------------------------------------------------------------------
(* What a proposal does on chain, independently of how it is parsed         *)

\* The contract at `to` called by the Safe, and what it makes the Safe do. A
\* deployment that only calls reverts, and the whole transaction with it, when it
\* is to delegate: then nothing is executed.
Reverted == << [fn |-> "reverted"] >>
RECURSIVE Executed(_)
Executed(call) ==
    IF call.operation = "DelegateCall" /\ call.to \in DOMAIN Deployments
       /\ call.data.fn = "multiSend"
    THEN LET deployment == Deployments[call.to]
             Target(sub) == IF deployment.v150 /\ sub.to = Zero THEN Safe ELSE sub.to
             Run(sub) == IF sub.operation = "DelegateCall" /\ ~ deployment.delegates THEN Reverted
                         ELSE Executed([sub EXCEPT !.to = Target(sub)])
             parts == [i \in DOMAIN call.data.calls |-> Run(call.data.calls[i])]
         IN  IF Reverted \in Range(parts) THEN Reverted ELSE FlattenSeq(parts)
    ELSE << call >>

Executes == LET steps == Executed(AsMetaTransaction(Tx))
            IN  IF steps = Reverted THEN <<>> ELSE steps

IsSecure == verdict # NoVerdict /\ verdict.kind = "Secure"
IsInsecure == verdict # NoVerdict /\ verdict.kind = "Insecure"

\* A logged transfer or approval of the token to the target, within reach
\* of the block that the request is about.
Established(token, target) ==
    \E log \in request.logs :
        /\ log.token = token /\ log.safe = Safe /\ log.to = target
        /\ log.decodes /\ log.amount # 0
        /\ \E block \in (IF request.block = Latest THEN Heads ELSE {request.block}) :
              log.block <= block /\ log.block + Lookback >= block

PaysSafe(uid) ==
    \/ uid.digest.receiver = Safe
    \/ uid.digest.receiver = Zero /\ uid.owner = Safe

\* The allowance of call i is used up by a trade whose proceeds the Safe receives,
\* or by a stake that follows, but for a remainder that no part of a TWAP can use.
UsedUp(steps, i) ==
    LET token == steps[i].to
        grant == steps[i].data
    IN
    \/ /\ grant.to = VaultRelayer
       /\ \E j \in DOMAIN steps : LET order == steps[j].data IN
          \/ /\ order.fn = "setPreSignature" /\ order.signed /\ steps[j].to = Settlement
             /\ order.uid.digest.sell_token = token
             /\ order.uid.digest.sell_amount = grant.amount
             /\ PaysSafe(order.uid)
          \/ /\ order.fn = "createWithContext" /\ steps[j].to = ComposableCow
             /\ order.sell_token = token /\ order.receiver \in {Zero, Safe}
             /\ grant.amount < order.part * order.n + order.n
    \/ /\ grant.to = Staking /\ token = SafeToken
       /\ \E j \in DOMAIN steps : /\ j > i /\ steps[j].to = Staking
                                  /\ steps[j].data.fn = "stake"
                                  /\ steps[j].data.amount >= grant.amount

Backed(steps, i) ==
    LET data == steps[i].data IN
    CASE data.fn = "approve" -> \/ data.amount = 0 \/ Established(steps[i].to, data.to)
                                \/ UsedUp(steps, i)
      [] data.fn = "transfer" -> data.amount = 0 \/ Established(steps[i].to, data.to)
      [] data.fn = "transferFrom" ->
            data.from = Safe /\ (data.amount = 0 \/ Established(steps[i].to, data.to))
      [] data.fn = "claim" /\ steps[i].to = RewardsDistributor -> data.account = Safe
      [] data.fn = "setApprovalForAll" -> ~ data.approved
      [] OTHER -> TRUE

-----------------------------------------------------------------------------
(* Properties                                                               *)

\* A transaction that the engine answers Secure makes the Safe do no more than
\* plain calls without value: none to the Safe itself with data, none to a
\* blocklisted address, and no delegatecall, whatever MultiSend deployments it is
\* nested in (engine/proposal.rs flattens it, engine/mod.rs asks for every aspect
\* of every call).
SecureIsHarmless ==
    IsSecure => \A i \in DOMAIN Executes : LET call == Executes[i] IN
        /\ call.operation = "Call" /\ call.value = 0
        /\ call.to = Safe => call.data = NoData
        /\ call.to \notin Blocklist

\* A transaction that the engine answers Secure sends tokens, grants allowances
\* and pays its refund only to addresses for which the token has logged a transfer
\* or an approval of the Safe, or to a trade or stake of its own that uses the
\* allowance up (address_poisoning.rs, cow.rs, staking.rs, refund.rs together: no
\* checker sees all of it). The logs are taken as they are: a third party can forge
\* one with a transferFrom of nothing (address_poisoning.rs:38-48).
SecureGrantsBacked ==
    IsSecure => /\ \A i \in DOMAIN Executes : Backed(Executes, i)
                /\ Tx.gas_price # 0 => Established(Tx.gas_token, Tx.refund_receiver)

\* The assessment of address poisoning at a block when every request succeeds, by
\* the whole window at once.
CallVerdict(call, block) ==
    LET target == DecodeTarget(call)
        known  == Targets(GetLogs(call.to, SaturatingSub(block, Lookback), block))
    IN  CASE target = NoTarget -> "Abstain"
          [] target.candidate \in known -> "Secure"
          [] \E r \in known : IsLookalike(r, target.candidate) -> "Insecure"
          [] OTHER -> "Abstain"

WholeScan(cs, block, coverage) ==
    LET verdicts == {CallVerdict(cs[i], block) : i \in DOMAIN cs} IN
    CASE Tx.chain_id # ProviderChain -> Abstain
      [] "Insecure" \in verdicts -> Insecure("R4_3")
      [] verdicts \subseteq {"Secure"} -> Secure(coverage)
      [] OTHER -> Abstain

\* The verdict when nothing fails, the API tells the truth and the latest block is
\* b when the refund is looked at, and c when the calls are.
UndisturbedVerdict(b, c) ==
    LET At(head) == IF request.block = Latest THEN head ELSE request.block
        truth == IF WantsOrder(calls) THEN TrueOrder(calls) ELSE NoData
        assessments ==
            {CheckLocal(LocalCheckers[k], truth) : k \in DOMAIN LocalCheckers}
            \cup (IF HasRefundTransfer(Tx)
                  THEN {WholeScan(<<RefundTransfer(Tx)>>, At(b), RefundClaim(calls))} ELSE {})
            \cup {WholeScan(calls, At(c), Claim(calls, {"TO", "DATA"}))}
        claims == {a.coverage : a \in {x \in assessments : x.kind = "Secure"}}
        needed == RequiredFor(Tx, calls)
    IN  CASE \E a \in assessments : a.kind = "Insecure" -> "Insecure"
          [] /\ \A i \in DOMAIN calls : needed.calls[i] \subseteq UNION {k.calls[i] : k \in claims}
             /\ needed.refund => \E k \in claims : k.refund -> "Secure"
          [] OTHER -> "Abstain"

\* A provider that fails, or an order API that fails or lies, only ever turns a
\* verdict into an abstention: what is answered Secure or Insecure would be so had every
\* request succeeded (the `complete` flag of established_recipients, the uid that
\* check_presignature_batch recomputes).
FailuresOnlyAbstain ==
    /\ IsSecure => \E b, c \in Heads : UndisturbedVerdict(b, c) = "Secure"
    /\ IsInsecure => \E b, c \in Heads : UndisturbedVerdict(b, c) = "Insecure"

\* Every request is answered: the chunks of a lookup end, at the largest block
\* number too (block_chunks).
VerdictReached == <>(verdict # NoVerdict)
=============================================================================
