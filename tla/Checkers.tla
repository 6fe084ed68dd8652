------------------------------ MODULE Checkers ------------------------------
(***************************************************************************)
(* The checkers of the sentinel engine that need no history of the chain    *)
(* (crates/sentinel-engine/src/checkers): each assesses the calls of a      *)
(* proposal as insecure under a rule, as secure in the aspects it claims,   *)
(* or abstains.                                                             *)
(***************************************************************************)
EXTENDS SafeProposal

CONSTANTS Blocklist

\* The addresses that the checkers know.
VaultRelayer == "GPv2VaultRelayer"
Settlement == "GPv2Settlement"
ComposableCow == "ComposableCoW"
TwapHandler == "TWAP"
TimestampFactory == "CurrentBlockTimestampFactory"
Staking == "Staking"
SafeToken == "SafeToken"
RewardsDistributor == "RewardsDistributor"

Abstain == [kind |-> "Abstain"]
Insecure(rule) == [kind |-> "Insecure", rule |-> rule]
Secure(coverage) == [kind |-> "Secure", coverage |-> coverage]

\* A checker that vouches for all calls alike, or for nothing.
SecureIf(ok, calls, aspects) == IF ok THEN Secure(Claim(calls, aspects)) ELSE Abstain
All(calls, Test(_)) == \A i \in DOMAIN calls : Test(calls[i])
Some(calls, Test(_)) == \E i \in DOMAIN calls : Test(calls[i])

-----------------------------------------------------------------------------
(* Local checkers                                                           *)

\* CancellationChecker: the template has defaults except for the identity.
CheckCancellation(tx, calls) ==
    IF /\ tx.to = tx.safe /\ tx.value = 0 /\ tx.data = NoData /\ tx.operation = "Call"
       /\ tx.gas_price = 0 /\ tx.gas_token = Zero /\ tx.refund_receiver = Zero
    THEN Secure(Union(Claim(calls, AllAspects), RefundClaim(calls)))
    ELSE Abstain

IsEscapeHatchCall(call) ==
    /\ call.operation = "Call" /\ call.value = 0
    /\ call.data.fn \in {"announceTransaction", "cancelAnnouncement"}

CheckEscapeHatch(calls) == SecureIf(All(calls, IsEscapeHatchCall), calls, AllAspects)

OwnerManagement ==
    {"addOwnerWithThreshold", "removeOwner", "swapOwner", "changeThreshold", "disableModule"}
SupportedFallbackHandlers == {Zero, "CompatibilityFallbackHandler"}
SupportedGuards == {Zero}
SupportedModules == {"AllowanceModule"}
SupportedModuleGuards == {Zero}

CheckSelfCalls(data) ==
    \/ data.fn \in OwnerManagement
    \/ data.fn = "setFallbackHandler" /\ data.arg \in SupportedFallbackHandlers
    \/ data.fn = "setGuard" /\ data.arg \in SupportedGuards
    \/ data.fn = "enableModule" /\ data.arg \in SupportedModules
    \/ data.fn = "setModuleGuard" /\ data.arg \in SupportedModuleGuards

CheckCalls(call) == call.to # Safe \/ call.data = NoData \/ CheckSelfCalls(call.data)

\* The functions of the libraries that may be delegated to.
Migrations == {"migrateSingleton", "migrateWithFallbackHandler", "migrateL2Singleton",
               "migrateL2WithFallbackHandler"}
CheckDelegateCalls(call) ==
    \/ call.to = "SafeMigration" /\ call.data.fn \in Migrations
    \/ call.to = "SignMessageLib" /\ call.data.fn = "signMessage"
    \/ call.to = "CreateCall" /\ call.data.fn \in {"performCreate", "performCreate2"}

\* check_settings_change and check_delegatecall_integrity: the rule that a call breaks.
RuleBroken(call) ==
    CASE call.operation = "Call" /\ ~ CheckCalls(call) -> "R4_1"
      [] call.operation = "DelegateCall" /\ ~ CheckDelegateCalls(call) -> "R4_2"
      [] OTHER -> "none"

\* The rule of the first call that breaks one.
CheckBase(calls) ==
    LET broken == SelectSeq([i \in DOMAIN calls |-> RuleBroken(calls[i])], LAMBDA r : r # "none")
    IN  IF broken = <<>> THEN Secure(Claim(calls, {"TO", "OPERATION"}))
        ELSE Insecure(Head(broken))

CheckBlocklist(calls) ==
    IF \E i \in DOMAIN calls : calls[i].to \in Blocklist THEN Insecure("R4_6") ELSE Abstain

IsNestedExecTransaction(call) ==
    call.operation = "Call" /\ call.to # Safe /\ call.data.fn = "execTransaction"

CheckNestedSafe(calls) ==
    SecureIf(All(calls, IsNestedExecTransaction), calls, {"TO", "DATA", "OPERATION"})

\* decode_target_effects: an approval that is unlimited.
Unlimited(call) ==
    \/ call.data.fn = "approve" /\ call.data.amount = MaxU256
    \/ call.data.fn = "setApprovalForAll" /\ call.data.approved

CheckExcessiveApproval(calls) ==
    IF Some(calls, Unlimited) THEN Insecure("R4_5") ELSE Abstain

-----------------------------------------------------------------------------
(* CowChecker                                                               *)

PlainCall(call, fn) == call.operation = "Call" /\ call.value = 0 /\ call.data.fn = fn

ApprovesVaultRelayer(call) == PlainCall(call, "approve") /\ call.data.to = VaultRelayer

IsPresignature(call) == PlainCall(call, "setPreSignature") /\ call.to = Settlement

IsTwapCreate(call) ==
    /\ PlainCall(call, "createWithContext") /\ call.to = ComposableCow
    /\ call.data.handler = TwapHandler /\ call.data.factory = TimestampFactory

CheckDanglingApproval(calls) ==
    IF /\ Some(calls, ApprovesVaultRelayer)
       /\ ~ Some(calls, LAMBDA c : IsPresignature(c) \/ IsTwapCreate(c))
    THEN Insecure("R4_4") ELSE Abstain

\* A batch of two calls, in both orders.
Orderings(calls) ==
    IF Len(calls) = 2 THEN {<<calls[1], calls[2]>>, <<calls[2], calls[1]>>} ELSE {}

Signs(call) == IsPresignature(call) /\ call.data.signed

ApprovalAndPresignature(calls) ==
    {p \in Orderings(calls) : ApprovesVaultRelayer(p[1]) /\ Signs(p[2])}

\* The order that a presignature is to be checked with, if it is one.
WantsOrder(calls) == ApprovalAndPresignature(calls) # {}

Receiver(order) == IF order.receiver = Zero THEN order.owner ELSE order.receiver

\* compute_order_uid: the hash of the terms, which stands for them, and the owner,
\* which the terms that are hashed do not include.
ComputeOrderUid(order) ==
    [digest |-> [receiver |-> order.receiver, sell_token |-> order.sell_token,
                 sell_amount |-> order.sell_amount],
     owner |-> order.owner]

\* The answer of the API is an order, or an error: NoData.
CheckPresignatureBatch(calls, response) ==
    LET p == CHOOSE q \in ApprovalAndPresignature(calls) : TRUE IN
    CASE ~ WantsOrder(calls) -> Abstain
      [] response = NoData -> Abstain
      [] ComputeOrderUid(response) # p[2].data.uid -> Abstain
      [] Receiver(response) # Safe -> Insecure("R4_4")
      [] p[1].to = response.sell_token /\ p[1].data.amount = response.sell_amount ->
            Secure(Claim(calls, {"DATA"}))
      [] OTHER -> Insecure("R4_5")

\* twap_order_terms: no terms if the total overflows.
HasTwapTerms(call) == IsTwapCreate(call) /\ call.data.part * call.data.n <= MaxU256

ApprovalAndTwap(calls) ==
    {p \in Orderings(calls) : ApprovesVaultRelayer(p[1]) /\ HasTwapTerms(p[2])}

Saturated(amount) == IF amount > MaxU256 THEN MaxU256 ELSE amount

\* Faulty variant: a remainder of n is tolerated as well.
MaxApprovalForTwapTotalPlusOne(total, n) == Saturated(total + n)

MaxApprovalForTwapTotal(total, n) == Saturated(total + IF n = 0 THEN 0 ELSE n - 1)

CheckTwapBatch(calls) ==
    LET p == CHOOSE q \in ApprovalAndTwap(calls) : TRUE
        order == p[2].data
    IN
    CASE ApprovalAndTwap(calls) = {} -> Abstain
      [] order.receiver \notin {Safe, Zero} -> Insecure("R4_4")
      [] \/ p[1].to # order.sell_token
         \/ p[1].data.amount > MaxApprovalForTwapTotal(order.part * order.n, order.n) ->
            Insecure("R4_5")
      [] OTHER -> Secure(Claim(calls, {"DATA"}))

\* The first of the three checks that does not abstain.
CheckCow(tx, calls, response) ==
    LET opinions == IF tx.chain_id \notin {1, 42161, 100} THEN <<>>
                    ELSE SelectSeq(<<CheckDanglingApproval(calls),
                                     CheckPresignatureBatch(calls, response),
                                     CheckTwapBatch(calls)>>, LAMBDA a : a # Abstain)
    IN  IF opinions = <<>> THEN Abstain ELSE Head(opinions)

-----------------------------------------------------------------------------
(* StakingChecker                                                           *)

IsClaim(call) == PlainCall(call, "claim") /\ call.to = RewardsDistributor
IsStake(call) == PlainCall(call, "stake") /\ call.to = Staking
IsStakingApproval(call) ==
    PlainCall(call, "approve") /\ call.to = SafeToken /\ call.data.to = Staking

\* check_lone_call, check_pair: what is left when the claims are set aside, in order.
CheckRemaining(calls, remaining) ==
    CASE Len(remaining) = 1 -> SecureIf(IsStake(remaining[1]), calls, {"DATA"})
      [] Len(remaining) = 2 /\ IsStakingApproval(remaining[1]) /\ IsStake(remaining[2]) ->
            IF remaining[1].data.amount > remaining[2].data.amount THEN Insecure("R4_5")
            ELSE Secure(Claim(calls, {"DATA"}))
      [] OTHER -> Abstain

CheckStaking(tx, calls) ==
    LET remaining == SelectSeq(calls, LAMBDA c : ~ IsClaim(c))
    IN
    CASE tx.chain_id # 1 -> Abstain
      [] Some(calls, LAMBDA c : IsClaim(c) /\ c.data.account # Safe) -> Insecure("R4_3")
      [] remaining = <<>> -> SecureIf(calls # <<>>, calls, {"DATA"})
      [] OTHER -> CheckRemaining(calls, remaining)
=============================================================================
