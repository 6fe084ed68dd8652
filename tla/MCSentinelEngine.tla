-------------------------- MODULE MCSentinelEngine --------------------------
(***************************************************************************)
(* Transactions for TLC: every call below alone, every pair of them in a    *)
(* batch, the longer and the nested batches that the checkers tell apart,   *)
(* and refunds, each with the histories that its tokens may have.           *)
(***************************************************************************)
EXTENDS SentinelEngine

\* A recipient the Safe knows, one that reads like it, and one it has not met.
MCDisplay(address) == IF address = "friend*" THEN "friend" ELSE address

\* MultiSend deployments: v1.4.1 with delegatecalls, v1.4.1 and v1.5.0 without,
\* and v1.5.0 with them.
MCDeployments ==
    [MultiSend141 |-> [v150 |-> FALSE, delegates |-> TRUE],
     CallOnly150  |-> [v150 |-> TRUE,  delegates |-> FALSE],
     MultiSend150 |-> [v150 |-> TRUE,  delegates |-> TRUE]]

Order(owner, receiver, amount) ==
    [owner |-> owner, receiver |-> receiver, sell_token |-> "Token", sell_amount |-> amount]
MCOtherOrder == Order("stranger", "safe", 2)

Token(fn, to, amount) == MetaTransaction("Token", 0, [fn |-> fn, to |-> to, amount |-> amount], "Call")
Plain(to, data) == MetaTransaction(to, 0, data, "Call")
Presign(order) == Plain(Settlement, [fn |-> "setPreSignature", uid |-> ComputeOrderUid(order), signed |-> TRUE])
Twap(receiver, part, n) ==
    Plain(ComposableCow, [fn |-> "createWithContext", handler |-> TwapHandler,
        factory |-> TimestampFactory, sell_token |-> "Token", receiver |-> receiver,
        part |-> part, n |-> n])
ApproveStaking(amount) == Plain(SafeToken, [fn |-> "approve", to |-> Staking, amount |-> amount])
Stake(amount) == Plain(Staking, [fn |-> "stake", amount |-> amount])
ClaimFor(account) == Plain(RewardsDistributor, [fn |-> "claim", account |-> account])
Setting(fn, arg) == Plain(Safe, [fn |-> fn, arg |-> arg])

\* Transfers and approvals that the history decides about.
Payments ==
    {Token("transfer", "friend", 1), Token("transfer", "friend*", 1),
     Token("transfer", "stranger", 0), Token("approve", "friend", 1),
     Token("approve", "friend*", 0), Token("approve", "friend*", 1),
     Plain("Token", [fn |-> "transferFrom", from |-> Safe, to |-> "friend", amount |-> 1]),
     Plain("Token", [fn |-> "transferFrom", from |-> "stranger", to |-> "friend", amount |-> 1])}

Trades ==
    {Token("approve", VaultRelayer, amount) : amount \in {2, 5, 6, 7}}
    \cup {Presign(Order(Safe, Safe, 2)), Presign(Order(Safe, Zero, 5)),
          Presign(Order(Safe, "stranger", 2)), Presign(Order("stranger", Zero, 2))}
    \cup {Twap(Zero, 2, 2), Twap("stranger", 2, 2), Twap(Safe, 4, 2), Twap(Safe, 2, 0)}

Stakes == {ApproveStaking(1), ApproveStaking(2), Stake(1), ClaimFor(Safe), ClaimFor("stranger")}

\* Settings, delegatecalls, and what no checker decodes.
Others ==
    {Setting("swapOwner", Zero), Setting("setGuard", Zero), Setting("setGuard", "stranger"),
     Setting("enableModule", "AllowanceModule"),
     Plain(Safe, NoData), Plain("friend", NoData), Plain("scammer", NoData),
     MetaTransaction("friend", 1, NoData, "Call"),
     Plain("friend", [fn |-> "execTransaction"]), Plain(Zero, [fn |-> "execTransaction"]),
     Plain("SafenetGuard", [fn |-> "announceTransaction"]),
     Plain("Token", [fn |-> "setApprovalForAll", approved |-> TRUE]),
     MetaTransaction("SafeMigration", 0, [fn |-> "migrateSingleton"], "DelegateCall"),
     MetaTransaction("friend", 0, [fn |-> "other"], "DelegateCall")}

Leaves == Payments \cup Trades \cup Stakes \cup Others

Batch(deployment, cs) == MetaTransaction(deployment, 0, [fn |-> "multiSend", calls |-> cs], "DelegateCall")

Single == Leaves \cup {Batch("MultiSend141", <<>>)}
PairBatches == {Batch("CallOnly150", <<a, b>>) : a, b \in Leaves}
Nested ==
    {Batch(d, <<Batch(e, <<a>>)>>) :
        d, e \in {"MultiSend141", "CallOnly150", "MultiSend150"}, a \in Payments \cup Others}
    \cup {Batch("MultiSend150", <<Batch("MultiSend141", <<Batch("MultiSend141", <<a>>)>>)>>) :
             a \in Others}
Triples == {Batch("MultiSend141", <<a, ClaimFor(Safe), b>>) : a, b \in Stakes \cup {Plain(Safe, NoData)}}

SafeTx(call, chain, price, token, receiver, gas) ==
    [safe |-> Safe, chain_id |-> chain, to |-> call.to, value |-> call.value, data |-> call.data,
     operation |-> call.operation, gas_price |-> price, gas_token |-> token,
     refund_receiver |-> receiver, gas |-> gas]
Unpaid(call) == SafeTx(call, 1, 0, Zero, Zero, 0)

Log(token, to, amount, block) ==
    [token |-> token, safe |-> Safe, to |-> to, amount |-> amount, block |-> block, decodes |-> TRUE]
Histories ==
    {{Log("Token", "friend", 1, 2)},
     {Log("Token", "friend*", 0, 3), Log("Token", "friend", 1, 4)},
     {Log("Token", "friend*", 1, 2), Log("Token", "friend", 1, 5)},
     {Log("Token", "friend", 1, 0),
      [Log("Token", "friend", 1, 4) EXCEPT !.safe = "stranger"],
      [Log("Token", "friend", 1, 5) EXCEPT !.decodes = FALSE]},
     {Log("Token", VaultRelayer, 1, 5), Log("Token", "friend", 1, 4)}}

Refunds ==
    {SafeTx(call, chain, price, token, receiver, gas) :
        call \in {Token("transfer", "friend", 1), Plain(Safe, NoData), Stake(1)},
        chain \in {1, 2}, price \in {0, 1}, token \in {Zero, "Token"},
        receiver \in {Zero, "friend", "friend*"}, gas \in {0, 1}}

\* The latest block, and the largest one that there is.
MCRequests ==
    {[tx |-> tx, block |-> block, logs |-> logs] :
        tx \in {Unpaid(call) : call \in Single \cup Nested \cup Triples} \cup Refunds,
        block \in {Latest, MaxU64}, logs \in Histories}
    \cup {[tx |-> Unpaid(call), block |-> MaxU64, logs |-> logs] :
             call \in PairBatches, logs \in Histories}
=============================================================================
