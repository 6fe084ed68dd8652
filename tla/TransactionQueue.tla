-------------------------- MODULE TransactionQueue --------------------------
(***************************************************************************)
(* The transaction queue of a service (crates/core/src/tx): what services   *)
(* ask to be executed gets a nonce, is submitted, marked as executed by the *)
(* account's nonce, unmarked by reorgs and forgotten once it is final.      *)
(*                                                                          *)
(* The driver calls the queue with the watcher's block status. One call is  *)
(* several steps here, since the chain moves between two of its requests;   *)
(* a request that fails ends the call, and a crash ends it for good.        *)
(* An underpriced submission is one that is retried and a batch any prefix  *)
(* of what is queued; Submissions has the fees and the gas behind that.     *)
(***************************************************************************)
EXTENDS Integers, Sequences, FiniteSets, FiniteSetsExt, TLC

CONSTANTS
    Ids,                \* transactions, numbered in the order they are queued
    Expiries,           \* the values of expires_at, Null for never
    Batched,            \* SubmissionMode: batched, else direct
    MaxInFlight,        \* max_in_flight_transactions of the direct mode
    BlocksBeforeResubmit,
    ReorgDepth,         \* max_reorg_depth
    InitialCode,        \* what the account is delegated to at first
    OfflineReorgs,      \* reorgs that the service misses because it is down
    Null,
    MaxHeight, MaxMined, MaxCrashes, MaxExternal    \* bounds

ASSUME IdsAssumption == IsFiniteSet(Ids) /\ Ids \subseteq Nat
ASSUME InFlightAssumption == MaxInFlight \in Nat \ {0}
ASSUME ModesAssumption == Batched \in BOOLEAN /\ OfflineReorgs \in BOOLEAN
ASSUME NumbersAssumption == ReorgDepth \in Nat /\ BlocksBeforeResubmit \in Nat
ASSUME NullAssumption == Null \notin Nat \cup [latest : Nat, safe : Nat]

VARIABLES
    \* The node: blocks [id, nonce, code, ran] with the account's state after each
    \* (the genesis block comes first), and broadcast transactions.
    chain, mempool, mined, highest,
    \* The block watcher: the blocks it follows, and its safe block.
    seen, safe,
    \* The tables of TransactionStorage.
    transactions,       \* rows [id, expires_at, nonce]
    allocated_nonces,   \* [nonce -> [request, delegate, submitted_at, executed_at]]
    \* TransactionQueue.
    block_status, account_cache,
    pc,                 \* where update_block_status or queue is, "down" after a crash
    stale,              \* the nonces that resubmit_stale has left
    crashes, external,
    gone                \* history: [id, nonce] of the rows that were pruned

nodeVars == <<chain, mempool, mined, highest, external>>
watcherVars == <<seen, safe>>
tableVars == <<transactions, allocated_nonces>>
queueVars == <<block_status, account_cache, pc, stale>>
vars == <<nodeVars, watcherVars, tableVars, queueVars, crashes, gone>>

Height == Len(chain) - 1
Block(n) == chain[n + 1]
Following == [i \in 1 .. Len(chain) |-> chain[i].id]

\* Account code is the delegate, NoDelegate for an account without code.
NoDelegate == "none"
Executor == "executor"

ASSUME NothingAssumption ==
    Null \notin {NoDelegate, Executor} /\ \A bundle \in SUBSET Ids : Null # bundle

Init ==
    /\ chain = <<[id |-> 0, nonce |-> 0, code |-> InitialCode, ran |-> {}]>>
    /\ mempool = {} /\ mined = 0 /\ highest = 0 /\ external = 0
    /\ seen = Following /\ safe = 0
    /\ transactions = {} /\ allocated_nonces = << >>
    /\ block_status = Null /\ account_cache = Null /\ pc = "down" /\ stale = {}
    /\ crashes = 0 /\ gone = {}

-----------------------------------------------------------------------------
(* The chain                                                                *)

\* The account's states after including t, in the order of nonces. Processing the
\* authorization of a transaction uses up the nonce after it. A batch is a call of
\* the account to itself, which does nothing unless the executor is its code.
After(account, t) ==
    LET code == IF t.delegate = Null THEN account.code ELSE t.delegate IN
    IF t.nonce # account.nonce THEN {}
    ELSE {[account EXCEPT !.nonce = IF t.delegate = Null THEN @ + 1 ELSE @ + 2,
                          !.code = code,
                          !.ran = IF Batched => code = Executor
                                  THEN @ \cup (t.ids \X {t.nonce}) ELSE @]}

Including(accounts) == UNION {After(a, t) : a \in accounts, t \in mempool}

\* A block includes up to two of the account's transactions.
Mine ==
    /\ mined < MaxMined /\ mined' = mined + 1
    /\ Height < MaxHeight
    /\ \E a \in {Block(Height)} \cup Including({Block(Height)})
                \cup Including(Including({Block(Height)})) :
          chain' = Append(chain, [a EXCEPT !.id = mined'])
    /\ highest' = Max({highest, Height + 1})
    /\ UNCHANGED <<mempool, external, watcherVars, tableVars, queueVars, crashes, gone>>

\* A reorg as deep as the service is configured for. It misses it if it is down.
Reorg ==
    /\ pc = "down" => OfflineReorgs
    /\ mined < MaxMined
    /\ \E n \in Max({0, highest - ReorgDepth}) .. Height - 1 : chain' = SubSeq(chain, 1, n + 1)
    /\ UNCHANGED <<mempool, mined, highest, external, watcherVars, tableVars, queueVars, crashes, gone>>

\* The account's owner uses it for something else.
ExternalTransaction ==
    /\ external < MaxExternal /\ external' = external + 1
    /\ mempool' = mempool \cup
           {[nonce |-> Block(Height).nonce, ids |-> {}, delegate |-> Null, ours |-> FALSE]}
    /\ UNCHANGED <<chain, mined, highest, watcherVars, tableVars, queueVars, crashes, gone>>

-----------------------------------------------------------------------------
(* TransactionStorage                                                       *)

InFlight(table) == {n \in DOMAIN table : table[n].request # Null /\ table[n].executed_at = Null}

\* enqueue
Enqueued(id, expires_at) == [id |-> id, expires_at |-> expires_at, nonce |-> Null]

\* Faulty variant: what has a nonce already is queued still.
QueuedAgain(block) ==
    {t \in transactions : t.expires_at = Null \/ t.expires_at > block}

Queued(block) ==
    {t \in transactions : t.nonce = Null /\ (t.expires_at = Null \/ t.expires_at > block)}

MarkExecuted(table, nonce, block) ==
    [n \in DOMAIN table |-> IF n < nonce /\ table[n].executed_at = Null
                            THEN [table[n] EXCEPT !.executed_at = block] ELSE table[n]]

\* Faulty variant: markers of the uncled block itself are kept.
UnmarkExecutedAbove(table, block) ==
    [n \in DOMAIN table |-> IF table[n].executed_at # Null /\ table[n].executed_at > block
                            THEN [table[n] EXCEPT !.executed_at = Null] ELSE table[n]]

UnmarkExecuted(table, block) ==
    [n \in DOMAIN table |-> IF table[n].executed_at # Null /\ table[n].executed_at >= block
                            THEN [table[n] EXCEPT !.executed_at = Null] ELSE table[n]]

\* Faulty variant: gaps are left.
RecoverAuthorizationGapNever(table, nonce) == table

\* recover_authorization_gap: the cancellation carries nothing.
RecoverAuthorizationGap(table, nonce) ==
    [n \in DOMAIN table |-> IF n = nonce /\ table[n].delegate # Null /\ table[n].request = Null
                            THEN [table[n] EXCEPT !.request = {}] ELSE table[n]]

\* prune
Final(table, safe_block) ==
    {n \in DOMAIN table : table[n].executed_at # Null /\ table[n].executed_at <= safe_block}

Prunable(safe_block) ==
    {t \in transactions :
        \/ t.nonce # Null /\ t.nonce \in Final(allocated_nonces, safe_block)
        \/ t.nonce = Null /\ t.expires_at # Null /\ t.expires_at <= safe_block}

Without(table, nonces) == [n \in DOMAIN table \ nonces |-> table[n]]

StaleSubmissions(table, block) ==
    {n \in InFlight(table) : table[n].submitted_at = Null
                                \/ table[n].submitted_at <= block - BlocksBeforeResubmit}

\* count_outstanding is not zero, with the rows `pruned` gone.
HasOutstanding(table, block, pruned) ==
    \/ \E n \in DOMAIN table : table[n].executed_at = Null
    \/ Queued(block) \ pruned # {}

\* record_submission, which fails without a transaction at that nonce. An
\* underpriced one has no block.
RecordSubmission(table, n, block) == [table EXCEPT ![n].submitted_at = block]

\* MAX(nonce, COALESCE(MAX(allocated) + 1, 0))
NextNonce(nonce) == Max({nonce} \cup {n + 1 : n \in DOMAIN allocated_nonces})

-----------------------------------------------------------------------------
(* TransactionQueue                                                         *)

\* Before its first request, update_block_status stores the status, prunes, and
\* takes back the markers that the new status puts in doubt.
UpdateBlockStatus(status) ==
    LET first     == block_status = Null
        moved     == first \/ block_status.latest # status.latest
        prunes    == first \/ block_status.safe # status.safe
        advanced  == first \/ block_status.latest < status.latest
        final     == IF prunes THEN Final(allocated_nonces, status.safe) ELSE {}
        pruned    == IF prunes THEN Prunable(status.safe) ELSE {}
        kept      == Without(allocated_nonces, final)
        table     == CASE first -> UnmarkExecuted(kept, status.safe + 1)
                       [] ~ first /\ block_status.latest > status.latest ->
                            UnmarkExecuted(kept, status.latest + 1)
                       [] OTHER -> kept
    IN  /\ block_status' = status
        /\ account_cache' = IF moved THEN Null ELSE account_cache
        /\ transactions' = transactions \ pruned
        /\ allocated_nonces' = table
        /\ gone' = gone \cup {[id |-> t.id, nonce |-> t.nonce] : t \in pruned}
        /\ pc' = IF advanced /\ HasOutstanding(table, status.latest, pruned)
                 THEN "account" ELSE "idle"
        /\ stale' = {}

\* The account at the block status' latest block, by number, on the chain that the
\* node has by now.
Account ==
    IF account_cache # Null THEN {account_cache}
    ELSE IF block_status.latest > Height THEN {}
    ELSE {[nonce |-> Block(block_status.latest).nonce, code |-> Block(block_status.latest).code]}

\* update_block_status, once the account is known.
MarkAccount ==
    /\ pc = "account"
    /\ \E account \in Account :
          LET marked == MarkExecuted(allocated_nonces, account.nonce, block_status.latest)
              table  == RecoverAuthorizationGap(marked, account.nonce)
          IN  /\ account_cache' = account
              /\ allocated_nonces' = table
              /\ stale' = StaleSubmissions(table, block_status.latest)
    /\ pc' = "resubmit"
    /\ UNCHANGED <<nodeVars, watcherVars, transactions, block_status, crashes, gone>>

\* AllocatedTransaction::build: the row at nonce n, with the authorization that the
\* row after it holds.
Build(table, n) ==
    [nonce |-> n, ids |-> table[n].request, ours |-> TRUE,
     delegate |-> IF n + 1 \in DOMAIN table THEN table[n + 1].delegate ELSE Null]

\* submit_transaction for the row at nonce n of `table`: accepted, refused as
\* underpriced, or failed, with the transaction broadcast or not.
SubmitTransaction(table, n) ==
    \/ /\ mempool' = mempool \cup {Build(table, n)}
       /\ allocated_nonces' = RecordSubmission(table, n, block_status.latest)
    \/ /\ mempool' = mempool
       /\ allocated_nonces' = RecordSubmission(table, n, Null)
    \/ /\ mempool' \in {mempool, mempool \cup {Build(table, n)}}
       /\ allocated_nonces' = table

\* resubmit_stale, in the order of nonces.
Resubmit ==
    /\ pc = "resubmit"
    /\ IF stale = {} THEN pc' = "submit" /\ UNCHANGED <<mempool, allocated_nonces, stale>>
       ELSE /\ SubmitTransaction(allocated_nonces, Min(stale))
            /\ stale' = stale \ {Min(stale)}
            /\ UNCHANGED pc
    /\ UNCHANGED <<chain, mined, highest, external, watcherVars, transactions, block_status,
                   account_cache, crashes, gone>>

Wanted == IF Batched THEN Executor ELSE NoDelegate

\* Bundler: a prefix of what is queued. One transaction when direct, else as many
\* as fit, at least one.
Bundles ==
    {b \in SUBSET Queued(block_status.latest) :
        /\ b # {}
        /\ ~ Batched => Cardinality(b) = 1
        /\ \A t \in b, u \in Queued(block_status.latest) : u.id < t.id => u \in b}

\* SubmissionMode::max_in_flight_transactions
MaxInFlightTransactions == IF Batched THEN 1 ELSE MaxInFlight

IsDelegated(account) == account.code # NoDelegate

MaySubmit(account) ==
    LET flying == Cardinality(InFlight(allocated_nonces)) IN
    /\ flying < MaxInFlightTransactions
    /\ IsDelegated(account) => flying = 0

\* next_transaction inserts the bundle's row, and that of the authorization that it
\* carries unless the account is delegated as wanted.
Allocated(table, account, nonce, bundle) ==
    LET row(request, delegate) == [request |-> request, delegate |-> delegate,
                                   submitted_at |-> Null, executed_at |-> Null]
        sent == {nonce} \cup (IF account.code = Wanted THEN {} ELSE {nonce + 1})
    IN  [n \in DOMAIN table \cup sent |->
            IF n = nonce THEN row({t.id : t \in bundle}, Null)
            ELSE IF n \in sent THEN row(Null, Wanted) ELSE table[n]]

\* One round of submit_pending: next_transaction, then submit_transaction.
SubmitPending ==
    /\ pc = "submit"
    /\ \E account \in Account, bundle \in Bundles :
          LET nonce == NextNonce(account.nonce) IN
              /\ MaySubmit(account)
              /\ account_cache' = account
              /\ transactions' = (transactions \ bundle) \cup
                                    {[t EXCEPT !.nonce = nonce] : t \in bundle}
              /\ SubmitTransaction(Allocated(allocated_nonces, account, nonce, bundle), nonce)
    /\ UNCHANGED <<chain, mined, highest, external, watcherVars, block_status, pc, stale, crashes,
                   gone>>

\* Nothing more to submit, or a request for the account or the fees failed.
CallEnds ==
    /\ pc \in {"account", "resubmit", "submit"}
    /\ pc' = "idle" /\ stale' = {}
    /\ UNCHANGED <<nodeVars, watcherVars, tableVars, block_status, account_cache, crashes, gone>>

\* queue: the service asks for a transaction.
Queue(id, expires_at) ==
    /\ pc = "idle"
    /\ \A t \in transactions : t.id < id
    /\ \A g \in gone : g.id < id
    /\ transactions' = transactions \cup {Enqueued(id, expires_at)}
    /\ pc' = IF block_status # Null THEN "submit" ELSE "idle"
    /\ UNCHANGED <<nodeVars, watcherVars, allocated_nonces, block_status, account_cache, stale,
                   crashes, gone>>

-----------------------------------------------------------------------------
(* The watcher and the driver                                               *)

LastIsCanonical == Len(seen) <= Len(chain) /\ chain[Len(seen)].id = seen[Len(seen)]

\* The next block, if it builds on the last one that was seen.
NewBlock ==
    /\ pc = "idle"
    /\ Len(seen) < Len(chain) /\ LastIsCanonical
    /\ seen' = Append(seen, chain[Len(seen) + 1].id)
    /\ safe' = Max({safe, Len(seen) - ReorgDepth})
    /\ UpdateBlockStatus([latest |-> Len(seen), safe |-> safe'])
    /\ UNCHANGED <<nodeVars, crashes>>

\* Otherwise the last one is uncled.
UncleBlock ==
    /\ pc = "idle"
    /\ Len(seen) - 1 > safe
    /\ ~ LastIsCanonical
    /\ seen' = SubSeq(seen, 1, Len(seen) - 1)
    /\ safe' = safe
    /\ UpdateBlockStatus([latest |-> Len(seen) - 2, safe |-> safe])
    /\ UNCHANGED <<nodeVars, crashes>>

Crash ==
    /\ pc # "down"
    /\ crashes < MaxCrashes /\ crashes' = crashes + 1
    /\ ~ OfflineReorgs => LastIsCanonical
    /\ pc' = "down" /\ block_status' = Null /\ account_cache' = Null /\ stale' = {}
    /\ UNCHANGED <<nodeVars, watcherVars, tableVars, gone>>

\* BlockWatcher::initialize catches up with the head at once.
Boot ==
    /\ pc = "down"
    /\ seen' = Following
    /\ safe' = Max({0, Height - ReorgDepth})
    /\ UpdateBlockStatus([latest |-> Height, safe |-> safe'])
    /\ UNCHANGED <<nodeVars, crashes>>

Next ==
    \/ Mine \/ Reorg \/ ExternalTransaction
    \/ MarkAccount \/ Resubmit \/ SubmitPending \/ CallEnds
    \/ \E id \in Ids, expires_at \in Expiries : Queue(id, expires_at)
    \/ NewBlock \/ UncleBlock \/ Crash \/ Boot

Spec == Init /\ [][Next]_vars

-----------------------------------------------------------------------------
(* Properties                                                               *)

\* What a service queues once is executed at most once on any chain, however
\* often it is submitted, uncled and submitted again.
ExecutedOnce ==
    \A x, y \in Block(Height).ran : x[1] = y[1] => x = y

\* storage.rs: prune removes "transactions that can no longer be affected by a
\* reorg". What is gone was included in a safe block, or its nonce was used there
\* by the account's owner, or it expired without ever having been submitted.
GoneOnlyWhenDone ==
    \A g \in gone : g.nonce # Null =>
        g.nonce < Block(Max({0, highest - ReorgDepth})).nonce

\* Once the queue has seen the chain's head, no transaction in flight waits for a
\* nonce that nobody is going to use: every nonce from the account's up to it is
\* that of a transaction in flight, of the authorization that it carries, or of a
\* transaction of the account's owner.
NothingStuck ==
    pc = "idle" /\ seen = Following /\ account_cache # Null =>
        \A n \in InFlight(allocated_nonces) : \A k \in Block(Height).nonce .. n - 1 :
            \/ k \in InFlight(allocated_nonces)
            \/ k \in DOMAIN allocated_nonces /\ k - 1 \in InFlight(allocated_nonces)
            \/ \E t \in mempool : ~ t.ours /\ t.nonce = k
=============================================================================
