----------------------- MODULE TransactionQueueProofs -----------------------
(***************************************************************************)
(* Proofs about the transaction queue, for every number of transactions,    *)
(* blocks, reorgs, crashes and failed requests: what is queued once runs at *)
(* most once, what is forgotten is final, nothing in flight waits for a     *)
(* nonce that is left out, and a resubmission replaces what it resubmits.   *)
(***************************************************************************)
EXTENDS TransactionQueue, Submissions, WellFoundedInduction, TLAPS

-----------------------------------------------------------------------------
(* Maxima and minima                                                        *)

\* Max of two numbers, the fees' and heights' case.
LEMMA MaxOfTwo ==
    ASSUME NEW a \in Int, NEW b \in Int
    PROVE  /\ Max({a, b}) \in {a, b} /\ Max({a, b}) \in Int
           /\ Max({a, b}) >= a /\ Max({a, b}) >= b
<1>1. \E x \in {a, b} : \A y \in {a, b} : x >= y
  <2>1. CASE a >= b BY <2>1
  <2>2. CASE b >= a BY <2>2
  <2> QED BY <2>1, <2>2
<1> QED BY <1>1 DEF Max

\* Min of two numbers.
LEMMA MinOfTwo ==
    ASSUME NEW a \in Int, NEW b \in Int
    PROVE  /\ Min({a, b}) \in {a, b} /\ Min({a, b}) \in Int
           /\ Min({a, b}) <= a /\ Min({a, b}) <= b
<1>1. \E x \in {a, b} : \A y \in {a, b} : x <= y
  <2>1. CASE a <= b BY <2>1
  <2>2. CASE b <= a BY <2>2
  <2> QED BY <2>1, <2>2
<1> QED BY <1>1 DEF Min

\* A set of numbers that is not empty has a least one.
LEMMA MinIsMember ==
    ASSUME NEW S \in SUBSET Nat, S # {}
    PROVE  Min(S) \in S /\ \A y \in S : Min(S) <= y
<1> DEFINE R == {ss \in Nat \X Nat : ss[1] < ss[2]}
<1>1. IsWellFoundedOn(R, Nat)
  BY NatLessThanWellFounded DEF OpToRel
<1>2. \A x, y \in Nat : y < x => <<y, x>> \in R
  OBVIOUS
<1> HIDE DEF R
<1>3. PICK least \in S : \A y \in S : ~ (<<y, least>> \in R)
  BY <1>1, WFMin
<1>4. ASSUME NEW y \in S PROVE least <= y
  <2>1. ~ (y < least)
    BY <1>2, <1>3
  <2> QED BY <2>1
<1>5. \E x \in S : \A y \in S : x <= y
  BY <1>4
<1> QED BY <1>5 DEF Min

\* A set of numbers below a bound has a greatest one.
LEMMA MaxIsMember ==
    ASSUME NEW S \in SUBSET Nat, S # {}, NEW bound \in Nat, \A x \in S : x <= bound
    PROVE  Max(S) \in S /\ \A x \in S : x <= Max(S)
<1> DEFINE Bounds == {m \in Nat : \A x \in S : x <= m}
           least == Min(Bounds)
<1>1. least \in Bounds /\ \A m \in Bounds : least <= m
  <2>1. bound \in Bounds /\ Bounds \in SUBSET Nat
    OBVIOUS
  <2> HIDE DEF Bounds
  <2> QED BY <2>1, MinIsMember
<1> HIDE DEF least
<1>2. least \in Nat /\ \A x \in S : x <= least
  BY <1>1
<1>3. least \in S
  <2> SUFFICES ASSUME least \notin S PROVE FALSE
    OBVIOUS
  <2>1. \A x \in S : x <= least - 1
    BY <1>2
  <2>2. PICK x \in S : TRUE
    OBVIOUS
  <2>3. least - 1 \in Bounds
    BY <1>2, <2>1, <2>2
  <2> HIDE DEF Bounds
  <2> QED BY <1>1, <1>2, <2>3
<1>4. \E x \in S : \A y \in S : x >= y
  BY <1>2, <1>3
<1>5. Max(S) \in S /\ \A y \in S : Max(S) >= y
  BY <1>4 DEF Max
<1> QED BY <1>5

-----------------------------------------------------------------------------
(* Fees                                                                     *)

\* fees.rs, bump: a resubmission's fees replace the pending transaction whatever
\* the new estimate is, from one wei on, since the ten percent are rounded up. A fee
\* of zero, as a cap of 0% leaves it, is raised only by an estimate above zero: that
\* is the one case in which the node refuses the replacement, for fees that are not
\* within ten percent of u128::MAX.
THEOREM BumpReplaces ==
    ASSUME MaxFee \in Nat,
           NEW fresh \in [max : Nat, priority : Nat],
           NEW previous \in [max : Nat, priority : Nat],
           previous.max * 11 + 9 <= MaxFee * 10,
           previous.priority * 11 + 9 <= MaxFee * 10
    PROVE  Replaces(Bump(fresh, previous), previous)
               <=> \A f \in {"max", "priority"} : previous[f] > 0 \/ fresh[f] > 0
<1>1. ASSUME NEW estimate \in Nat, NEW last \in Nat, last * 11 + 9 <= MaxFee * 10
      PROVE  /\ BumpFee(estimate, last) * 10 >= last * 11
             /\ BumpFee(estimate, last) > last <=> last > 0 \/ estimate > 0
  <2> DEFINE raised == last + DivCeil(last, 10)
  <2>1. /\ raised \in Nat /\ raised * 10 >= last * 11 /\ raised <= MaxFee
        /\ last > 0 => raised > last
        /\ last = 0 => raised = 0
    BY <1>1 DEF DivCeil
  <2> HIDE DEF raised
  <2>2. Min({raised, MaxFee}) = raised
    <3>1. /\ Min({raised, MaxFee}) \in {raised, MaxFee}
          /\ Min({raised, MaxFee}) <= raised
      <4>1. raised \in Int /\ MaxFee \in Int
        BY <2>1
      <4> QED BY <4>1, MinOfTwo, Zenon
    <3> QED BY <2>1, <3>1
  <2>3. BumpFee(estimate, last) = Max({estimate, raised})
    BY <2>2 DEF BumpFee, Saturated, raised
  <2>4. /\ Max({estimate, raised}) \in {estimate, raised}
        /\ Max({estimate, raised}) >= raised /\ Max({estimate, raised}) >= estimate
    <3>1. estimate \in Int /\ raised \in Int
      BY <2>1
    <3> QED BY <3>1, MaxOfTwo, Zenon
  <2> QED BY <2>1, <2>3, <2>4
<1>2. /\ BumpFee(fresh.max, previous.max) * 10 >= previous.max * 11
      /\ BumpFee(fresh.max, previous.max) > previous.max <=> previous.max > 0 \/ fresh.max > 0
  BY <1>1
<1>3. /\ BumpFee(fresh.priority, previous.priority) * 10 >= previous.priority * 11
      /\ BumpFee(fresh.priority, previous.priority) > previous.priority
            <=> previous.priority > 0 \/ fresh.priority > 0
  BY <1>1
<1> QED BY <1>2, <1>3 DEF Replaces, Bump

-----------------------------------------------------------------------------
(* What the state looks like                                                *)

Codes == {InitialCode, NoDelegate, Executor}
BlockType == [id : Nat, nonce : Nat, code : Codes, ran : SUBSET (Ids \X Nat)]
SentType == [nonce : Nat, ids : SUBSET Ids, delegate : {Null, Wanted}, ours : BOOLEAN]
RowType == [id : Ids, expires_at : Expiries, nonce : Nat \cup {Null}]
NonceType == [request : (SUBSET Ids) \cup {Null}, delegate : {Null, Wanted},
              submitted_at : Nat \cup {Null}, executed_at : Nat \cup {Null}]
StatusType == [latest : Nat, safe : Nat]
AccountType == [nonce : Nat, code : Codes]

\* A table of allocated nonces. It is finite: some number is above all of them.
TableOK(table) ==
    /\ DOMAIN table \subseteq Nat
    /\ \A n \in DOMAIN table : table[n] \in NonceType
    /\ \E bound \in Nat : \A n \in DOMAIN table : n <= bound

ChainOK ==
    /\ chain \in Seq(BlockType) /\ Len(chain) > 0
    /\ mempool \subseteq SentType
    /\ mined \in Nat /\ highest \in Nat
    /\ seen \in Seq(Nat) /\ Len(seen) > 0 /\ safe \in Nat

\* While the queue is in a call, the status is that of the call and only
\* resubmit_stale has nonces left.
CallOK ==
    /\ pc \in {"down", "idle", "account", "resubmit", "submit"}
    /\ pc = "down" => block_status = Null /\ account_cache = Null
    /\ pc # "down" => block_status = [latest |-> Len(seen) - 1, safe |-> safe]
    /\ account_cache \in AccountType \cup {Null}
    /\ stale \subseteq InFlight(allocated_nonces)
    /\ pc # "resubmit" => stale = {}

\* Transaction `id` was given `nonce`.
Given(id, nonce) ==
    \/ \E t \in transactions : t.id = id /\ t.nonce = nonce
    \/ \E g \in gone : g.id = id /\ g.nonce = nonce

\* A transaction has one row, or is gone.
RowsOK ==
    /\ transactions \subseteq RowType
    /\ gone \subseteq [id : Ids, nonce : Nat \cup {Null}]
    /\ \A t, u \in transactions : t.id = u.id => t = u
    /\ \A g, h \in gone : g.id = h.id => g = h
    /\ \A t \in transactions, g \in gone : t.id # g.id

\* What a nonce carries, in the table, in the mempool and on chain, was given that
\* nonce.
NoncesOK ==
    /\ \A n \in DOMAIN allocated_nonces :
          allocated_nonces[n].request # Null =>
              \A id \in allocated_nonces[n].request : Given(id, n)
    /\ \A m \in mempool : \A id \in m.ids : Given(id, m.nonce)
    /\ \A k \in 1 .. Len(chain) : \A x \in chain[k].ran : Given(x[1], x[2])

QueueInv == ChainOK /\ TableOK(allocated_nonces) /\ CallOK /\ RowsOK /\ NoncesOK

-----------------------------------------------------------------------------
(* The table's operations                                                   *)

\* `new` has rows of `old`, with what they carry, or with nothing to carry.
Keeps(old, new) ==
    /\ TableOK(new)
    /\ DOMAIN new \subseteq DOMAIN old
    /\ \A n \in DOMAIN new : new[n].request = old[n].request \/ new[n].request = {}

\* Keeping is transitive.
LEMMA KeepsTwice ==
    ASSUME NEW a, NEW b, NEW c, Keeps(a, b), Keeps(b, c)
    PROVE  Keeps(a, c)
BY DEF Keeps

\* prune only takes rows out.
LEMMA WithoutKeeps ==
    ASSUME NEW table, TableOK(table), NEW nonces
    PROVE  Keeps(table, Without(table, nonces))
BY DEF Keeps, TableOK, Without

\* mark_executed_below keeps what rows carry.
LEMMA MarkKeeps ==
    ASSUME NEW table, TableOK(table), NEW nonce \in Nat, NEW block \in Nat
    PROVE  /\ Keeps(table, MarkExecuted(table, nonce, block))
           /\ DOMAIN MarkExecuted(table, nonce, block) = DOMAIN table
<1> DEFINE new == MarkExecuted(table, nonce, block)
<1>1. DOMAIN new = DOMAIN table
  BY DEF MarkExecuted
<1>2. ASSUME NEW n \in DOMAIN table
      PROVE  new[n] = table[n] \/ new[n] = [table[n] EXCEPT !.executed_at = block]
  BY <1>2 DEF MarkExecuted
<1> HIDE DEF new
<1>3. ASSUME NEW n \in DOMAIN table
      PROVE  new[n] \in NonceType /\ new[n].request = table[n].request
  <2>1. table[n] \in NonceType
    BY DEF TableOK
  <2>2. /\ [table[n] EXCEPT !.executed_at = block] \in NonceType
        /\ [table[n] EXCEPT !.executed_at = block].request = table[n].request
    BY <2>1 DEF NonceType
  <2> QED BY <1>2, <2>1, <2>2
<1>4. Keeps(table, new)
  BY <1>1, <1>3 DEF Keeps, TableOK
<1> QED BY <1>1, <1>4 DEF new

\* unmark_executed keeps what rows carry.
LEMMA UnmarkKeeps ==
    ASSUME NEW table, TableOK(table), NEW block \in Int
    PROVE  /\ Keeps(table, UnmarkExecuted(table, block))
           /\ DOMAIN UnmarkExecuted(table, block) = DOMAIN table
<1> DEFINE new == UnmarkExecuted(table, block)
<1>1. DOMAIN new = DOMAIN table
  BY DEF UnmarkExecuted
<1>2. ASSUME NEW n \in DOMAIN table
      PROVE  new[n] = table[n] \/ new[n] = [table[n] EXCEPT !.executed_at = Null]
  BY <1>2 DEF UnmarkExecuted
<1> HIDE DEF new
<1>3. ASSUME NEW n \in DOMAIN table
      PROVE  new[n] \in NonceType /\ new[n].request = table[n].request
  <2>1. table[n] \in NonceType
    BY DEF TableOK
  <2>2. /\ [table[n] EXCEPT !.executed_at = Null] \in NonceType
        /\ [table[n] EXCEPT !.executed_at = Null].request = table[n].request
    BY <2>1 DEF NonceType
  <2> QED BY <1>2, <2>1, <2>2
<1>4. Keeps(table, new)
  BY <1>1, <1>3 DEF Keeps, TableOK
<1> QED BY <1>1, <1>4 DEF new

\* recover_authorization_gap: the cancellation carries nothing.
LEMMA RecoverKeeps ==
    ASSUME NEW table, TableOK(table), NEW nonce \in Nat
    PROVE  /\ Keeps(table, RecoverAuthorizationGap(table, nonce))
           /\ DOMAIN RecoverAuthorizationGap(table, nonce) = DOMAIN table
           /\ \A n \in DOMAIN table :
                 RecoverAuthorizationGap(table, nonce)[n].executed_at = table[n].executed_at
<1> DEFINE new == RecoverAuthorizationGap(table, nonce)
<1>1. DOMAIN new = DOMAIN table
  BY DEF RecoverAuthorizationGap
<1>2. ASSUME NEW n \in DOMAIN table
      PROVE  new[n] = table[n] \/ new[n] = [table[n] EXCEPT !.request = {}]
  BY <1>2 DEF RecoverAuthorizationGap
<1> HIDE DEF new
<1>3. ASSUME NEW n \in DOMAIN table
      PROVE  /\ new[n] \in NonceType /\ new[n].executed_at = table[n].executed_at
             /\ new[n].request = table[n].request \/ new[n].request = {}
  <2>1. table[n] \in NonceType
    BY DEF TableOK
  <2>2. /\ [table[n] EXCEPT !.request = {}] \in NonceType
        /\ [table[n] EXCEPT !.request = {}].request = {}
        /\ [table[n] EXCEPT !.request = {}].executed_at = table[n].executed_at
    BY <2>1 DEF NonceType
  <2> QED BY <1>2, <2>1, <2>2
<1>4. Keeps(table, new)
  BY <1>1, <1>3 DEF Keeps, TableOK
<1> QED BY <1>1, <1>3, <1>4 DEF new

\* record_submission changes no row but for when it was submitted.
LEMMA RecordKeeps ==
    ASSUME NEW table, TableOK(table), NEW nonce \in DOMAIN table, NEW block \in Nat \cup {Null}
    PROVE  /\ Keeps(table, RecordSubmission(table, nonce, block))
           /\ DOMAIN RecordSubmission(table, nonce, block) = DOMAIN table
           /\ \A n \in DOMAIN table :
                 /\ RecordSubmission(table, nonce, block)[n].executed_at = table[n].executed_at
                 /\ RecordSubmission(table, nonce, block)[n].request = table[n].request
<1> DEFINE new == RecordSubmission(table, nonce, block)
<1>1. DOMAIN new = DOMAIN table
  BY DEF RecordSubmission
<1>2. ASSUME NEW n \in DOMAIN table
      PROVE  new[n] = table[n] \/ new[n] = [table[n] EXCEPT !.submitted_at = block]
  BY <1>2 DEF RecordSubmission
<1> HIDE DEF new
<1>3. ASSUME NEW n \in DOMAIN table
      PROVE  /\ new[n] \in NonceType /\ new[n].executed_at = table[n].executed_at
             /\ new[n].request = table[n].request
  <2>1. table[n] \in NonceType
    BY DEF TableOK
  <2>2. /\ [table[n] EXCEPT !.submitted_at = block] \in NonceType
        /\ [table[n] EXCEPT !.submitted_at = block].request = table[n].request
        /\ [table[n] EXCEPT !.submitted_at = block].executed_at = table[n].executed_at
    BY <2>1 DEF NonceType
  <2> QED BY <1>2, <2>1, <2>2
<1>4. Keeps(table, new)
  BY <1>1, <1>3 DEF Keeps, TableOK
<1> QED BY <1>1, <1>3, <1>4 DEF new

\* next_transaction inserts typed rows, a bundle's ids at the nonce of its row and
\* nothing at the nonce of an authorization.
LEMMA AllocatedRows ==
    ASSUME NEW account \in AccountType, NEW nonce \in Nat, NEW table, TableOK(table),
           NEW bundle \in SUBSET RowType
    PROVE  LET new == Allocated(table, account, nonce, bundle) IN
           /\ TableOK(new) /\ nonce \in DOMAIN new
           /\ DOMAIN table \subseteq DOMAIN new
           /\ new[nonce].request = {t.id : t \in bundle}
           /\ new[nonce].executed_at = Null
           /\ \A n \in DOMAIN new :
                 \/ n = nonce
                 \/ new[n].request = Null /\ new[n].executed_at = Null
                 \/ n \in DOMAIN table /\ new[n] = table[n]
<1> DEFINE row(request, delegate) == [request |-> request, delegate |-> delegate,
                                      submitted_at |-> Null, executed_at |-> Null]
           ids == {t.id : t \in bundle}
           sent == row(ids, Null)
           authorization == row(Null, Wanted)
           rows == {nonce} \cup (IF account.code = Wanted THEN {} ELSE {nonce + 1})
           new == Allocated(table, account, nonce, bundle)
<1>1. /\ sent \in NonceType /\ sent.request = ids /\ sent.executed_at = Null
      /\ authorization \in NonceType
      /\ authorization.request = Null /\ authorization.executed_at = Null
  <2>1. ids \in SUBSET Ids
    BY DEF RowType
  <2> HIDE DEF ids
  <2> QED BY <2>1 DEF NonceType
<1>2. nonce \in rows /\ rows \subseteq {nonce, nonce + 1}
  OBVIOUS
<1>3. new = [n \in DOMAIN table \cup rows |->
                IF n = nonce THEN sent ELSE IF n \in rows THEN authorization ELSE table[n]]
  BY DEF Allocated
<1> HIDE DEF sent, authorization, ids, rows, new
<1>4. /\ DOMAIN new = DOMAIN table \cup rows
      /\ new[nonce] = sent
      /\ \A n \in DOMAIN new : n # nonce => new[n] = IF n \in rows THEN authorization ELSE table[n]
  BY <1>2, <1>3
<1>5. TableOK(new)
  <2>1. DOMAIN new \subseteq Nat
    <3>1. rows \subseteq Nat
      BY <1>2
    <3>2. DOMAIN table \subseteq Nat
      BY DEF TableOK
    <3> QED BY <1>4, <3>1, <3>2
  <2>2. \A n \in DOMAIN new : new[n] \in NonceType
    BY <1>1, <1>2, <1>4 DEF TableOK
  <2>3. PICK bound \in Nat : \A n \in DOMAIN table : n <= bound
    BY DEF TableOK
  <2>4. bound + nonce + 1 \in Nat /\ \A n \in DOMAIN new : n <= bound + nonce + 1
    BY <1>2, <1>4, <2>1, <2>3
  <2> QED BY <2>1, <2>2, <2>4 DEF TableOK
<1>6. /\ nonce \in DOMAIN new /\ DOMAIN table \subseteq DOMAIN new
      /\ new[nonce].request = ids /\ new[nonce].executed_at = Null
  BY <1>1, <1>2, <1>4
<1>7. ASSUME NEW n \in DOMAIN new
      PROVE  \/ n = nonce
             \/ new[n].request = Null /\ new[n].executed_at = Null
             \/ n \in DOMAIN table /\ new[n] = table[n]
  BY <1>1, <1>2, <1>4
<1> QED BY <1>5, <1>6, <1>7 DEF new, ids

-----------------------------------------------------------------------------
(* What the actions keep                                                    *)

\* The nonces that transactions were given stay theirs.
GivenKept == \A id \in Ids, nonce \in Nat : Given(id, nonce) => Given(id, nonce)'

\* What is carried by kept rows was given to them, as before.
LEMMA CarriedKept ==
    ASSUME QueueInv, GivenKept, Keeps(allocated_nonces, allocated_nonces')
    PROVE  \A n \in DOMAIN allocated_nonces' :
               allocated_nonces'[n].request # Null =>
                   \A id \in allocated_nonces'[n].request : Given(id, n)'
<1> SUFFICES ASSUME NEW n \in DOMAIN allocated_nonces', allocated_nonces'[n].request # Null,
                    NEW id \in allocated_nonces'[n].request
             PROVE  Given(id, n)'
  OBVIOUS
<1>1. /\ n \in DOMAIN allocated_nonces /\ n \in Nat
      /\ allocated_nonces[n] \in NonceType
      /\ allocated_nonces'[n].request = allocated_nonces[n].request
  BY DEF Keeps, QueueInv, TableOK
<1>2. Given(id, n)
  BY <1>1 DEF QueueInv, NoncesOK
<1>3. id \in Ids
  BY <1>1 DEF NonceType
<1> QED BY <1>1, <1>2, <1>3 DEF GivenKept

\* What is broadcast or on chain was given its nonce, as before.
LEMMA SentKept ==
    ASSUME QueueInv, GivenKept
    PROVE  /\ \A m \in mempool : \A id \in m.ids : Given(id, m.nonce)'
           /\ \A k \in 1 .. Len(chain) : \A x \in chain[k].ran : Given(x[1], x[2])'
<1>1. ASSUME NEW m \in mempool, NEW id \in m.ids PROVE Given(id, m.nonce)'
  <2>1. m \in SentType
    BY DEF QueueInv, ChainOK
  <2>2. id \in Ids /\ m.nonce \in Nat
    BY <2>1 DEF SentType
  <2>3. Given(id, m.nonce)
    BY DEF QueueInv, NoncesOK
  <2> QED BY <2>2, <2>3 DEF GivenKept
<1>2. ASSUME NEW k \in 1 .. Len(chain), NEW x \in chain[k].ran PROVE Given(x[1], x[2])'
  <2>1. chain[k] \in BlockType
    BY DEF QueueInv, ChainOK
  <2>2. x[1] \in Ids /\ x[2] \in Nat
    BY <2>1 DEF BlockType
  <2>3. Given(x[1], x[2])
    BY DEF QueueInv, NoncesOK
  <2> QED BY <2>2, <2>3 DEF GivenKept
<1> QED BY <1>1, <1>2

\* Nothing that was given changes hands when rows and history stay.
LEMMA SameGiven ==
    ASSUME UNCHANGED <<transactions, gone>>
    PROVE  GivenKept
BY DEF GivenKept, Given

\* update_block_status, before its first request: it forgets rows, and remembers
\* in the history which ones.
LEMMA UpdateKeeps ==
    ASSUME QueueInv, NEW status \in StatusType, UpdateBlockStatus(status)
    PROVE  /\ Keeps(allocated_nonces, allocated_nonces') /\ RowsOK' /\ GivenKept
           /\ block_status' = status /\ pc' \in {"account", "idle"} /\ stale' = {}
           /\ account_cache' \in {Null, account_cache}
<1> DEFINE first     == block_status = Null
           prunes    == first \/ block_status.safe # status.safe
           final     == IF prunes THEN Final(allocated_nonces, status.safe) ELSE {}
           pruned    == IF prunes THEN Prunable(status.safe) ELSE {}
           kept      == Without(allocated_nonces, final)
<1>1. /\ block_status' = status /\ pc' \in {"account", "idle"} /\ stale' = {}
      /\ account_cache' \in {Null, account_cache}
      /\ transactions' = transactions \ pruned
      /\ gone' = gone \cup {[id |-> t.id, nonce |-> t.nonce] : t \in pruned}
  BY DEF UpdateBlockStatus
<1>2. \/ allocated_nonces' = kept
      \/ allocated_nonces' = UnmarkExecuted(kept, status.safe + 1)
      \/ allocated_nonces' = UnmarkExecuted(kept, status.latest + 1)
  BY DEF UpdateBlockStatus
<1>3. pruned \subseteq transactions
  BY DEF Prunable
<1>4. Keeps(allocated_nonces, allocated_nonces')
  <2> HIDE DEF final
  <2>1. Keeps(allocated_nonces, kept)
    BY WithoutKeeps DEF QueueInv
  <2> HIDE DEF kept
  <2>2. TableOK(kept) /\ status.safe + 1 \in Int /\ status.latest + 1 \in Int
    BY <2>1 DEF Keeps, StatusType
  <2>3. /\ Keeps(kept, UnmarkExecuted(kept, status.safe + 1))
        /\ Keeps(kept, UnmarkExecuted(kept, status.latest + 1))
    BY <2>2, UnmarkKeeps
  <2>4. /\ Keeps(allocated_nonces, UnmarkExecuted(kept, status.safe + 1))
        /\ Keeps(allocated_nonces, UnmarkExecuted(kept, status.latest + 1))
    BY <2>1, <2>3, KeepsTwice
  <2> QED BY <1>2, <2>1, <2>4
<1> HIDE DEF pruned
<1>5. RowsOK'
  <2>1. \A g \in gone' : g \in gone \/ \E t \in pruned : g = [id |-> t.id, nonce |-> t.nonce]
    BY <1>1
  <2>2. transactions' \subseteq transactions /\ \A t \in pruned : t \notin transactions'
    BY <1>1
  <2>3. \A t \in transactions : t.id \in Ids /\ t.nonce \in Nat \cup {Null}
    BY DEF QueueInv, RowsOK, RowType
  <2>4. gone' \subseteq [id : Ids, nonce : Nat \cup {Null}]
    BY <1>3, <2>1, <2>3 DEF QueueInv, RowsOK
  <2>5. ASSUME NEW t \in transactions', NEW g \in gone' PROVE t.id # g.id
    BY <1>3, <2>1, <2>2 DEF QueueInv, RowsOK
  <2>6. ASSUME NEW g \in gone', NEW h \in gone', g.id = h.id PROVE g = h
    BY <1>3, <2>1, <2>6 DEF QueueInv, RowsOK
  <2> QED BY <2>2, <2>4, <2>5, <2>6 DEF QueueInv, RowsOK
<1>6. GivenKept
  <2> SUFFICES ASSUME NEW id \in Ids, NEW nonce \in Nat, Given(id, nonce)
               PROVE  Given(id, nonce)'
    BY DEF GivenKept
  <2>1. CASE \E g \in gone : g.id = id /\ g.nonce = nonce
    BY <1>1, <2>1 DEF Given
  <2>2. CASE \E t \in transactions : t.id = id /\ t.nonce = nonce
    <3>1. PICK t \in transactions : t.id = id /\ t.nonce = nonce
      BY <2>2
    <3>2. CASE t \in pruned
      <4>1. [id |-> t.id, nonce |-> t.nonce] \in gone'
        BY <1>1, <3>2
      <4>2. [id |-> t.id, nonce |-> t.nonce].id = id /\ [id |-> t.id, nonce |-> t.nonce].nonce = nonce
        BY <3>1
      <4> QED BY <4>1, <4>2 DEF Given
    <3>3. CASE t \notin pruned
      BY <1>1, <3>1, <3>3 DEF Given
    <3> QED BY <3>2, <3>3
  <2> QED BY <2>1, <2>2 DEF Given
<1> QED BY <1>1, <1>4, <1>5, <1>6

\* A step that leaves the chain, the mempool and the watcher alone needs only its
\* effect on tables, call and rows looked at.
LEMMA QueueKeeps ==
    ASSUME QueueInv, UNCHANGED <<chain, mempool, mined, highest>>,
           seen' \in Seq(Nat), Len(seen') > 0, safe' \in Nat,
           Keeps(allocated_nonces, allocated_nonces'), RowsOK', GivenKept, CallOK'
    PROVE  QueueInv'
<1>1. ChainOK'
  BY DEF QueueInv, ChainOK
<1>2. TableOK(allocated_nonces)'
  BY DEF Keeps, TableOK
<1>3. NoncesOK'
  BY CarriedKept, SentKept DEF NoncesOK
<1> QED BY <1>1, <1>2, <1>3 DEF QueueInv

\* The fields of a block.
LEMMA BlockFields ==
    ASSUME QueueInv
    PROVE  /\ Len(chain) \in Nat /\ Len(chain) > 0
           /\ \A k \in 1 .. Len(chain) :
                 /\ chain[k] \in BlockType /\ chain[k].id \in Nat
                 /\ chain[k].nonce \in Nat /\ chain[k].code \in Codes
<1>1. chain \in Seq(BlockType) /\ Len(chain) > 0
  BY DEF QueueInv, ChainOK
<1>2. \A b \in BlockType : b.id \in Nat /\ b.nonce \in Nat /\ b.code \in Codes
  BY DEF BlockType
<1>3. \A k \in 1 .. Len(chain) : chain[k] \in BlockType
  BY <1>1
<1> QED BY <1>1, <1>2, <1>3

\* The watcher's three steps, each of which reports a status.
LEMMA WatcherKeeps ==
    ASSUME QueueInv, NewBlock \/ UncleBlock \/ Boot
    PROVE  /\ QueueInv'
           /\ \E status \in StatusType : UpdateBlockStatus(status)
<1>1. /\ UNCHANGED nodeVars
      /\ seen' \in Seq(Nat) /\ Len(seen') > 0 /\ safe' \in Nat
      /\ UpdateBlockStatus([latest |-> Len(seen') - 1, safe |-> safe'])
  <2>1. CASE NewBlock
    <3>1. chain[Len(seen) + 1].id \in Nat
      <4>1. Len(seen) + 1 \in 1 .. Len(chain)
        BY <2>1 DEF NewBlock, QueueInv, ChainOK
      <4> QED BY <4>1, BlockFields
    <3> DEFINE next == chain[Len(seen) + 1].id
    <3>2. seen' = Append(seen, next) /\ seen \in Seq(Nat) /\ next \in Nat
      BY <2>1, <3>1 DEF NewBlock, QueueInv, ChainOK
    <3> HIDE DEF next
    <3>3. seen' \in Seq(Nat) /\ Len(seen') = Len(seen) + 1
      BY <3>2
    <3>4. Len(seen) \in Nat /\ safe \in Nat /\ Len(seen) - ReorgDepth \in Int
      BY NumbersAssumption DEF QueueInv, ChainOK
    <3> DEFINE high == Len(seen) - ReorgDepth
    <3>5. safe' = Max({safe, high})
      BY <2>1 DEF NewBlock
    <3> HIDE DEF high
    <3>6. safe \in Int /\ high \in Int
      BY <3>4 DEF high
    <3>7. Max({safe, high}) \in Int /\ Max({safe, high}) >= safe
      BY <3>6, MaxOfTwo, Zenon
    <3>8. UpdateBlockStatus([latest |-> Len(seen), safe |-> safe'])
      BY <2>1 DEF NewBlock
    <3>9. Len(seen) = Len(seen') - 1
      BY <3>3, <3>4
    <3> QED BY <2>1, <3>3, <3>4, <3>5, <3>7, <3>8, <3>9 DEF NewBlock
  <2>2. CASE UncleBlock
    <3>1. Len(seen) \in Nat /\ safe \in Nat /\ Len(seen) - 1 > safe /\ seen \in Seq(Nat)
      BY <2>2 DEF UncleBlock, QueueInv, ChainOK
    <3>2. seen' = SubSeq(seen, 1, Len(seen) - 1)
      BY <2>2 DEF UncleBlock
    <3>3. seen' \in Seq(Nat) /\ Len(seen') = Len(seen) - 1
      BY <3>1, <3>2
    <3>4. UpdateBlockStatus([latest |-> Len(seen) - 2, safe |-> safe])
      BY <2>2 DEF UncleBlock
    <3>5. Len(seen) - 2 = Len(seen') - 1
      BY <3>1, <3>3
    <3>6. safe' = safe
      BY <2>2 DEF UncleBlock
    <3> QED BY <2>2, <3>1, <3>3, <3>4, <3>5, <3>6 DEF UncleBlock
  <2>3. CASE Boot
    <3>1. chain \in Seq(BlockType) /\ Len(chain) \in Nat /\ Len(chain) > 0
      BY DEF QueueInv, ChainOK
    <3>2. seen' = [i \in 1 .. Len(chain) |-> chain[i].id]
      BY <2>3 DEF Boot, Following
    <3>3. \A i \in 1 .. Len(chain) : chain[i].id \in Nat
      BY BlockFields
    <3>4. seen' \in Seq(Nat) /\ Len(seen') = Len(chain)
      BY <3>1, <3>2, <3>3
    <3> DEFINE high == Height - ReorgDepth
    <3>5. safe' = Max({0, high}) /\ high \in Int
      BY <2>3, <3>1, NumbersAssumption DEF Boot, Height
    <3> HIDE DEF high
    <3>6. Max({0, high}) \in Int /\ Max({0, high}) >= 0
      <4>1. 0 \in Int /\ high \in Int
        BY <3>5
      <4> QED BY <4>1, MaxOfTwo, Zenon
    <3>7. UpdateBlockStatus([latest |-> Len(chain) - 1, safe |-> safe'])
      BY <2>3 DEF Boot, Height
    <3> QED BY <2>3, <3>1, <3>4, <3>5, <3>6, <3>7 DEF Boot
  <2> QED BY <2>1, <2>2, <2>3
<1> DEFINE status == [latest |-> Len(seen') - 1, safe |-> safe']
<1>2. status \in StatusType
  <2>1. Len(seen') - 1 \in Nat
    BY <1>1
  <2> QED BY <1>1, <2>1 DEF StatusType
<1>3. UpdateBlockStatus(status)
  BY <1>1
<1>4. /\ Keeps(allocated_nonces, allocated_nonces') /\ RowsOK' /\ GivenKept
      /\ block_status' = status /\ pc' \in {"account", "idle"} /\ stale' = {}
      /\ account_cache' \in {Null, account_cache}
  <2> HIDE DEF status
  <2> QED BY <1>2, <1>3, UpdateKeeps
<1>5. CallOK'
  BY <1>4 DEF QueueInv, CallOK, InFlight
<1>6. QueueInv'
  BY <1>1, <1>4, <1>5, QueueKeeps DEF nodeVars
<1> QED BY <1>2, <1>3, <1>6

\* A transaction that is included carries the account on, by what it was given.
LEMMA AfterKeeps ==
    ASSUME NEW account \in BlockType, NEW t \in SentType, NEW next \in After(account, t)
    PROVE  /\ next \in BlockType /\ next.nonce > account.nonce
           /\ \A x \in next.ran : x \in account.ran \/ (x[1] \in t.ids /\ x[2] = t.nonce)
<1> DEFINE nonce == IF t.delegate = Null THEN account.nonce + 1 ELSE account.nonce + 2
           code == IF t.delegate = Null THEN account.code ELSE t.delegate
           ran == IF Batched => code = Executor
                  THEN account.ran \cup (t.ids \X {t.nonce}) ELSE account.ran
<1>1. next = [account EXCEPT !.nonce = nonce, !.code = code, !.ran = ran]
  BY DEF After
<1>2. /\ nonce \in Nat /\ nonce > account.nonce /\ code \in Codes
      /\ ran \in SUBSET (Ids \X Nat)
  BY DEF BlockType, SentType, Codes, Wanted
<1>3. \A x \in ran : x \in account.ran \/ (x[1] \in t.ids /\ x[2] = t.nonce)
  OBVIOUS
<1> HIDE DEF nonce, code, ran
<1>4. next = [id |-> account.id, nonce |-> nonce, code |-> code, ran |-> ran]
  BY <1>1 DEF BlockType
<1> QED BY <1>2, <1>3, <1>4 DEF BlockType

\* What blocks may hold after `last`: its account, carried on by the mempool.
Carried(last, account) ==
    /\ account \in BlockType /\ account.nonce >= last.nonce
    /\ \A x \in account.ran : Given(x[1], x[2])

\* One more transaction in a block.
LEMMA IncludingKeeps ==
    ASSUME QueueInv, NEW last \in BlockType, NEW accounts,
           \A a \in accounts : Carried(last, a),
           NEW next \in Including(accounts)
    PROVE  Carried(last, next)
<1>1. PICK a \in accounts, t \in mempool : next \in After(a, t)
  BY DEF Including
<1>2. a \in BlockType /\ a.nonce >= last.nonce /\ \A x \in a.ran : Given(x[1], x[2])
  BY DEF Carried
<1>3. t \in SentType /\ \A id \in t.ids : Given(id, t.nonce)
  BY DEF QueueInv, ChainOK, NoncesOK
<1>4. /\ next \in BlockType /\ next.nonce > a.nonce
      /\ \A x \in next.ran : x \in a.ran \/ (x[1] \in t.ids /\ x[2] = t.nonce)
  BY <1>1, <1>2, <1>3, AfterKeeps
<1>5. next.nonce \in Nat /\ a.nonce \in Nat /\ last.nonce \in Nat
  BY <1>2, <1>4 DEF BlockType
<1> QED BY <1>2, <1>3, <1>4, <1>5 DEF Carried

\* A new block's account, and its place.
LEMMA MineKeeps ==
    ASSUME QueueInv, Mine
    PROVE  /\ QueueInv'
           /\ \E block \in BlockType :
                 /\ chain' = Append(chain, block) /\ block.id = mined'
                 /\ block.nonce >= chain[Len(chain)].nonce
<1> DEFINE last == Block(Height)
           once == Including({last})
           twice == Including(once)
<1>1. /\ chain \in Seq(BlockType) /\ Len(chain) \in Nat /\ Len(chain) > 0
      /\ mined \in Nat /\ mined' = mined + 1 /\ mined' \in Nat
  BY DEF QueueInv, ChainOK, Mine
<1>2. last = chain[Len(chain)] /\ last \in BlockType
  BY <1>1 DEF Block, Height
<1>3. Carried(last, last)
  <2>1. \A x \in last.ran : Given(x[1], x[2])
    BY <1>1, <1>2 DEF QueueInv, NoncesOK
  <2>2. last.nonce \in Nat
    BY <1>2 DEF BlockType
  <2> QED BY <1>2, <2>1, <2>2 DEF Carried
<1>4. PICK a \in {last} \cup once \cup twice : chain' = Append(chain, [a EXCEPT !.id = mined'])
  BY DEF Mine
<1> HIDE DEF last
<1>5. \A b \in {last} : Carried(last, b)
  BY <1>3
<1>6. \A b \in once : Carried(last, b)
  BY <1>2, <1>5, IncludingKeeps
<1> HIDE DEF once
<1>7. \A b \in twice : Carried(last, b)
  BY <1>2, <1>6, IncludingKeeps
<1> HIDE DEF twice
<1>8. Carried(last, a)
  BY <1>3, <1>4, <1>6, <1>7
<1> DEFINE block == [a EXCEPT !.id = mined']
<1>9. /\ block \in BlockType /\ block.id = mined' /\ block.nonce = a.nonce
      /\ block.ran = a.ran
  BY <1>1, <1>8 DEF Carried, BlockType
<1>10. chain' = Append(chain, block)
  BY <1>4
<1> HIDE DEF block
<1>11. /\ chain' \in Seq(BlockType) /\ Len(chain') = Len(chain) + 1
       /\ \A k \in 1 .. Len(chain) : chain'[k] = chain[k]
       /\ chain'[Len(chain) + 1] = block
  BY <1>1, <1>9, <1>10
<1>12. UNCHANGED <<mempool, seen, safe, transactions, allocated_nonces, block_status,
                   account_cache, pc, stale, gone>>
  BY DEF Mine, watcherVars, tableVars, queueVars
<1>13. highest' \in Nat
  <2>1. highest \in Int /\ Height + 1 \in Int /\ highest \in Nat
    BY <1>1 DEF QueueInv, ChainOK, Height
  <2> DEFINE next == Height + 1
  <2>2. highest' = Max({highest, next})
    BY DEF Mine
  <2> HIDE DEF next
  <2>3. Max({highest, next}) \in Int /\ Max({highest, next}) >= highest
    <3>1. next \in Int
      BY <2>1 DEF next
    <3> QED BY <2>1, <3>1, MaxOfTwo, Zenon
  <2> QED BY <2>1, <2>2, <2>3
<1>14. ChainOK'
  BY <1>1, <1>11, <1>12, <1>13 DEF QueueInv, ChainOK
<1>15. NoncesOK'
  <2>1. \A id, n : Given(id, n)' <=> Given(id, n)
    BY <1>12 DEF Given
  <2>2. ASSUME NEW k \in 1 .. Len(chain'), NEW x \in chain'[k].ran PROVE Given(x[1], x[2])
    <3>1. CASE k \in 1 .. Len(chain)
      BY <1>11, <2>2, <3>1 DEF QueueInv, NoncesOK
    <3>2. CASE k = Len(chain) + 1
      BY <1>8, <1>9, <1>11, <2>2, <3>2 DEF Carried
    <3> QED BY <1>1, <1>11, <3>1, <3>2
  <2>3. \A k \in 1 .. Len(chain') : \A x \in chain'[k].ran : Given(x[1], x[2])'
    BY <2>1, <2>2
  <2> QED BY <1>12, <2>1, <2>3 DEF QueueInv, NoncesOK
<1>16. TableOK(allocated_nonces)' /\ CallOK' /\ RowsOK'
  BY <1>12 DEF QueueInv, TableOK, CallOK, RowsOK, InFlight
<1>17. QueueInv'
  BY <1>14, <1>15, <1>16 DEF QueueInv
<1>18. block.nonce >= chain[Len(chain)].nonce
  BY <1>2, <1>8, <1>9 DEF Carried
<1> QED BY <1>9, <1>10, <1>17, <1>18

\* A reorg takes blocks away.
LEMMA ReorgKeeps ==
    ASSUME QueueInv, Reorg
    PROVE  /\ QueueInv'
           /\ \E n \in 0 .. Height - 1 :
                 /\ n >= highest - ReorgDepth
                 /\ Len(chain') = n + 1 /\ \A k \in 1 .. n + 1 : chain'[k] = chain[k]
<1>1. PICK n \in Max({0, highest - ReorgDepth}) .. Height - 1 : chain' = SubSeq(chain, 1, n + 1)
  BY DEF Reorg
<1> DEFINE low == highest - ReorgDepth
<1>2. chain \in Seq(BlockType) /\ Len(chain) \in Nat /\ Len(chain) > 0 /\ low \in Int
  BY NumbersAssumption DEF QueueInv, ChainOK
<1>3. n \in Max({0, low}) .. Height - 1
  OBVIOUS
<1> HIDE DEF low
<1>4. Max({0, low}) \in Int /\ Max({0, low}) >= 0 /\ Max({0, low}) >= low
  <2>1. 0 \in Int /\ low \in Int
    BY <1>2
  <2> QED BY <2>1, MaxOfTwo, Zenon
<1>5. n \in 0 .. Height - 1 /\ n >= low /\ Height = Len(chain) - 1
  BY <1>2, <1>3, <1>4 DEF Height
<1>6. /\ chain' \in Seq(BlockType) /\ Len(chain') = n + 1
      /\ \A k \in 1 .. n + 1 : chain'[k] = chain[k]
  BY <1>1, <1>2, <1>5
<1>7. UNCHANGED <<mempool, mined, highest, seen, safe, transactions, allocated_nonces,
                  block_status, account_cache, pc, stale, gone>>
  BY DEF Reorg, watcherVars, tableVars, queueVars
<1>8. ChainOK'
  BY <1>2, <1>5, <1>6, <1>7 DEF QueueInv, ChainOK
<1>9. NoncesOK'
  <2>1. \A id, m : Given(id, m)' <=> Given(id, m)
    BY <1>7 DEF Given
  <2>2. \A k \in 1 .. Len(chain') : k \in 1 .. Len(chain) /\ chain'[k] = chain[k]
    BY <1>2, <1>5, <1>6
  <2> QED BY <1>7, <2>1, <2>2 DEF QueueInv, NoncesOK
<1>10. TableOK(allocated_nonces)' /\ CallOK' /\ RowsOK'
  BY <1>7 DEF QueueInv, TableOK, CallOK, RowsOK, InFlight
<1>11. QueueInv'
  BY <1>8, <1>9, <1>10 DEF QueueInv
<1> QED BY <1>5, <1>6, <1>11 DEF low

\* The account's owner has transactions of their own, which carry nothing of ours.
LEMMA ExternalKeeps ==
    ASSUME QueueInv, ExternalTransaction
    PROVE  QueueInv'
<1> DEFINE theirs == [nonce |-> Block(Height).nonce, ids |-> {}, delegate |-> Null, ours |-> FALSE]
<1>1. /\ mempool' = mempool \cup {theirs}
      /\ UNCHANGED <<chain, mined, highest, seen, safe, transactions, allocated_nonces,
                     block_status, account_cache, pc, stale, gone>>
  BY DEF ExternalTransaction, watcherVars, tableVars, queueVars
<1>2. Block(Height).nonce \in Nat
  BY BlockFields DEF Block, Height
<1>3. theirs \in SentType /\ theirs.ids = {}
  <2> DEFINE nonce == Block(Height).nonce
  <2>1. nonce \in Nat
    BY <1>2
  <2> HIDE DEF nonce
  <2> QED BY <2>1 DEF SentType, nonce
<1> HIDE DEF theirs
<1>4. ChainOK'
  BY <1>1, <1>3 DEF QueueInv, ChainOK
<1>5. NoncesOK'
  <2>1. \A id, n : Given(id, n)' <=> Given(id, n)
    BY <1>1 DEF Given
  <2> QED BY <1>1, <1>3, <2>1 DEF QueueInv, NoncesOK
<1>6. TableOK(allocated_nonces)' /\ CallOK' /\ RowsOK'
  BY <1>1 DEF QueueInv, TableOK, CallOK, RowsOK, InFlight
<1> QED BY <1>4, <1>5, <1>6 DEF QueueInv

\* What TransactionQueue::account returns is an account.
LEMMA AccountTyped ==
    ASSUME QueueInv, pc # "down", NEW account \in Account
    PROVE  /\ account \in AccountType
           /\ \/ account = account_cache /\ account_cache # Null
              \/ /\ account_cache = Null /\ Len(seen) <= Len(chain)
                 /\ account.nonce = chain[Len(seen)].nonce
<1>1. /\ block_status.latest = Len(seen) - 1 /\ account_cache \in AccountType \cup {Null}
      /\ Len(seen) \in Nat /\ Len(seen) > 0
  BY DEF QueueInv, CallOK, ChainOK
<1>2. CASE account_cache # Null
  BY <1>1, <1>2 DEF Account
<1>3. CASE account_cache = Null
  <2>1. /\ ~ (block_status.latest > Height)
        /\ account = [nonce |-> Block(block_status.latest).nonce,
                      code |-> Block(block_status.latest).code]
    BY <1>3 DEF Account
  <2>2. Block(block_status.latest) = chain[Len(seen)]
    BY <1>1 DEF Block
  <2>3. Len(seen) \in 1 .. Len(chain)
    BY <1>1, <2>1, BlockFields DEF Height
  <2>4. chain[Len(seen)].nonce \in Nat /\ chain[Len(seen)].code \in Codes
    BY <2>3, BlockFields
  <2>5. account \in AccountType
    BY <2>1, <2>2, <2>4 DEF AccountType
  <2> QED BY <1>3, <2>1, <2>2, <2>3, <2>5
<1> QED BY <1>2, <1>3

\* update_block_status, once the account is known.
LEMMA MarkAccountKeeps ==
    ASSUME QueueInv, MarkAccount
    PROVE  /\ QueueInv'
           /\ \E account \in Account :
                 /\ account_cache' = account
                 /\ DOMAIN allocated_nonces' = DOMAIN allocated_nonces
                 /\ \A n \in DOMAIN allocated_nonces :
                       \/ allocated_nonces'[n].executed_at = allocated_nonces[n].executed_at
                       \/ /\ n < account.nonce
                          /\ allocated_nonces'[n].executed_at = Len(seen) - 1
<1>1. PICK account \in Account :
         /\ account_cache' = account
         /\ allocated_nonces' =
               RecoverAuthorizationGap(
                   MarkExecuted(allocated_nonces, account.nonce, block_status.latest),
                   account.nonce)
         /\ stale' = StaleSubmissions(allocated_nonces', block_status.latest)
  BY DEF MarkAccount
<1>2. account \in AccountType /\ account.nonce \in Nat
  BY AccountTyped DEF MarkAccount, AccountType
<1>3. block_status.latest = Len(seen) - 1 /\ block_status.latest \in Nat
  BY DEF MarkAccount, QueueInv, CallOK, ChainOK
<1> DEFINE latest == block_status.latest
           nonce == account.nonce
           marked == MarkExecuted(allocated_nonces, nonce, latest)
<1>4. allocated_nonces' = RecoverAuthorizationGap(marked, nonce)
  BY <1>1
<1>5. TableOK(allocated_nonces)
  BY DEF QueueInv
<1>6. latest \in Nat /\ nonce \in Nat
  BY <1>2, <1>3
<1>7. ASSUME NEW n \in DOMAIN allocated_nonces
      PROVE  \/ marked[n].executed_at = allocated_nonces[n].executed_at
             \/ n < nonce /\ marked[n].executed_at = latest
  <2>1. allocated_nonces[n] \in NonceType
    BY <1>5 DEF TableOK
  <2>2. [allocated_nonces[n] EXCEPT !.executed_at = latest].executed_at = latest
    BY <2>1 DEF NonceType
  <2>3. \/ marked[n] = allocated_nonces[n]
        \/ n < nonce /\ marked[n] = [allocated_nonces[n] EXCEPT !.executed_at = latest]
    BY DEF MarkExecuted
  <2> HIDE DEF marked
  <2> QED BY <2>2, <2>3
<1> HIDE DEF latest, nonce
<1>8. Keeps(allocated_nonces, marked) /\ DOMAIN marked = DOMAIN allocated_nonces
  BY <1>5, <1>6, MarkKeeps
<1> HIDE DEF marked
<1>9. TableOK(marked)
  BY <1>8 DEF Keeps
<1>10. /\ Keeps(marked, allocated_nonces') /\ DOMAIN allocated_nonces' = DOMAIN marked
       /\ \A n \in DOMAIN marked : allocated_nonces'[n].executed_at = marked[n].executed_at
  BY <1>4, <1>6, <1>9, RecoverKeeps
<1>11. Keeps(allocated_nonces, allocated_nonces')
  BY <1>8, <1>10, KeepsTwice
<1>12. \A n \in DOMAIN allocated_nonces :
          \/ allocated_nonces'[n].executed_at = allocated_nonces[n].executed_at
          \/ n < nonce /\ allocated_nonces'[n].executed_at = latest
  BY <1>7, <1>8, <1>10
<1>13. UNCHANGED <<chain, mempool, mined, highest, seen, safe, transactions, block_status, gone>>
       /\ pc = "account" /\ pc' = "resubmit"
  BY DEF MarkAccount, nodeVars, watcherVars
<1>14. stale' \subseteq InFlight(allocated_nonces)'
  BY <1>1 DEF StaleSubmissions, InFlight
<1>15. CallOK'
  BY <1>1, <1>2, <1>13, <1>14 DEF QueueInv, CallOK
<1>16. RowsOK' /\ GivenKept
  BY <1>13, SameGiven DEF QueueInv, RowsOK
<1>17. seen' \in Seq(Nat) /\ Len(seen') > 0 /\ safe' \in Nat
  BY <1>13 DEF QueueInv, ChainOK
<1>18. QueueInv'
  BY <1>11, <1>13, <1>15, <1>16, <1>17, QueueKeeps
<1> QED BY <1>1, <1>3, <1>8, <1>10, <1>12, <1>18 DEF latest, nonce

\* submit_transaction broadcasts the row's own transaction, if any, and records
\* nothing but its submission.
LEMMA SubmitKeeps ==
    ASSUME NEW table, TableOK(table), NEW n \in DOMAIN table, table[n].request \in SUBSET Ids,
           block_status.latest \in Nat, SubmitTransaction(table, n)
    PROVE  /\ Keeps(table, allocated_nonces') /\ DOMAIN allocated_nonces' = DOMAIN table
           /\ \A k \in DOMAIN table :
                 /\ allocated_nonces'[k].executed_at = table[k].executed_at
                 /\ allocated_nonces'[k].request = table[k].request
           /\ \A m \in mempool' :
                 \/ m \in mempool
                 \/ m \in SentType /\ m.nonce = n /\ m.ids = table[n].request
<1>1. \/ allocated_nonces' = table
      \/ allocated_nonces' = RecordSubmission(table, n, block_status.latest)
      \/ allocated_nonces' = RecordSubmission(table, n, Null)
  BY DEF SubmitTransaction
<1>2. mempool' = mempool \/ mempool' = mempool \cup {Build(table, n)}
  BY DEF SubmitTransaction
<1>3. Keeps(table, table)
  BY DEF Keeps
<1> DEFINE latest == block_status.latest
           after == RecordSubmission(table, n, latest)
           refused == RecordSubmission(table, n, Null)
<1>4. latest \in Nat \cup {Null} /\ Null \in Nat \cup {Null}
  OBVIOUS
<1> HIDE DEF latest
<1>5. /\ Keeps(table, after) /\ DOMAIN after = DOMAIN table
      /\ \A k \in DOMAIN table :
            after[k].executed_at = table[k].executed_at /\ after[k].request = table[k].request
  BY <1>4, RecordKeeps
<1>6. /\ Keeps(table, refused) /\ DOMAIN refused = DOMAIN table
      /\ \A k \in DOMAIN table :
            refused[k].executed_at = table[k].executed_at /\ refused[k].request = table[k].request
  BY <1>4, RecordKeeps
<1>7. allocated_nonces' \in {table, after, refused}
  BY <1>1 DEF latest
<1> HIDE DEF after, refused
<1>8. /\ Keeps(table, allocated_nonces') /\ DOMAIN allocated_nonces' = DOMAIN table
      /\ \A k \in DOMAIN table :
            /\ allocated_nonces'[k].executed_at = table[k].executed_at
            /\ allocated_nonces'[k].request = table[k].request
  BY <1>3, <1>5, <1>6, <1>7
<1> DEFINE delegate == IF n + 1 \in DOMAIN table THEN table[n + 1].delegate ELSE Null
<1>9. /\ n \in Nat /\ table[n].request \in SUBSET Ids
      /\ delegate \in {Null, Wanted}
  <2>1. \A k \in DOMAIN table : k \in Nat /\ table[k] \in NonceType
    BY DEF TableOK
  <2>2. \A row \in NonceType : /\ row.delegate \in {Null, Wanted}
                               /\ row.request \in (SUBSET Ids) \cup {Null}
    BY DEF NonceType
  <2> QED BY <2>1, <2>2
<1>10. Build(table, n) = [nonce |-> n, ids |-> table[n].request, ours |-> TRUE, delegate |-> delegate]
  BY DEF Build
<1> HIDE DEF delegate
<1> DEFINE sent == Build(table, n)
<1>11. sent \in SentType /\ sent.nonce = n /\ sent.ids = table[n].request
  BY <1>9, <1>10 DEF SentType
<1> HIDE DEF sent
<1>12. \A m \in mempool' : m \in mempool \/ m = sent
  BY <1>2 DEF sent
<1> QED BY <1>8, <1>11, <1>12

\* resubmit_stale: the row's transaction once more.
LEMMA ResubmitKeeps ==
    ASSUME QueueInv, Resubmit
    PROVE  /\ QueueInv'
           /\ DOMAIN allocated_nonces' = DOMAIN allocated_nonces
           /\ \A n \in DOMAIN allocated_nonces :
                 allocated_nonces'[n].executed_at = allocated_nonces[n].executed_at
<1>1. /\ pc = "resubmit"
      /\ UNCHANGED <<chain, mined, highest, seen, safe, transactions, block_status,
                     account_cache, gone>>
  BY DEF Resubmit, watcherVars
<1>2. GivenKept /\ RowsOK'
  BY <1>1, SameGiven DEF QueueInv, RowsOK
<1>3. seen' \in Seq(Nat) /\ Len(seen') > 0 /\ safe' \in Nat
  BY <1>1 DEF QueueInv, ChainOK
<1>4. CASE stale = {}
  <2>1. pc' = "submit" /\ UNCHANGED <<mempool, allocated_nonces, stale>>
    BY <1>4 DEF Resubmit
  <2>2. Keeps(allocated_nonces, allocated_nonces')
    BY <2>1 DEF Keeps, QueueInv, TableOK
  <2>3. CallOK'
    BY <1>1, <1>4, <2>1 DEF QueueInv, CallOK, InFlight
  <2>4. QueueInv'
    BY <1>1, <1>2, <1>3, <2>1, <2>2, <2>3, QueueKeeps
  <2> QED BY <2>1, <2>4
<1>5. CASE stale # {}
  <2> DEFINE n == Min(stale)
  <2>1. SubmitTransaction(allocated_nonces, n) /\ stale' = stale \ {n} /\ pc' = pc
    BY <1>5 DEF Resubmit
  <2>2. stale \subseteq InFlight(allocated_nonces) /\ TableOK(allocated_nonces)
    BY DEF QueueInv, CallOK
  <2>3. stale \in SUBSET Nat
    BY <2>2 DEF InFlight, TableOK
  <2>4. n \in stale
    BY <1>5, <2>3, MinIsMember
  <2> HIDE DEF n
  <2>5. n \in DOMAIN allocated_nonces /\ allocated_nonces[n].request # Null
    BY <2>2, <2>4 DEF InFlight
  <2>6. block_status.latest \in Nat /\ allocated_nonces[n].request \in SUBSET Ids
    <3>1. allocated_nonces[n] \in NonceType
      BY <2>2, <2>5 DEF TableOK
    <3>2. allocated_nonces[n].request \in SUBSET Ids
      BY <2>5, <3>1 DEF NonceType
    <3> QED BY <1>1, <3>2 DEF QueueInv, CallOK, ChainOK
  <2>7. /\ Keeps(allocated_nonces, allocated_nonces')
        /\ DOMAIN allocated_nonces' = DOMAIN allocated_nonces
        /\ \A k \in DOMAIN allocated_nonces :
              /\ allocated_nonces'[k].executed_at = allocated_nonces[k].executed_at
              /\ allocated_nonces'[k].request = allocated_nonces[k].request
        /\ \A m \in mempool' :
              \/ m \in mempool
              \/ m \in SentType /\ m.nonce = n /\ m.ids = allocated_nonces[n].request
    BY <2>1, <2>2, <2>5, <2>6, SubmitKeeps
  <2>8. CallOK'
    <3>1. InFlight(allocated_nonces)' = InFlight(allocated_nonces)
      BY <2>7 DEF InFlight
    <3> QED BY <1>1, <2>1, <3>1 DEF QueueInv, CallOK
  <2>9. ChainOK'
    BY <1>1, <1>3, <2>7 DEF QueueInv, ChainOK
  <2>10. NoncesOK'
    <3>1. \A id, k : Given(id, k)' <=> Given(id, k)
      BY <1>1 DEF Given
    <3>2. \A id \in allocated_nonces[n].request : Given(id, n)
      BY <2>5 DEF QueueInv, NoncesOK
    <3>3. \A m \in mempool' : \A id \in m.ids : Given(id, m.nonce)
      BY <2>7, <3>2 DEF QueueInv, NoncesOK
    <3>4. \A k \in DOMAIN allocated_nonces' :
             allocated_nonces'[k].request # Null =>
                 \A id \in allocated_nonces'[k].request : Given(id, k)
      BY <2>7 DEF QueueInv, NoncesOK
    <3>5. \A k \in 1 .. Len(chain') : \A x \in chain'[k].ran : Given(x[1], x[2])
      BY <1>1 DEF QueueInv, NoncesOK
    <3> QED BY <3>1, <3>3, <3>4, <3>5 DEF NoncesOK
  <2>11. TableOK(allocated_nonces)'
    BY <2>7 DEF Keeps, TableOK
  <2>12. QueueInv'
    BY <1>2, <2>8, <2>9, <2>10, <2>11 DEF QueueInv
  <2> QED BY <2>7, <2>12
<1> QED BY <1>4, <1>5

\* The next nonce is a number: allocated nonces have a greatest one.
LEMMA NextNonceTyped ==
    ASSUME QueueInv, NEW nonce \in Nat
    PROVE  NextNonce(nonce) \in Nat /\ NextNonce(nonce) >= nonce
<1> DEFINE S == {nonce} \cup {n + 1 : n \in DOMAIN allocated_nonces}
<1>1. PICK bound \in Nat : \A n \in DOMAIN allocated_nonces : n <= bound
  BY DEF QueueInv, TableOK
<1>2. DOMAIN allocated_nonces \subseteq Nat
  BY DEF QueueInv, TableOK
<1>3. S \in SUBSET Nat /\ S # {} /\ bound + nonce + 1 \in Nat
  BY <1>2
<1>4. \A x \in S : x <= bound + nonce + 1
  BY <1>1, <1>2
<1>5. nonce \in S
  OBVIOUS
<1> HIDE DEF S
<1>6. Max(S) \in S /\ \A x \in S : x <= Max(S)
  BY <1>3, <1>4, MaxIsMember
<1>7. NextNonce(nonce) = Max(S)
  BY DEF NextNonce, S
<1> QED BY <1>3, <1>5, <1>6, <1>7

\* A bundle becomes rows with a nonce: theirs alone.
LEMMA BundleGiven ==
    ASSUME QueueInv, NEW bundle, \A t \in bundle : t \in transactions /\ t.nonce = Null,
           NEW nonce \in Nat,
           transactions' = (transactions \ bundle) \cup {[t EXCEPT !.nonce = nonce] : t \in bundle},
           gone' = gone
    PROVE  RowsOK' /\ GivenKept /\ \A t \in bundle : Given(t.id, nonce)'
<1>1. ASSUME NEW t \in bundle
      PROVE  /\ [t EXCEPT !.nonce = nonce] \in RowType
             /\ [t EXCEPT !.nonce = nonce].id = t.id
             /\ [t EXCEPT !.nonce = nonce].nonce = nonce
  <2>1. t \in RowType
    BY DEF QueueInv, RowsOK
  <2> QED BY <2>1 DEF RowType
<1> DEFINE new(t) == [t EXCEPT !.nonce = nonce]
<1>2. /\ \A t \in bundle : new(t) \in RowType /\ new(t).id = t.id /\ new(t).nonce = nonce
      /\ transactions' = (transactions \ bundle) \cup {new(t) : t \in bundle}
  BY <1>1
<1> HIDE DEF new
<1>3. \A u \in transactions' : u \in transactions \ bundle \/ \E t \in bundle : u = new(t)
  BY <1>2
<1>4. RowsOK'
  <2>1. transactions' \subseteq RowType
    BY <1>2, <1>3 DEF QueueInv, RowsOK
  <2>2. ASSUME NEW u \in transactions', NEW v \in transactions', u.id = v.id PROVE u = v
    <3>1. CASE u \in transactions \ bundle /\ v \in transactions \ bundle
      BY <2>2, <3>1 DEF QueueInv, RowsOK
    <3>2. CASE u \in transactions \ bundle /\ \E t \in bundle : v = new(t)
      <4>1. PICK t \in bundle : v = new(t)
        BY <3>2
      <4>2. u = t
        BY <1>2, <2>2, <3>2, <4>1 DEF QueueInv, RowsOK
      <4> QED BY <3>2, <4>2
    <3>3. CASE v \in transactions \ bundle /\ \E t \in bundle : u = new(t)
      <4>1. PICK t \in bundle : u = new(t)
        BY <3>3
      <4>2. v = t
        BY <1>2, <2>2, <3>3, <4>1 DEF QueueInv, RowsOK
      <4> QED BY <3>3, <4>2
    <3>4. CASE (\E t \in bundle : u = new(t)) /\ (\E t \in bundle : v = new(t))
      <4>1. PICK t \in bundle : u = new(t)
        BY <3>4
      <4>2. PICK w \in bundle : v = new(w)
        BY <3>4
      <4>3. t = w
        BY <1>2, <2>2, <4>1, <4>2 DEF QueueInv, RowsOK
      <4> QED BY <4>1, <4>2, <4>3
    <3> QED BY <1>3, <3>1, <3>2, <3>3, <3>4
  <2>3. ASSUME NEW u \in transactions', NEW g \in gone' PROVE u.id # g.id
    BY <1>2, <1>3 DEF QueueInv, RowsOK
  <2> QED BY <2>1, <2>2, <2>3 DEF QueueInv, RowsOK
<1>5. GivenKept
  <2> SUFFICES ASSUME NEW id \in Ids, NEW n \in Nat, Given(id, n)
               PROVE  Given(id, n)'
    BY DEF GivenKept
  <2>1. CASE \E g \in gone : g.id = id /\ g.nonce = n
    BY <2>1 DEF Given
  <2>2. CASE \E t \in transactions : t.id = id /\ t.nonce = n
    <3>1. PICK t \in transactions : t.id = id /\ t.nonce = n
      BY <2>2
    <3>2. t \notin bundle
      BY <3>1, NullAssumption
    <3> QED BY <3>1, <3>2 DEF Given
  <2> QED BY <2>1, <2>2 DEF Given
<1>6. ASSUME NEW t \in bundle PROVE Given(t.id, nonce)'
  <2>1. new(t) \in transactions' /\ new(t).id = t.id /\ new(t).nonce = nonce
    BY <1>2
  <2> QED BY <2>1 DEF Given
<1> QED BY <1>4, <1>5, <1>6

\* submit_pending: queued transactions get their nonce, and are broadcast with it.
LEMMA SubmitPendingKeeps ==
    ASSUME QueueInv, SubmitPending
    PROVE  /\ QueueInv'
           /\ \E account \in Account : account_cache' = account
           /\ DOMAIN allocated_nonces \subseteq DOMAIN allocated_nonces'
           /\ \A n \in DOMAIN allocated_nonces' :
                 \/ allocated_nonces'[n].executed_at = Null
                 \/ /\ n \in DOMAIN allocated_nonces
                    /\ allocated_nonces'[n].executed_at = allocated_nonces[n].executed_at
<1>1. PICK account \in Account, bundle \in Bundles :
         /\ account_cache' = account
         /\ transactions' = (transactions \ bundle) \cup
                {[t EXCEPT !.nonce = NextNonce(account.nonce)] : t \in bundle}
         /\ SubmitTransaction(
                Allocated(allocated_nonces, account, NextNonce(account.nonce), bundle),
                NextNonce(account.nonce))
  BY DEF SubmitPending
<1>2. /\ pc = "submit"
      /\ UNCHANGED <<chain, mined, highest, seen, safe, block_status, pc, stale, gone>>
  BY DEF SubmitPending, watcherVars
<1>3. account \in AccountType /\ account.nonce \in Nat
  BY <1>2, AccountTyped DEF AccountType
<1>4. PICK nonce \in Nat : nonce = NextNonce(account.nonce)
  BY <1>3, NextNonceTyped
<1> DEFINE table == Allocated(allocated_nonces, account, nonce, bundle)
<1>5. /\ transactions' = (transactions \ bundle) \cup {[t EXCEPT !.nonce = nonce] : t \in bundle}
      /\ SubmitTransaction(table, nonce)
  BY <1>1, <1>4
<1>6. /\ \A t \in bundle : t \in transactions /\ t.nonce = Null
      /\ bundle \in SUBSET RowType
  BY DEF Bundles, Queued, QueueInv, RowsOK
<1>7. RowsOK' /\ GivenKept /\ \A t \in bundle : Given(t.id, nonce)'
  BY <1>2, <1>4, <1>5, <1>6, BundleGiven
<1>8. TableOK(allocated_nonces)
  BY DEF QueueInv
<1>9. /\ TableOK(table) /\ nonce \in DOMAIN table
      /\ DOMAIN allocated_nonces \subseteq DOMAIN table
      /\ table[nonce].request = {t.id : t \in bundle}
      /\ table[nonce].executed_at = Null
      /\ \A n \in DOMAIN table :
            \/ n = nonce
            \/ table[n].request = Null /\ table[n].executed_at = Null
            \/ n \in DOMAIN allocated_nonces /\ table[n] = allocated_nonces[n]
  BY <1>3, <1>4, <1>6, <1>8, AllocatedRows
<1>10. block_status.latest \in Nat
  BY <1>2 DEF QueueInv, CallOK, ChainOK
<1> HIDE DEF table
<1>11. table[nonce].request \in SUBSET Ids
  BY <1>6, <1>9 DEF RowType
<1>12. /\ Keeps(table, allocated_nonces') /\ DOMAIN allocated_nonces' = DOMAIN table
       /\ \A k \in DOMAIN table :
             /\ allocated_nonces'[k].executed_at = table[k].executed_at
             /\ allocated_nonces'[k].request = table[k].request
       /\ \A m \in mempool' :
             \/ m \in mempool
             \/ m \in SentType /\ m.nonce = nonce /\ m.ids = table[nonce].request
  BY <1>5, <1>9, <1>10, <1>11, SubmitKeeps
<1>13. ChainOK'
  BY <1>2, <1>12 DEF QueueInv, ChainOK
<1>14. CallOK'
  BY <1>1, <1>2, <1>3 DEF QueueInv, CallOK
<1>15. NoncesOK'
  <2>1. \A id \in table[nonce].request : Given(id, nonce)'
    BY <1>7, <1>9
  <2>2. /\ \A m \in mempool : \A id \in m.ids : Given(id, m.nonce)'
        /\ \A k \in 1 .. Len(chain) : \A x \in chain[k].ran : Given(x[1], x[2])'
    BY <1>7, SentKept
  <2>3. \A m \in mempool' : \A id \in m.ids : Given(id, m.nonce)'
    BY <1>12, <2>1, <2>2
  <2>4. ASSUME NEW n \in DOMAIN allocated_nonces', allocated_nonces'[n].request # Null,
               NEW id \in allocated_nonces'[n].request
        PROVE  Given(id, n)'
    <3>1. n \in DOMAIN table /\ table[n].request = allocated_nonces'[n].request
      BY <1>12
    <3>2. CASE n = nonce
      BY <2>1, <2>4, <3>1, <3>2
    <3>3. CASE n \in DOMAIN allocated_nonces /\ table[n] = allocated_nonces[n]
      <4>1. Given(id, n)
        BY <2>4, <3>1, <3>3 DEF QueueInv, NoncesOK
      <4>2. n \in Nat /\ allocated_nonces[n] \in NonceType
        BY <1>8, <3>3 DEF TableOK
      <4>3. id \in Ids
        BY <2>4, <3>1, <3>3, <4>2 DEF NonceType
      <4> QED BY <1>7, <4>1, <4>2, <4>3 DEF GivenKept
    <3> QED BY <1>9, <2>4, <3>1, <3>2, <3>3
  <2> QED BY <1>2, <2>2, <2>3, <2>4 DEF NoncesOK
<1>16. TableOK(allocated_nonces)'
  BY <1>12 DEF Keeps, TableOK
<1>17. QueueInv'
  BY <1>7, <1>13, <1>14, <1>15, <1>16 DEF QueueInv
<1>18. \A n \in DOMAIN allocated_nonces' :
          \/ allocated_nonces'[n].executed_at = Null
          \/ /\ n \in DOMAIN allocated_nonces
             /\ allocated_nonces'[n].executed_at = allocated_nonces[n].executed_at
  BY <1>9, <1>12
<1> QED BY <1>1, <1>9, <1>12, <1>17, <1>18

\* queue, a failed request and a crash.
LEMMA OtherKeeps ==
    ASSUME QueueInv,
           \/ \E id \in Ids, expires_at \in Expiries : Queue(id, expires_at)
           \/ CallEnds \/ Crash
    PROVE  QueueInv'
<1>1. UNCHANGED <<chain, mempool, mined, highest, seen, safe, allocated_nonces, gone>>
  BY DEF Queue, CallEnds, Crash, nodeVars, watcherVars, tableVars
<1>2. seen' \in Seq(Nat) /\ Len(seen') > 0 /\ safe' \in Nat
  BY <1>1 DEF QueueInv, ChainOK
<1>3. Keeps(allocated_nonces, allocated_nonces')
  BY <1>1 DEF Keeps, QueueInv, TableOK
<1>4. ASSUME NEW id \in Ids, NEW expires_at \in Expiries, Queue(id, expires_at) PROVE QueueInv'
  <2> DEFINE row == Enqueued(id, expires_at)
  <2>1. row \in RowType /\ row.id = id /\ row.nonce = Null
    BY DEF Enqueued, RowType
  <2>2. transactions' = transactions \cup {row}
    BY <1>4 DEF Queue
  <2> HIDE DEF row
  <2>3. \A t \in transactions : t.id # id
    BY <1>4, IdsAssumption DEF Queue, QueueInv, RowsOK, RowType
  <2>4. \A g \in gone : g.id # id
    BY <1>4, IdsAssumption DEF Queue, QueueInv, RowsOK
  <2>5. RowsOK'
    BY <1>1, <2>1, <2>2, <2>3, <2>4 DEF QueueInv, RowsOK
  <2>6. GivenKept
    BY <1>1, <2>2 DEF GivenKept, Given
  <2>7. CallOK'
    BY <1>1, <1>4 DEF Queue, QueueInv, CallOK, InFlight
  <2> QED BY <1>1, <1>2, <1>3, <2>5, <2>6, <2>7, QueueKeeps
<1>5. CASE CallEnds \/ Crash
  <2>1. transactions' = transactions
    BY <1>5 DEF CallEnds, Crash, tableVars
  <2>2. RowsOK' /\ GivenKept
    BY <1>1, <2>1, SameGiven DEF QueueInv, RowsOK
  <2>3. CallOK'
    BY <1>1, <1>5 DEF CallEnds, Crash, QueueInv, CallOK, InFlight
  <2> QED BY <1>1, <1>2, <1>3, <2>2, <2>3, QueueKeeps
<1> QED BY <1>4, <1>5

-----------------------------------------------------------------------------
(* The invariant of nonces                                                  *)

\* Each action of the queue, the watcher and the node keeps the invariant.
LEMMA QueueStep ==
    ASSUME QueueInv, [Next]_vars
    PROVE  QueueInv'
<1>1. CASE UNCHANGED vars
  <2>1. UNCHANGED <<chain, mempool, mined, highest, seen, safe, transactions, allocated_nonces,
                    block_status, account_cache, pc, stale, gone>>
    BY <1>1 DEF vars, nodeVars, watcherVars, tableVars, queueVars
  <2> QED BY <2>1 DEF QueueInv, ChainOK, TableOK, CallOK, InFlight, RowsOK, NoncesOK, Given
<1>2. CASE Mine
  BY <1>2, MineKeeps
<1>3. CASE Reorg
  BY <1>3, ReorgKeeps
<1>4. CASE ExternalTransaction
  BY <1>4, ExternalKeeps
<1>5. CASE MarkAccount
  BY <1>5, MarkAccountKeeps
<1>6. CASE Resubmit
  BY <1>6, ResubmitKeeps
<1>7. CASE SubmitPending
  BY <1>7, SubmitPendingKeeps
<1>8. CASE NewBlock \/ UncleBlock \/ Boot
  BY <1>8, WatcherKeeps
<1>9. CASE \/ \E id \in Ids, expires_at \in Expiries : Queue(id, expires_at)
           \/ CallEnds \/ Crash
  BY <1>9, OtherKeeps
<1> QED BY <1>1, <1>2, <1>3, <1>4, <1>5, <1>6, <1>7, <1>8, <1>9 DEF Next

\* The queue starts with nothing given.
LEMMA QueueInit ==
    ASSUME Init
    PROVE  QueueInv
<1> DEFINE genesis == [id |-> 0, nonce |-> 0, code |-> InitialCode, ran |-> {}]
<1>1. genesis \in BlockType /\ genesis.ran = {} /\ genesis.id = 0
  BY DEF BlockType, Codes
<1>2. chain = <<genesis>>
  BY DEF Init
<1> HIDE DEF genesis
<1>3. chain \in Seq(BlockType) /\ Len(chain) = 1 /\ chain[1] = genesis
  BY <1>1, <1>2
<1>4. seen = [i \in 1 .. 1 |-> chain[i].id]
  BY <1>3 DEF Init, Following
<1>5. seen \in Seq(Nat) /\ Len(seen) = 1
  BY <1>1, <1>3, <1>4
<1>6. ChainOK
  BY <1>3, <1>5 DEF Init, ChainOK
<1>7. allocated_nonces = << >> /\ DOMAIN allocated_nonces = {}
  BY DEF Init
<1>8. TableOK(allocated_nonces)
  BY <1>7 DEF TableOK
<1>9. CallOK /\ RowsOK
  BY DEF Init, CallOK, RowsOK
<1>10. NoncesOK
  BY <1>1, <1>3, <1>7 DEF Init, NoncesOK
<1> QED BY <1>6, <1>8, <1>9, <1>10 DEF QueueInv

\* A transaction is given one nonce at most, and whatever carries it, in the table,
\* in the mempool or on chain, has that nonce.
THEOREM QueueInvariant == Spec => []QueueInv
<1>1. Init => QueueInv
  BY QueueInit
<1>2. QueueInv /\ [Next]_vars => QueueInv'
  BY QueueStep
<1> QED BY <1>1, <1>2, PTL DEF Spec

\* What is queued once runs at most once on any chain, however often it is
\* resubmitted, uncled and submitted again, across crashes and failed requests,
\* and even if the service misses reorgs.
THEOREM RunsOnce == Spec => []ExecutedOnce
<1>1. QueueInv => ExecutedOnce
  <2> SUFFICES ASSUME QueueInv, NEW x \in Block(Height).ran, NEW y \in Block(Height).ran,
                      x[1] = y[1]
               PROVE  x = y
    BY DEF ExecutedOnce
  <2>1. /\ Len(chain) \in 1 .. Len(chain) /\ Block(Height) = chain[Len(chain)]
        /\ chain[Len(chain)] \in BlockType
    BY BlockFields DEF Block, Height
  <2>2. Given(x[1], x[2]) /\ Given(y[1], y[2])
    BY <2>1 DEF QueueInv, NoncesOK
  <2>3. x[2] = y[2]
    BY <2>2 DEF Given, QueueInv, RowsOK
  <2>4. x = <<x[1], x[2]>> /\ y = <<y[1], y[2]>>
    BY <2>1 DEF BlockType
  <2> QED BY <2>3, <2>4
<1> QED BY <1>1, QueueInvariant, PTL

-----------------------------------------------------------------------------
(* What is forgotten is final                                               *)

\* The watcher's k-th block is the node's.
Canonical(k) == k <= Len(chain) /\ chain[k].id = seen[k]

\* Reorgs are as deep as configured, and safe blocks are below them.
HeightsOK ==
    /\ Len(chain) - 1 <= highest /\ Len(seen) - 1 <= highest
    /\ Len(chain) - 1 >= highest - ReorgDepth
    /\ safe = 0 \/ safe <= highest - ReorgDepth

\* No block is mined twice, and the account's nonce only grows along a chain.
BlocksOK ==
    /\ \A k \in 1 .. Len(chain) : chain[k].id <= mined
    /\ \A k \in 1 .. Len(seen) : seen[k] <= mined
    /\ \A j, k \in 1 .. Len(chain) : j <= k => chain[j].nonce <= chain[k].nonce

\* Two chains with a block in common have the blocks before it in common. The
\* service misses no reorg.
BranchesOK ==
    /\ \A j, k \in 1 .. Len(seen) : j <= k /\ Canonical(k) => Canonical(j)
    /\ pc = "down" => Canonical(Len(seen))

\* A marker names a block that the watcher has seen; if that is still the node's,
\* the account had used the nonce there.
MarkersOK ==
    \A n \in DOMAIN allocated_nonces : allocated_nonces[n].executed_at # Null =>
        /\ allocated_nonces[n].executed_at < Len(seen)
        /\ Canonical(allocated_nonces[n].executed_at + 1) =>
              n < chain[allocated_nonces[n].executed_at + 1].nonce

\* The cached account is that of the last block, if that is still the node's.
CacheOK ==
    account_cache # Null /\ Canonical(Len(seen)) => account_cache.nonce = chain[Len(seen)].nonce

\* What is forgotten was executed in a block that no reorg takes away.
GoneOK ==
    \A g \in gone : g.nonce # Null =>
        \E k \in 1 .. Len(chain) : /\ k = 1 \/ k - 1 <= highest - ReorgDepth
                                   /\ g.nonce < chain[k].nonce

FinalInv == HeightsOK /\ BlocksOK /\ BranchesOK /\ MarkersOK /\ CacheOK /\ GoneOK

\* unmark_executed takes back the markers from a block on, and changes no other.
LEMMA UnmarkMarks ==
    ASSUME NEW table, TableOK(table), NEW block \in Int
    PROVE  \A n \in DOMAIN table :
              LET marker == UnmarkExecuted(table, block)[n].executed_at IN
              \/ marker = Null
              \/ marker = table[n].executed_at /\ marker < block
<1> SUFFICES ASSUME NEW n \in DOMAIN table
             PROVE  LET marker == UnmarkExecuted(table, block)[n].executed_at IN
                    \/ marker = Null
                    \/ marker = table[n].executed_at /\ marker < block
  OBVIOUS
<1> DEFINE old == table[n].executed_at
           new == UnmarkExecuted(table, block)[n]
<1>1. table[n] \in NonceType
  BY DEF TableOK
<1>2. old \in Nat \cup {Null}
  BY <1>1 DEF NonceType
<1>3. [table[n] EXCEPT !.executed_at = Null].executed_at = Null
  BY <1>1 DEF NonceType
<1>4. new = IF old # Null /\ old >= block
            THEN [table[n] EXCEPT !.executed_at = Null] ELSE table[n]
  BY DEF UnmarkExecuted
<1>5. CASE old # Null /\ old >= block
  BY <1>3, <1>4, <1>5
<1>6. CASE ~ (old # Null /\ old >= block)
  BY <1>2, <1>4, <1>6
<1> QED BY <1>5, <1>6

\* What update_block_status forgets and which markers it leaves.
LEMMA UpdateMarks ==
    ASSUME QueueInv, NEW status \in StatusType, UpdateBlockStatus(status)
    PROVE  /\ \A n \in DOMAIN allocated_nonces' :
                 /\ n \in DOMAIN allocated_nonces
                 /\ \/ allocated_nonces'[n].executed_at = Null
                    \/ allocated_nonces'[n].executed_at = allocated_nonces[n].executed_at
           /\ \A g \in gone' : g.nonce # Null =>
                 \/ g \in gone
                 \/ /\ block_status = Null \/ block_status.safe # status.safe
                    /\ g.nonce \in Final(allocated_nonces, status.safe)
           /\ block_status # Null /\ block_status.latest > status.latest =>
                 \A n \in DOMAIN allocated_nonces' :
                    allocated_nonces'[n].executed_at # Null =>
                        allocated_nonces'[n].executed_at < status.latest + 1
           /\ account_cache' # Null => block_status.latest = status.latest
<1> DEFINE first     == block_status = Null
           prunes    == first \/ block_status.safe # status.safe
           final     == IF prunes THEN Final(allocated_nonces, status.safe) ELSE {}
           pruned    == IF prunes THEN Prunable(status.safe) ELSE {}
           kept      == Without(allocated_nonces, final)
<1>1. /\ gone' = gone \cup {[id |-> t.id, nonce |-> t.nonce] : t \in pruned}
      /\ account_cache' # Null => block_status.latest = status.latest
  BY DEF UpdateBlockStatus
<1>2. /\ \/ allocated_nonces' = kept
         \/ allocated_nonces' = UnmarkExecuted(kept, status.safe + 1)
         \/ allocated_nonces' = UnmarkExecuted(kept, status.latest + 1)
      /\ block_status # Null /\ block_status.latest > status.latest =>
            allocated_nonces' = UnmarkExecuted(kept, status.latest + 1)
  BY DEF UpdateBlockStatus
<1>3. /\ TableOK(kept)
      /\ \A n \in DOMAIN kept : n \in DOMAIN allocated_nonces /\ kept[n] = allocated_nonces[n]
  <2> HIDE DEF final
  <2>1. Keeps(allocated_nonces, kept)
    BY WithoutKeeps DEF QueueInv
  <2> QED BY <2>1 DEF Keeps, Without
<1> HIDE DEF kept
<1>4. status.safe + 1 \in Int /\ status.latest + 1 \in Int
  BY DEF StatusType
<1> DEFINE low == status.safe + 1
           high == status.latest + 1
<1>5. low \in Int /\ high \in Int
  BY <1>4
<1> HIDE DEF low, high
<1>6. /\ DOMAIN UnmarkExecuted(kept, low) = DOMAIN kept
      /\ DOMAIN UnmarkExecuted(kept, high) = DOMAIN kept
      /\ \A n \in DOMAIN kept :
            /\ UnmarkExecuted(kept, low)[n].executed_at \in {Null, kept[n].executed_at}
            /\ UnmarkExecuted(kept, high)[n].executed_at \in {Null, kept[n].executed_at}
            /\ UnmarkExecuted(kept, high)[n].executed_at # Null =>
                   UnmarkExecuted(kept, high)[n].executed_at < high
  BY <1>3, <1>5, UnmarkKeeps, UnmarkMarks
<1>7. ASSUME NEW n \in DOMAIN allocated_nonces'
      PROVE  /\ n \in DOMAIN allocated_nonces
             /\ \/ allocated_nonces'[n].executed_at = Null
                \/ allocated_nonces'[n].executed_at = allocated_nonces[n].executed_at
  BY <1>2, <1>3, <1>6 DEF low, high
<1>8. block_status # Null /\ block_status.latest > status.latest =>
                 \A n \in DOMAIN allocated_nonces' :
                    allocated_nonces'[n].executed_at # Null =>
                        allocated_nonces'[n].executed_at < status.latest + 1
  BY <1>2, <1>6 DEF high
<1>9. ASSUME NEW g \in gone', g.nonce # Null, g \notin gone
      PROVE  prunes /\ g.nonce \in Final(allocated_nonces, status.safe)
  <2>1. PICK t \in pruned : g = [id |-> t.id, nonce |-> t.nonce]
    BY <1>1, <1>9
  <2>2. prunes /\ t \in Prunable(status.safe)
    BY <2>1
  <2>3. t.nonce = g.nonce
    BY <2>1
  <2> QED BY <1>9, <2>2, <2>3 DEF Prunable
<1> QED BY <1>1, <1>7, <1>8, <1>9

\* A marker is the number of a block.
LEMMA MarkerTyped ==
    ASSUME QueueInv, NEW n \in DOMAIN allocated_nonces,
           allocated_nonces[n].executed_at # Null
    PROVE  n \in Nat /\ allocated_nonces[n].executed_at \in Nat
<1>1. n \in Nat /\ allocated_nonces[n] \in NonceType
  BY DEF QueueInv, TableOK
<1> QED BY <1>1 DEF NonceType

\* What prune forgets is final, if the watcher's blocks are the node's.
LEMMA PrunedIsFinal ==
    ASSUME QueueInv, FinalInv, NEW status \in StatusType, UpdateBlockStatus(status),
           UNCHANGED <<chain, highest>>,
           status.safe = 0 \/ status.safe <= highest - ReorgDepth,
           \/ Canonical(Len(seen))
           \/ block_status # Null /\ block_status.safe = status.safe
    PROVE  GoneOK'
<1> SUFFICES ASSUME NEW g \in gone', g.nonce # Null
             PROVE  \E k \in 1 .. Len(chain) : /\ k = 1 \/ k - 1 <= highest - ReorgDepth
                                               /\ g.nonce < chain[k].nonce
  BY DEF GoneOK
<1>1. CASE g \in gone
  BY <1>1 DEF FinalInv, GoneOK
<1>2. CASE g \notin gone
  <2> DEFINE n == g.nonce
             e == allocated_nonces[n].executed_at
  <2>1. Canonical(Len(seen)) /\ n \in Final(allocated_nonces, status.safe)
    BY <1>2, UpdateMarks
  <2>2. n \in DOMAIN allocated_nonces /\ e # Null /\ e <= status.safe
    BY <2>1 DEF Final
  <2>3. n \in Nat /\ e \in Nat
    BY <2>2, MarkerTyped
  <2>4. e < Len(seen) /\ (Canonical(e + 1) => n < chain[e + 1].nonce)
    BY <2>2 DEF FinalInv, MarkersOK
  <2> HIDE DEF e
  <2>5. Len(seen) \in Nat /\ Len(chain) \in Nat /\ status.safe \in Nat
        /\ highest - ReorgDepth \in Int
    BY BlockFields, NumbersAssumption DEF QueueInv, ChainOK, StatusType
  <2>6. e + 1 \in 1 .. Len(seen) /\ Len(seen) \in 1 .. Len(seen) /\ e + 1 <= Len(seen)
    BY <2>3, <2>4, <2>5
  <2>7. Canonical(e + 1)
    BY <2>1, <2>6 DEF FinalInv, BranchesOK
  <2>8. e + 1 \in 1 .. Len(chain)
    BY <2>3, <2>5, <2>7 DEF Canonical
  <2>9. e + 1 = 1 \/ (e + 1) - 1 <= highest - ReorgDepth
    BY <2>2, <2>3, <2>5 DEF e
  <2> QED BY <2>4, <2>7, <2>8, <2>9
<1> QED BY <1>1, <1>2

\* A block is mined: it is nobody's yet.
LEMMA MineFinal ==
    ASSUME QueueInv, FinalInv, Mine
    PROVE  FinalInv'
<1>1. PICK block \in BlockType :
         /\ chain' = Append(chain, block) /\ block.id = mined'
         /\ block.nonce >= chain[Len(chain)].nonce
  BY MineKeeps
<1>2. /\ chain \in Seq(BlockType) /\ Len(chain) \in Nat /\ Len(chain) > 0
      /\ mined \in Nat /\ highest \in Nat /\ Len(seen) \in Nat /\ Len(seen) > 0 /\ seen \in Seq(Nat)
  BY DEF QueueInv, ChainOK
<1>3. /\ mined' = mined + 1
      /\ UNCHANGED <<seen, safe, allocated_nonces, account_cache, pc, gone>>
  BY DEF Mine, watcherVars, tableVars, queueVars
<1>4. /\ Len(chain') = Len(chain) + 1
      /\ \A k \in 1 .. Len(chain) : chain'[k] = chain[k]
      /\ chain'[Len(chain) + 1] = block
  BY <1>1, <1>2
<1>5. highest' \in Nat /\ highest' >= highest /\ highest' \in {highest, Len(chain)}
      /\ highest' >= Len(chain)
  <2> DEFINE next == Height + 1
  <2>1. highest' = Max({highest, next}) /\ next = Len(chain) /\ highest \in Int /\ next \in Int
    BY <1>2 DEF Mine, Height
  <2> HIDE DEF next
  <2>2. /\ Max({highest, next}) \in {highest, next}
        /\ Max({highest, next}) >= highest /\ Max({highest, next}) >= next
    BY <2>1, MaxOfTwo, Zenon
  <2> QED BY <1>2, <2>1, <2>2
<1>6. \A k \in 1 .. Len(chain) : chain[k].id \in Nat /\ chain[k].nonce \in Nat
  BY BlockFields
<1>7. block.id \in Nat /\ block.nonce \in Nat
  BY DEF BlockType
<1>8. \A k \in 1 .. Len(seen) : seen[k] \in Nat /\ seen[k] <= mined
  BY <1>2 DEF FinalInv, BlocksOK
<1>9. ASSUME NEW k \in 1 .. Len(seen)
      PROVE  Canonical(k)' <=> Canonical(k)
  <2>1. CASE k <= Len(chain)
    BY <1>2, <1>3, <1>4, <2>1 DEF Canonical
  <2>2. CASE k = Len(chain) + 1
    BY <1>1, <1>2, <1>3, <1>4, <1>8, <2>2 DEF Canonical
  <2>3. CASE k > Len(chain) + 1
    BY <1>2, <1>4, <2>3 DEF Canonical
  <2> QED BY <1>2, <2>1, <2>2, <2>3
<1>10. HeightsOK'
  <2>1. /\ Len(chain) - 1 <= highest /\ Len(seen) - 1 <= highest
        /\ Len(chain) - 1 >= highest - ReorgDepth
        /\ safe = 0 \/ safe <= highest - ReorgDepth
        /\ ReorgDepth \in Nat /\ safe \in Nat
    BY NumbersAssumption DEF FinalInv, HeightsOK, QueueInv, ChainOK
  <2>2. Len(chain') - 1 <= highest' /\ Len(seen') - 1 <= highest'
    BY <1>2, <1>3, <1>4, <1>5, <2>1
  <2>3. Len(chain') - 1 >= highest' - ReorgDepth
    <3>1. CASE highest' = highest
      BY <1>2, <1>4, <2>1, <3>1
    <3>2. CASE highest' = Len(chain)
      BY <1>2, <1>4, <2>1, <3>2
    <3> QED BY <1>5, <3>1, <3>2
  <2>4. safe' = 0 \/ safe' <= highest' - ReorgDepth
    <3>1. PICK h \in Nat : h = highest' /\ h >= highest
      BY <1>5
    <3>2. h >= highest /\ highest \in Int /\ ReorgDepth \in Int /\ safe \in Int
      BY <1>2, <2>1, <3>1
    <3>3. safe = 0 \/ safe <= highest - ReorgDepth
      BY <2>1
    <3>4. safe = 0 \/ safe <= h - ReorgDepth
      BY <3>2, <3>3
    <3> QED BY <1>3, <3>1, <3>4
  <2> QED BY <2>2, <2>3, <2>4 DEF HeightsOK
<1>11. BlocksOK'
  <2>1. \A k \in 1 .. Len(chain') : chain'[k].id <= mined'
    BY <1>1, <1>2, <1>3, <1>4, <1>6, <1>7 DEF FinalInv, BlocksOK
  <2>2. \A k \in 1 .. Len(seen') : seen'[k] <= mined'
    BY <1>2, <1>3, <1>8
  <2>3. ASSUME NEW j \in 1 .. Len(chain'), NEW k \in 1 .. Len(chain'), j <= k
        PROVE  chain'[j].nonce <= chain'[k].nonce
    <3>1. CASE k \in 1 .. Len(chain)
      <4>1. j \in 1 .. Len(chain)
        BY <1>2, <2>3, <3>1
      <4> QED BY <1>4, <2>3, <3>1, <4>1 DEF FinalInv, BlocksOK
    <3>2. CASE k = Len(chain) + 1 /\ j \in 1 .. Len(chain)
      <4>1. chain[j].nonce <= chain[Len(chain)].nonce /\ Len(chain) \in 1 .. Len(chain)
        BY <1>2, <3>2 DEF FinalInv, BlocksOK
      <4>2. chain'[j] = chain[j] /\ chain'[k] = block
        BY <1>4, <3>2
      <4> QED BY <1>1, <1>6, <1>7, <3>2, <4>1, <4>2
    <3>3. CASE k = Len(chain) + 1 /\ j = Len(chain) + 1
      BY <1>4, <1>7, <3>3
    <3> QED BY <1>2, <1>4, <2>3, <3>1, <3>2, <3>3
  <2> QED BY <2>1, <2>2, <2>3 DEF BlocksOK
<1>12. BranchesOK'
  <2>1. Len(seen) \in 1 .. Len(seen)
    BY <1>2
  <2> QED BY <1>3, <1>9, <2>1 DEF FinalInv, BranchesOK
<1>13. MarkersOK'
  <2> SUFFICES ASSUME NEW n \in DOMAIN allocated_nonces, allocated_nonces[n].executed_at # Null
               PROVE  /\ allocated_nonces[n].executed_at < Len(seen)
                      /\ Canonical(allocated_nonces[n].executed_at + 1)' =>
                            n < chain'[allocated_nonces[n].executed_at + 1].nonce
    BY <1>3 DEF MarkersOK
  <2>1. PICK e \in Nat : e = allocated_nonces[n].executed_at
    BY MarkerTyped
  <2>2. e < Len(seen) /\ (Canonical(e + 1) => n < chain[e + 1].nonce)
    BY <2>1 DEF FinalInv, MarkersOK
  <2>3. e + 1 \in 1 .. Len(seen)
    BY <1>2, <2>2
  <2>4. Canonical(e + 1) => e + 1 \in 1 .. Len(chain)
    BY <1>2, <2>1 DEF Canonical
  <2>5. Canonical(e + 1)' <=> Canonical(e + 1)
    BY <1>9, <2>3
  <2>6. Canonical(e + 1)' => n < chain'[e + 1].nonce
    BY <1>4, <2>2, <2>4, <2>5
  <2> QED BY <1>3, <2>1, <2>2, <2>6 DEF Canonical
<1>14. CacheOK'
  <2>1. Len(seen) \in 1 .. Len(seen)
    BY <1>2
  <2>2. Canonical(Len(seen))' <=> Canonical(Len(seen))
    BY <1>3, <1>9, <2>1 DEF Canonical
  <2>3. Canonical(Len(seen)) => Len(seen) \in 1 .. Len(chain)
    BY <1>2 DEF Canonical
  <2> QED BY <1>3, <1>4, <2>2, <2>3 DEF FinalInv, CacheOK
<1>15. GoneOK'
  <2> SUFFICES ASSUME NEW g \in gone, g.nonce # Null
               PROVE  \E k \in 1 .. Len(chain') : /\ k = 1 \/ k - 1 <= highest' - ReorgDepth
                                                  /\ g.nonce < chain'[k].nonce
    BY <1>3 DEF GoneOK
  <2>1. PICK k \in 1 .. Len(chain) : /\ k = 1 \/ k - 1 <= highest - ReorgDepth
                                     /\ g.nonce < chain[k].nonce
    BY DEF FinalInv, GoneOK
  <2>2. k = 1 \/ k - 1 <= highest' - ReorgDepth
    <3>1. PICK h \in Nat : h = highest' /\ h >= highest
      BY <1>5
    <3>2. k \in Int /\ ReorgDepth \in Int /\ highest \in Int
      BY <1>2, NumbersAssumption
    <3>3. k = 1 \/ k - 1 <= highest - ReorgDepth
      BY <2>1
    <3>4. CASE k = 1 BY <3>4
    <3>5. CASE k - 1 <= highest - ReorgDepth
      <4>1. \A a, b, c, d \in Int : a - 1 <= b - c /\ b <= d => a - 1 <= d - c
        OBVIOUS
      <4>2. highest <= h /\ h \in Int
        BY <3>1, <3>2
      <4>3. k - 1 <= h - ReorgDepth
        BY <3>2, <3>5, <4>1, <4>2, Zenon
      <4> QED BY <3>1, <4>3
    <3> QED BY <3>3, <3>4, <3>5
  <2>3. k \in 1 .. Len(chain') /\ g.nonce < chain'[k].nonce
    BY <1>2, <1>4, <2>1
  <2> QED BY <2>2, <2>3
<1> QED BY <1>10, <1>11, <1>12, <1>13, <1>14, <1>15 DEF FinalInv

\* A reorg takes away blocks that are not final, while the service is up.
LEMMA ReorgFinal ==
    ASSUME ~ OfflineReorgs, QueueInv, FinalInv, Reorg
    PROVE  FinalInv'
<1>1. PICK n \in 0 .. Height - 1 :
         /\ n >= highest - ReorgDepth
         /\ Len(chain') = n + 1 /\ \A k \in 1 .. n + 1 : chain'[k] = chain[k]
  BY ReorgKeeps
<1>2. /\ Len(chain) \in Nat /\ Len(chain) > 0 /\ Height = Len(chain) - 1
      /\ Len(seen) \in Nat /\ Len(seen) > 0 /\ highest \in Nat /\ ReorgDepth \in Nat
      /\ safe \in Nat
  BY NumbersAssumption DEF QueueInv, ChainOK, Height
<1>3. UNCHANGED <<mined, highest, seen, safe, allocated_nonces, account_cache, pc, gone>>
      /\ pc # "down"
  BY DEF Reorg, watcherVars, tableVars, queueVars
<1>4. n + 1 \in Nat /\ n + 1 < Len(chain) /\ n \in Nat
  BY <1>1, <1>2
<1>5. \A k \in 1 .. n + 1 : k \in 1 .. Len(chain)
  BY <1>2, <1>4
<1>6. ASSUME NEW k \in 1 .. Len(seen)
      PROVE  Canonical(k)' <=> Canonical(k) /\ k <= n + 1
  BY <1>1, <1>2, <1>3, <1>4 DEF Canonical
<1>7. HeightsOK'
  <2>1. Len(chain') - 1 = n
    BY <1>1, <1>4
  <2>2. Len(chain) - 1 <= highest
    BY DEF FinalInv, HeightsOK
  <2>3. n <= highest
    BY <1>2, <1>4, <2>2
  <2> QED BY <1>1, <1>3, <2>1, <2>3 DEF FinalInv, HeightsOK
<1>8. BlocksOK'
  BY <1>1, <1>3, <1>5 DEF FinalInv, BlocksOK
<1>9. BranchesOK'
  <2>1. ASSUME NEW j \in 1 .. Len(seen), NEW k \in 1 .. Len(seen), j <= k, Canonical(k)'
        PROVE  Canonical(j)'
    <3>1. Canonical(k) /\ k <= n + 1
      BY <1>6, <2>1
    <3>2. Canonical(j)
      BY <2>1, <3>1 DEF FinalInv, BranchesOK
    <3>3. j <= n + 1
      BY <1>2, <1>4, <2>1, <3>1
    <3> QED BY <1>6, <3>2, <3>3
  <2> QED BY <1>3, <2>1 DEF BranchesOK
<1>10. MarkersOK'
  <2> SUFFICES ASSUME NEW m \in DOMAIN allocated_nonces, allocated_nonces[m].executed_at # Null
               PROVE  /\ allocated_nonces[m].executed_at < Len(seen)
                      /\ Canonical(allocated_nonces[m].executed_at + 1)' =>
                            m < chain'[allocated_nonces[m].executed_at + 1].nonce
    BY <1>3 DEF MarkersOK
  <2>1. PICK e \in Nat : e = allocated_nonces[m].executed_at
    BY MarkerTyped
  <2>2. e < Len(seen) /\ (Canonical(e + 1) => m < chain[e + 1].nonce)
    BY <2>1 DEF FinalInv, MarkersOK
  <2>3. e + 1 \in 1 .. Len(seen)
    BY <1>2, <2>2
  <2>4. Canonical(e + 1)' => Canonical(e + 1) /\ e + 1 \in 1 .. n + 1
    BY <1>4, <1>6, <2>3
  <2>5. Canonical(e + 1)' => m < chain'[e + 1].nonce
    BY <1>1, <2>2, <2>4
  <2> QED BY <1>3, <2>1, <2>2, <2>5 DEF Canonical
<1>11. CacheOK'
  <2>1. Len(seen) \in 1 .. Len(seen)
    BY <1>2
  <2>2. Canonical(Len(seen))' => Canonical(Len(seen)) /\ Len(seen) \in 1 .. n + 1
    BY <1>2, <1>3, <1>4, <1>6, <2>1 DEF Canonical
  <2> QED BY <1>1, <1>3, <2>2 DEF FinalInv, CacheOK
<1>12. GoneOK'
  <2> SUFFICES ASSUME NEW g \in gone, g.nonce # Null
               PROVE  \E k \in 1 .. Len(chain') : /\ k = 1 \/ k - 1 <= highest - ReorgDepth
                                                  /\ g.nonce < chain'[k].nonce
    BY <1>3 DEF GoneOK
  <2>1. PICK k \in 1 .. Len(chain) : /\ k = 1 \/ k - 1 <= highest - ReorgDepth
                                     /\ g.nonce < chain[k].nonce
    BY DEF FinalInv, GoneOK
  <2>2. k \in 1 .. n + 1
    BY <1>1, <1>2, <1>4, <2>1
  <2> QED BY <1>1, <2>1, <2>2
<1> QED BY <1>7, <1>8, <1>9, <1>10, <1>11, <1>12 DEF FinalInv

\* The watcher's next block is the node's.
LEMMA NewBlockFinal ==
    ASSUME QueueInv, FinalInv, NewBlock
    PROVE  FinalInv'
<1>0. PICK last \in Nat, next \in {chain[Len(seen) + 1].id} : last = Len(seen)
  BY DEF QueueInv, ChainOK
<1>1. /\ UNCHANGED <<chain, mined, highest>> /\ pc = "idle" /\ last < Len(chain)
      /\ seen' = Append(seen, next) /\ chain[last].id = seen[last]
      /\ UpdateBlockStatus([latest |-> last, safe |-> safe'])
      /\ safe' = Max({safe, last - ReorgDepth})
  BY <1>0 DEF NewBlock, nodeVars, LastIsCanonical
<1>2. /\ Len(chain) \in Nat /\ last > 0 /\ seen \in Seq(Nat)
      /\ safe \in Nat /\ highest \in Nat /\ ReorgDepth \in Nat /\ mined \in Nat
  BY <1>0, NumbersAssumption DEF QueueInv, ChainOK
<1>3. last + 1 \in 1 .. Len(chain) /\ last \in 1 .. last
  BY <1>1, <1>2
<1>4. next \in Nat /\ next <= mined
  BY <1>0, <1>3, BlockFields DEF FinalInv, BlocksOK
<1>5. /\ Len(seen') = last + 1 /\ seen'[last + 1] = next
      /\ \A k \in 1 .. last : seen'[k] = seen[k]
  BY <1>0, <1>1, <1>2, <1>4
<1>6. \A k \in 1 .. last : Canonical(k)
  <2>1. Canonical(last)
    BY <1>1, <1>2 DEF Canonical
  <2>2. \A k \in 1 .. last : k <= last
    BY <1>2
  <2> QED BY <1>0, <1>3, <2>1, <2>2 DEF FinalInv, BranchesOK
<1>7. \A k \in 1 .. last + 1 : Canonical(k)'
  <2>1. ASSUME NEW k \in 1 .. last PROVE Canonical(k)'
    BY <1>1, <1>5, <1>6 DEF Canonical
  <2>2. Canonical(last + 1)'
    BY <1>0, <1>1, <1>3, <1>5 DEF Canonical
  <2>3. \A k \in 1 .. last + 1 : k \in 1 .. last \/ k = last + 1
    BY <1>2
  <2> QED BY <2>1, <2>2, <2>3
<1>8. safe' \in Nat /\ (safe' = 0 \/ safe' <= highest - ReorgDepth)
  <2> DEFINE high == last - ReorgDepth
  <2>1. safe \in Int /\ high \in Int /\ safe' = Max({safe, high})
    BY <1>1, <1>2
  <2>2. high <= highest - ReorgDepth
    <3>1. Len(chain) - 1 <= highest
      BY DEF FinalInv, HeightsOK
    <3> QED BY <1>1, <1>2, <3>1
  <2>3. safe = 0 \/ safe <= highest - ReorgDepth
    BY DEF FinalInv, HeightsOK
  <2> HIDE DEF high
  <2>4. Max({safe, high}) \in {safe, high} /\ Max({safe, high}) >= safe
    BY <2>1, MaxOfTwo, Zenon
  <2>5. CASE safe' = safe
    BY <1>2, <2>3, <2>5
  <2>6. CASE safe' = high
    BY <1>2, <2>1, <2>2, <2>4, <2>6
  <2> QED BY <2>1, <2>4, <2>5, <2>6
<1>9. PICK status \in StatusType : /\ status = [latest |-> last, safe |-> safe']
                                   /\ UpdateBlockStatus(status)
  BY <1>1, <1>8 DEF StatusType
<1>10. status.safe = safe' /\ status.latest = last
  BY <1>9
<1>11. HeightsOK'
  <2>1. Len(seen') - 1 = last
    BY <1>5
  <2>2. Len(chain) - 1 <= highest /\ Len(chain) - 1 >= highest - ReorgDepth
    BY DEF FinalInv, HeightsOK
  <2>3. last <= highest
    BY <1>1, <1>2, <2>2
  <2> QED BY <1>1, <1>8, <2>1, <2>2, <2>3 DEF HeightsOK
<1>12. BlocksOK'
  <2>1. \A k \in 1 .. Len(seen') : seen'[k] <= mined
    <3>1. \A k \in 1 .. last : seen[k] <= mined
      BY <1>0 DEF FinalInv, BlocksOK
    <3>2. \A k \in 1 .. last + 1 : k \in 1 .. last \/ k = last + 1
      BY <1>2
    <3> QED BY <1>4, <1>5, <3>1, <3>2
  <2> QED BY <1>1, <2>1 DEF FinalInv, BlocksOK
<1>13. BranchesOK'
  <2>1. pc' # "down"
    BY <1>9, UpdateKeeps
  <2> QED BY <1>5, <1>7, <2>1 DEF BranchesOK
<1>14. MarkersOK'
  <2> SUFFICES ASSUME NEW n \in DOMAIN allocated_nonces', allocated_nonces'[n].executed_at # Null
               PROVE  /\ allocated_nonces'[n].executed_at < Len(seen')
                      /\ n < chain'[allocated_nonces'[n].executed_at + 1].nonce
    BY DEF MarkersOK
  <2>1. /\ n \in DOMAIN allocated_nonces
        /\ allocated_nonces'[n].executed_at = allocated_nonces[n].executed_at
    BY <1>9, UpdateMarks
  <2>2. PICK e \in Nat : e = allocated_nonces[n].executed_at
    BY <2>1, MarkerTyped
  <2>3. e < last /\ (Canonical(e + 1) => n < chain[e + 1].nonce)
    BY <1>0, <2>1, <2>2 DEF FinalInv, MarkersOK
  <2>4. e + 1 \in 1 .. last /\ e < last + 1
    BY <1>2, <2>3
  <2> QED BY <1>1, <1>5, <1>6, <2>1, <2>2, <2>3, <2>4
<1>15. CacheOK'
  <2>1. account_cache' # Null => block_status.latest = last
    BY <1>9, <1>10, UpdateMarks
  <2>2. block_status.latest = last - 1
    BY <1>0, <1>1 DEF QueueInv, CallOK
  <2> QED BY <2>1, <2>2 DEF CacheOK
<1>16. GoneOK'
  <2>1. Canonical(Len(seen))
    BY <1>0, <1>3, <1>6
  <2> QED BY <1>1, <1>8, <1>9, <1>10, <2>1, PrunedIsFinal
<1> QED BY <1>11, <1>12, <1>13, <1>14, <1>15, <1>16 DEF FinalInv

\* An uncled block takes its markers with it.
LEMMA UncleBlockFinal ==
    ASSUME QueueInv, FinalInv, UncleBlock
    PROVE  FinalInv'
<1>1. PICK last \in Nat : last = Len(seen) - 1 /\ last > safe
  <2>1. Len(seen) - 1 \in Nat /\ Len(seen) - 1 > safe
    BY DEF QueueInv, ChainOK, UncleBlock
  <2> QED BY <2>1
<1>2. /\ UNCHANGED <<chain, mined, highest, safe>> /\ pc = "idle"
      /\ seen' = SubSeq(seen, 1, last)
      /\ UpdateBlockStatus([latest |-> last - 1, safe |-> safe])
  <2>1. Len(seen) - 2 = last - 1
    BY <1>1 DEF QueueInv, ChainOK
  <2> QED BY <1>1, <2>1 DEF UncleBlock, nodeVars
<1>3. /\ Len(chain) \in Nat /\ seen \in Seq(Nat) /\ safe \in Nat /\ highest \in Nat
      /\ ReorgDepth \in Nat /\ mined \in Nat /\ last > 0 /\ Len(seen) = last + 1
  BY <1>1, NumbersAssumption DEF QueueInv, ChainOK
<1>4. Len(seen') = last /\ \A k \in 1 .. last : seen'[k] = seen[k]
  BY <1>1, <1>2, <1>3
<1>5. /\ \A k \in 1 .. last : k \in 1 .. Len(seen)
      /\ \A k \in 1 .. last : Canonical(k)' <=> Canonical(k)
  BY <1>2, <1>3, <1>4 DEF Canonical
<1>6. block_status = [latest |-> last, safe |-> safe] /\ block_status # Null
  BY <1>1, <1>2, <1>3, NullAssumption DEF QueueInv, CallOK
<1>7. PICK status \in StatusType : /\ status = [latest |-> last - 1, safe |-> safe]
                                   /\ UpdateBlockStatus(status)
  BY <1>2, <1>3 DEF StatusType
<1>8. /\ status.safe = safe /\ status.latest = last - 1
      /\ block_status.latest = last /\ block_status.safe = safe
      /\ block_status.latest > status.latest
  BY <1>3, <1>6, <1>7
<1>9. HeightsOK'
  <2>1. Len(seen) - 1 <= highest
    BY DEF FinalInv, HeightsOK
  <2>2. Len(seen') - 1 <= highest
    BY <1>3, <1>4, <2>1
  <2> QED BY <1>2, <2>2 DEF FinalInv, HeightsOK
<1>10. BlocksOK'
  BY <1>2, <1>4, <1>5 DEF FinalInv, BlocksOK
<1>11. BranchesOK'
  <2>1. pc' # "down"
    BY <1>7, UpdateKeeps
  <2> QED BY <1>4, <1>5, <2>1 DEF FinalInv, BranchesOK
<1>12. MarkersOK'
  <2> SUFFICES ASSUME NEW n \in DOMAIN allocated_nonces', allocated_nonces'[n].executed_at # Null
               PROVE  /\ allocated_nonces'[n].executed_at < Len(seen')
                      /\ Canonical(allocated_nonces[n].executed_at + 1)' =>
                            n < chain'[allocated_nonces'[n].executed_at + 1].nonce
    BY DEF MarkersOK, Canonical
  <2>1. /\ n \in DOMAIN allocated_nonces
        /\ allocated_nonces'[n].executed_at = allocated_nonces[n].executed_at
        /\ allocated_nonces'[n].executed_at < status.latest + 1
    BY <1>6, <1>7, <1>8, UpdateMarks
  <2>2. PICK e \in Nat : e = allocated_nonces[n].executed_at
    BY <2>1, MarkerTyped
  <2>3. e < last /\ (Canonical(e + 1) => n < chain[e + 1].nonce)
    BY <1>8, <2>1, <2>2 DEF FinalInv, MarkersOK
  <2>4. e + 1 \in 1 .. last
    BY <1>3, <2>3
  <2>5. Canonical(e + 1)' => n < chain'[e + 1].nonce
    BY <1>2, <1>5, <2>3, <2>4
  <2> QED BY <1>4, <2>1, <2>2, <2>3, <2>5 DEF Canonical
<1>13. CacheOK'
  <2>1. account_cache' # Null => block_status.latest = status.latest
    BY <1>7, UpdateMarks
  <2> QED BY <1>8, <2>1, <1>3 DEF CacheOK
<1>14. GoneOK'
  <2>1. safe = 0 \/ safe <= highest - ReorgDepth
    BY DEF FinalInv, HeightsOK
  <2> QED BY <1>2, <1>6, <1>7, <1>8, <2>1, PrunedIsFinal
<1> QED BY <1>9, <1>10, <1>11, <1>12, <1>13, <1>14 DEF FinalInv

\* A service that comes back finds its blocks on the node's chain still.
LEMMA BootFinal ==
    ASSUME QueueInv, FinalInv, Boot
    PROVE  FinalInv'
<1>1. PICK last \in Nat, length \in Nat : last = Len(seen) /\ length = Len(chain) /\ length > 0
  BY DEF QueueInv, ChainOK
<1>2. /\ UNCHANGED <<chain, mined, highest>> /\ pc = "down"
      /\ seen' = [i \in 1 .. length |-> chain[i].id]
      /\ UpdateBlockStatus([latest |-> length - 1, safe |-> safe'])
      /\ safe' = Max({0, (length - 1) - ReorgDepth})
  BY <1>1 DEF Boot, nodeVars, Following, Height
<1>3. /\ seen \in Seq(Nat) /\ safe \in Nat /\ highest \in Nat /\ last > 0
      /\ ReorgDepth \in Nat /\ mined \in Nat
  BY <1>1, NumbersAssumption DEF QueueInv, ChainOK
<1>4. Len(seen') = length /\ \A k \in 1 .. length : seen'[k] = chain[k].id
  <2>1. \A k \in 1 .. length : chain[k].id \in Nat
    BY <1>1, BlockFields
  <2>2. seen' \in Seq(Nat)
    BY <1>1, <1>2, <2>1
  <2> QED BY <1>2, <2>2
<1>5. \A k \in 1 .. length : Canonical(k)'
  BY <1>1, <1>2, <1>4 DEF Canonical
<1>6. Canonical(last) /\ last <= length /\ \A k \in 1 .. last : Canonical(k)
  <2>1. Canonical(last)
    BY <1>1, <1>2 DEF FinalInv, BranchesOK
  <2>2. last \in 1 .. last /\ \A k \in 1 .. last : k <= last
    BY <1>3
  <2>3. last <= length
    BY <1>1, <2>1 DEF Canonical
  <2> QED BY <1>1, <2>1, <2>2, <2>3 DEF FinalInv, BranchesOK
<1>7. safe' \in Nat /\ (safe' = 0 \/ safe' <= highest - ReorgDepth)
  <2> DEFINE high == (length - 1) - ReorgDepth
  <2>1. 0 \in Int /\ high \in Int /\ safe' = Max({0, high})
    BY <1>2, <1>3
  <2>2. high <= highest - ReorgDepth
    <3>1. length - 1 <= highest
      BY <1>1 DEF FinalInv, HeightsOK
    <3> QED BY <1>3, <3>1
  <2> HIDE DEF high
  <2>3. Max({0, high}) \in {0, high} /\ Max({0, high}) >= 0
    BY <2>1, MaxOfTwo, Zenon
  <2> QED BY <2>1, <2>2, <2>3
<1>8. PICK status \in StatusType : /\ status = [latest |-> length - 1, safe |-> safe']
                                   /\ UpdateBlockStatus(status)
  <2>1. length - 1 \in Nat
    BY <1>1
  <2>2. [latest |-> length - 1, safe |-> safe'] \in StatusType
    BY <1>7, <2>1 DEF StatusType
  <2> QED BY <1>2, <2>2
<1>9. status.safe = safe' /\ status.latest = length - 1
  BY <1>8
<1>10. HeightsOK'
  <2>1. Len(seen') - 1 = length - 1
    BY <1>4
  <2>2. length - 1 <= highest /\ length - 1 >= highest - ReorgDepth
    BY <1>1 DEF FinalInv, HeightsOK
  <2> QED BY <1>1, <1>2, <1>7, <2>1, <2>2 DEF HeightsOK
<1>11. BlocksOK'
  BY <1>1, <1>2, <1>4 DEF FinalInv, BlocksOK
<1>12. BranchesOK'
  <2>1. pc' # "down"
    BY <1>8, UpdateKeeps
  <2> QED BY <1>4, <1>5, <2>1 DEF BranchesOK
<1>13. MarkersOK'
  <2> SUFFICES ASSUME NEW n \in DOMAIN allocated_nonces', allocated_nonces'[n].executed_at # Null
               PROVE  /\ allocated_nonces'[n].executed_at < Len(seen')
                      /\ n < chain'[allocated_nonces'[n].executed_at + 1].nonce
    BY DEF MarkersOK
  <2>1. /\ n \in DOMAIN allocated_nonces
        /\ allocated_nonces'[n].executed_at = allocated_nonces[n].executed_at
    BY <1>8, UpdateMarks
  <2>2. PICK e \in Nat : e = allocated_nonces[n].executed_at
    BY <2>1, MarkerTyped
  <2>3. e < last /\ (Canonical(e + 1) => n < chain[e + 1].nonce)
    BY <1>1, <2>1, <2>2 DEF FinalInv, MarkersOK
  <2>4. e + 1 \in 1 .. last /\ e < length
    BY <1>3, <1>6, <2>3
  <2> QED BY <1>2, <1>4, <1>6, <2>1, <2>2, <2>3, <2>4
<1>14. CacheOK'
  <2>1. account_cache' = Null
    <3>1. account_cache = Null
      BY <1>2 DEF QueueInv, CallOK
    <3>2. account_cache' \in {Null, account_cache}
      BY <1>8, UpdateKeeps
    <3> QED BY <3>1, <3>2
  <2> QED BY <2>1 DEF CacheOK
<1>15. GoneOK'
  BY <1>1, <1>2, <1>6, <1>7, <1>8, <1>9, PrunedIsFinal
<1> QED BY <1>10, <1>11, <1>12, <1>13, <1>14, <1>15 DEF FinalInv

\* A step of the queue that follows no new block only adds the markers and the
\* cached account that it has read at the last one.
LEMMA QuietFinal ==
    ASSUME QueueInv, FinalInv,
           UNCHANGED <<chain, mined, highest, seen, safe, gone>>,
           pc' = "down" => pc = "down" \/ Canonical(Len(seen)),
           account_cache' # Null =>
               \/ account_cache' = account_cache
               \/ Canonical(Len(seen)) => account_cache'.nonce = chain[Len(seen)].nonce,
           \A n \in DOMAIN allocated_nonces' :
               \/ allocated_nonces'[n].executed_at = Null
               \/ /\ n \in DOMAIN allocated_nonces
                  /\ allocated_nonces'[n].executed_at = allocated_nonces[n].executed_at
               \/ /\ allocated_nonces'[n].executed_at = Len(seen) - 1
                  /\ Canonical(Len(seen)) => n < chain[Len(seen)].nonce
    PROVE  FinalInv'
<1>1. Len(seen) \in Nat /\ Len(seen) > 0
  BY DEF QueueInv, ChainOK
<1>2. \A k : Canonical(k)' <=> Canonical(k)
  BY DEF Canonical
<1>3. HeightsOK' /\ BlocksOK' /\ GoneOK'
  BY DEF FinalInv, HeightsOK, BlocksOK, GoneOK
<1>4. Canonical(Len(seen))' <=> Canonical(Len(seen))
  BY DEF Canonical
<1>5. BranchesOK'
  BY <1>2, <1>4 DEF FinalInv, BranchesOK
<1>6. MarkersOK'
  <2> SUFFICES ASSUME NEW n \in DOMAIN allocated_nonces', allocated_nonces'[n].executed_at # Null
               PROVE  /\ allocated_nonces'[n].executed_at < Len(seen)
                      /\ Canonical(allocated_nonces'[n].executed_at + 1) =>
                            n < chain[allocated_nonces'[n].executed_at + 1].nonce
    BY DEF MarkersOK, Canonical
  <2>1. CASE /\ n \in DOMAIN allocated_nonces
             /\ allocated_nonces'[n].executed_at = allocated_nonces[n].executed_at
    BY <2>1 DEF FinalInv, MarkersOK
  <2>2. CASE /\ allocated_nonces'[n].executed_at = Len(seen) - 1
             /\ Canonical(Len(seen)) => n < chain[Len(seen)].nonce
    <3>1. Len(seen) - 1 < Len(seen) /\ (Len(seen) - 1) + 1 = Len(seen)
      BY <1>1
    <3> QED BY <2>2, <3>1
  <2> QED BY <2>1, <2>2
<1>7. CacheOK'
  BY <1>4 DEF FinalInv, CacheOK
<1> QED BY <1>3, <1>5, <1>6, <1>7 DEF FinalInv

\* The account that a call works with is that of the last block, if that is still
\* the node's.
LEMMA AccountFinal ==
    ASSUME QueueInv, FinalInv, pc # "down", NEW account \in Account, Canonical(Len(seen))
    PROVE  account.nonce = chain[Len(seen)].nonce
BY AccountTyped DEF FinalInv, CacheOK

\* Each action keeps what is forgotten final, as long as no reorg is missed.
LEMMA FinalStep ==
    ASSUME ~ OfflineReorgs, QueueInv, FinalInv, [Next]_vars
    PROVE  FinalInv'
<1>1. CASE UNCHANGED vars
  <2>1. UNCHANGED <<chain, mined, highest, seen, safe, allocated_nonces, account_cache, pc, gone>>
    BY <1>1 DEF vars, nodeVars, watcherVars, tableVars, queueVars
  <2> QED BY <2>1, QuietFinal
<1>2. CASE Mine
  BY <1>2, MineFinal
<1>3. CASE Reorg
  BY <1>3, ReorgFinal
<1>4. CASE \/ ExternalTransaction \/ CallEnds
           \/ \E id \in Ids, expires_at \in Expiries : Queue(id, expires_at)
  <2>1. /\ UNCHANGED <<chain, mined, highest, seen, safe, allocated_nonces, account_cache, gone>>
        /\ pc' = "down" => pc = "down"
    BY <1>4 DEF ExternalTransaction, CallEnds, Queue, nodeVars, watcherVars, tableVars, queueVars
  <2> QED BY <2>1, QuietFinal
<1>5. CASE Crash
  <2>1. /\ UNCHANGED <<chain, mined, highest, seen, safe, allocated_nonces, gone>>
        /\ account_cache' = Null /\ Canonical(Len(seen))
    BY <1>5 DEF Crash, nodeVars, watcherVars, tableVars, LastIsCanonical, Canonical
  <2> QED BY <2>1, QuietFinal
<1>6. CASE MarkAccount
  <2>1. /\ UNCHANGED <<chain, mined, highest, seen, safe, gone>>
        /\ pc # "down" /\ pc' # "down"
    BY <1>6 DEF MarkAccount, nodeVars, watcherVars
  <2>2. PICK account \in Account :
           /\ account_cache' = account
           /\ DOMAIN allocated_nonces' = DOMAIN allocated_nonces
           /\ \A n \in DOMAIN allocated_nonces :
                 \/ allocated_nonces'[n].executed_at = allocated_nonces[n].executed_at
                 \/ /\ n < account.nonce
                    /\ allocated_nonces'[n].executed_at = Len(seen) - 1
    BY <1>6, MarkAccountKeeps
  <2>3. Canonical(Len(seen)) => account.nonce = chain[Len(seen)].nonce
    BY <2>1, AccountFinal
  <2> QED BY <2>1, <2>2, <2>3, QuietFinal
<1>7. CASE Resubmit
  <2>1. /\ UNCHANGED <<chain, mined, highest, seen, safe, account_cache, gone>>
        /\ pc' # "down"
    BY <1>7 DEF Resubmit, watcherVars
  <2>2. /\ DOMAIN allocated_nonces' = DOMAIN allocated_nonces
        /\ \A n \in DOMAIN allocated_nonces :
              allocated_nonces'[n].executed_at = allocated_nonces[n].executed_at
    BY <1>7, ResubmitKeeps
  <2> QED BY <2>1, <2>2, QuietFinal
<1>8. CASE SubmitPending
  <2>1. /\ UNCHANGED <<chain, mined, highest, seen, safe, gone>>
        /\ pc # "down" /\ pc' # "down"
    BY <1>8 DEF SubmitPending, watcherVars
  <2>2. PICK account \in Account : account_cache' = account
    BY <1>8, SubmitPendingKeeps
  <2>3. \A n \in DOMAIN allocated_nonces' :
           \/ allocated_nonces'[n].executed_at = Null
           \/ /\ n \in DOMAIN allocated_nonces
              /\ allocated_nonces'[n].executed_at = allocated_nonces[n].executed_at
    BY <1>8, SubmitPendingKeeps
  <2>4. Canonical(Len(seen)) => account.nonce = chain[Len(seen)].nonce
    BY <2>1, AccountFinal
  <2> QED BY <2>1, <2>2, <2>3, <2>4, QuietFinal
<1>9. CASE NewBlock
  BY <1>9, NewBlockFinal
<1>10. CASE UncleBlock
  BY <1>10, UncleBlockFinal
<1>11. CASE Boot
  BY <1>11, BootFinal
<1> QED BY <1>1, <1>2, <1>3, <1>4, <1>5, <1>6, <1>7, <1>8, <1>9, <1>10, <1>11 DEF Next

\* At first there is the genesis block, and nothing is forgotten.
LEMMA FinalInit ==
    ASSUME Init
    PROVE  FinalInv
<1> DEFINE genesis == [id |-> 0, nonce |-> 0, code |-> InitialCode, ran |-> {}]
<1>1. genesis.id = 0 /\ genesis.nonce = 0
  OBVIOUS
<1>2. chain = <<genesis>>
  BY DEF Init
<1> HIDE DEF genesis
<1>3. Len(chain) = 1 /\ chain[1] = genesis
  BY <1>2
<1>4. seen = [i \in 1 .. 1 |-> chain[i].id]
  BY <1>3 DEF Init, Following
<1>5. Len(seen) = 1 /\ seen[1] = 0
  <2>1. seen \in Seq({0})
    BY <1>1, <1>3, <1>4
  <2> QED BY <1>1, <1>3, <1>4, <2>1
<1>6. \A k \in 1 .. 1 : k = 1
  OBVIOUS
<1>7. HeightsOK
  BY <1>3, <1>5, NumbersAssumption DEF Init, HeightsOK
<1>8. BlocksOK /\ BranchesOK
  BY <1>1, <1>3, <1>5, <1>6 DEF Init, BlocksOK, BranchesOK, Canonical
<1>9. MarkersOK /\ CacheOK /\ GoneOK
  BY DEF Init, MarkersOK, CacheOK, GoneOK
<1> QED BY <1>7, <1>8, <1>9 DEF FinalInv

\* Markers name blocks in which the account had used the nonce, unless they have
\* been uncled since, and what is forgotten is below every later reorg.
THEOREM FinalInvariant == ASSUME ~ OfflineReorgs PROVE Spec => []FinalInv
<1>1. Init => FinalInv
  BY FinalInit
<1>2. QueueInv /\ FinalInv /\ [Next]_vars => FinalInv'
  BY FinalStep
<1> QED BY <1>1, <1>2, QueueInvariant, PTL DEF Spec

\* storage.rs, prune: as long as the service misses no reorg, what it forgets was
\* executed in a block that no reorg takes away, or its nonce was used there by the
\* account's owner. (The run transaction_queue_offline shows that it does not hold
\* of a service that does.)
THEOREM ForgottenIsFinal == ASSUME ~ OfflineReorgs PROVE Spec => []GoneOnlyWhenDone
<1>1. QueueInv /\ FinalInv => GoneOnlyWhenDone
  <2> SUFFICES ASSUME QueueInv, FinalInv, NEW g \in gone, g.nonce # Null
               PROVE  g.nonce < Block(Max({0, highest - ReorgDepth})).nonce
    BY DEF GoneOnlyWhenDone
  <2> DEFINE low == highest - ReorgDepth
             deep == Max({0, low})
  <2>1. low \in Int /\ highest \in Nat /\ Len(chain) \in Nat /\ Len(chain) > 0
    BY NumbersAssumption DEF QueueInv, ChainOK
  <2>2. PICK k \in 1 .. Len(chain) : (k = 1 \/ k - 1 <= low) /\ g.nonce < chain[k].nonce
    BY DEF FinalInv, GoneOK
  <2>3. Len(chain) - 1 >= low
    BY DEF FinalInv, HeightsOK
  <2> HIDE DEF low
  <2>4. deep \in {0, low} /\ deep >= 0 /\ deep >= low /\ deep \in Int
    <3>1. 0 \in Int /\ low \in Int
      BY <2>1
    <3> QED BY <3>1, MaxOfTwo, Zenon
  <2> HIDE DEF deep
  <2>5. deep + 1 \in 1 .. Len(chain) /\ k <= deep + 1
    BY <2>1, <2>2, <2>3, <2>4
  <2>6. chain[k].nonce <= chain[deep + 1].nonce
    BY <2>5 DEF FinalInv, BlocksOK
  <2>7. chain[k].nonce \in Nat /\ chain[deep + 1].nonce \in Nat
    BY <2>5, BlockFields
  <2>8. g.nonce \in Nat
    BY DEF QueueInv, RowsOK
  <2>9. g.nonce < chain[deep + 1].nonce
    BY <2>2, <2>6, <2>7, <2>8
  <2> QED BY <2>9 DEF Block, deep, low
<1> QED BY <1>1, QueueInvariant, FinalInvariant, PTL
-----------------------------------------------------------------------------
(* Nobody waits for a nonce that is left out                                *)

\* The nonce was used in a block that no reorg takes away.
Settled(k) ==
    \E i \in 1 .. Len(chain) : (i = 1 \/ i - 1 <= highest - ReorgDepth) /\ k < chain[i].nonce

\* The account's owner has a transaction with that nonce.
Theirs(k) == \E t \in mempool : ~ t.ours /\ t.nonce = k

\* The nonce is in the table, or the queue need not care for it.
Accounted(k) == k \in DOMAIN allocated_nonces \/ Settled(k) \/ Theirs(k)

Below(n) == \A k \in Nat : k < n => Accounted(k)

\* The nonces that the chain has used, that the cached account has, that come before one in
\* the table and that are broadcast are accounted for.
GapsOK ==
    /\ \A i \in 1 .. Len(chain) : Below(chain[i].nonce)
    /\ account_cache # Null => Below(account_cache.nonce)
    /\ \A n \in DOMAIN allocated_nonces : Below(n)
    /\ \A t \in mempool : Accounted(t.nonce) /\ (t.delegate # Null => Accounted(t.nonce + 1))

\* An authorization's row comes after that of the transaction that carries it, and both are
\* marked in the same block; one whose transaction was replaced is a cancellation.
Paired(table) ==
    \A n \in DOMAIN table : table[n].request = Null =>
        /\ table[n].delegate # Null
        /\ n - 1 \in DOMAIN table /\ table[n - 1].request # Null
        /\ table[n - 1].executed_at = table[n].executed_at

GapInv == GapsOK /\ Paired(allocated_nonces)

\* What mark_executed_below does to a row.
LEMMA MarkRows ==
    ASSUME NEW table, TableOK(table), NEW nonce \in Nat, NEW block \in Nat, NEW n \in DOMAIN table
    PROVE  LET row == MarkExecuted(table, nonce, block)[n] IN
           /\ row.request = table[n].request /\ row.delegate = table[n].delegate
           /\ n < nonce /\ table[n].executed_at = Null => row.executed_at = block
           /\ ~ (n < nonce /\ table[n].executed_at = Null) => row.executed_at = table[n].executed_at
<1> DEFINE row == MarkExecuted(table, nonce, block)[n]
           marked == [table[n] EXCEPT !.executed_at = block]
<1>1. table[n] \in NonceType
  BY DEF TableOK
<1>2. /\ marked.request = table[n].request /\ marked.delegate = table[n].delegate
      /\ marked.executed_at = block
  BY <1>1 DEF NonceType
<1>3. row = IF n < nonce /\ table[n].executed_at = Null THEN marked ELSE table[n]
  BY DEF MarkExecuted
<1> HIDE DEF row, marked
<1>4. /\ row.request = table[n].request /\ row.delegate = table[n].delegate
      /\ n < nonce /\ table[n].executed_at = Null => row.executed_at = block
      /\ ~ (n < nonce /\ table[n].executed_at = Null) => row.executed_at = table[n].executed_at
  <2>1. CASE n < nonce /\ table[n].executed_at = Null
    BY <1>2, <1>3, <2>1
  <2>2. CASE ~ (n < nonce /\ table[n].executed_at = Null)
    BY <1>3, <2>2
  <2> QED BY <2>1, <2>2
<1> QED BY <1>4 DEF row

\* What unmark_executed does to a row depends on its marker only.
LEMMA UnmarkRows ==
    ASSUME NEW table, TableOK(table), NEW block \in Int, NEW n \in DOMAIN table
    PROVE  LET row == UnmarkExecuted(table, block)[n]
               old == table[n].executed_at IN
           /\ row.request = table[n].request /\ row.delegate = table[n].delegate
           /\ old # Null /\ old >= block => row.executed_at = Null
           /\ ~ (old # Null /\ old >= block) => row.executed_at = old
<1> DEFINE row == UnmarkExecuted(table, block)[n]
           old == table[n].executed_at
           unmarked == [table[n] EXCEPT !.executed_at = Null]
<1>1. table[n] \in NonceType
  BY DEF TableOK
<1>2. /\ unmarked.request = table[n].request /\ unmarked.delegate = table[n].delegate
      /\ unmarked.executed_at = Null
  BY <1>1 DEF NonceType
<1>3. row = IF old # Null /\ old >= block THEN unmarked ELSE table[n]
  BY DEF UnmarkExecuted
<1> HIDE DEF row, unmarked
<1>4. /\ row.request = table[n].request /\ row.delegate = table[n].delegate
      /\ old # Null /\ old >= block => row.executed_at = Null
      /\ ~ (old # Null /\ old >= block) => row.executed_at = old
  <2>1. CASE old # Null /\ old >= block
    BY <1>2, <1>3, <2>1
  <2>2. CASE ~ (old # Null /\ old >= block)
    BY <1>3, <2>2
  <2> QED BY <2>1, <2>2
<1> QED BY <1>4 DEF row, old

\* recover_authorization_gap changes what the row at the account's nonce carries.
LEMMA RecoverRows ==
    ASSUME NEW table, TableOK(table), NEW nonce \in Nat, NEW n \in DOMAIN table
    PROVE  LET row == RecoverAuthorizationGap(table, nonce)[n]
               gap == n = nonce /\ table[n].delegate # Null /\ table[n].request = Null IN
           /\ row.delegate = table[n].delegate /\ row.executed_at = table[n].executed_at
           /\ gap => row.request = {}
           /\ ~ gap => row.request = table[n].request
<1> DEFINE row == RecoverAuthorizationGap(table, nonce)[n]
           gap == n = nonce /\ table[n].delegate # Null /\ table[n].request = Null
           cancelled == [table[n] EXCEPT !.request = {}]
<1>1. table[n] \in NonceType
  BY DEF TableOK
<1>2. /\ cancelled.executed_at = table[n].executed_at /\ cancelled.delegate = table[n].delegate
      /\ cancelled.request = {}
  BY <1>1 DEF NonceType
<1>3. row = IF gap THEN cancelled ELSE table[n]
  BY DEF RecoverAuthorizationGap
<1> HIDE DEF row, gap, cancelled
<1>4. /\ row.delegate = table[n].delegate /\ row.executed_at = table[n].executed_at
      /\ gap => row.request = {}
      /\ ~ gap => row.request = table[n].request
  <2>1. CASE gap BY <1>2, <1>3, <2>1
  <2>2. CASE ~ gap BY <1>3, <2>2
  <2> QED BY <2>1, <2>2
<1> QED BY <1>4 DEF row, gap

\* record_submission keeps what the row carries.
LEMMA RecordRows ==
    ASSUME NEW table, TableOK(table), NEW nonce \in DOMAIN table, NEW block \in Nat \cup {Null},
           NEW n \in DOMAIN table
    PROVE  LET row == RecordSubmission(table, nonce, block)[n] IN
           /\ row.request = table[n].request /\ row.delegate = table[n].delegate
           /\ row.executed_at = table[n].executed_at
<1> DEFINE row == RecordSubmission(table, nonce, block)[n]
           recorded == [table[n] EXCEPT !.submitted_at = block]
<1>1. table[n] \in NonceType
  BY DEF TableOK
<1>2. /\ recorded.request = table[n].request /\ recorded.delegate = table[n].delegate
      /\ recorded.executed_at = table[n].executed_at
  BY <1>1 DEF NonceType
<1>3. row = recorded \/ row = table[n]
  BY DEF RecordSubmission
<1> HIDE DEF row, recorded
<1>4. /\ row.request = table[n].request /\ row.delegate = table[n].delegate
      /\ row.executed_at = table[n].executed_at
  BY <1>2, <1>3
<1> QED BY <1>4 DEF row

\* Rows stay paired when rows with the same marker are treated alike.
LEMMA PairedKept ==
    ASSUME NEW old, NEW new, Paired(old), DOMAIN new \subseteq DOMAIN old,
           \A n \in DOMAIN new :
              new[n].request = old[n].request /\ new[n].delegate = old[n].delegate,
           \A m \in DOMAIN old, n \in DOMAIN new :
              old[m].executed_at = old[n].executed_at =>
                  m \in DOMAIN new /\ new[m].executed_at = new[n].executed_at
    PROVE  Paired(new)
<1> SUFFICES ASSUME NEW n \in DOMAIN new, new[n].request = Null
             PROVE  /\ new[n].delegate # Null
                    /\ n - 1 \in DOMAIN new /\ new[n - 1].request # Null
                    /\ new[n - 1].executed_at = new[n].executed_at
  BY DEF Paired
<1>1. /\ old[n].delegate # Null
      /\ n - 1 \in DOMAIN old /\ old[n - 1].request # Null
      /\ old[n - 1].executed_at = old[n].executed_at
  BY DEF Paired
<1>2. n - 1 \in DOMAIN new /\ new[n - 1].executed_at = new[n].executed_at
  BY <1>1
<1> QED BY <1>1, <1>2

\* What is accounted for stays so.
AccountedKept == \A k \in Nat : Accounted(k) => Accounted(k)'

\* Nonces below a bound stay accounted for.
LEMMA BelowKept ==
    ASSUME AccountedKept, NEW n, Below(n)
    PROVE  \A k \in Nat : k < n => Accounted(k)'
  BY DEF AccountedKept, Below

\* Final blocks stay when the chain grows, or loses blocks within the depth.
LEMMA SettledKept ==
    ASSUME QueueInv, QueueInv', NEW k, Settled(k), highest' >= highest,
           \A i \in 1 .. Len(chain) :
              i = 1 \/ i - 1 <= highest - ReorgDepth => i <= Len(chain') /\ chain'[i] = chain[i]
    PROVE  Settled(k)'
<1>1. PICK i \in 1 .. Len(chain) : (i = 1 \/ i - 1 <= highest - ReorgDepth) /\ k < chain[i].nonce
  BY DEF Settled
<1>2. i <= Len(chain') /\ chain'[i] = chain[i]
  BY <1>1
<1>3. Len(chain) \in Nat /\ Len(chain') \in Nat /\ highest \in Nat /\ highest' \in Nat
      /\ ReorgDepth \in Nat
  BY NumbersAssumption DEF QueueInv, ChainOK
<1>4. i \in 1 .. Len(chain')
  BY <1>2, <1>3
<1>5. i = 1 \/ i - 1 <= highest' - ReorgDepth
  <2>1. PICK h \in Nat : h = highest' /\ h >= highest
    BY <1>3
  <2>2. \A a, b, c, d \in Int : a - 1 <= b - c /\ b <= d => a - 1 <= d - c
    OBVIOUS
  <2>3. highest <= h /\ h \in Int /\ highest \in Int /\ ReorgDepth \in Int /\ i \in Int
    BY <1>3, <2>1
  <2>4. i = 1 \/ i - 1 <= h - ReorgDepth
    BY <1>1, <2>2, <2>3, Zenon
  <2> QED BY <2>1, <2>4
<1> QED BY <1>1, <1>2, <1>4, <1>5 DEF Settled

\* A step that follows no transaction and no block adds nothing to account for.
LEMMA GapsKept ==
    ASSUME GapInv, AccountedKept, UNCHANGED mempool, account_cache' \in {Null, account_cache},
           DOMAIN allocated_nonces' \subseteq DOMAIN allocated_nonces, QueueInv,
           \A i \in 1 .. Len(chain') : i \in 1 .. Len(chain) /\ chain'[i] = chain[i]
    PROVE  GapsOK'
<1>2. \A i \in 1 .. Len(chain') : Below(chain[i].nonce) /\ chain'[i] = chain[i]
  BY DEF GapInv, GapsOK
<1>3. \A i \in 1 .. Len(chain') : \A k \in Nat : k < chain'[i].nonce => Accounted(k)'
  <2> TAKE i \in 1 .. Len(chain')
  <2>1. \A k \in Nat : k < chain[i].nonce => Accounted(k)'
    BY <1>2, BelowKept
  <2> QED BY <1>2, <2>1
<1>4. account_cache' # Null => Below(account_cache.nonce) /\ account_cache' = account_cache
  BY DEF GapInv, GapsOK
<1>5. account_cache' # Null => \A k \in Nat : k < account_cache'.nonce => Accounted(k)'
  <2> HAVE account_cache' # Null
  <2>1. \A k \in Nat : k < account_cache.nonce => Accounted(k)'
    BY <1>4, BelowKept
  <2> QED BY <1>4, <2>1
<1>6. \A n \in DOMAIN allocated_nonces' : \A k \in Nat : k < n => Accounted(k)'
  <2> TAKE n \in DOMAIN allocated_nonces'
  <2>1. Below(n)
    BY DEF GapInv, GapsOK
  <2> QED BY <2>1, BelowKept
<1>7. ASSUME NEW t \in mempool
      PROVE  Accounted(t.nonce)' /\ (t.delegate # Null => Accounted(t.nonce + 1)')
  <2>1. t.nonce \in Nat /\ t.nonce + 1 \in Nat
    BY DEF QueueInv, ChainOK, SentType
  <2>2. Accounted(t.nonce) /\ (t.delegate # Null => Accounted(t.nonce + 1))
    BY DEF GapInv, GapsOK
  <2> QED BY <2>1, <2>2 DEF AccountedKept
<1> QED BY <1>3, <1>5, <1>6, <1>7 DEF GapsOK, Below

\* update_block_status, before its first request: what it takes out of the table is final.
LEMMA UpdateGaps ==
    ASSUME QueueInv, FinalInv, GapInv, NEW status \in StatusType, UpdateBlockStatus(status),
           UNCHANGED <<chain, highest, mempool>>,
           status.safe = 0 \/ status.safe <= highest - ReorgDepth,
           \/ Canonical(Len(seen))
           \/ block_status # Null /\ block_status.safe = status.safe
    PROVE  GapInv'
<1> DEFINE prunes == block_status = Null \/ block_status.safe # status.safe
           final  == IF prunes THEN Final(allocated_nonces, status.safe) ELSE {}
           kept   == Without(allocated_nonces, final)
<1>1. /\ account_cache' \in {Null, account_cache}
      /\ Keeps(allocated_nonces, allocated_nonces')
  BY UpdateKeeps
<1>2. \/ allocated_nonces' = kept
      \/ allocated_nonces' = UnmarkExecuted(kept, status.safe + 1)
      \/ allocated_nonces' = UnmarkExecuted(kept, status.latest + 1)
  BY DEF UpdateBlockStatus
<1>3. TableOK(allocated_nonces)
  BY DEF QueueInv
<1>4. \A n \in DOMAIN allocated_nonces :
         n \in final <=> /\ prunes /\ allocated_nonces[n].executed_at # Null
                         /\ allocated_nonces[n].executed_at <= status.safe
  BY DEF Final
<1> HIDE DEF final
<1>5. /\ TableOK(kept) /\ DOMAIN kept = DOMAIN allocated_nonces \ final
      /\ \A n \in DOMAIN kept : kept[n] = allocated_nonces[n]
  <2>1. TableOK(kept)
    BY <1>3, WithoutKeeps DEF Keeps
  <2> QED BY <2>1 DEF Without
<1> HIDE DEF kept
<1>6. Paired(kept)
  <2>1. DOMAIN kept \subseteq DOMAIN allocated_nonces
    BY <1>5
  <2>2. \A n \in DOMAIN kept : /\ kept[n].request = allocated_nonces[n].request
                               /\ kept[n].delegate = allocated_nonces[n].delegate
    BY <1>5
  <2>3. ASSUME NEW m \in DOMAIN allocated_nonces, NEW n \in DOMAIN kept,
               allocated_nonces[m].executed_at = allocated_nonces[n].executed_at
        PROVE  m \in DOMAIN kept /\ kept[m].executed_at = kept[n].executed_at
    <3>1. n \in DOMAIN allocated_nonces /\ n \notin final
      BY <1>5
    <3>2. m \notin final
      BY <1>4, <2>3, <3>1
    <3> QED BY <1>5, <2>3, <3>1, <3>2
  <2>4. Paired(allocated_nonces)
    BY DEF GapInv
  <2> QED BY <2>1, <2>2, <2>3, <2>4, PairedKept
<1>7. ASSUME NEW block \in Int
      PROVE  /\ Paired(UnmarkExecuted(kept, block))
             /\ DOMAIN UnmarkExecuted(kept, block) = DOMAIN kept
  <2> DEFINE new == UnmarkExecuted(kept, block)
  <2>1. DOMAIN new = DOMAIN kept
    BY <1>5, UnmarkKeeps
  <2>2. ASSUME NEW n \in DOMAIN kept
        PROVE  LET old == kept[n].executed_at IN
               /\ new[n].request = kept[n].request /\ new[n].delegate = kept[n].delegate
               /\ old # Null /\ old >= block => new[n].executed_at = Null
               /\ ~ (old # Null /\ old >= block) => new[n].executed_at = old
    BY <1>5, UnmarkRows
  <2> HIDE DEF new
  <2>3. ASSUME NEW m \in DOMAIN kept, NEW n \in DOMAIN new, kept[m].executed_at = kept[n].executed_at
        PROVE  m \in DOMAIN new /\ new[m].executed_at = new[n].executed_at
    BY <2>1, <2>2, <2>3
  <2>4. Paired(new)
    BY <1>6, <2>1, <2>2, <2>3, PairedKept
  <2> QED BY <2>1, <2>4 DEF new
<1>8. status.safe + 1 \in Int /\ status.latest + 1 \in Int /\ status.safe \in Nat
  BY DEF StatusType
<1>9. Paired(allocated_nonces)' /\ DOMAIN allocated_nonces' = DOMAIN kept
  <2>1. Paired(allocated_nonces') /\ DOMAIN allocated_nonces' = DOMAIN kept
    BY <1>2, <1>6, <1>7, <1>8
  <2> QED BY <2>1 DEF Paired
<1>10. ASSUME NEW n \in final, n \in DOMAIN allocated_nonces PROVE Settled(n)
  <2>1. Canonical(Len(seen)) /\ allocated_nonces[n].executed_at # Null
        /\ allocated_nonces[n].executed_at <= status.safe
    BY <1>4, <1>10
  <2>2. PICK e \in Nat : e = allocated_nonces[n].executed_at
    BY <1>10, <2>1, MarkerTyped
  <2>3. e < Len(seen) /\ (Canonical(e + 1) => n < chain[e + 1].nonce)
    BY <1>10, <2>1, <2>2 DEF FinalInv, MarkersOK
  <2>4. Len(seen) \in Nat /\ Len(chain) \in Nat /\ highest - ReorgDepth \in Int
    BY BlockFields, NumbersAssumption DEF QueueInv, ChainOK
  <2>5. e + 1 \in 1 .. Len(seen) /\ Len(seen) \in 1 .. Len(seen) /\ e + 1 <= Len(seen)
    BY <2>2, <2>3, <2>4
  <2>6. Canonical(e + 1)
    BY <2>1, <2>5 DEF FinalInv, BranchesOK
  <2>7. e + 1 \in 1 .. Len(chain)
    BY <2>2, <2>4, <2>6 DEF Canonical
  <2>8. e + 1 = 1 \/ (e + 1) - 1 <= highest - ReorgDepth
    BY <1>8, <2>1, <2>2, <2>4
  <2> QED BY <2>3, <2>6, <2>7, <2>8 DEF Settled
<1>11. AccountedKept
  <2>1. \A k : Settled(k)' <=> Settled(k)
    BY DEF Settled
  <2>2. \A k : Theirs(k)' <=> Theirs(k)
    BY DEF Theirs
  <2>3. \A k \in DOMAIN allocated_nonces : k \in DOMAIN allocated_nonces' \/ Settled(k)
    BY <1>5, <1>9, <1>10
  <2> QED BY <2>1, <2>2, <2>3 DEF AccountedKept, Accounted
<1>12. GapsOK'
  <2>1. DOMAIN allocated_nonces' \subseteq DOMAIN allocated_nonces
    BY <1>1 DEF Keeps
  <2> QED BY <1>1, <1>11, <2>1, GapsKept
<1> QED BY <1>9, <1>12 DEF GapInv

\* A nonce that is used by a block's transaction is accounted for.
LEMMA AfterGaps ==
    ASSUME QueueInv, GapInv, NEW account \in BlockType, Below(account.nonce),
           NEW t \in mempool, NEW next \in After(account, t)
    PROVE  next \in BlockType /\ Below(next.nonce)
<1>1. t \in SentType
  BY DEF QueueInv, ChainOK
<1>2. next \in BlockType
  BY <1>1, AfterKeeps
<1> DEFINE nonce == IF t.delegate = Null THEN account.nonce + 1 ELSE account.nonce + 2
           code == IF t.delegate = Null THEN account.code ELSE t.delegate
           ran == IF Batched => code = Executor
                  THEN account.ran \cup (t.ids \X {t.nonce}) ELSE account.ran
<1>3. next = [account EXCEPT !.nonce = nonce, !.code = code, !.ran = ran] /\ t.nonce = account.nonce
  BY DEF After
<1>4. next.nonce = nonce /\ account.nonce \in Nat
  <2> HIDE DEF nonce, code, ran
  <2> QED BY <1>3 DEF BlockType
<1>5. Accounted(t.nonce) /\ (t.delegate # Null => Accounted(t.nonce + 1))
  BY DEF GapInv, GapsOK
<1>6. ASSUME NEW k \in Nat, k < nonce PROVE Accounted(k)
  <2>1. CASE k < account.nonce BY <2>1 DEF Below
  <2>2. CASE k = account.nonce BY <1>3, <1>5, <2>2
  <2>3. CASE k > account.nonce
    <3>1. t.delegate # Null /\ k = account.nonce + 1
      BY <1>4, <1>6, <2>3
    <3> QED BY <1>3, <1>5, <3>1
  <2> QED BY <1>4, <2>1, <2>2, <2>3
<1> QED BY <1>2, <1>4, <1>6 DEF Below

\* A block uses nonces that are accounted for.
LEMMA MineGaps ==
    ASSUME QueueInv, GapInv, Mine
    PROVE  GapInv'
<1> DEFINE last == Block(Height)
           once == Including({last})
           twice == Including(once)
           Fine(a) == a \in BlockType /\ Below(a.nonce)
<1>1. /\ chain \in Seq(BlockType) /\ Len(chain) \in Nat /\ Len(chain) > 0
      /\ mined \in Nat /\ mined' = mined + 1 /\ mined' \in Nat /\ highest \in Nat
  BY DEF QueueInv, ChainOK, Mine
<1>2. last = chain[Len(chain)] /\ Len(chain) \in 1 .. Len(chain)
  BY <1>1 DEF Block, Height
<1>3. Fine(last)
  BY <1>1, <1>2 DEF GapInv, GapsOK
<1>4. PICK a \in {last} \cup once \cup twice : chain' = Append(chain, [a EXCEPT !.id = mined'])
  BY DEF Mine
<1> HIDE DEF last
<1>5. ASSUME NEW accounts, \A b \in accounts : Fine(b), NEW next \in Including(accounts)
      PROVE  Fine(next)
  <2>1. PICK b \in accounts, t \in mempool : next \in After(b, t)
    BY <1>5 DEF Including
  <2>2. b \in BlockType /\ Below(b.nonce)
    BY <1>5
  <2> QED BY <2>1, <2>2, AfterGaps
<1> HIDE DEF Fine
<1>6. \A b \in once : Fine(b)
  BY <1>3, <1>5
<1> HIDE DEF once
<1>7. \A b \in twice : Fine(b)
  BY <1>5, <1>6
<1> HIDE DEF twice
<1>8. a \in BlockType /\ Below(a.nonce)
  BY <1>3, <1>4, <1>6, <1>7 DEF Fine
<1> DEFINE block == [a EXCEPT !.id = mined']
<1>9. block \in BlockType /\ block.nonce = a.nonce
  BY <1>1, <1>8 DEF BlockType
<1>10. chain' = Append(chain, block)
  BY <1>4
<1> HIDE DEF block
<1>11. /\ Len(chain') = Len(chain) + 1
       /\ \A k \in 1 .. Len(chain) : chain'[k] = chain[k]
       /\ chain'[Len(chain) + 1] = block
  BY <1>1, <1>9, <1>10
<1>12. UNCHANGED <<mempool, allocated_nonces, account_cache>>
  BY DEF Mine, tableVars, queueVars
<1>13. highest' >= highest
  <2> DEFINE next == Height + 1
  <2>1. highest' = Max({highest, next}) /\ highest \in Int /\ next \in Int
    BY <1>1 DEF Mine, Height
  <2> HIDE DEF next
  <2> QED BY <2>1, MaxOfTwo, Zenon
<1>14. QueueInv'
  BY MineKeeps
<1>15. AccountedKept
  <2>1. \A i \in 1 .. Len(chain) : i <= Len(chain') /\ chain'[i] = chain[i]
    BY <1>1, <1>11
  <2>2. ASSUME NEW k, Settled(k) PROVE Settled(k)'
    BY <1>13, <1>14, <2>1, <2>2, SettledKept
  <2>3. \A k : Theirs(k)' <=> Theirs(k)
    BY <1>12 DEF Theirs
  <2> QED BY <1>12, <2>2, <2>3 DEF AccountedKept, Accounted
<1>16. \A i \in 1 .. Len(chain') : \A k \in Nat : k < chain'[i].nonce => Accounted(k)'
  <2> TAKE i \in 1 .. Len(chain')
  <2>1. Below(chain'[i].nonce)
    <3>1. CASE i \in 1 .. Len(chain)
      BY <1>11, <3>1 DEF GapInv, GapsOK
    <3>2. CASE i = Len(chain) + 1
      BY <1>8, <1>9, <1>11, <3>2
    <3> QED BY <1>1, <1>11, <3>1, <3>2
  <2> QED BY <1>15, <2>1 DEF Below, AccountedKept
<1>17. GapsOK'
  <2>1. account_cache # Null => \A k \in Nat : k < account_cache.nonce => Accounted(k)'
    BY <1>15 DEF GapInv, GapsOK, Below, AccountedKept
  <2>2. \A n \in DOMAIN allocated_nonces : \A k \in Nat : k < n => Accounted(k)'
    BY <1>15 DEF GapInv, GapsOK, Below, AccountedKept
  <2>3. ASSUME NEW t \in mempool
        PROVE  Accounted(t.nonce)' /\ (t.delegate # Null => Accounted(t.nonce + 1)')
    <3>1. t.nonce \in Nat /\ t.nonce + 1 \in Nat
      BY DEF QueueInv, ChainOK, SentType
    <3> QED BY <1>15, <3>1 DEF GapInv, GapsOK, AccountedKept
  <2> QED BY <1>12, <1>16, <2>1, <2>2, <2>3 DEF GapsOK, Below
<1> QED BY <1>12, <1>17 DEF GapInv, Paired

\* A reorg takes away no final block.
LEMMA ReorgGaps ==
    ASSUME QueueInv, FinalInv, GapInv, Reorg
    PROVE  GapInv'
<1>1. PICK n \in 0 .. Height - 1 :
         /\ n >= highest - ReorgDepth
         /\ Len(chain') = n + 1 /\ \A k \in 1 .. n + 1 : chain'[k] = chain[k]
  BY ReorgKeeps
<1>2. Len(chain) \in Nat /\ Len(chain) > 0 /\ highest \in Nat /\ ReorgDepth \in Nat
  BY NumbersAssumption DEF QueueInv, ChainOK
<1>3. UNCHANGED <<highest, mempool, allocated_nonces, account_cache>>
  BY DEF Reorg, tableVars, queueVars
<1>4. n \in Nat /\ n + 1 < Len(chain)
  BY <1>1, <1>2 DEF Height
<1>5. \A i \in 1 .. Len(chain') : i \in 1 .. Len(chain) /\ chain'[i] = chain[i]
  BY <1>1, <1>2, <1>4
<1>6. AccountedKept
  <2>1. \A i \in 1 .. Len(chain) :
           i = 1 \/ i - 1 <= highest - ReorgDepth => i <= Len(chain') /\ chain'[i] = chain[i]
    BY <1>1, <1>2, <1>4
  <2>2. QueueInv' /\ highest' >= highest
    BY <1>2, <1>3, ReorgKeeps
  <2>3. ASSUME NEW k, Settled(k) PROVE Settled(k)'
    BY <2>1, <2>2, <2>3, SettledKept
  <2>4. \A k : Theirs(k)' <=> Theirs(k)
    BY <1>3 DEF Theirs
  <2> QED BY <1>3, <2>3, <2>4 DEF AccountedKept, Accounted
<1>7. GapsOK'
  BY <1>3, <1>5, <1>6, GapsKept
<1> QED BY <1>3, <1>7 DEF GapInv, Paired

\* The account's owner accounts for the nonce.
LEMMA ExternalGaps ==
    ASSUME QueueInv, GapInv, ExternalTransaction
    PROVE  GapInv'
<1>0. PICK theirs : theirs = [nonce |-> Block(Height).nonce, ids |-> {}, delegate |-> Null, ours |-> FALSE]
  OBVIOUS
<1>1. /\ mempool' = mempool \cup {theirs}
      /\ UNCHANGED <<chain, highest, allocated_nonces, account_cache>>
  BY <1>0 DEF ExternalTransaction, tableVars, queueVars
<1>2. theirs.delegate = Null /\ ~ theirs.ours
  BY <1>0
<1>3. AccountedKept
  <2>1. \A k : Settled(k)' <=> Settled(k)
    BY <1>1 DEF Settled
  <2>2. \A k : Theirs(k) => Theirs(k)'
    BY <1>1 DEF Theirs
  <2> QED BY <1>1, <2>1, <2>2 DEF AccountedKept, Accounted
<1>4. Accounted(theirs.nonce)'
  BY <1>1, <1>2 DEF Accounted, Theirs
<1>5. ASSUME NEW t \in mempool
      PROVE  Accounted(t.nonce)' /\ (t.delegate # Null => Accounted(t.nonce + 1)')
  <2>1. t.nonce \in Nat /\ t.nonce + 1 \in Nat
    BY DEF QueueInv, ChainOK, SentType
  <2> QED BY <1>3, <2>1 DEF GapInv, GapsOK, AccountedKept
<1>6. \A n : Below(n) => \A k \in Nat : k < n => Accounted(k)'
  BY <1>3, BelowKept
<1>7. GapsOK'
  <2>1. \A i \in 1 .. Len(chain') : \A k \in Nat : k < chain'[i].nonce => Accounted(k)'
    BY <1>1, <1>6 DEF GapInv, GapsOK
  <2>2. account_cache' # Null => \A k \in Nat : k < account_cache'.nonce => Accounted(k)'
    BY <1>1, <1>6 DEF GapInv, GapsOK
  <2>3. \A n \in DOMAIN allocated_nonces' : \A k \in Nat : k < n => Accounted(k)'
    BY <1>1, <1>6 DEF GapInv, GapsOK
  <2>4. \A t \in mempool' : Accounted(t.nonce)' /\ (t.delegate # Null => Accounted(t.nonce + 1)')
    BY <1>1, <1>2, <1>4, <1>5
  <2> QED BY <2>1, <2>2, <2>3, <2>4 DEF GapsOK, Below
<1> QED BY <1>1, <1>7 DEF GapInv, Paired

\* The account that a call works with has used nonces that are accounted for.
LEMMA AccountGaps ==
    ASSUME QueueInv, GapInv, pc # "down", NEW account \in Account
    PROVE  account.nonce \in Nat /\ Below(account.nonce)
<1>1. /\ account \in AccountType
      /\ \/ account = account_cache /\ account_cache # Null
         \/ Len(seen) <= Len(chain) /\ account.nonce = chain[Len(seen)].nonce
  BY AccountTyped
<1>2. Len(seen) <= Len(chain) => Len(seen) \in 1 .. Len(chain)
  BY DEF QueueInv, ChainOK
<1> QED BY <1>1, <1>2 DEF GapInv, GapsOK, AccountType

\* update_block_status, once the account is known: a transaction is marked without its
\* authorization only where that becomes a cancellation.
LEMMA MarkAccountGaps ==
    ASSUME QueueInv, GapInv, MarkAccount
    PROVE  GapInv'
<1>1. PICK account \in Account :
         /\ account_cache' = account
         /\ allocated_nonces' =
               RecoverAuthorizationGap(
                   MarkExecuted(allocated_nonces, account.nonce, block_status.latest),
                   account.nonce)
  BY DEF MarkAccount
<1>2. account.nonce \in Nat /\ Below(account.nonce)
  BY AccountGaps DEF MarkAccount
<1>3. block_status.latest \in Nat
  BY DEF MarkAccount, QueueInv, CallOK, ChainOK
<1>4. UNCHANGED <<chain, highest, mempool>>
  BY DEF MarkAccount, nodeVars
<1> DEFINE latest == block_status.latest
           nonce == account.nonce
           marked == MarkExecuted(allocated_nonces, nonce, latest)
<1>5. /\ allocated_nonces' = RecoverAuthorizationGap(marked, nonce)
      /\ latest \in Nat /\ nonce \in Nat /\ TableOK(allocated_nonces)
  BY <1>1, <1>2, <1>3 DEF QueueInv
<1> HIDE DEF latest, nonce
<1>6. Keeps(allocated_nonces, marked) /\ DOMAIN marked = DOMAIN allocated_nonces
  BY <1>5, MarkKeeps
<1>7. ASSUME NEW n \in DOMAIN allocated_nonces
      PROVE  LET old == allocated_nonces[n] IN
             /\ marked[n].request = old.request /\ marked[n].delegate = old.delegate
             /\ n < nonce /\ old.executed_at = Null => marked[n].executed_at = latest
             /\ ~ (n < nonce /\ old.executed_at = Null) => marked[n].executed_at = old.executed_at
  BY <1>5, MarkRows
<1> HIDE DEF marked
<1>8. TableOK(marked) /\ DOMAIN allocated_nonces' = DOMAIN marked
  BY <1>5, <1>6, RecoverKeeps DEF Keeps
<1>9. ASSUME NEW n \in DOMAIN marked
      PROVE  LET gap == n = nonce /\ marked[n].delegate # Null /\ marked[n].request = Null IN
             /\ allocated_nonces'[n].delegate = marked[n].delegate
             /\ allocated_nonces'[n].executed_at = marked[n].executed_at
             /\ gap => allocated_nonces'[n].request = {}
             /\ ~ gap => allocated_nonces'[n].request = marked[n].request
  BY <1>5, <1>8, RecoverRows
<1>10. {} # Null
  BY NothingAssumption
<1>11. Paired(allocated_nonces)'
  <2> SUFFICES ASSUME NEW n \in DOMAIN allocated_nonces', allocated_nonces'[n].request = Null
               PROVE  /\ allocated_nonces'[n].delegate # Null
                      /\ n - 1 \in DOMAIN allocated_nonces' /\ allocated_nonces'[n - 1].request # Null
                      /\ allocated_nonces'[n - 1].executed_at = allocated_nonces'[n].executed_at
    BY DEF Paired
  <2>1. n \in DOMAIN allocated_nonces /\ n \in DOMAIN marked /\ n \in Nat
    BY <1>5, <1>6, <1>8 DEF TableOK
  <2>2. /\ allocated_nonces[n].request = Null
        /\ ~ (n = nonce /\ allocated_nonces[n].delegate # Null)
    BY <1>7, <1>9, <1>10, <2>1
  <2>3. /\ allocated_nonces[n].delegate # Null
        /\ n - 1 \in DOMAIN allocated_nonces /\ allocated_nonces[n - 1].request # Null
        /\ allocated_nonces[n - 1].executed_at = allocated_nonces[n].executed_at
    BY <2>1, <2>2 DEF GapInv, Paired
  <2>4. n - 1 < nonce <=> n < nonce
    BY <1>5, <2>1, <2>2, <2>3
  <2>5. marked[n - 1].executed_at = marked[n].executed_at
    BY <1>7, <2>1, <2>3, <2>4
  <2>6. marked[n - 1].request # Null /\ marked[n].delegate # Null
    BY <1>7, <2>1, <2>3
  <2>7. n - 1 \in DOMAIN marked
    BY <1>6, <2>3
  <2> QED BY <1>8, <1>9, <2>1, <2>5, <2>6, <2>7
<1>12. AccountedKept
  <2>1. DOMAIN allocated_nonces' = DOMAIN allocated_nonces
    BY <1>6, <1>8
  <2> QED BY <1>4, <2>1 DEF AccountedKept, Accounted, Settled, Theirs
<1>13. \A n : Below(n) => \A k \in Nat : k < n => Accounted(k)'
  BY <1>12, BelowKept
<1>14. ASSUME NEW t \in mempool
       PROVE  Accounted(t.nonce)' /\ (t.delegate # Null => Accounted(t.nonce + 1)')
  <2>1. t.nonce \in Nat /\ t.nonce + 1 \in Nat
    BY DEF QueueInv, ChainOK, SentType
  <2> QED BY <1>12, <2>1 DEF GapInv, GapsOK, AccountedKept
<1>15. GapsOK'
  <2>1. \A i \in 1 .. Len(chain') : \A k \in Nat : k < chain'[i].nonce => Accounted(k)'
    BY <1>4, <1>13 DEF GapInv, GapsOK
  <2>2. \A k \in Nat : k < account_cache'.nonce => Accounted(k)'
    BY <1>1, <1>2, <1>13
  <2>3. \A n \in DOMAIN allocated_nonces' : \A k \in Nat : k < n => Accounted(k)'
    BY <1>6, <1>8, <1>13 DEF GapInv, GapsOK
  <2> QED BY <1>4, <1>14, <2>1, <2>2, <2>3 DEF GapsOK, Below
<1> QED BY <1>11, <1>15 DEF GapInv

\* submit_transaction: the row's transaction, with the authorization of the row after it.
LEMMA SubmitGaps ==
    ASSUME NEW table, TableOK(table), NEW n \in DOMAIN table, table[n].request \in SUBSET Ids,
           block_status.latest \in Nat, SubmitTransaction(table, n)
    PROVE  /\ DOMAIN allocated_nonces' = DOMAIN table
           /\ Paired(table) => Paired(allocated_nonces')
           /\ mempool \subseteq mempool'
           /\ \A t \in mempool' :
                 \/ t \in mempool
                 \/ /\ t.nonce = n /\ t.ours
                    /\ t.delegate # Null => n + 1 \in DOMAIN table
<1>1. \/ allocated_nonces' = table
      \/ allocated_nonces' = RecordSubmission(table, n, block_status.latest)
      \/ allocated_nonces' = RecordSubmission(table, n, Null)
  BY DEF SubmitTransaction
<1>2. mempool' = mempool \/ mempool' = mempool \cup {Build(table, n)}
  BY DEF SubmitTransaction
<1>3. DOMAIN allocated_nonces' = DOMAIN table
  BY SubmitKeeps
<1>4. block_status.latest \in Nat \cup {Null} /\ Null \in Nat \cup {Null}
  OBVIOUS
<1>5. ASSUME NEW k \in DOMAIN table
      PROVE  /\ allocated_nonces'[k].request = table[k].request
             /\ allocated_nonces'[k].delegate = table[k].delegate
             /\ allocated_nonces'[k].executed_at = table[k].executed_at
  <2>1. ASSUME NEW block \in Nat \cup {Null}
        PROVE  LET row == RecordSubmission(table, n, block)[k] IN
               /\ row.request = table[k].request /\ row.delegate = table[k].delegate
               /\ row.executed_at = table[k].executed_at
    BY RecordRows
  <2> QED BY <1>1, <1>4, <2>1
<1>6. Paired(table) => Paired(allocated_nonces')
  BY <1>3, <1>5, PairedKept
<1>7. /\ Build(table, n).nonce = n /\ Build(table, n).ours
      /\ Build(table, n).delegate # Null => n + 1 \in DOMAIN table
  BY DEF Build
<1> QED BY <1>2, <1>3, <1>6, <1>7

\* A step that broadcasts a row: its nonce and that of its authorization are in the table.
LEMMA SentGaps ==
    ASSUME QueueInv, GapInv, UNCHANGED <<chain, highest>>,
           DOMAIN allocated_nonces \subseteq DOMAIN allocated_nonces', mempool \subseteq mempool',
           account_cache' # Null => Below(account_cache'.nonce),
           \A n \in DOMAIN allocated_nonces' : \A k \in Nat :
              k < n => k \in DOMAIN allocated_nonces' \/ Accounted(k),
           \A t \in mempool' :
              \/ t \in mempool
              \/ /\ t.nonce \in DOMAIN allocated_nonces'
                 /\ t.delegate # Null => t.nonce + 1 \in DOMAIN allocated_nonces'
    PROVE  GapsOK'
<1>1. AccountedKept /\ \A k \in DOMAIN allocated_nonces' : Accounted(k)'
  BY DEF AccountedKept, Accounted, Settled, Theirs
<1>2. \A n : Below(n) => \A k \in Nat : k < n => Accounted(k)'
  BY <1>1, BelowKept
<1>3. \A i \in 1 .. Len(chain') : \A k \in Nat : k < chain'[i].nonce => Accounted(k)'
  BY <1>2 DEF GapInv, GapsOK
<1>4. account_cache' # Null => \A k \in Nat : k < account_cache'.nonce => Accounted(k)'
  BY <1>2
<1>5. \A n \in DOMAIN allocated_nonces' : \A k \in Nat : k < n => Accounted(k)'
  BY <1>1 DEF AccountedKept
<1>6. ASSUME NEW t \in mempool
      PROVE  Accounted(t.nonce)' /\ (t.delegate # Null => Accounted(t.nonce + 1)')
  <2>1. t.nonce \in Nat /\ t.nonce + 1 \in Nat
    BY DEF QueueInv, ChainOK, SentType
  <2> QED BY <1>1, <2>1 DEF GapInv, GapsOK, AccountedKept
<1>7. \A t \in mempool' : Accounted(t.nonce)' /\ (t.delegate # Null => Accounted(t.nonce + 1)')
  BY <1>1, <1>6
<1> QED BY <1>3, <1>4, <1>5, <1>7 DEF GapsOK, Below

\* resubmit_stale changes neither nonces nor what they carry.
LEMMA ResubmitGaps ==
    ASSUME QueueInv, GapInv, Resubmit
    PROVE  GapInv'
<1>1. UNCHANGED <<chain, highest, account_cache>> /\ pc = "resubmit"
  BY DEF Resubmit
<1>2. CASE stale = {}
  <2>1. UNCHANGED <<mempool, allocated_nonces>>
    BY <1>2 DEF Resubmit
  <2> QED BY <1>1, <2>1 DEF GapInv, GapsOK, Paired, Below, Accounted, Settled, Theirs
<1>3. CASE stale # {}
  <2> DEFINE n == Min(stale)
  <2>1. SubmitTransaction(allocated_nonces, n)
    BY <1>3 DEF Resubmit
  <2>2. stale \subseteq InFlight(allocated_nonces) /\ TableOK(allocated_nonces)
    BY DEF QueueInv, CallOK
  <2>3. stale \in SUBSET Nat
    BY <2>2 DEF InFlight, TableOK
  <2>4. n \in stale
    BY <1>3, <2>3, MinIsMember
  <2> HIDE DEF n
  <2>5. n \in DOMAIN allocated_nonces /\ allocated_nonces[n].request # Null
    BY <2>2, <2>4 DEF InFlight
  <2>6. block_status.latest \in Nat /\ allocated_nonces[n].request \in SUBSET Ids
    <3>1. allocated_nonces[n] \in NonceType
      BY <2>2, <2>5 DEF TableOK
    <3>2. allocated_nonces[n].request \in SUBSET Ids
      BY <2>5, <3>1 DEF NonceType
    <3> QED BY <1>1, <3>2 DEF QueueInv, CallOK, ChainOK
  <2>7. /\ DOMAIN allocated_nonces' = DOMAIN allocated_nonces
        /\ Paired(allocated_nonces) => Paired(allocated_nonces')
        /\ mempool \subseteq mempool'
        /\ \A t \in mempool' :
              \/ t \in mempool
              \/ /\ t.nonce = n /\ t.ours
                 /\ t.delegate # Null => n + 1 \in DOMAIN allocated_nonces
    BY <2>1, <2>2, <2>5, <2>6, SubmitGaps
  <2>8. account_cache' # Null => Below(account_cache'.nonce)
    BY <1>1 DEF GapInv, GapsOK
  <2>9. \A m \in DOMAIN allocated_nonces' : \A k \in Nat :
           k < m => k \in DOMAIN allocated_nonces' \/ Accounted(k)
    BY <2>7 DEF GapInv, GapsOK, Below
  <2>10. GapsOK'
    BY <1>1, <2>5, <2>7, <2>8, <2>9, SentGaps
  <2>11. Paired(allocated_nonces)'
    BY <2>7 DEF GapInv, Paired
  <2> QED BY <2>10, <2>11 DEF GapInv
<1> QED BY <1>2, <1>3

\* The next nonce is above all that are allocated, and leaves out none but those that the
\* account has used.
LEMMA NextNonceAbove ==
    ASSUME QueueInv, NEW nonce \in Nat
    PROVE  /\ \A n \in DOMAIN allocated_nonces : n < NextNonce(nonce)
           /\ \A k \in Nat : k < NextNonce(nonce) =>
                 k < nonce \/ \E n \in DOMAIN allocated_nonces : k <= n
<1> DEFINE S == {nonce} \cup {n + 1 : n \in DOMAIN allocated_nonces}
<1>1. PICK bound \in Nat : \A n \in DOMAIN allocated_nonces : n <= bound
  BY DEF QueueInv, TableOK
<1>2. DOMAIN allocated_nonces \subseteq Nat
  BY DEF QueueInv, TableOK
<1>3. S \in SUBSET Nat /\ S # {} /\ bound + nonce + 1 \in Nat
  BY <1>2
<1>4. \A x \in S : x <= bound + nonce + 1
  BY <1>1, <1>2
<1>5. /\ \A x \in S : x = nonce \/ \E n \in DOMAIN allocated_nonces : x = n + 1
      /\ \A n \in DOMAIN allocated_nonces : n + 1 \in S
  OBVIOUS
<1> HIDE DEF S
<1>6. Max(S) \in S /\ \A x \in S : x <= Max(S)
  BY <1>3, <1>4, MaxIsMember
<1>7. NextNonce(nonce) = Max(S) /\ Max(S) \in Nat
  BY <1>3, <1>6 DEF NextNonce, S
<1>8. ASSUME NEW n \in DOMAIN allocated_nonces PROVE n < Max(S)
  <2>1. n \in Nat /\ n + 1 <= Max(S)
    BY <1>2, <1>5, <1>6
  <2> QED BY <1>7, <2>1
<1>9. ASSUME NEW k \in Nat, k < Max(S)
      PROVE  k < nonce \/ \E n \in DOMAIN allocated_nonces : k <= n
  <2>1. CASE Max(S) = nonce
    BY <1>9, <2>1
  <2>2. CASE \E n \in DOMAIN allocated_nonces : Max(S) = n + 1
    <3>1. PICK n \in DOMAIN allocated_nonces : Max(S) = n + 1
      BY <2>2
    <3>2. n \in Nat
      BY <1>2
    <3>3. k <= n
      BY <1>9, <3>1, <3>2
    <3> QED BY <3>3
  <2> QED BY <1>5, <1>6, <2>1, <2>2
<1> QED BY <1>7, <1>8, <1>9

\* next_transaction puts the row of an authorization right after that of its transaction.
LEMMA AllocatedPaired ==
    ASSUME NEW account \in AccountType, NEW nonce \in Nat, NEW table, TableOK(table), Paired(table),
           NEW bundle \in SUBSET RowType, \A n \in DOMAIN table : n < nonce
    PROVE  LET new == Allocated(table, account, nonce, bundle) IN
           /\ Paired(new)
           /\ \A n \in DOMAIN new : n \in DOMAIN table \/ n = nonce \/ n = nonce + 1
<1> DEFINE row(request, delegate) == [request |-> request, delegate |-> delegate,
                                      submitted_at |-> Null, executed_at |-> Null]
           ids == {t.id : t \in bundle}
           sent == row(ids, Null)
           authorization == row(Null, Wanted)
           rows == {nonce} \cup (IF account.code = Wanted THEN {} ELSE {nonce + 1})
           new == Allocated(table, account, nonce, bundle)
<1>1. /\ sent.request # Null /\ sent.executed_at = Null
      /\ authorization.delegate # Null /\ authorization.executed_at = Null
  <2>1. ids \in SUBSET Ids
    BY DEF RowType
  <2>2. sent.request = ids /\ authorization.delegate = Wanted
    OBVIOUS
  <2>3. ids # Null
    BY <2>1, NothingAssumption
  <2>4. Wanted # Null
    BY NothingAssumption DEF Wanted
  <2> QED BY <2>2, <2>3, <2>4
<1>2. nonce \in rows /\ rows \subseteq {nonce, nonce + 1}
  OBVIOUS
<1>3. new = [n \in DOMAIN table \cup rows |->
                IF n = nonce THEN sent ELSE IF n \in rows THEN authorization ELSE table[n]]
  BY DEF Allocated
<1> HIDE DEF sent, authorization, ids, rows, new
<1>4. DOMAIN table \subseteq Nat
  BY DEF TableOK
<1>5. /\ DOMAIN new = DOMAIN table \cup rows /\ new[nonce] = sent
      /\ \A n \in DOMAIN table : new[n] = table[n] /\ n # nonce /\ n # nonce + 1
  BY <1>2, <1>3, <1>4
<1>6. nonce + 1 \in rows => new[nonce + 1] = authorization
  BY <1>2, <1>3
<1>7. \A n \in DOMAIN new : n \in DOMAIN table \/ n = nonce \/ n = nonce + 1
  BY <1>2, <1>5
<1>8. Paired(new)
  <2> SUFFICES ASSUME NEW n \in DOMAIN new, new[n].request = Null
               PROVE  /\ new[n].delegate # Null
                      /\ n - 1 \in DOMAIN new /\ new[n - 1].request # Null
                      /\ new[n - 1].executed_at = new[n].executed_at
    BY DEF Paired
  <2>1. CASE n \in DOMAIN table
    <3>1. new[n] = table[n]
      BY <1>5, <2>1
    <3>2. /\ table[n].delegate # Null
          /\ n - 1 \in DOMAIN table /\ table[n - 1].request # Null
          /\ table[n - 1].executed_at = table[n].executed_at
      BY <2>1, <3>1 DEF Paired
    <3>3. new[n - 1] = table[n - 1] /\ n - 1 \in DOMAIN new
      BY <1>5, <3>2
    <3> QED BY <3>1, <3>2, <3>3
  <2>2. CASE n = nonce
    BY <1>1, <1>5, <2>2
  <2>3. CASE n = nonce + 1
    <3>1. n \in rows /\ new[n] = authorization /\ n - 1 = nonce /\ nonce \in DOMAIN new
      BY <1>2, <1>4, <1>5, <1>6, <2>3
    <3> QED BY <1>1, <1>5, <3>1
  <2> QED BY <1>7, <2>1, <2>2, <2>3
<1> QED BY <1>7, <1>8 DEF new

\* submit_pending: the new rows come right after what is accounted for.
LEMMA SubmitPendingGaps ==
    ASSUME QueueInv, GapInv, SubmitPending
    PROVE  GapInv'
<1>1. PICK account \in Account, bundle \in Bundles :
         /\ account_cache' = account
         /\ SubmitTransaction(
                Allocated(allocated_nonces, account, NextNonce(account.nonce), bundle),
                NextNonce(account.nonce))
  BY DEF SubmitPending
<1>2. pc = "submit" /\ UNCHANGED <<chain, highest>>
  BY DEF SubmitPending
<1>3. account \in AccountType /\ account.nonce \in Nat /\ Below(account.nonce)
  BY <1>2, AccountTyped, AccountGaps
<1>4. PICK nonce \in Nat : nonce = NextNonce(account.nonce)
  BY <1>3, NextNonceTyped
<1> DEFINE table == Allocated(allocated_nonces, account, nonce, bundle)
<1>5. SubmitTransaction(table, nonce)
  BY <1>1, <1>4
<1>6. bundle \in SUBSET RowType /\ TableOK(allocated_nonces) /\ Paired(allocated_nonces)
  BY DEF Bundles, Queued, QueueInv, RowsOK, GapInv
<1>7. /\ \A n \in DOMAIN allocated_nonces : n < nonce
      /\ \A k \in Nat : k < nonce =>
            k < account.nonce \/ \E n \in DOMAIN allocated_nonces : k <= n
  BY <1>3, <1>4, NextNonceAbove
<1>8. /\ TableOK(table) /\ nonce \in DOMAIN table
      /\ DOMAIN allocated_nonces \subseteq DOMAIN table
      /\ table[nonce].request = {t.id : t \in bundle}
  BY <1>3, <1>6, AllocatedRows
<1>9. /\ Paired(table)
      /\ \A n \in DOMAIN table : n \in DOMAIN allocated_nonces \/ n = nonce \/ n = nonce + 1
  BY <1>3, <1>6, <1>7, AllocatedPaired
<1>10. block_status.latest \in Nat
  BY <1>2 DEF QueueInv, CallOK, ChainOK
<1> HIDE DEF table
<1>11. table[nonce].request \in SUBSET Ids
  BY <1>6, <1>8 DEF RowType
<1>12. /\ DOMAIN allocated_nonces' = DOMAIN table
       /\ Paired(allocated_nonces') /\ mempool \subseteq mempool'
       /\ \A t \in mempool' :
             \/ t \in mempool
             \/ /\ t.nonce = nonce /\ t.ours
                /\ t.delegate # Null => nonce + 1 \in DOMAIN table
  BY <1>5, <1>8, <1>9, <1>10, <1>11, SubmitGaps
<1>13. ASSUME NEW k \in Nat, k < nonce PROVE Accounted(k)
  <2>1. CASE k < account.nonce
    BY <1>3, <2>1 DEF Below
  <2>2. CASE \E n \in DOMAIN allocated_nonces : k <= n
    <3>1. PICK n \in DOMAIN allocated_nonces : k <= n
      BY <2>2
    <3>2. n \in Nat /\ Below(n)
      BY <1>6 DEF TableOK, GapInv, GapsOK
    <3>3. CASE k = n BY <3>3 DEF Accounted
    <3>4. CASE k < n BY <3>2, <3>4 DEF Below
    <3> QED BY <3>1, <3>2, <3>3, <3>4
  <2> QED BY <1>7, <1>13, <2>1, <2>2
<1>14. \A n \in DOMAIN allocated_nonces' : \A k \in Nat :
          k < n => k \in DOMAIN allocated_nonces' \/ Accounted(k)
  <2> SUFFICES ASSUME NEW n \in DOMAIN table, NEW k \in Nat, k < n
               PROVE  k \in DOMAIN table \/ Accounted(k)
    BY <1>12
  <2>1. CASE n \in DOMAIN allocated_nonces
    BY <2>1 DEF GapInv, GapsOK, Below
  <2>2. CASE n = nonce
    BY <1>13, <2>2
  <2>3. CASE n = nonce + 1
    <3>1. k < nonce \/ k = nonce
      BY <2>3
    <3> QED BY <1>8, <1>13, <3>1
  <2> QED BY <1>9, <2>1, <2>2, <2>3
<1>15. account_cache' # Null => Below(account_cache'.nonce)
  BY <1>1, <1>3
<1>16. GapsOK'
  BY <1>2, <1>8, <1>12, <1>14, <1>15, SentGaps
<1>17. Paired(allocated_nonces)'
  BY <1>12 DEF Paired
<1> QED BY <1>16, <1>17 DEF GapInv

\* Each action leaves no nonce out, as long as no reorg is missed.
LEMMA GapStep ==
    ASSUME ~ OfflineReorgs, QueueInv, FinalInv, GapInv, [Next]_vars
    PROVE  GapInv'
<1>1. CASE Mine BY <1>1, MineGaps
<1>2. CASE Reorg BY <1>2, ReorgGaps
<1>3. CASE ExternalTransaction BY <1>3, ExternalGaps
<1>4. CASE MarkAccount BY <1>4, MarkAccountGaps
<1>5. CASE Resubmit BY <1>5, ResubmitGaps
<1>6. CASE SubmitPending BY <1>6, SubmitPendingGaps
<1>7. CASE NewBlock \/ UncleBlock \/ Boot
  <2>1. PICK status \in StatusType : UpdateBlockStatus(status)
    BY <1>7, WatcherKeeps
  <2>2. QueueInv' /\ FinalInv'
    BY <1>7, WatcherKeeps, NewBlockFinal, UncleBlockFinal, BootFinal
  <2>3. block_status' = status /\ pc' \in {"account", "idle"}
    BY <2>1, UpdateKeeps
  <2>4. block_status' = [latest |-> Len(seen') - 1, safe |-> safe']
    BY <2>2, <2>3 DEF QueueInv, CallOK
  <2>5. status.safe = safe'
    BY <2>3, <2>4
  <2>6. UNCHANGED <<chain, highest, mempool>>
    BY <1>7 DEF NewBlock, UncleBlock, Boot, nodeVars
  <2>7. status.safe = 0 \/ status.safe <= highest - ReorgDepth
    BY <2>2, <2>5, <2>6 DEF FinalInv, HeightsOK
  <2>8. \/ Canonical(Len(seen))
        \/ block_status # Null /\ block_status.safe = status.safe
    <3>1. CASE NewBlock
      BY <3>1 DEF NewBlock, LastIsCanonical, Canonical
    <3>2. CASE Boot
      BY <3>2 DEF Boot, FinalInv, BranchesOK
    <3>3. CASE UncleBlock
      <4>1. block_status = [latest |-> Len(seen) - 1, safe |-> safe] /\ safe' = safe
        BY <3>3 DEF UncleBlock, QueueInv, CallOK
      <4>2. block_status \in StatusType
        BY <4>1 DEF QueueInv, ChainOK, StatusType
      <4>3. block_status # Null
        BY <4>2, NullAssumption DEF StatusType
      <4> QED BY <2>5, <4>1, <4>3
    <3> QED BY <1>7, <3>1, <3>2, <3>3
  <2> QED BY <2>1, <2>6, <2>7, <2>8, UpdateGaps
<1>8. CASE \/ CallEnds \/ Crash \/ UNCHANGED vars
           \/ \E id \in Ids, expires_at \in Expiries : Queue(id, expires_at)
  <2>1. /\ UNCHANGED <<chain, highest, mempool, allocated_nonces>>
        /\ account_cache' \in {Null, account_cache}
    BY <1>8 DEF CallEnds, Crash, Queue, vars, nodeVars, tableVars, queueVars
  <2>2. AccountedKept
    BY <2>1 DEF AccountedKept, Accounted, Settled, Theirs
  <2>3. GapsOK'
    BY <2>1, <2>2, GapsKept
  <2> QED BY <2>1, <2>3 DEF GapInv, Paired
<1> QED BY <1>1, <1>2, <1>3, <1>4, <1>5, <1>6, <1>7, <1>8 DEF Next

\* At first the account has used no nonce.
LEMMA GapInit ==
    ASSUME Init
    PROVE  GapInv
<1> DEFINE genesis == [id |-> 0, nonce |-> 0, code |-> InitialCode, ran |-> {}]
<1>1. genesis.nonce = 0
  OBVIOUS
<1>2. chain = <<genesis>>
  BY DEF Init
<1> HIDE DEF genesis
<1>3. Len(chain) = 1 /\ chain[1] = genesis
  BY <1>2
<1>4. allocated_nonces = << >> /\ DOMAIN allocated_nonces = {}
  BY DEF Init
<1>5. Below(0)
  BY DEF Below
<1>6. \A i \in 1 .. Len(chain) : chain[i].nonce = 0
  BY <1>1, <1>3
<1>7. GapsOK
  BY <1>4, <1>5, <1>6 DEF Init, GapsOK
<1> QED BY <1>4, <1>7 DEF GapInv, Paired

\* Whatever nonce comes before one that is used or allocated is in the table, was used in a final
\* block or is that of a transaction of the account's owner.
THEOREM GapInvariant == ASSUME ~ OfflineReorgs PROVE Spec => []GapInv
<1>1. Init => GapInv
  BY GapInit
<1>2. QueueInv /\ FinalInv /\ GapInv /\ [Next]_vars => GapInv'
  BY GapStep
<1> QED BY <1>1, <1>2, QueueInvariant, FinalInvariant, PTL DEF Spec

\* Nobody in flight waits for a nonce that is not going to be used: the nonces that next_nonce leaves
\* out and prune forgets were used by others or are final, and recover_authorization_gap fills
\* those of authorizations whose transaction was replaced.
THEOREM NobodyStuck == ASSUME ~ OfflineReorgs PROVE Spec => []NothingStuck
<1>1. QueueInv /\ FinalInv /\ GapInv => NothingStuck
  <2> SUFFICES ASSUME QueueInv, FinalInv, GapInv, seen = Following,
                      NEW n \in InFlight(allocated_nonces), NEW k \in Block(Height).nonce .. n - 1
               PROVE  \/ k \in InFlight(allocated_nonces)
                      \/ k \in DOMAIN allocated_nonces /\ k - 1 \in InFlight(allocated_nonces)
                      \/ \E t \in mempool : ~ t.ours /\ t.nonce = k
    BY DEF NothingStuck
  <2> DEFINE top == Len(chain)
  <2>1. /\ top \in Nat /\ top > 0 /\ top \in 1 .. top /\ chain \in Seq(BlockType)
        /\ Block(Height) = chain[top]
    BY DEF QueueInv, ChainOK, Height, Block
  <2>2. \A i \in 1 .. top : chain[i].nonce \in Nat /\ chain[i].nonce <= chain[top].nonce
    BY <2>1, BlockFields DEF FinalInv, BlocksOK
  <2>3. n \in DOMAIN allocated_nonces /\ n \in Nat
    BY DEF InFlight, QueueInv, TableOK
  <2>4. k \in Nat /\ k < n /\ k >= chain[top].nonce
    BY <2>1, <2>2, <2>3
  <2>5. Accounted(k)
    BY <2>3, <2>4 DEF GapInv, GapsOK, Below
  <2>6. ~ Settled(k)
    BY <2>2, <2>4 DEF Settled
  <2>7. CASE Theirs(k)
    BY <2>7 DEF Theirs
  <2>8. CASE k \in DOMAIN allocated_nonces
    <3>1. allocated_nonces[k].executed_at = Null
      <4> SUFFICES ASSUME allocated_nonces[k].executed_at # Null PROVE FALSE
        OBVIOUS
      <4>1. PICK e \in Nat : e = allocated_nonces[k].executed_at
        BY <2>8, MarkerTyped
      <4>2. e < Len(seen) /\ (Canonical(e + 1) => k < chain[e + 1].nonce)
        BY <2>8, <4>1 DEF FinalInv, MarkersOK
      <4>3. Len(seen) = top /\ \A i \in 1 .. top : seen[i] = chain[i].id
        BY <2>1 DEF Following
      <4>4. e + 1 \in 1 .. top
        BY <2>1, <4>1, <4>2, <4>3
      <4>5. Canonical(e + 1)
        BY <4>3, <4>4 DEF Canonical
      <4> QED BY <2>2, <2>4, <4>2, <4>4, <4>5
    <3>2. CASE allocated_nonces[k].request # Null
      BY <2>8, <3>1, <3>2 DEF InFlight
    <3>3. CASE allocated_nonces[k].request = Null
      <4>1. /\ k - 1 \in DOMAIN allocated_nonces /\ allocated_nonces[k - 1].request # Null
            /\ allocated_nonces[k - 1].executed_at = Null
        BY <2>8, <3>1, <3>3 DEF GapInv, Paired
      <4> QED BY <2>8, <4>1 DEF InFlight
    <3> QED BY <3>2, <3>3
  <2> QED BY <2>5, <2>6, <2>7, <2>8 DEF Accounted
<1> QED BY <1>1, QueueInvariant, FinalInvariant, GapInvariant, PTL
=============================================================================
