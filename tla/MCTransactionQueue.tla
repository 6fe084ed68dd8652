------------------------- MODULE MCTransactionQueue -------------------------
(* A queue on a chain of a few blocks, and the fees and batches of small    *)
(* transactions.                                                            *)
EXTENDS TransactionQueue, Submissions

Fees(from, to) == {f \in [max : from .. to, priority : from .. to] : f.priority <= f.max}

\* A resubmission replaces the pending transaction whatever the new estimate is, from
\* one wei on, since ten percent are rounded up; a fee of zero is raised only by an
\* estimate above zero.
ASSUME ResubmissionReplaces ==
    \A fresh \in Fees(0, 14), previous \in Fees(0, 14) :
        Replaces(Bump(fresh, previous), previous)
            <=> \A f \in {"max", "priority"} : previous[f] > 0 \/ fresh[f] > 0

\* The cap keeps the base fee, and leaves the largest priority fee that respects it.
ASSUME CapIsExact ==
    \A fees \in Fees(0, 20), percentage \in {-5, 0, 1, 25, 33, 50, 99, 100, 120} :
        LET capped == CapPriorityFee(fees, percentage)
            fits(p) == p * 100 <= Max({0, percentage}) * (fees.max - fees.priority + p)
        IN  /\ capped.max - capped.priority = fees.max - fees.priority
            /\ capped.priority = Max({p \in 0 .. fees.priority : p = 0 \/ percentage >= 100 \/ fits(p)})

Calls == [len : {0, 33}, gas : {21000, 400000}, pays : BOOLEAN]

\* A batch is a non-empty prefix of the queue that keeps to the limit unless it is
\* one call, and the executor gets to its last call with the gas that it was given.
ASSUME BatchesExecute ==
    \A queued \in UNION {[1 .. n -> Calls] : n \in 1 .. 3}, limit \in {0, 100000, 500000, 2000000} :
        LET bundle == Bundled(queued, limit) IN
        /\ bundle.calls # << >> /\ IsPrefix(bundle.calls, queued)
        /\ Len(bundle.calls) > 1 => bundle.gas <= limit
        /\ \A authorizes \in BOOLEAN : Execute(bundle.calls, PaidFor(bundle, authorizes)) >= 0
=============================================================================
