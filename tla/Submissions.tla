---------------------------- MODULE Submissions ----------------------------
(***************************************************************************)
(* What a transaction of the queue costs: the fees of its submissions       *)
(* (crates/core/src/tx/fees.rs, types.rs) and the gas of a batch            *)
(* (bundle.rs). Fees are [max, priority]; a percentage has no fraction.     *)
(***************************************************************************)
EXTENDS Integers, Sequences, FiniteSetsExt, SequencesExt

CONSTANT MaxFee         \* u128::MAX

Saturated(fee) == Min({fee, MaxFee})
DivCeil(a, b) == (a + b - 1) \div b

-----------------------------------------------------------------------------
(* Fees                                                                     *)

\* The largest priority fee that is at most `percentage` of what it makes the
\* total; the base fee stays.
CapPriorityFee(fees, percentage) ==
    LET scaled == Max({percentage, 0})
        base   == Max({0, fees.max - fees.priority})
        capped == Min({fees.priority, Saturated(base * scaled) \div (100 - scaled)})
    IN  IF scaled >= 100 THEN fees ELSE [max |-> base + capped, priority |-> capped]

BumpFee(fresh, previous) == Max({fresh, Saturated(previous + DivCeil(previous, 10))})

Bump(fresh, previous) ==
    [max      |-> BumpFee(fresh.max, previous.max),
     priority |-> BumpFee(fresh.priority, previous.priority)]

\* The node: a transaction replaces the pending one of its nonce if each of its
\* fees is higher, by a tenth or more.
Replaces(fees, previous) ==
    \A f \in {"max", "priority"} : fees[f] > previous[f] /\ fees[f] * 10 >= previous[f] * 11

-----------------------------------------------------------------------------
(* Batches. A call is [len, gas, pays]: the length of its data, its gas      *)
(* limit, and whether it carries value.                                     *)

CalldataGasPerByte == 16
BatchGas           == 26000 + CalldataGasPerByte * (4 + 32 + 32)
CallOverheadGas    == 5000
CallValueGas       == 34000
AuthorizationGas   == 25000

CallCalldata(call) == CalldataGasPerByte * (32 + 4 * 32 + 32 + 32 * DivCeil(call.len, 32))

CallGas(call) ==
    CallCalldata(call) + call.gas + DivCeil(call.gas, 63) + CallOverheadGas
        + (IF call.pays THEN CallValueGas ELSE 0)

NewBundle == [calls |-> << >>, gas |-> BatchGas, full |-> FALSE]

\* The first call is always taken; the first that does not fit closes the bundle.
Push(bundle, call, max_batch_gas) ==
    LET total == bundle.gas + CallGas(call) IN
    IF bundle.full \/ (bundle.calls # << >> /\ total > max_batch_gas)
    THEN [bundle EXCEPT !.full = TRUE]
    ELSE [bundle EXCEPT !.calls = Append(@, call), !.gas = total]

Bundled(queued, max_batch_gas) ==
    FoldLeft(LAMBDA bundle, call : Push(bundle, call, max_batch_gas), NewBundle, queued)

\* Gas of the transaction: the authorization does not count towards the limit.
Finish(bundle, authorizes) == bundle.gas + (IF authorizes THEN AuthorizationGas ELSE 0)

\* Safenet7702Executor.execute: the gas left after the calls, each of which uses up
\* its limit, or -1 once one may not be given as much under the 63/64 rule.
Execute(calls, gas) ==
    LET Before(left, call) == left - CallOverheadGas - (IF call.pays THEN CallValueGas ELSE 0)
        Charged(left, call) == IF (Before(left, call) * 63) \div 64 >= call.gas
                              THEN Before(left, call) - call.gas ELSE -1
    IN  FoldLeft(Charged, gas, calls)

\* The gas that is left of a batch once the transaction, its authorization and its
\* calldata are paid.
PaidFor(bundle, authorizes) ==
    Finish(bundle, authorizes) - (IF authorizes THEN AuthorizationGas ELSE 0) - BatchGas
        - FoldLeft(LAMBDA sum, call : sum + CallCalldata(call), 0, bundle.calls)
=============================================================================
