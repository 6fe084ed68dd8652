---------------------------- MODULE SafeProposal ----------------------------
(***************************************************************************)
(* What the sentinel engine's checkers work on: a proposed Safe transaction,*)
(* flattened into the calls that it makes (engine/proposal.rs), and the     *)
(* aspects of those calls that checkers vouch for (engine/coverage.rs).     *)
(*                                                                          *)
(* Calldata is a record with the function `fn` it decodes to, and the       *)
(* arguments that a checker reads; what no checker decodes, malformed data  *)
(* included, is "other". Amounts saturate at MaxU256.                       *)
(***************************************************************************)
EXTENDS Integers, Sequences, SequencesExt

CONSTANTS
    Zero, Safe,             \* address(0), and the Safe of the transaction
    Deployments,            \* [address -> [v150, delegates]]: known MultiSends
    MaxBatchDepth,          \* MAX_BATCH_DEPTH
    MaxU256

ASSUME BatchDepthAssumption == MaxBatchDepth \in Nat
ASSUME AmountAssumption == MaxU256 \in Nat \ {0}

\* No call data; and a batch that is nested too deeply to be parsed.
NoData == [fn |-> "none"]
TooDeep == << [fn |-> "too deep"] >>

MetaTransaction(to, value, data, operation) ==
    [to |-> to, value |-> value, data |-> data, operation |-> operation]

AsMetaTransaction(tx) == MetaTransaction(tx.to, tx.value, tx.data, tx.operation)

-----------------------------------------------------------------------------
(* MultiSend batches                                                        *)

\* Faulty variant: the zero address is taken literally in every version.
DecodeMultiSendLiterally(calls, v150) == calls

\* decode_multi_send, of a well-formed payload: since v1.5.0 a call to the zero
\* address is one to the Safe itself.
DecodeMultiSend(calls, v150) ==
    [i \in DOMAIN calls |-> IF v150 /\ calls[i].to = Zero THEN [calls[i] EXCEPT !.to = Safe]
                            ELSE calls[i]]

\* known_deployment
KnownDeployment(address) == address \in DOMAIN Deployments

\* A delegatecall of multiSend on a known deployment, with a payload that decodes.
IsBatch(call) ==
    /\ call.operation = "DelegateCall"
    /\ KnownDeployment(call.to)
    /\ call.data.fn = "multiSend"

\* The calls of a batch in the order of execution. A delegatecall that the
\* deployment refuses stays as it is, for a checker to deny.
RECURSIVE Flatten(_, _)
Flatten(call, depth) ==
    IF ~ IsBatch(call) THEN << call >>
    ELSE IF depth = 0 THEN TooDeep
    ELSE LET deployment == Deployments[call.to]
             subs  == DecodeMultiSend(call.data.calls, deployment.v150)
             Part(sub) == IF sub.operation = "DelegateCall" /\ ~ deployment.delegates
                          THEN << sub >> ELSE Flatten(sub, depth - 1)
             parts == [i \in DOMAIN subs |-> Part(subs[i])]
         IN  IF TooDeep \in Range(parts) THEN TooDeep ELSE FlattenSeq(parts)

\* The calls of the proposal that the transaction is parsed into, or TooDeep.
Parse(tx) == Flatten(AsMetaTransaction(tx), MaxBatchDepth)

-----------------------------------------------------------------------------
(* Coverage                                                                 *)

AllAspects == {"TO", "VALUE", "DATA", "OPERATION"}

\* AspectSet::required_for
RequiredAspects(call) ==
    AllAspects \ ((IF call.value = 0 \/ call.operation = "DelegateCall" THEN {"VALUE"} ELSE {})
                  \cup (IF call.data = NoData THEN {"DATA"} ELSE {}))

\* Every claim covers the calls uniformly, or none of them.
Claim(calls, aspects) == [calls |-> [i \in DOMAIN calls |-> aspects], refund |-> FALSE]
RefundClaim(calls) == [calls |-> [i \in DOMAIN calls |-> {}], refund |-> TRUE]
NoClaim(calls) == Claim(calls, {})

Union(c, d) ==
    [calls |-> [i \in DOMAIN c.calls |-> c.calls[i] \cup d.calls[i]],
     refund |-> c.refund \/ d.refund]

Covers(c, required) ==
    /\ \A i \in DOMAIN c.calls : required.calls[i] \subseteq c.calls[i]
    /\ required.refund => c.refund

RequiredFor(tx, calls) ==
    [calls |-> [i \in DOMAIN calls |-> RequiredAspects(calls[i])],
     refund |-> tx.gas_price # 0]
=============================================================================
