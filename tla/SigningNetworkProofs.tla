------------------------ MODULE SigningNetworkProofs ------------------------
(***************************************************************************)
(* For any group, any messages and any number of blocks and ceremonies: the *)
(* indices of honest validators are exact, only approved transactions are   *)
(* attested, and honest validators agree on the rollovers they sign.        *)
(***************************************************************************)
EXTENDS SigningNetwork, SigningProofs, FiniteSetTheorems, WellFoundedInduction

ViewsOK ==
    /\ view = [v \in Honest |-> view[v]]
    /\ \A v \in Honest : /\ StateOK(view[v], {Group}, Participants, approved)
                         /\ Linked(view[v], message_of)

EffectOK(x) ==
    \E v \in Honest, sid \in CeremonyIds :
        \/ x = [from |-> v, c |-> [kind |-> "GenerateNonces", group |-> Group, sid |-> sid]]
        \/ \E m \in Messages : x = [from |-> v, c |-> UseNonces(m, sid)]

\* A share that an honest validator has sent is for the message of its ceremony, of
\* members of the group, and approved if it needs to be.
ShareOK(m, sid, root, M, A) ==
    /\ m \in Messages /\ sid \in CeremonyIds
    /\ M[sid] = m /\ DOMAIN root \subseteq Participants
    /\ m \in Transactions => m \in A

TransactionOK(x, M, A) ==
    /\ x = [from |-> x.from, c |-> x.c] /\ x.from \in Honest
    /\ \/ \E m \in Messages : x.c = Sign(Group, m)
       \/ \E sid \in CeremonyIds : x.c = CommitNonces(sid, Nonces)
       \/ x.c.kind = "SignShare" /\ x.c = SignShare(x.c.message, x.c.sid, x.c.root)
          /\ ShareOK(x.c.message, x.c.sid, x.c.root, M, A)
       \/ \E m \in Messages, sid \in CeremonyIds : x.c = Attest(m, sid)

QueuesOK ==
    /\ \A x \in effects : EffectOK(x)
    /\ \A x \in pool : TransactionOK(x, message_of, approved)

MessagesOK ==
    /\ message_of = [sid \in CeremonyIds |-> message_of[sid]]
    /\ \A sid \in CeremonyIds : message_of[sid] \in Messages \cup {NoMessage}

Approved(sid) == message_of[sid] \in Transactions => message_of[sid] \in approved

\* Nobody honest has shared in a ceremony without approval, so none is complete.
SharesOK ==
    /\ shares = [sid \in CeremonyIds |-> shares[sid]]
    /\ signed \subseteq CeremonyIds
    /\ \A sid \in CeremonyIds :
          /\ message_of[sid] = NoMessage => DOMAIN shares[sid] = {} /\ sid \notin signed
          /\ \A root \in DOMAIN shares[sid] : shares[sid][root] \cap Honest # {} => Approved(sid)
          /\ sid \in signed => Approved(sid)

AttestationsOK ==
    /\ attestations = [m \in Messages |-> attestations[m]]
    /\ AttestedOnlyApproved

NetworkInv == ViewsOK /\ QueuesOK /\ MessagesOK /\ SharesOK /\ AttestationsOK

-----------------------------------------------------------------------------
(* Parts of a step                                                          *)

\* The next id is one that is not taken.
LEMMA NextIdFree ==
    ASSUME HasNextId
    PROVE  NextId \in CeremonyIds /\ message_of[NextId] = NoMessage
<1> DEFINE T == {sid \in CeremonyIds : message_of[sid] = NoMessage}
           R == {ss \in Nat \X Nat : ss[1] < ss[2]}
<1>1. T \subseteq Nat /\ T # {}
  BY IdsAssumption DEF HasNextId
<1>2. PICK x \in T : \A y \in T : ~ (<<y, x>> \in R)
  <2>1. IsWellFoundedOn(R, Nat)
    BY NatLessThanWellFounded DEF OpToRel
  <2> HIDE DEF T, R
  <2> QED BY <1>1, <2>1, WFMin
<1>3. \A j \in CeremonyIds : j < x => message_of[j] # NoMessage
  BY <1>1, <1>2, IdsAssumption
<1> QED BY <1>2, <1>3 DEF NextId

\* The next ceremony is given to a message, the others are left alone.
LEMMA AllocateMessage ==
    ASSUME MessagesOK, NEW m \in Messages, AllocateId(m)
    PROVE  /\ MessagesOK'
           /\ NextId \in CeremonyIds /\ message_of[NextId] = NoMessage
           /\ message_of'[NextId] = m
           /\ \A i \in CeremonyIds : i # NextId => message_of'[i] = message_of[i]
<1>1. NextId \in CeremonyIds /\ message_of[NextId] = NoMessage
  BY NextIdFree DEF AllocateId
<1>2. message_of' = [message_of EXCEPT ![NextId] = m]
  BY DEF AllocateId
<1> QED BY <1>1, <1>2 DEF MessagesOK

\* Ceremonies keep their messages, and approvals are not withdrawn.
ChainGrows ==
    /\ approved \subseteq approved'
    /\ \A sid \in CeremonyIds : message_of[sid] # NoMessage => message_of'[sid] = message_of[sid]

\* A transaction that was in order stays so.
LEMMA TransactionStaysOK ==
    ASSUME ChainGrows, NEW x, TransactionOK(x, message_of, approved)
    PROVE  TransactionOK(x, message_of', approved')
<1>1. \A m, sid, root : ShareOK(m, sid, root, message_of, approved) =>
                            ShareOK(m, sid, root, message_of', approved')
  BY MarkersAssumption DEF ShareOK, ChainGrows
<1> QED BY <1>1 DEF TransactionOK

\* What the handlers command are effects and transactions in order.
LEMMA IssuedOK ==
    ASSUME NEW v \in Honest, NEW c, CommandOK(c, {Group}), NEW M, NEW A
    PROVE  /\ IsEffect(c) => EffectOK([from |-> v, c |-> c])
           /\ ~ IsEffect(c) => TransactionOK([from |-> v, c |-> c], M, A)
<1>1. CASE \E sid \in CeremonyIds : c = [kind |-> "GenerateNonces", group |-> Group, sid |-> sid]
  BY <1>1 DEF IsEffect, EffectOK
<1>2. CASE \E m \in Messages, sid \in CeremonyIds : c = UseNonces(m, sid)
  BY <1>2 DEF IsEffect, EffectOK, UseNonces
<1>3. CASE \E m \in Messages : c = Sign(Group, m)
  BY <1>3 DEF IsEffect, TransactionOK, Sign
<1>4. CASE \E m \in Messages, sid \in CeremonyIds : c = Attest(m, sid)
  BY <1>4 DEF IsEffect, TransactionOK, Attest
<1> QED BY <1>1, <1>2, <1>3, <1>4 DEF CommandOK

\* Feeding events to the validators keeps views and queues in order, if the
\* handlers do.
LEMMA IncludedOK ==
    ASSUME QueuesOK, ChainGrows, NEW x, NEW results, Included(x, results),
           \A v \in Honest : /\ ResultOK(results[v], {Group}, Participants, approved')
                             /\ Linked(results[v].state, message_of')
    PROVE  ViewsOK' /\ QueuesOK'
<1> DEFINE issued == UNION {{[from |-> v, c |-> c] : c \in results[v].commands} : v \in Honest}
<1>1. /\ view' = [v \in Honest |-> results[v].state]
      /\ effects' = effects \cup {y \in issued : IsEffect(y.c)}
      /\ pool' = (pool \ {x}) \cup {y \in issued : ~ IsEffect(y.c)}
  BY DEF Included
<1>2. ViewsOK'
  BY <1>1 DEF ViewsOK, ResultOK
<1>3. ASSUME NEW y \in issued
      PROVE  (IsEffect(y.c) => EffectOK(y))
             /\ (~ IsEffect(y.c) => TransactionOK(y, message_of', approved'))
  <2>1. PICK v \in Honest : \E c \in results[v].commands : y = [from |-> v, c |-> c]
    OBVIOUS
  <2>2. PICK c \in results[v].commands : y = [from |-> v, c |-> c]
    BY <2>1
  <2>3. CommandOK(c, {Group})
    BY DEF ResultOK
  <2>4. y.c = c
    BY <2>2
  <2> QED BY <2>2, <2>3, <2>4, IssuedOK
<1> HIDE DEF issued
<1>4. \A y \in effects' : EffectOK(y)
  BY <1>1, <1>3 DEF QueuesOK
<1>5. \A y \in pool' : TransactionOK(y, message_of', approved')
  BY <1>1, <1>3, TransactionStaysOK DEF QueuesOK
<1> QED BY <1>2, <1>4, <1>5 DEF QueuesOK

\* Shares stay in order while none are added.
LEMMA SharesStayOK ==
    ASSUME MessagesOK, ChainGrows, SharesOK, UNCHANGED <<shares, signed>>,
           \A sid \in CeremonyIds : message_of'[sid] = NoMessage => message_of[sid] = NoMessage
    PROVE  SharesOK'
<1>1. \A sid \in CeremonyIds : message_of[sid] # NoMessage /\ Approved(sid) => Approved(sid)'
  BY DEF Approved, ChainGrows
<1> QED BY <1>1 DEF SharesOK

-----------------------------------------------------------------------------
(* Every action keeps the invariant                                         *)

\* Calls of sign, by anyone.
LEMMA SignStep ==
    ASSUME NetworkInv, NEW m \in Messages, NEW x, AllocateId(m),
           Included(x, [v \in Honest |-> HandleSign(view[v], block, m, Group, NextId)]),
           UNCHANGED <<shares, signed, attestations, approved>>
    PROVE  NetworkInv'
<1> DEFINE results == [v \in Honest |-> HandleSign(view[v], block, m, Group, NextId)]
<1>1. /\ MessagesOK'
      /\ NextId \in CeremonyIds /\ message_of[NextId] = NoMessage
      /\ message_of'[NextId] = m
      /\ \A i \in CeremonyIds : i # NextId => message_of'[i] = message_of[i]
  BY AllocateMessage DEF NetworkInv
<1>2. ChainGrows
  BY <1>1 DEF ChainGrows
<1>3. ASSUME NEW v \in Honest
      PROVE  /\ ResultOK(results[v], {Group}, Participants, approved')
             /\ Linked(results[v].state, message_of')
  <2>1. StateOK(view[v], {Group}, Participants, approved) /\ Linked(view[v], message_of)
    BY DEF NetworkInv, ViewsOK
  <2>2. ResultOK(HandleSign(view[v], block, m, Group, NextId), {Group}, Participants, approved)
    BY <1>1, <2>1, SignOK
  <2>3. Linked(HandleSign(view[v], block, m, Group, NextId).state, message_of')
    BY <1>1, <2>1, SignLinked
  <2> QED BY <2>2, <2>3
<1> HIDE DEF results
<1>4. ViewsOK' /\ QueuesOK'
  BY <1>2, <1>3, IncludedOK DEF NetworkInv, results
<1>5. SharesOK'
  BY <1>1, <1>2, SharesStayOK, MarkersAssumption DEF NetworkInv
<1>6. AttestationsOK'
  BY DEF NetworkInv, AttestationsOK, AttestedOnlyApproved
<1> QED BY <1>1, <1>4, <1>5, <1>6 DEF NetworkInv

\* A proposal, with its ceremony.
LEMMA ProposeTransactionStep ==
    ASSUME NetworkInv, NEW m \in Messages, ProposeTransaction(m)
    PROVE  NetworkInv'
<1> DEFINE opened(v) == HandleTransactionProposed(view[v], block, m, Group, Participants)
           R(v) == HandleSign(opened(v).state, block, m, Group, NextId)
           results == [v \in Honest |-> R(v)]
<1>1. /\ MessagesOK'
      /\ NextId \in CeremonyIds /\ message_of[NextId] = NoMessage
      /\ message_of'[NextId] = m
      /\ \A i \in CeremonyIds : i # NextId => message_of'[i] = message_of[i]
  BY AllocateMessage DEF NetworkInv, ProposeTransaction
<1>2. ChainGrows /\ UNCHANGED <<shares, signed, attestations, approved>>
  BY <1>1 DEF ChainGrows, ProposeTransaction
<1>3. ASSUME NEW v \in Honest
      PROVE  /\ ResultOK(results[v], {Group}, Participants, approved')
             /\ Linked(results[v].state, message_of')
  <2>1. StateOK(view[v], {Group}, Participants, approved) /\ Linked(view[v], message_of)
    BY DEF NetworkInv, ViewsOK
  <2>2. StateOK(opened(v).state, {Group}, Participants, approved)
    BY <2>1, TransactionProposedOK DEF ResultOK
  <2>3. Linked(opened(v).state, message_of)
    BY <2>1, TransactionProposedLinked DEF StateOK
  <2> HIDE DEF opened
  <2>4. ResultOK(R(v), {Group}, Participants, approved)
    BY <1>1, <2>2, SignOK
  <2>5. Linked(R(v).state, message_of')
    BY <1>1, <2>2, <2>3, SignLinked
  <2> QED BY <1>2, <2>4, <2>5
<1>4. Included(Nobody, results)
  BY DEF ProposeTransaction, Dispatch
<1> HIDE DEF results
<1>5. ViewsOK' /\ QueuesOK'
  BY <1>2, <1>3, <1>4, IncludedOK DEF NetworkInv
<1>6. SharesOK'
  BY <1>1, <1>2, SharesStayOK, MarkersAssumption DEF NetworkInv
<1>7. AttestationsOK'
  BY <1>2 DEF NetworkInv, AttestationsOK, AttestedOnlyApproved
<1> QED BY <1>1, <1>5, <1>6, <1>7 DEF NetworkInv

\* A rollover, with or without its ceremony.
LEMMA ProposeEpochStep ==
    ASSUME NetworkInv, NEW m \in Messages, NEW p, NEW callback \in BOOLEAN,
           ProposeEpoch(m, p, callback)
    PROVE  NetworkInv'
<1> DEFINE w == Request(Group, FALSE, p, Participants, block + SigningTimeout)
           registered(v) == SetSession(view[v], m, w)
           R(v) == IF callback THEN HandleSign(registered(v), block, m, Group, NextId)
                   ELSE Ignored(registered(v))
           results == [v \in Honest |-> R(v)]
<1>1. /\ MessagesOK'
      /\ callback => /\ NextId \in CeremonyIds /\ message_of[NextId] = NoMessage
                     /\ message_of'[NextId] = m
                     /\ \A i \in CeremonyIds : i # NextId => message_of'[i] = message_of[i]
      /\ ~ callback => message_of' = message_of
  <2>1. CASE callback
    BY <2>1, AllocateMessage DEF NetworkInv, ProposeEpoch
  <2>2. CASE ~ callback
    BY <2>2 DEF NetworkInv, ProposeEpoch, MessagesOK
  <2> QED BY <2>1, <2>2
<1>2. /\ ChainGrows /\ UNCHANGED <<shares, signed, attestations, approved>>
      /\ \A i \in CeremonyIds : message_of'[i] = NoMessage => message_of[i] = NoMessage
  BY <1>1, MarkersAssumption DEF ChainGrows, ProposeEpoch
<1>3. ASSUME NEW v \in Honest
      PROVE  /\ ResultOK(results[v], {Group}, Participants, approved')
             /\ Linked(results[v].state, message_of')
  <2>1. StateOK(view[v], {Group}, Participants, approved) /\ Linked(view[v], message_of)
    BY DEF NetworkInv, ViewsOK
  <2>2. view[v].signing[m] = NoSession /\ m \notin Transactions
    BY DEF ProposeEpoch
  <2>3. Session(w, {Group}, Participants) /\ w.sid = NoId
    BY DEF Request, Session, SessionShape, Stages
  <2>4. \A i \in CeremonyIds : HasSid(w, i) <=> HasSid(view[v].signing[m], i)
    BY <2>2, <2>3, MarkersAssumption DEF HasSid
  <2> HIDE DEF w
  <2>5. StateOK(registered(v), {Group}, Participants, approved)
    BY <2>1, <2>2, <2>3, SetSessionOK
  <2>6. Linked(registered(v), message_of)
    BY <2>1, <2>4, SetSessionLinked DEF StateOK
  <2> HIDE DEF registered
  <2>7. CASE callback
    <3>1. ResultOK(HandleSign(registered(v), block, m, Group, NextId), {Group}, Participants,
                   approved)
      BY <1>1, <2>5, <2>7, SignOK
    <3>2. Linked(HandleSign(registered(v), block, m, Group, NextId).state, message_of')
      BY <1>1, <2>5, <2>6, <2>7, SignLinked
    <3> QED BY <1>2, <2>7, <3>1, <3>2
  <2>8. CASE ~ callback
    BY <1>1, <1>2, <2>5, <2>6, <2>8, IgnoredOK DEF Ignored, Result
  <2> QED BY <2>7, <2>8
<1>4. Included(Nobody, results)
  BY DEF ProposeEpoch, Dispatch
<1> HIDE DEF results
<1>5. ViewsOK' /\ QueuesOK'
  BY <1>2, <1>3, <1>4, IncludedOK DEF NetworkInv
<1>6. SharesOK'
  BY <1>2, SharesStayOK DEF NetworkInv
<1>7. AttestationsOK'
  BY <1>2 DEF NetworkInv, AttestationsOK, AttestedOnlyApproved
<1> QED BY <1>1, <1>5, <1>6, <1>7 DEF NetworkInv

\* An approval or a rejection.
LEMMA OracleResultStep ==
    ASSUME NetworkInv, NEW m \in Messages, NEW ok \in BOOLEAN, OracleResult(m, ok)
    PROVE  NetworkInv'
<1> DEFINE results == [v \in Honest |-> HandleOracleResult(view[v], block, m, ok)]
<1>1. /\ approved \subseteq approved' /\ (ok => m \in approved')
      /\ UNCHANGED <<message_of, shares, signed, attestations>>
  BY DEF OracleResult
<1>2. ChainGrows
  BY <1>1 DEF ChainGrows
<1>3. ASSUME NEW v \in Honest
      PROVE  /\ ResultOK(results[v], {Group}, Participants, approved')
             /\ Linked(results[v].state, message_of')
  <2>1. StateOK(view[v], {Group}, Participants, approved) /\ Linked(view[v], message_of)
    BY DEF NetworkInv, ViewsOK
  <2>2. StateOK(view[v], {Group}, Participants, approved')
    BY <1>1, <2>1, ApprovalsGrow
  <2>3. ResultOK(HandleOracleResult(view[v], block, m, ok), {Group}, Participants, approved')
    BY <1>1, <2>2, OracleResultOK
  <2>4. Linked(HandleOracleResult(view[v], block, m, ok).state, message_of)
    BY <2>1, OracleResultLinked
  <2> QED BY <1>1, <2>3, <2>4
<1>4. Included(Nobody, results)
  BY DEF OracleResult, Dispatch
<1> HIDE DEF results
<1>5. ViewsOK' /\ QueuesOK'
  BY <1>2, <1>3, <1>4, IncludedOK DEF NetworkInv
<1>6. MessagesOK' /\ SharesOK'
  BY <1>1, <1>2, SharesStayOK DEF NetworkInv, MessagesOK
<1>7. AttestationsOK'
  BY <1>1 DEF NetworkInv, AttestationsOK, AttestedOnlyApproved
<1> QED BY <1>5, <1>6, <1>7 DEF NetworkInv

\* Events that change neither the messages nor the approvals.
LEMMA EventStep ==
    ASSUME NetworkInv, NEW x, NEW results, Included(x, results),
           UNCHANGED <<message_of, approved>>,
           \A v \in Honest : /\ ResultOK(results[v], {Group}, Participants, approved)
                             /\ Linked(results[v].state, message_of)
    PROVE  ViewsOK' /\ QueuesOK' /\ MessagesOK'
<1>1. ChainGrows
  BY DEF ChainGrows
<1>2. MessagesOK'
  BY DEF NetworkInv, MessagesOK
<1> QED BY <1>1, <1>2, IncludedOK DEF NetworkInv

\* Commitments of any member.
LEMMA CommitNoncesStep ==
    ASSUME NetworkInv, NEW x, NEW sid \in CeremonyIds, NEW p \in Participants,
           CallCommitNonces(x, sid, p)
    PROVE  NetworkInv'
<1> DEFINE results == [v \in Honest |-> HandleSignCommittedNonces(view[v], block, sid, p, Nonces)]
<1>1. Included(x, results) /\ UNCHANGED <<message_of, shares, signed, attestations, approved>>
  BY DEF CallCommitNonces, chainVars
<1>2. ASSUME NEW v \in Honest
      PROVE  /\ ResultOK(results[v], {Group}, Participants, approved)
             /\ Linked(results[v].state, message_of)
  BY SignCommittedNoncesOK, SignCommittedNoncesLinked DEF NetworkInv, ViewsOK
<1> HIDE DEF results
<1>3. ViewsOK' /\ QueuesOK' /\ MessagesOK'
  BY <1>1, <1>2, EventStep
<1>4. SharesOK' /\ AttestationsOK'
  BY <1>1 DEF NetworkInv, SharesOK, Approved, AttestationsOK, AttestedOnlyApproved
<1> QED BY <1>3, <1>4 DEF NetworkInv

\* A new block.
LEMMA NextBlockStep ==
    ASSUME NetworkInv, NextBlock
    PROVE  NetworkInv'
<1> DEFINE results == [v \in Honest |-> HandleSigningTimeouts(view[v], v, block + 1)]
<1>1. Included(Nobody, results) /\ UNCHANGED <<message_of, shares, signed, attestations, approved>>
  BY DEF NextBlock, Dispatch
<1>2. ASSUME NEW v \in Honest
      PROVE  /\ ResultOK(results[v], {Group}, Participants, approved)
             /\ Linked(results[v].state, message_of)
  BY SigningTimeoutsOK, SigningTimeoutsLinked DEF NetworkInv, ViewsOK
<1> HIDE DEF results
<1>3. ViewsOK' /\ QueuesOK' /\ MessagesOK'
  BY <1>1, <1>2, EventStep
<1>4. SharesOK' /\ AttestationsOK'
  BY <1>1 DEF NetworkInv, SharesOK, Approved, AttestationsOK, AttestedOnlyApproved
<1> QED BY <1>3, <1>4 DEF NetworkInv

\* Enough signers include somebody honest.
LEMMA SomebodyHonest ==
    ASSUME NEW S \in SUBSET Participants, Cardinality(S) >= Threshold
    PROVE  S \cap Honest # {}
<1> SUFFICES ASSUME S \cap Honest = {} PROVE FALSE
  OBVIOUS
<1>1. S \subseteq Participants \ Honest
  OBVIOUS
<1>2. IsFiniteSet(Participants \ Honest)
  BY HonestAssumption, FS_Subset
<1>3. /\ Cardinality(S) <= Cardinality(Participants \ Honest)
      /\ Cardinality(S) \in Nat /\ Cardinality(Participants \ Honest) \in Nat
  BY <1>1, <1>2, FS_Subset, FS_CardinalityType
<1> QED BY <1>3, FaultyAssumption, ThresholdAssumption

\* A share, which may complete the signature and attest it: p is honest only if
\* the share is in order.
LEMMA SignShareStep ==
    ASSUME NetworkInv, NEW x, NEW sid \in CeremonyIds, NEW root, NEW p, NEW callback \in BOOLEAN,
           DOMAIN root \subseteq Participants,
           p \in Honest => Approved(sid),
           CallSignShare(x, sid, root, p, callback)
    PROVE  NetworkInv'
<1> DEFINE m == message_of[sid]
           done == Completes(sid, root, p)
           attests == done /\ callback
           Shared(v) == HandleSignShared(view[v], sid, root, p).state
           Done(v) == IF done THEN HandleSignCompleted(Shared(v), block, sid).state ELSE Shared(v)
           R(v) == IF attests THEN HandleSignAttested(Done(v), sid, m) ELSE Ignored(Done(v))
           results == [v \in Honest |-> R(v)]
           all == SharesOf(sid, root) \cup {p}
<1>1. /\ Included(x, results) /\ UNCHANGED <<message_of, approved>>
      /\ shares' = [shares EXCEPT ![sid] = Put(@, root, all)]
      /\ signed' = IF done THEN signed \cup {sid} ELSE signed
      /\ attestations' = IF attests THEN [attestations EXCEPT ![m] = sid] ELSE attestations
  BY DEF CallSignShare
<1>2. m \in Messages /\ m # NoMessage
  BY DEF CallSignShare, Accepted, NetworkInv, MessagesOK
<1>3. ASSUME NEW v \in Honest
      PROVE  /\ ResultOK(results[v], {Group}, Participants, approved)
             /\ Linked(results[v].state, message_of)
  <2>1. StateOK(view[v], {Group}, Participants, approved) /\ Linked(view[v], message_of)
    BY DEF NetworkInv, ViewsOK
  <2>2. StateOK(Shared(v), {Group}, Participants, approved) /\ Linked(Shared(v), message_of)
    BY <2>1, SignSharedOK, SignSharedLinked DEF ResultOK
  <2> HIDE DEF Shared
  <2>3. StateOK(Done(v), {Group}, Participants, approved) /\ Linked(Done(v), message_of)
    BY <2>2, SignCompletedOK, SignCompletedLinked DEF ResultOK
  <2> HIDE DEF Done, m
  <2>4. /\ ResultOK(HandleSignAttested(Done(v), sid, m), {Group}, Participants, approved)
        /\ Linked(HandleSignAttested(Done(v), sid, m).state, message_of)
    BY <1>2, <2>3, SignAttestedOK, SignAttestedLinked
  <2>5. ResultOK(Ignored(Done(v)), {Group}, Participants, approved)
        /\ Linked(Ignored(Done(v)).state, message_of)
    BY <2>3, IgnoredOK DEF Ignored, Result
  <2> QED BY <2>4, <2>5
<1> HIDE DEF results
<1>4. ViewsOK' /\ QueuesOK' /\ MessagesOK'
  BY <1>1, <1>3, EventStep
<1>5. all \cap Honest # {} => Approved(sid)
  BY DEF SharesOf, NetworkInv, SharesOK
<1>6. done => Approved(sid)
  <2>1. done => Cardinality(DOMAIN root) >= Threshold /\ all = DOMAIN root
    BY DEF CallSignShare, Accepted, Completes
  <2> QED BY <1>5, <2>1, SomebodyHonest
<1>7. SharesOK'
  <2>1. \A i \in CeremonyIds : Approved(i)' <=> Approved(i)
    BY <1>1 DEF Approved
  <2>2. /\ shares'[sid] = Put(shares[sid], root, all)
        /\ \A i \in CeremonyIds : i # sid => shares'[i] = shares[i]
        /\ shares' = [i \in CeremonyIds |-> shares'[i]]
    BY <1>1 DEF NetworkInv, SharesOK
  <2>3. \A q \in DOMAIN shares'[sid] : shares'[sid][q] \cap Honest # {} => Approved(sid)
    <3> HIDE DEF all
    <3> QED BY <1>5, <2>2 DEF NetworkInv, SharesOK, Put
  <2>4. signed' \subseteq CeremonyIds /\ \A i \in signed' : Approved(i)
    BY <1>1, <1>6 DEF NetworkInv, SharesOK
  <2>5. \A i \in CeremonyIds : message_of[i] = NoMessage => i # sid
    BY <1>2
  <2>6. \A i \in signed' : i = sid \/ i \in signed
    BY <1>1
  <2> QED BY <1>1, <2>1, <2>2, <2>3, <2>4, <2>5, <2>6 DEF NetworkInv, SharesOK
<1>8. AttestationsOK'
  BY <1>1, <1>2, <1>6 DEF NetworkInv, AttestationsOK, AttestedOnlyApproved, Approved
<1> QED BY <1>4, <1>7, <1>8 DEF NetworkInv

\* An attestation of a complete signature, by anyone.
LEMMA AttestStep ==
    ASSUME NetworkInv, NEW x, NEW sid \in CeremonyIds, NEW m \in Messages, CallAttest(x, sid, m)
    PROVE  NetworkInv'
<1> DEFINE results == [v \in Honest |-> HandleSignAttested(view[v], sid, m)]
<1>1. /\ Included(x, results) /\ UNCHANGED <<message_of, shares, signed, approved>>
      /\ attestations' = [attestations EXCEPT ![m] = sid]
      /\ sid \in signed /\ message_of[sid] = m
  BY DEF CallAttest
<1>2. ASSUME NEW v \in Honest
      PROVE  /\ ResultOK(results[v], {Group}, Participants, approved)
             /\ Linked(results[v].state, message_of)
  BY SignAttestedOK, SignAttestedLinked DEF NetworkInv, ViewsOK
<1> HIDE DEF results
<1>3. ViewsOK' /\ QueuesOK' /\ MessagesOK'
  BY <1>1, <1>2, EventStep
<1>4. SharesOK'
  BY <1>1 DEF NetworkInv, SharesOK, Approved
<1>5. AttestationsOK'
  BY <1>1 DEF NetworkInv, AttestationsOK, AttestedOnlyApproved, SharesOK, Approved
<1> QED BY <1>3, <1>4, <1>5 DEF NetworkInv

\* What a resume commands: the commitment of the effect's ceremony, or a share in
\* order.
LEMMA ResumeOK ==
    ASSUME NetworkInv, NEW v \in Honest, NEW sid \in CeremonyIds
    PROVE  /\ \A c \in HandleNonceCommitments(view[v], sid, Nonces).commands :
                 TransactionOK([from |-> v, c |-> c], message_of, approved)
           /\ \A m \in Messages : \A c \in HandleNonces(view[v], v, m, Nonces).commands :
                 TransactionOK([from |-> v, c |-> c], message_of, approved)
<1>1. \A c \in HandleNonceCommitments(view[v], sid, Nonces).commands : c = CommitNonces(sid, Nonces)
  BY DEF HandleNonceCommitments, Result, Ignored
<1>2. ASSUME NEW m \in Messages, NEW c \in HandleNonces(view[v], v, m, Nonces).commands
      PROVE  TransactionOK([from |-> v, c |-> c], message_of, approved)
  <2> DEFINE w == view[v].signing[m]
  <2>1. InStage(view[v], m, "CollectSigningShares") /\ c = SignShare(m, w.sid, w.committed)
    BY DEF HandleNonces, Result, Ignored
  <2>2. StateOK(view[v], {Group}, Participants, approved) /\ Linked(view[v], message_of)
    BY DEF NetworkInv, ViewsOK
  <2>3. Session(w, {Group}, Participants) /\ w.stage = "CollectSigningShares"
    BY <2>1, <2>2, StageSession
  <2>4. w.sid \in CeremonyIds /\ DOMAIN w.committed \subseteq Participants /\ w # NoSession
    BY <2>3, SessionExists DEF Session
  <2>5. m \in Transactions => m \in approved
    BY <2>2, <2>3 DEF StateOK, Cleared
  <2>6. message_of[w.sid] = m
    BY <2>2, <2>4, MarkersAssumption DEF Linked, IndexExact
  <2>7. ShareOK(m, w.sid, w.committed, message_of, approved)
    BY <2>4, <2>5, <2>6 DEF ShareOK
  <2> HIDE DEF w
  <2> QED BY <2>1, <2>7 DEF TransactionOK, SignShare
<1> QED BY <1>1, <1>2 DEF TransactionOK

\* A completed effect adds what its resume commands.
LEMMA EffectDoneStep ==
    ASSUME NetworkInv, EffectDone
    PROVE  NetworkInv'
<1>1. PICK x \in effects :
         /\ effects' = effects \ {x}
         /\ LET s == view[x.from]
                r == IF x.c.kind = "GenerateNonces"
                     THEN HandleNonceCommitments(s, x.c.sid, Nonces)
                     ELSE HandleNonces(s, x.from, x.c.message, Nonces)
            IN  pool' = pool \cup {[from |-> x.from, c |-> c] : c \in r.commands}
         /\ UNCHANGED <<chainVars, view, outside, approved, in_time>>
  BY DEF EffectDone
<1>2. PICK v \in Honest, sid \in CeremonyIds :
         \/ x = [from |-> v, c |-> [kind |-> "GenerateNonces", group |-> Group, sid |-> sid]]
         \/ \E m \in Messages : x = [from |-> v, c |-> UseNonces(m, sid)]
  BY DEF NetworkInv, QueuesOK, EffectOK
<1>3. \A y \in pool' : TransactionOK(y, message_of, approved)
  <2>1. CASE x = [from |-> v, c |-> [kind |-> "GenerateNonces", group |-> Group, sid |-> sid]]
    <3>1. pool' = pool \cup {[from |-> v, c |-> c] :
                             c \in HandleNonceCommitments(view[v], sid, Nonces).commands}
      BY <1>1, <2>1
    <3> QED BY <3>1, ResumeOK DEF NetworkInv, QueuesOK
  <2>2. CASE \E m \in Messages : x = [from |-> v, c |-> UseNonces(m, sid)]
    <3>1. PICK m \in Messages : x = [from |-> v, c |-> UseNonces(m, sid)]
      BY <2>2
    <3>2. pool' = pool \cup {[from |-> v, c |-> c] :
                             c \in HandleNonces(view[v], v, m, Nonces).commands}
      BY <1>1, <3>1 DEF UseNonces
    <3> QED BY <3>2, ResumeOK DEF NetworkInv, QueuesOK
  <2> QED BY <1>2, <2>1, <2>2
<1>4. UNCHANGED <<message_of, shares, signed, attestations, view, approved>>
  BY <1>1 DEF chainVars
<1>5. QueuesOK'
  BY <1>1, <1>3, <1>4 DEF NetworkInv, QueuesOK
<1> QED BY <1>4, <1>5 DEF NetworkInv, ViewsOK, MessagesOK, SharesOK, Approved, AttestationsOK,
                          AttestedOnlyApproved

\* Nothing that the invariant speaks of changes, but for a transaction that is gone.
LEMMA QuietStep ==
    ASSUME NetworkInv, pool' \subseteq pool, effects' = effects,
           UNCHANGED <<message_of, shares, signed, attestations, view, approved>>
    PROVE  NetworkInv'
  BY DEF NetworkInv, ViewsOK, QueuesOK, MessagesOK, SharesOK, Approved, AttestationsOK,
         AttestedOnlyApproved

\* A transaction of an honest validator is included.
LEMMA IncludeStep ==
    ASSUME NetworkInv, Include
    PROVE  NetworkInv'
<1>1. PICK x \in pool : Submit(x)
  BY DEF Include
<1> DEFINE v == x.from
           c == x.c
<1>2. /\ v \in Honest
      /\ \/ \E m \in Messages : c = Sign(Group, m)
         \/ \E sid \in CeremonyIds : c = CommitNonces(sid, Nonces)
         \/ c.kind = "SignShare" /\ ShareOK(c.message, c.sid, c.root, message_of, approved)
         \/ \E m \in Messages, sid \in CeremonyIds : c = Attest(m, sid)
  BY DEF NetworkInv, QueuesOK, TransactionOK
<1>3. CASE \E m \in Messages : c = Sign(Group, m)
  <2>1. PICK m \in Messages : c = Sign(Group, m)
    BY <1>3
  <2>2. CallSign(x, m)
    BY <1>1, <2>1 DEF Submit, Sign
  <2> QED BY <2>2, SignStep DEF CallSign
<1>4. CASE \E sid \in CeremonyIds : c = CommitNonces(sid, Nonces)
  <2>1. PICK sid \in CeremonyIds : c = CommitNonces(sid, Nonces)
    BY <1>4
  <2>2. CallCommitNonces(x, sid, v)
    BY <1>1, <2>1 DEF Submit, CommitNonces
  <2> QED BY <1>2, <2>2, CommitNoncesStep, HonestAssumption
<1>5. CASE c.kind = "SignShare" /\ ShareOK(c.message, c.sid, c.root, message_of, approved)
  <2>1. CallSignShare(x, c.sid, c.root, v, TRUE)
    BY <1>1, <1>5 DEF Submit
  <2>2. c.sid \in CeremonyIds /\ DOMAIN c.root \subseteq Participants /\ Approved(c.sid)
    BY <1>5 DEF ShareOK, Approved
  <2> QED BY <2>1, <2>2, SignShareStep
<1>6. CASE \E m \in Messages, sid \in CeremonyIds : c = Attest(m, sid)
  <2>1. PICK m \in Messages, sid \in CeremonyIds : c = Attest(m, sid)
    BY <1>6
  <2>2. CallAttest(x, sid, m)
    BY <1>1, <2>1 DEF Submit, Attest
  <2> QED BY <2>2, AttestStep
<1> QED BY <1>2, <1>3, <1>4, <1>5, <1>6

\* A share of a member that does not run the validator.
LEMMA FaultySharesStep ==
    ASSUME NetworkInv, FaultyShares
    PROVE  NetworkInv'
<1>1. PICK p \in Participants \ Honest, sid \in CeremonyIds, signers \in SUBSET Participants,
           callback \in BOOLEAN : CallSignShare(Nobody, sid, Root(signers), p, callback)
  BY DEF FaultyShares
<1>2. DOMAIN Root(signers) \subseteq Participants
  BY DEF Root
<1> HIDE DEF Root
<1> QED BY <1>1, <1>2, SignShareStep

\* The invariant is inductive.
LEMMA NetworkStep == NetworkInv /\ [Next]_vars => NetworkInv'
<1> SUFFICES ASSUME NetworkInv, [Next]_vars PROVE NetworkInv'
  OBVIOUS
<1>1. CASE Proposal
  BY <1>1, ProposeTransactionStep, ProposeEpochStep DEF Proposal
<1>2. CASE Outcome
  BY <1>2, OracleResultStep DEF Outcome
<1>3. CASE EffectDone
  BY <1>3, EffectDoneStep
<1>4. CASE Include
  BY <1>4, IncludeStep
<1>5. CASE Revert
  <2>1. pool' \subseteq pool /\ UNCHANGED <<chainVars, view, effects, approved>>
    BY <1>5 DEF Revert
  <2> QED BY <2>1, QuietStep DEF chainVars
<1>6. CASE NextBlock
  BY <1>6, NextBlockStep
<1>7. CASE \E m \in Messages : OutsideSign(m)
  BY <1>7, SignStep DEF OutsideSign, Dispatch
<1>8. CASE FaultyCommits
  BY <1>8, CommitNoncesStep DEF FaultyCommits
<1>9. CASE FaultyShares
  BY <1>9, FaultySharesStep
<1>10. CASE AnyoneAttests
  BY <1>10, AttestStep DEF AnyoneAttests
<1>11. CASE UNCHANGED vars
  BY <1>11, QuietStep DEF vars, chainVars
<1> QED BY <1>1, <1>2, <1>3, <1>4, <1>5, <1>6, <1>7, <1>8, <1>9, <1>10, <1>11 DEF Next

\* It holds at the start.
LEMMA NetworkInit == Init => NetworkInv
<1> SUFFICES ASSUME Init PROVE NetworkInv
  OBVIOUS
<1>1. ViewsOK
  <2>1. IndexExact(NoSessions)
    BY MarkersAssumption DEF IndexExact, NoSessions
  <2>2. Linked(NoSessions, message_of)
    BY <2>1 DEF Linked, NoSessions
  <2>3. \A v \in Honest : view[v] = NoSessions
    BY DEF Init
  <2> QED BY <2>2, <2>3, NoSessionsOK DEF Init, ViewsOK
<1>2. MessagesOK /\ QueuesOK /\ SharesOK
  BY DEF Init, MessagesOK, QueuesOK, SharesOK
<1>3. AttestationsOK
  BY TransactionsAssumption DEF Init, AttestationsOK, AttestedOnlyApproved
<1> QED BY <1>1, <1>2, <1>3 DEF NetworkInv

-----------------------------------------------------------------------------
(* Theorems                                                                 *)

\* The invariant of the network.
THEOREM NetworkInvariant == Spec => []NetworkInv
  BY NetworkInit, NetworkStep, PTL DEF Spec

\* In every group and however the members behave, signature_id_to_message of an
\* honest validator holds exactly the ids of its running ceremonies.
THEOREM IndicesExact == Spec => []IndexExactEverywhere
<1>1. NetworkInv => IndexExactEverywhere
  BY DEF NetworkInv, ViewsOK, Linked, IndexExactEverywhere
<1> QED BY <1>1, NetworkInvariant, PTL

\* With fewer faulty members than the threshold, no transaction is attested that
\* the oracle has not approved, whatever the faulty members and the timing do.
THEOREM OnlyApprovedAttested == Spec => []AttestedOnlyApproved
<1>1. NetworkInv => AttestedOnlyApproved
  BY DEF NetworkInv, AttestationsOK
<1> QED BY <1>1, NetworkInvariant, PTL

-----------------------------------------------------------------------------
(* Rollovers: honest validators agree on them                               *)

Rollovers == Messages \ Transactions

\* Validators that have a ceremony for a rollover have the same one.
Agree(s, t, m) ==
    s.signing[m] = NoSession \/ t.signing[m] = NoSession \/ s.signing[m] = t.signing[m]

\* Nobody honest has shared, or is about to share, in the ceremony.
Quiet(sid) ==
    /\ sid \notin signed
    /\ \A root \in DOMAIN shares[sid] : shares[sid][root] \cap Honest = {}
    /\ \A x \in pool : x.c.kind = "SignShare" => x.c.sid # sid

\* All the shares of honest validators in the ceremony are for one selection.
OneSelection(sid, root) ==
    /\ sid \notin signed
    /\ \A q \in DOMAIN shares[sid] : shares[sid][q] \cap Honest # {} => q = root
    /\ \A x \in pool : x.c.kind = "SignShare" /\ x.c.sid = sid => x.c.root = root

\* A ceremony that collects shares has seen no more of them than the coordinator has,
\* and those of honest validators are for its own selection. Before that there are none.
CeremonyOK(w) ==
    /\ w.stage # "WaitingForOracle"
    /\ w.stage = "CollectNonceCommitments" => Quiet(w.sid)
    /\ w.stage = "CollectSigningShares" =>
          /\ OneSelection(w.sid, w.committed)
          /\ DOMAIN w.committed = w.signers
          /\ \A r \in DOMAIN w.selections : w.selections[r].shares_from \subseteq SharesOf(w.sid, r)

\* A selection that everybody has shared in is complete.
SelectionsOK ==
    \A sid \in CeremonyIds : \A root \in DOMAIN shares[sid] :
        /\ DOMAIN root \subseteq Participants
        /\ shares[sid][root] \subseteq DOMAIN root
        /\ shares[sid][root] = DOMAIN root => sid \in signed

RolloverInv ==
    /\ \A u, v \in Honest, m \in Rollovers : Agree(view[u], view[v], m)
    /\ \A v \in Honest, m \in Rollovers : CeremonyOK(view[v].signing[m])
    /\ SelectionsOK

-----------------------------------------------------------------------------
(* Steps on rollovers                                                       *)

\* Somebody is left out.
Less(t, w) == t.signers \subseteq w.signers /\ t.signers # w.signers

\* What RestartsShrink says of a step.
Shrinks ==
    \A v \in Honest, m \in Messages \ Transactions :
       InStage(view[v], m, "CollectSigningShares") /\ InStage(view'[v], m, "WaitingForRequest") =>
           view'[v].signing[m].signers \subseteq view[v].signing[m].signers
           /\ view'[v].signing[m].signers # view[v].signing[m].signers

\* How a session may go on while nobody shares: into a stage that promises nothing,
\* not at all, with more commitments, to the collection of shares, or into a new
\* ceremony.
Follows(w, t) ==
    \/ t.stage \in {"None", "WaitingForAttestation"}
    \/ t.stage = "WaitingForRequest" /\ (w.stage = "CollectSigningShares" => Less(t, w))
    \/ t = w
    \/ w.stage = "CollectNonceCommitments" /\ t.stage = w.stage /\ t.sid = w.sid
    \/ /\ w.stage = "CollectNonceCommitments" /\ t.stage = "CollectSigningShares" /\ t.sid = w.sid
       /\ DOMAIN t.committed = t.signers /\ t.selections = << >>
    \/ t.stage = "CollectNonceCommitments" /\ Quiet(t.sid)

\* A step in which nobody honest sends a share.
NoShares ==
    /\ UNCHANGED <<shares, signed>>
    /\ \A x \in pool' : x \in pool \/ x.c.kind # "SignShare"

\* Such a step keeps what is known of the ceremonies.
LEMMA CeremonyFollows ==
    ASSUME NoShares, NEW w, NEW t, CeremonyOK(w), Follows(w, t)
    PROVE  CeremonyOK(t)'
<1>1. \A sid : Quiet(sid) => Quiet(sid)' /\ \A root : OneSelection(sid, root)'
  BY DEF NoShares, Quiet, OneSelection
<1>2. \A sid, root : OneSelection(sid, root) => OneSelection(sid, root)'
  BY DEF NoShares, OneSelection
<1>3. \A sid, root : SharesOf(sid, root)' = SharesOf(sid, root)
  BY DEF NoShares, SharesOf
<1>4. CASE t.stage \in {"None", "WaitingForRequest", "WaitingForAttestation"}
  BY <1>4 DEF CeremonyOK
<1>5. CASE t = w
  BY <1>1, <1>2, <1>3, <1>5 DEF CeremonyOK
<1>6. CASE w.stage = "CollectNonceCommitments" /\ t.stage = w.stage /\ t.sid = w.sid
  BY <1>1, <1>6 DEF CeremonyOK
<1>7. CASE /\ w.stage = "CollectNonceCommitments" /\ t.stage = "CollectSigningShares"
           /\ t.sid = w.sid /\ DOMAIN t.committed = t.signers /\ t.selections = << >>
  <2>1. OneSelection(t.sid, t.committed)'
    BY <1>1, <1>7 DEF CeremonyOK
  <2>2. DOMAIN t.selections = {}
    BY <1>7
  <2> QED BY <1>7, <2>1, <2>2 DEF CeremonyOK
<1>8. CASE t.stage = "CollectNonceCommitments" /\ Quiet(t.sid)
  BY <1>1, <1>8 DEF CeremonyOK
<1> QED BY <1>4, <1>5, <1>6, <1>7, <1>8 DEF Follows

\* The handlers command no shares; only handle_nonces does.
LEMMA NothingShared ==
    ASSUME NEW x, NEW results, Included(x, results), UNCHANGED <<shares, signed>>, NEW A,
           \A v \in Honest : ResultOK(results[v], {Group}, Participants, A)
    PROVE  NoShares
<1>1. \A c : CommandOK(c, {Group}) => c.kind # "SignShare"
  BY DEF CommandOK, UseNonces, Sign, Attest
<1>2. \A v \in Honest : \A c \in results[v].commands : c.kind # "SignShare"
  BY <1>1 DEF ResultOK
<1> DEFINE issued == UNION {{[from |-> v, c |-> c] : c \in results[v].commands} : v \in Honest}
<1>3. \A y \in issued : y.c.kind # "SignShare"
  BY <1>2
<1>4. pool' = (pool \ {x}) \cup {y \in issued : ~ IsEffect(y.c)}
  BY DEF Included
<1> HIDE DEF issued
<1> QED BY <1>3, <1>4 DEF NoShares

\* Feeding events, if nobody shares.
LEMMA RolloverEvent ==
    ASSUME RolloverInv, NEW x, NEW results, Included(x, results), UNCHANGED <<shares, signed>>,
           NEW A, \A v \in Honest : ResultOK(results[v], {Group}, Participants, A),
           \A u, v \in Honest, m \in Rollovers : Agree(results[u].state, results[v].state, m),
           \A v \in Honest, m \in Rollovers :
               Follows(view[v].signing[m], results[v].state.signing[m])
    PROVE  RolloverInv' /\ Shrinks
<1>1. NoShares
  BY NothingShared
<1>2. \A v \in Honest : view'[v] = results[v].state
  BY DEF Included
<1>3. \A v \in Honest, m \in Rollovers : CeremonyOK(view[v].signing[m])
  BY DEF RolloverInv
<1>4. \A v \in Honest, m \in Rollovers : CeremonyOK(results[v].state.signing[m])'
  <2> SUFFICES ASSUME NEW v \in Honest, NEW m \in Rollovers
               PROVE  CeremonyOK(results[v].state.signing[m])'
    OBVIOUS
  <2> QED BY <1>1, <1>3, CeremonyFollows
<1>5. SelectionsOK'
  BY DEF RolloverInv, SelectionsOK
<1>6. \A w, t : Follows(w, t) /\ w.stage = "CollectSigningShares" /\ t.stage = "WaitingForRequest"
                    => Less(t, w)
  BY DEF Follows
<1>7. Shrinks
  BY <1>2, <1>6 DEF Shrinks, InStage, Less, Rollovers
<1> QED BY <1>2, <1>4, <1>5, <1>7 DEF RolloverInv, Agree

\* A transaction with a share is the share of a ceremony in order.
LEMMA ShareInOrder ==
    ASSUME NEW x, NEW M, NEW A, TransactionOK(x, M, A), x.c.kind = "SignShare"
    PROVE  x.from \in Honest /\ ShareOK(x.c.message, x.c.sid, x.c.root, M, A)
<1>1. \A m, sid : Sign(Group, m).kind # "SignShare" /\ Attest(m, sid).kind # "SignShare"
                  /\ CommitNonces(sid, Nonces).kind # "SignShare"
  BY DEF Sign, Attest, CommitNonces
<1> QED BY <1>1 DEF TransactionOK

\* A ceremony that has not been asked for yet is quiet.
LEMMA FreshQuiet ==
    ASSUME NetworkInv, NEW sid \in CeremonyIds, message_of[sid] = NoMessage
    PROVE  Quiet(sid)
<1>1. sid \notin signed /\ DOMAIN shares[sid] = {}
  BY DEF NetworkInv, SharesOK
<1>2. \A x \in pool : x.c.kind = "SignShare" => x.c.sid # sid
  <2> SUFFICES ASSUME NEW x \in pool, x.c.kind = "SignShare", x.c.sid = sid PROVE FALSE
    OBVIOUS
  <2>1. TransactionOK(x, message_of, approved)
    BY DEF NetworkInv, QueuesOK
  <2>2. ShareOK(x.c.message, x.c.sid, x.c.root, message_of, approved)
    BY <2>1, ShareInOrder
  <2> QED BY <2>2, MarkersAssumption DEF ShareOK
<1> QED BY <1>1, <1>2 DEF Quiet

\* handle_sign starts a new ceremony for the rollover, or leaves it alone.
LEMMA SignFollows ==
    ASSUME NEW w, NEW b, NEW m \in Messages, NEW n \in Rollovers, NEW sid, Quiet(sid)
    PROVE  Follows(w, AfterSign(w, b, m, n, Group, sid))
<1> DEFINE t == AfterSign(w, b, m, n, Group, sid)
<1>1. t = w \/ t = Running("CollectNonceCommitments", w, sid, w.signers, << >>, b + SigningTimeout)
  BY DEF AfterSign, Rollovers
<1>2. LET r == Running("CollectNonceCommitments", w, sid, w.signers, << >>, b + SigningTimeout)
      IN  r.stage = "CollectNonceCommitments" /\ r.sid = sid
  BY DEF Running
<1> HIDE DEF t
<1>3. t = w \/ (t.stage = "CollectNonceCommitments" /\ t.sid = sid)
  BY <1>1, <1>2
<1> QED BY <1>3 DEF Follows, t

\* A call of sign starts the same ceremony for every validator that waits for it.
LEMMA SignRollover ==
    ASSUME NetworkInv, RolloverInv, NEW m \in Messages, NEW x, AllocateId(m),
           Included(x, [v \in Honest |-> HandleSign(view[v], block, m, Group, NextId)]),
           UNCHANGED <<shares, signed>>
    PROVE  RolloverInv' /\ Shrinks
<1> DEFINE results == [v \in Honest |-> HandleSign(view[v], block, m, Group, NextId)]
<1>1. NextId \in CeremonyIds /\ Quiet(NextId)
  BY AllocateMessage, FreshQuiet DEF NetworkInv
<1>2. \A v \in Honest : StateOK(view[v], {Group}, Participants, approved)
  BY DEF NetworkInv, ViewsOK
<1>3. \A v \in Honest : ResultOK(results[v], {Group}, Participants, approved)
  BY <1>1, <1>2, SignOK
<1>4. \A v \in Honest, n \in Rollovers :
         results[v].state.signing[n] = AfterSign(view[v].signing[n], block, m, n, Group, NextId)
  BY <1>1, <1>2, SignSession DEF StateOK, Rollovers
<1>5. \A n : AfterSign(NoSession, block, m, n, Group, NextId) = NoSession
  BY DEF AfterSign
<1>6. \A u, v \in Honest, n \in Rollovers : Agree(view[u], view[v], n)
  BY DEF RolloverInv
<1> HIDE DEF results
<1>7. \A u, v \in Honest, n \in Rollovers : Agree(results[u].state, results[v].state, n)
  BY <1>4, <1>5, <1>6 DEF Agree
<1>8. \A v \in Honest, n \in Rollovers :
         Follows(view[v].signing[n], results[v].state.signing[n])
  BY <1>1, <1>4, SignFollows
<1> QED BY <1>3, <1>7, <1>8, RolloverEvent DEF results

\* A transaction's proposal leaves rollovers alone.
LEMMA ProposeTransactionRollover ==
    ASSUME NetworkInv, RolloverInv, NEW m \in Messages, ProposeTransaction(m)
    PROVE  RolloverInv' /\ Shrinks
<1> DEFINE opened(v) == HandleTransactionProposed(view[v], block, m, Group, Participants)
           R(v) == HandleSign(opened(v).state, block, m, Group, NextId)
           results == [v \in Honest |-> R(v)]
<1>1. NextId \in CeremonyIds /\ m \in Transactions
  BY AllocateMessage DEF NetworkInv, ProposeTransaction
<1>2. ASSUME NEW v \in Honest
      PROVE  /\ ResultOK(results[v], {Group}, Participants, approved)
             /\ \A n \in Rollovers : results[v].state.signing[n] = view[v].signing[n]
  <2>1. StateOK(view[v], {Group}, Participants, approved)
    BY DEF NetworkInv, ViewsOK
  <2>2. StateOK(opened(v).state, {Group}, Participants, approved)
    BY <2>1, TransactionProposedOK DEF ResultOK
  <2>3. \A n \in Rollovers : opened(v).state.signing[n] = view[v].signing[n]
    BY <1>1, <2>1, ProposedSession DEF Rollovers, StateOK
  <2> HIDE DEF opened
  <2>4. ResultOK(R(v), {Group}, Participants, approved)
    BY <1>1, <2>2, SignOK
  <2>5. \A n \in Rollovers : R(v).state.signing[n]
                                = AfterSign(opened(v).state.signing[n], block, m, n, Group, NextId)
    BY <1>1, <2>2, SignSession DEF StateOK, Rollovers
  <2>6. \A n \in Rollovers : AfterSign(opened(v).state.signing[n], block, m, n, Group, NextId)
                                = opened(v).state.signing[n]
    BY <1>1 DEF AfterSign, Rollovers
  <2> QED BY <2>3, <2>4, <2>5, <2>6
<1>3. Included(Nobody, results) /\ UNCHANGED <<shares, signed>>
  BY DEF ProposeTransaction, Dispatch
<1> HIDE DEF results
<1>4. \A u, v \in Honest, n \in Rollovers : Agree(results[u].state, results[v].state, n)
  BY <1>2 DEF Agree, RolloverInv
<1>5. \A v \in Honest, n \in Rollovers :
         Follows(view[v].signing[n], results[v].state.signing[n])
  BY <1>2 DEF Follows
<1> QED BY <1>2, <1>3, <1>4, <1>5, RolloverEvent

\* A rollover is opened for everybody, who had none, at once.
LEMMA ProposeEpochRollover ==
    ASSUME NetworkInv, RolloverInv, NEW m \in Messages, NEW p, NEW callback \in BOOLEAN,
           ProposeEpoch(m, p, callback)
    PROVE  RolloverInv' /\ Shrinks
<1> DEFINE w == Request(Group, FALSE, p, Participants, block + SigningTimeout)
           registered(v) == SetSession(view[v], m, w)
           R(v) == IF callback THEN HandleSign(registered(v), block, m, Group, NextId)
                   ELSE Ignored(registered(v))
           results == [v \in Honest |-> R(v)]
           next == IF callback THEN AfterSign(w, block, m, m, Group, NextId) ELSE w
<1>1. callback => NextId \in CeremonyIds /\ Quiet(NextId)
  BY AllocateMessage, FreshQuiet DEF NetworkInv, ProposeEpoch
<1>2. Session(w, {Group}, Participants) /\ w.stage = "WaitingForRequest"
  BY DEF Request, Session, SessionShape, Stages
<1>3. m \in Rollovers /\ m \notin Transactions
  BY DEF ProposeEpoch, Rollovers
<1>4. \A v \in Honest : Follows(view[v].signing[m], next)
  <2>1. \A v \in Honest : view[v].signing[m].stage = "None"
    BY DEF ProposeEpoch, NoSession
  <2>2. callback => Follows(w, AfterSign(w, block, m, m, Group, NextId))
    <3> HIDE DEF w
    <3> QED BY <1>1, <1>3, SignFollows
  <2> HIDE DEF w
  <2> QED BY <1>2, <2>1, <2>2 DEF Follows
<1> HIDE DEF w
<1>5. ASSUME NEW v \in Honest
      PROVE  /\ ResultOK(results[v], {Group}, Participants, approved)
             /\ results[v].state.signing[m] = next
             /\ \A n \in Rollovers : n # m => results[v].state.signing[n] = view[v].signing[n]
  <2>1. StateOK(view[v], {Group}, Participants, approved)
    BY DEF NetworkInv, ViewsOK
  <2>2. StateOK(registered(v), {Group}, Participants, approved)
    BY <1>2, <1>3, <2>1, SetSessionOK
  <2>3. registered(v).signing[m] = w
        /\ \A n \in Rollovers : n # m => registered(v).signing[n] = view[v].signing[n]
    BY <2>1, SetSessionState DEF Rollovers, StateOK
  <2> HIDE DEF registered
  <2>4. CASE callback
    <3>1. ResultOK(HandleSign(registered(v), block, m, Group, NextId), {Group}, Participants,
                   approved)
      BY <1>1, <2>2, <2>4, SignOK
    <3>2. \A n \in Rollovers :
             HandleSign(registered(v), block, m, Group, NextId).state.signing[n]
                 = AfterSign(registered(v).signing[n], block, m, n, Group, NextId)
      BY <1>1, <2>2, <2>4, SignSession DEF StateOK, Rollovers
    <3>3. \A n \in Rollovers : n # m =>
             AfterSign(registered(v).signing[n], block, m, n, Group, NextId)
                 = registered(v).signing[n]
      BY DEF AfterSign
    <3> QED BY <1>3, <2>3, <2>4, <3>1, <3>2, <3>3
  <2>5. CASE ~ callback
    BY <2>2, <2>3, <2>5, IgnoredOK DEF Ignored, Result
  <2> QED BY <2>4, <2>5
<1>6. Included(Nobody, results) /\ UNCHANGED <<shares, signed>>
  BY DEF ProposeEpoch, Dispatch, w
<1> HIDE DEF results, next
<1>7. \A u, v \in Honest, n \in Rollovers : Agree(results[u].state, results[v].state, n)
  BY <1>5 DEF Agree, RolloverInv
<1>8. \A v \in Honest, n \in Rollovers :
         Follows(view[v].signing[n], results[v].state.signing[n])
  BY <1>4, <1>5 DEF Follows
<1> QED BY <1>5, <1>6, <1>7, <1>8, RolloverEvent

\* No rollover waits for the oracle.
LEMMA OracleResultRollover ==
    ASSUME NetworkInv, RolloverInv, NEW m \in Messages, NEW ok \in BOOLEAN, OracleResult(m, ok)
    PROVE  RolloverInv' /\ Shrinks
<1> DEFINE results == [v \in Honest |-> HandleOracleResult(view[v], block, m, ok)]
<1>1. ASSUME NEW v \in Honest
      PROVE  /\ ResultOK(results[v], {Group}, Participants, approved')
             /\ \A n \in Rollovers : results[v].state.signing[n] = view[v].signing[n]
  <2>1. StateOK(view[v], {Group}, Participants, approved')
    BY ApprovalsGrow DEF NetworkInv, ViewsOK, OracleResult
  <2>2. ok => m \in approved'
    BY DEF OracleResult
  <2>3. ResultOK(HandleOracleResult(view[v], block, m, ok), {Group}, Participants, approved')
    BY <2>1, <2>2, OracleResultOK
  <2>4. ASSUME NEW n \in Rollovers
        PROVE  HandleOracleResult(view[v], block, m, ok).state.signing[n] = view[v].signing[n]
    <3> DEFINE s == view[v]
               w == s.signing[m]
               next == Running("CollectNonceCommitments", w, w.sid, w.signers, << >>,
                               block + SigningTimeout)
    <3>1. CASE ~ InStage(s, m, "WaitingForOracle")
      BY <3>1 DEF HandleOracleResult, Ignored, Result
    <3>2. CASE InStage(s, m, "WaitingForOracle")
      <4>1. n # m
        BY <3>2 DEF RolloverInv, CeremonyOK, InStage
      <4>2. HandleOracleResult(s, block, m, ok).state =
                IF ok THEN SetSession(s, m, next)
                ELSE Unlink(SetSession(s, m, NoSession), w.sid)
        BY <3>2 DEF HandleOracleResult, Ignored, Result
      <4>3. w.sid \in CeremonyIds
        BY <2>1, <3>2, StageSession DEF Session
      <4> HIDE DEF next, w, s
      <4>4. StateShape(s)
        BY <2>1 DEF StateOK, s
      <4>5. /\ SetSession(s, m, next).signing[n] = s.signing[n]
            /\ StateShape(SetSession(s, m, NoSession))
            /\ SetSession(s, m, NoSession).signing[n] = s.signing[n]
        BY <4>1, <4>4, SetSessionState DEF Rollovers
      <4>6. Unlink(SetSession(s, m, NoSession), w.sid).signing[n] = s.signing[n]
        BY <4>3, <4>5, UnlinkState
      <4> QED BY <4>2, <4>5, <4>6 DEF s
    <3> QED BY <3>1, <3>2
  <2> QED BY <2>3, <2>4
<1>2. Included(Nobody, results) /\ UNCHANGED <<shares, signed>>
  BY DEF OracleResult, Dispatch
<1> HIDE DEF results
<1>3. \A u, v \in Honest, n \in Rollovers : Agree(results[u].state, results[v].state, n)
  BY <1>1 DEF Agree, RolloverInv
<1>4. \A v \in Honest, n \in Rollovers :
         Follows(view[v].signing[n], results[v].state.signing[n])
  BY <1>1 DEF Follows
<1> QED BY <1>1, <1>2, <1>3, <1>4, RolloverEvent

\* What a rollover's session may be, and the index that leads to it.
LEMMA ViewFacts ==
    ASSUME NetworkInv, RolloverInv, NEW v \in Honest
    PROVE  /\ StateOK(view[v], {Group}, Participants, approved)
           /\ StateShape(view[v]) /\ IndexExact(view[v]) /\ Linked(view[v], message_of)
           /\ \A n \in Rollovers : /\ n \in Messages
                                   /\ \/ view[v].signing[n] = NoSession
                                      \/ Session(view[v].signing[n], {Group}, Participants)
  BY DEF NetworkInv, ViewsOK, StateOK, Linked, Rollovers

\* A commitment is one more, or the last one.
LEMMA CommitmentFollows ==
    ASSUME NEW w, w = NoSession \/ Session(w, {Group}, Participants), NEW b, NEW sid, NEW p,
           NEW nonces
    PROVE  Follows(w, AfterCommitment(w, b, sid, p, nonces))
<1> DEFINE committed == FirstCommitment(w, p, nonces)
           t == AfterCommitment(w, b, sid, p, nonces)
           more == [w EXCEPT !.committed = committed]
           next == Running("CollectSigningShares", w, w.sid, w.signers, committed,
                           b + SigningTimeout)
<1>1. CASE ~ (HasSid(w, sid) /\ w.stage = "CollectNonceCommitments")
  BY <1>1 DEF AfterCommitment, Follows
<1>2. CASE HasSid(w, sid) /\ w.stage = "CollectNonceCommitments"
  <2>1. t = IF DOMAIN committed # w.signers THEN more ELSE next
    BY <1>2 DEF AfterCommitment
  <2> HIDE DEF committed
  <2>2. Session(w, {Group}, Participants)
    BY <1>2 DEF HasSid
  <2>3. more.stage = w.stage /\ more.sid = w.sid
    BY <2>2 DEF Session, SessionShape
  <2>4. /\ next.stage = "CollectSigningShares" /\ next.sid = w.sid /\ next.committed = committed
        /\ next.signers = w.signers /\ next.selections = << >>
    BY DEF Running
  <2> HIDE DEF more, next, t
  <2>5. CASE DOMAIN committed # w.signers
    BY <1>2, <2>1, <2>3, <2>5 DEF Follows, t
  <2>6. CASE DOMAIN committed = w.signers
    BY <1>2, <2>1, <2>4, <2>6 DEF Follows, t
  <2> QED BY <2>5, <2>6
<1> QED BY <1>1, <1>2

\* A commitment adds to the same ceremony of everybody who has it.
LEMMA CommitNoncesRollover ==
    ASSUME NetworkInv, RolloverInv, NEW x, NEW sid \in CeremonyIds, NEW p \in Participants,
           CallCommitNonces(x, sid, p)
    PROVE  RolloverInv' /\ Shrinks
<1> DEFINE results == [v \in Honest |-> HandleSignCommittedNonces(view[v], block, sid, p, Nonces)]
<1>1. Included(x, results) /\ UNCHANGED <<shares, signed>>
  BY DEF CallCommitNonces, chainVars
<1>2. \A v \in Honest : ResultOK(results[v], {Group}, Participants, approved)
  BY ViewFacts, SignCommittedNoncesOK
<1>3. \A v \in Honest, n \in Rollovers :
         results[v].state.signing[n] = AfterCommitment(view[v].signing[n], block, sid, p, Nonces)
  BY ViewFacts, CommitmentSession
<1>4. AfterCommitment(NoSession, block, sid, p, Nonces) = NoSession
  BY DEF AfterCommitment, HasSid
<1>5. \A u, v \in Honest, n \in Rollovers : Agree(view[u], view[v], n)
  BY DEF RolloverInv
<1> HIDE DEF results
<1>6. \A u, v \in Honest, n \in Rollovers : Agree(results[u].state, results[v].state, n)
  BY <1>3, <1>4, <1>5 DEF Agree
<1>7. ASSUME NEW v \in Honest, NEW n \in Rollovers
      PROVE  Follows(view[v].signing[n], results[v].state.signing[n])
  <2>1. view[v].signing[n] = NoSession \/ Session(view[v].signing[n], {Group}, Participants)
    BY ViewFacts
  <2>2. Follows(view[v].signing[n], AfterCommitment(view[v].signing[n], block, sid, p, Nonces))
    BY <2>1, CommitmentFollows
  <2> QED BY <1>3, <2>2
<1> QED BY <1>1, <1>2, <1>6, <1>7, RolloverEvent

\* Of the selections with enough shares there is a largest one.
LEMMA LargestSelection ==
    ASSUME NEW w, NEW large, large # {},
           \A r \in large : w.selections[r].shares_from \in SUBSET Participants
    PROVE  \E r \in large : \A q \in large :
               Cardinality(w.selections[q].shares_from) <= Cardinality(w.selections[r].shares_from)
<1> DEFINE size(r) == Cardinality(w.selections[r].shares_from)
           N == Cardinality(Participants)
           T == {N - size(r) : r \in large}
           R == {ss \in Nat \X Nat : ss[1] < ss[2]}
<1>1. N \in Nat /\ \A r \in large : size(r) \in Nat /\ size(r) <= N
  BY HonestAssumption, FS_Subset, FS_CardinalityType
<1> HIDE DEF size, N
<1>2. T \subseteq Nat /\ T # {}
  BY <1>1
<1>3. IsWellFoundedOn(R, Nat)
  BY NatLessThanWellFounded DEF OpToRel
<1>4. PICK x \in T : \A y \in T : ~ (<<y, x>> \in R)
  <2> HIDE DEF T, R
  <2> QED BY <1>2, <1>3, WFMin
<1>5. PICK r \in large : x = N - size(r)
  OBVIOUS
<1>6. \A q \in large : ~ (N - size(q) < N - size(r))
  BY <1>1, <1>2, <1>4, <1>5
<1>7. \A q \in large : size(q) <= size(r)
  BY <1>1, <1>6
<1> QED BY <1>7 DEF size

\* A ceremony is restarted with fewer signers: the selection with enough shares
\* has an honest one, so it is the ceremony's own, and it is not complete.
LEMMA RestartLess ==
    ASSUME NEW v, NEW m, NEW w, Session(w, {Group}, Participants), NEW b, SelectionsOK,
           CeremonyOK(w), w.stage = "CollectSigningShares",
           Expire(v, m, w, b).session.stage = "WaitingForRequest"
    PROVE  Less(Expire(v, m, w, b).session, w)
<1> DEFINE large == {r \in DOMAIN w.selections :
                         Cardinality(w.selections[r].shares_from) >= Threshold}
           signers == RestartSigners(w)
<1>1. Expire(v, m, w, b).session.signers = signers /\ Cardinality(signers) >= Threshold
  BY DEF Expire, ExpireShares, Dropped, Moves, Request, NoSession, Enough
<1>2. w.sid \in CeremonyIds
  BY DEF Session
<1>3. /\ OneSelection(w.sid, w.committed) /\ DOMAIN w.committed = w.signers
      /\ \A r \in DOMAIN w.selections : w.selections[r].shares_from \subseteq SharesOf(w.sid, r)
  BY DEF CeremonyOK
<1>4. \A r : SharesOf(w.sid, r) \in SUBSET Participants
  BY <1>2 DEF SelectionsOK, SharesOf
<1>5. large # {}
  <2> SUFFICES ASSUME large = {} PROVE FALSE
    OBVIOUS
  <2>1. signers = {}
    BY DEF RestartSigners, CanonicalSelection, Empty
  <2> QED BY <1>1, <2>1, FS_EmptySet, ThresholdAssumption
<1>6. PICK r \in large : signers = w.selections[r].shares_from
  <2>1. \E r \in large : \A q \in large :
            Cardinality(w.selections[q].shares_from) <= Cardinality(w.selections[r].shares_from)
    <3>1. \A r \in large : w.selections[r].shares_from \in SUBSET Participants
      BY <1>3, <1>4
    <3> HIDE DEF large
    <3> QED BY <1>5, <3>1, LargestSelection
  <2> QED BY <1>5, <2>1 DEF RestartSigners, CanonicalSelection
<1>7. signers \subseteq SharesOf(w.sid, r) /\ signers \in SUBSET Participants
  BY <1>3, <1>4, <1>6
<1> HIDE DEF signers
<1>8. signers \cap Honest # {}
  BY <1>1, <1>7, SomebodyHonest
<1>9. r \in DOMAIN shares[w.sid] /\ SharesOf(w.sid, r) = shares[w.sid][r] /\ r = w.committed
  BY <1>3, <1>7, <1>8 DEF SharesOf, OneSelection
<1>10. /\ shares[w.sid][r] \subseteq DOMAIN r
       /\ shares[w.sid][r] = DOMAIN r => w.sid \in signed
  BY <1>2, <1>9 DEF SelectionsOK
<1>11. w.sid \notin signed
  BY <1>3 DEF OneSelection
<1> QED BY <1>1, <1>3, <1>7, <1>9, <1>10, <1>11 DEF Less

\* A deadline ends a ceremony, or goes on with those who committed or shared.
LEMMA DeadlineFollows ==
    ASSUME NEW v, NEW m, NEW w, w = NoSession \/ Session(w, {Group}, Participants), NEW b,
           SelectionsOK, CeremonyOK(w)
    PROVE  Follows(w, AfterDeadline(v, m, w, b))
<1> DEFINE t == Expire(v, m, w, b).session
<1>1. CASE ~ (w # NoSession /\ w.deadline <= b)
  BY <1>1 DEF AfterDeadline, Follows
<1>2. CASE w # NoSession /\ w.deadline <= b
  <2>1. AfterDeadline(v, m, w, b) = t
    BY <1>2 DEF AfterDeadline
  <2>2. w.stage \in Stages
    BY <1>2 DEF Session
  <2>3. NoSession.stage = "None"
    BY DEF NoSession
  <2>4. CASE w.stage = "WaitingForRequest"
    <3>1. t = NoSession \/ t.stage = "WaitingForRequest"
      BY <2>4 DEF Expire, ExpireRequest, Dropped, Moves, Request
    <3> QED BY <2>1, <2>3, <2>4, <3>1 DEF Follows
  <2>5. CASE w.stage \in {"WaitingForOracle", "WaitingForAttestation"}
    <3>1. t = NoSession
      BY <2>5 DEF Expire, ExpireAttestation, Dropped, Moves
    <3> QED BY <2>1, <2>3, <3>1 DEF Follows
  <2>6. CASE w.stage = "CollectNonceCommitments"
    <3>1. t = NoSession \/ /\ t.stage = "CollectSigningShares" /\ t.sid = w.sid
                           /\ t.signers = DOMAIN w.committed /\ t.committed = w.committed
                           /\ t.selections = << >>
      BY <2>6 DEF Expire, ExpireCommitments, Dropped, Moves, Running
    <3> HIDE DEF t
    <3> QED BY <2>1, <2>3, <2>6, <3>1 DEF Follows
  <2>7. CASE w.stage = "CollectSigningShares"
    <3>1. t = NoSession \/ t.stage = "WaitingForRequest"
      BY <2>7 DEF Expire, ExpireShares, Dropped, Moves, Request
    <3>2. t.stage = "WaitingForRequest" => Less(t, w)
      BY <1>2, <2>3, <2>7, RestartLess
    <3> QED BY <2>1, <2>3, <3>1, <3>2 DEF Follows
  <2> QED BY <2>2, <2>4, <2>5, <2>6, <2>7 DEF Stages
<1> QED BY <1>1, <1>2

\* Those whom the deadline does not make drop the ceremony go on alike.
LEMMA NextBlockRollover ==
    ASSUME NetworkInv, RolloverInv, NextBlock
    PROVE  RolloverInv' /\ Shrinks
<1> DEFINE results == [v \in Honest |-> HandleSigningTimeouts(view[v], v, block + 1)]
<1>1. Included(Nobody, results) /\ UNCHANGED <<shares, signed>>
  BY DEF NextBlock, Dispatch
<1>2. \A v \in Honest : ResultOK(results[v], {Group}, Participants, approved)
  BY ViewFacts, SigningTimeoutsOK
<1>3. \A v \in Honest, n \in Rollovers :
         results[v].state.signing[n] = AfterDeadline(v, n, view[v].signing[n], block + 1)
  BY ViewFacts, DeadlineSession
<1> HIDE DEF results
<1>4. ASSUME NEW u \in Honest, NEW v \in Honest, NEW n \in Rollovers
      PROVE  Agree(results[u].state, results[v].state, n)
  <2> DEFINE w == view[u].signing[n]
             z == view[v].signing[n]
  <2>1. w = NoSession \/ z = NoSession \/ w = z
    BY DEF RolloverInv, Agree
  <2>2. AfterDeadline(u, n, NoSession, block + 1) = NoSession
        /\ AfterDeadline(v, n, NoSession, block + 1) = NoSession
    BY DEF AfterDeadline
  <2>3. w = NoSession \/ w.stage \in Stages
    BY ViewFacts DEF Session
  <2>4. w # NoSession /\ w = z =>
            \/ AfterDeadline(u, n, w, block + 1) = NoSession
            \/ AfterDeadline(v, n, z, block + 1) = NoSession
            \/ AfterDeadline(u, n, w, block + 1) = AfterDeadline(v, n, z, block + 1)
    BY <2>3, DeadlineAgrees DEF AfterDeadline
  <2> QED BY <1>3, <2>1, <2>2, <2>4 DEF Agree
<1>5. ASSUME NEW v \in Honest, NEW n \in Rollovers
      PROVE  Follows(view[v].signing[n], results[v].state.signing[n])
  <2>1. view[v].signing[n] = NoSession \/ Session(view[v].signing[n], {Group}, Participants)
    BY ViewFacts
  <2>2. Follows(view[v].signing[n], AfterDeadline(v, n, view[v].signing[n], block + 1))
    BY <2>1, DeadlineFollows DEF RolloverInv
  <2> QED BY <1>3, <2>2
<1> QED BY <1>1, <1>2, <1>4, <1>5, RolloverEvent

\* An attestation ends everybody's ceremony for the message.
LEMMA AttestRollover ==
    ASSUME NetworkInv, RolloverInv, NEW x, NEW sid \in CeremonyIds, NEW m \in Messages,
           CallAttest(x, sid, m)
    PROVE  RolloverInv' /\ Shrinks
<1> DEFINE results == [v \in Honest |-> HandleSignAttested(view[v], sid, m)]
<1>1. Included(x, results) /\ UNCHANGED <<shares, signed>>
  BY DEF CallAttest
<1>2. \A v \in Honest : ResultOK(results[v], {Group}, Participants, approved)
  BY ViewFacts, SignAttestedOK
<1>3. \A v \in Honest, n \in Rollovers :
         results[v].state.signing[n] = IF n = m THEN NoSession ELSE view[v].signing[n]
  BY ViewFacts, AttestedSession
<1> HIDE DEF results
<1>4. \A u, v \in Honest, n \in Rollovers : Agree(results[u].state, results[v].state, n)
  BY <1>3 DEF Agree, RolloverInv
<1>5. NoSession.stage = "None"
  BY DEF NoSession
<1>6. \A v \in Honest, n \in Rollovers :
         Follows(view[v].signing[n], results[v].state.signing[n])
  BY <1>3, <1>5 DEF Follows
<1> QED BY <1>1, <1>2, <1>4, <1>6, RolloverEvent

\* An honest share in the queue is the one that its ceremony's validators expect.
LEMMA EffectDoneRollover ==
    ASSUME NetworkInv, RolloverInv, EffectDone
    PROVE  RolloverInv' /\ Shrinks
<1>1. PICK x \in effects :
         /\ effects' = effects \ {x}
         /\ LET s == view[x.from]
                r == IF x.c.kind = "GenerateNonces"
                     THEN HandleNonceCommitments(s, x.c.sid, Nonces)
                     ELSE HandleNonces(s, x.from, x.c.message, Nonces)
            IN  pool' = pool \cup {[from |-> x.from, c |-> c] : c \in r.commands}
         /\ UNCHANGED <<chainVars, view, outside, approved, in_time>>
  BY DEF EffectDone
<1>2. PICK h \in Honest, sid \in CeremonyIds :
         \/ x = [from |-> h, c |-> [kind |-> "GenerateNonces", group |-> Group, sid |-> sid]]
         \/ \E m \in Messages : x = [from |-> h, c |-> UseNonces(m, sid)]
  BY DEF NetworkInv, QueuesOK, EffectOK
<1>3. UNCHANGED <<shares, signed, view>>
  BY <1>1 DEF chainVars
<1>6. Shrinks
  BY <1>3 DEF Shrinks, InStage
<1>4. CASE x = [from |-> h, c |-> [kind |-> "GenerateNonces", group |-> Group, sid |-> sid]]
  <2>1. pool' = pool \cup {[from |-> h, c |-> c] :
                           c \in HandleNonceCommitments(view[h], sid, Nonces).commands}
    BY <1>1, <1>4
  <2>2. \A c \in HandleNonceCommitments(view[h], sid, Nonces).commands : c.kind # "SignShare"
    BY DEF HandleNonceCommitments, Result, Ignored, CommitNonces
  <2>3. NoShares
    BY <1>3, <2>1, <2>2 DEF NoShares
  <2>4. ASSUME NEW v \in Honest, NEW n \in Rollovers
        PROVE  CeremonyOK(view[v].signing[n])'
    <3> DEFINE w == view[v].signing[n]
    <3>1. CeremonyOK(w) /\ Follows(w, w) /\ w' = w
      BY <1>3 DEF RolloverInv, Follows
    <3> HIDE DEF w
    <3> QED BY <2>3, <3>1, CeremonyFollows DEF w
  <2> QED BY <1>3, <1>6, <2>4 DEF RolloverInv, Agree, SelectionsOK
<1>5. CASE \E m \in Messages : x = [from |-> h, c |-> UseNonces(m, sid)]
  <2>1. PICK m \in Messages : x = [from |-> h, c |-> UseNonces(m, sid)]
    BY <1>5
  <2> DEFINE w == view[h].signing[m]
  <2>2. pool' = pool \cup {[from |-> h, c |-> c] :
                           c \in HandleNonces(view[h], h, m, Nonces).commands}
    BY <1>1, <2>1 DEF UseNonces
  <2>3. \A c \in HandleNonces(view[h], h, m, Nonces).commands :
           InStage(view[h], m, "CollectSigningShares") /\ c = SignShare(m, w.sid, w.committed)
    BY DEF HandleNonces, Result, Ignored
  <2>4. \A y \in pool' : \/ y \in pool
                         \/ /\ w # NoSession /\ w.stage = "CollectSigningShares"
                            /\ y.c.sid = w.sid /\ y.c.root = w.committed
    BY <2>2, <2>3 DEF InStage, SignShare
  <2>5. ASSUME NEW v \in Honest, NEW n \in Rollovers
        PROVE  CeremonyOK(view[v].signing[n])'
    <3> DEFINE z == view[v].signing[n]
    <3>1. CeremonyOK(z) /\ z' = z
      BY <1>3 DEF RolloverInv
    <3>2. z # NoSession /\ z.sid \in CeremonyIds /\ w # NoSession /\ w.sid = z.sid => w = z
      <4>1. z # NoSession /\ z.sid \in CeremonyIds => message_of[z.sid] = n
        BY ViewFacts, MarkersAssumption DEF Linked, IndexExact
      <4>2. w # NoSession /\ w.sid \in CeremonyIds => message_of[w.sid] = m
        BY ViewFacts, MarkersAssumption DEF Linked, IndexExact
      <4> QED BY <4>1, <4>2 DEF RolloverInv, Agree
    <3>3. z.stage \in {"CollectNonceCommitments", "CollectSigningShares"} =>
              z # NoSession /\ z.sid \in CeremonyIds
      BY ViewFacts DEF Session, NoSession
    <3>4. \A i, r : SharesOf(i, r)' = SharesOf(i, r)
      BY <1>3 DEF SharesOf
    <3> HIDE DEF w, z
    <3>5. CASE z.stage = "CollectNonceCommitments"
      <4>1. Quiet(z.sid)
        BY <3>1, <3>5 DEF CeremonyOK
      <4>2. \A y \in pool' : y.c.kind = "SignShare" => y.c.sid # z.sid
        BY <2>4, <3>2, <3>3, <3>5, <4>1 DEF Quiet
      <4>3. Quiet(z.sid)'
        BY <1>3, <3>1, <4>1, <4>2 DEF Quiet
      <4> QED BY <3>1, <3>5, <4>3 DEF CeremonyOK, z
    <3>6. CASE z.stage = "CollectSigningShares"
      <4>1. OneSelection(z.sid, z.committed)
        BY <3>1, <3>6 DEF CeremonyOK
      <4>2. \A y \in pool' : y.c.kind = "SignShare" /\ y.c.sid = z.sid => y.c.root = z.committed
        BY <2>4, <3>2, <3>3, <3>6, <4>1 DEF OneSelection
      <4>3. OneSelection(z.sid, z.committed)'
        BY <1>3, <3>1, <4>1, <4>2 DEF OneSelection
      <4> QED BY <3>1, <3>4, <3>6, <4>3 DEF CeremonyOK, z
    <3>7. CASE z.stage \notin {"CollectNonceCommitments", "CollectSigningShares"}
      BY <3>1, <3>7 DEF CeremonyOK, z
    <3> QED BY <3>5, <3>6, <3>7
  <2> QED BY <1>3, <1>6, <2>5 DEF RolloverInv, Agree, SelectionsOK
<1> QED BY <1>2, <1>4, <1>5

\* What a share, the signature it may complete and the attestation that may go with
\* it make of a session.
AfterShareCall(z, n, sid, root, p, done, attests) ==
    IF attests /\ n = message_of[sid] THEN NoSession
    ELSE IF done THEN AfterCompletion(AfterShare(z, sid, root, p), block, sid)
    ELSE AfterShare(z, sid, root, p)

\* Every validator handles the events of a share like that, and commands nothing.
LEMMA ShareCallSession ==
    ASSUME NetworkInv, RolloverInv, NEW x, NEW sid \in CeremonyIds, NEW root, NEW p,
           NEW callback \in BOOLEAN, CallSignShare(x, sid, root, p, callback)
    PROVE  LET done == Completes(sid, root, p)
               attests == done /\ callback
           IN  /\ pool' \subseteq pool
               /\ \A v \in Honest, n \in Rollovers :
                     view'[v].signing[n]
                         = AfterShareCall(view[v].signing[n], n, sid, root, p, done, attests)
<1> DEFINE m == message_of[sid]
           done == Completes(sid, root, p)
           attests == done /\ callback
           Shared(v) == HandleSignShared(view[v], sid, root, p).state
           Done(v) == IF done THEN HandleSignCompleted(Shared(v), block, sid).state ELSE Shared(v)
           R(v) == IF attests THEN HandleSignAttested(Done(v), sid, m) ELSE Ignored(Done(v))
           results == [v \in Honest |-> R(v)]
<1>1. Included(x, results)
  BY DEF CallSignShare
<1>2. m \in Messages
  BY DEF CallSignShare, Accepted, NetworkInv, MessagesOK
<1>3. \A v \in Honest : results[v].commands = {}
  BY DEF HandleSignAttested, Ignored, Result
<1>4. pool' \subseteq pool
  <2> DEFINE issued == UNION {{[from |-> v, c |-> c] : c \in results[v].commands} : v \in Honest}
  <2>1. pool' = (pool \ {x}) \cup {y \in issued : ~ IsEffect(y.c)}
    BY <1>1 DEF Included
  <2> HIDE DEF results
  <2>2. issued = {}
    BY <1>3
  <2> QED BY <2>1, <2>2
<1>5. ASSUME NEW v \in Honest, NEW n \in Rollovers
      PROVE  view'[v].signing[n]
                 = AfterShareCall(view[v].signing[n], n, sid, root, p, done, attests)
  <2>1. /\ StateOK(view[v], {Group}, Participants, approved) /\ Linked(view[v], message_of)
        /\ StateShape(view[v]) /\ IndexExact(view[v]) /\ n \in Messages
    BY ViewFacts
  <2>2. StateOK(Shared(v), {Group}, Participants, approved) /\ Linked(Shared(v), message_of)
    BY <2>1, SignSharedOK, SignSharedLinked DEF ResultOK
  <2>3. Shared(v).signing[n] = AfterShare(view[v].signing[n], sid, root, p)
    BY <2>1, ShareSession
  <2> HIDE DEF Shared
  <2>4. StateOK(Done(v), {Group}, Participants, approved)
    BY <2>2, SignCompletedOK DEF ResultOK
  <2>5. HandleSignCompleted(Shared(v), block, sid).state.signing[n]
            = AfterCompletion(Shared(v).signing[n], block, sid)
    BY <2>1, <2>2, CompletionSession DEF StateOK, Linked
  <2>6. Done(v).signing[n] = IF done THEN AfterCompletion(Shared(v).signing[n], block, sid)
                             ELSE Shared(v).signing[n]
    BY <2>5
  <2> HIDE DEF Done
  <2>7. HandleSignAttested(Done(v), sid, m).state.signing[n]
            = IF n = m THEN NoSession ELSE Done(v).signing[n]
    BY <1>2, <2>1, <2>4, AttestedSession
  <2>8. R(v).state.signing[n] = IF attests /\ n = m THEN NoSession ELSE Done(v).signing[n]
    BY <2>7 DEF Ignored, Result
  <2>9. view'[v] = R(v).state
    BY <1>1 DEF Included
  <2> HIDE DEF R, done, attests
  <2> QED BY <2>3, <2>6, <2>8, <2>9 DEF AfterShareCall
<1> QED BY <1>4, <1>5

\* A share that is missing: the selection grows, in the coordinator and in the
\* ceremonies that collect its shares. The last one ends them.
LEMMA SignShareRollover ==
    ASSUME NetworkInv, RolloverInv, NEW x, NEW sid \in CeremonyIds, NEW root, NEW p,
           NEW callback \in BOOLEAN, DOMAIN root \subseteq Participants,
           p \in Honest => \E y \in pool : y.c.kind = "SignShare" /\ y.c.sid = sid /\ y.c.root = root,
           CallSignShare(x, sid, root, p, callback)
    PROVE  RolloverInv' /\ Shrinks
<1> DEFINE done == Completes(sid, root, p)
           attests == done /\ callback
           all == SharesOf(sid, root) \cup {p}
           After(z, n) == AfterShareCall(z, n, sid, root, p, done, attests)
<1>1. /\ shares' = [shares EXCEPT ![sid] = Put(@, root, all)]
      /\ signed' = IF done THEN signed \cup {sid} ELSE signed
      /\ p \in DOMAIN root
      /\ all = DOMAIN root => Cardinality(DOMAIN root) >= Threshold
  BY DEF CallSignShare, Accepted
<1>2. /\ pool' \subseteq pool
      /\ \A v \in Honest, n \in Rollovers : view'[v].signing[n] = After(view[v].signing[n], n)
  BY ShareCallSession
<1>3. /\ shares'[sid] = Put(shares[sid], root, all)
      /\ \A i \in CeremonyIds : i # sid => shares'[i] = shares[i]
  BY <1>1 DEF NetworkInv, SharesOK
<1>4. /\ DOMAIN shares'[sid] = DOMAIN shares[sid] \cup {root}
      /\ shares'[sid][root] = all
      /\ \A q \in DOMAIN shares[sid] : q # root => shares'[sid][q] = shares[sid][q]
  <2> HIDE DEF all
  <2> QED BY <1>3 DEF Put
<1>5. done <=> all = DOMAIN root /\ sid \notin signed
  BY DEF Completes
<1>6. \A i \in CeremonyIds : \A r :
         SharesOf(i, r)' = IF i = sid /\ r = root THEN all ELSE SharesOf(i, r)
  <2> HIDE DEF all
  <2>1. \A r : SharesOf(sid, r)' = IF r = root THEN all ELSE SharesOf(sid, r)
    BY <1>4 DEF SharesOf
  <2>2. \A i \in CeremonyIds : \A r : i # sid => SharesOf(i, r)' = SharesOf(i, r)
    BY <1>3 DEF SharesOf
  <2> QED BY <2>1, <2>2
<1>7. all \cap Honest # {} => p \in Honest \/ (root \in DOMAIN shares[sid]
                                               /\ shares[sid][root] \cap Honest # {})
  BY DEF SharesOf
<1>8. SelectionsOK'
  <2>1. all \subseteq DOMAIN root
    BY <1>1 DEF SharesOf, RolloverInv, SelectionsOK
  <2>2. ASSUME NEW i \in CeremonyIds, NEW r \in DOMAIN shares'[i]
        PROVE  /\ DOMAIN r \subseteq Participants /\ shares'[i][r] \subseteq DOMAIN r
               /\ shares'[i][r] = DOMAIN r => i \in signed'
    <3> HIDE DEF all, done
    <3>1. CASE i = sid /\ r = root
      BY <1>1, <1>4, <1>5, <2>1, <3>1
    <3>2. CASE i = sid /\ r # root
      BY <1>1, <1>4, <3>2 DEF RolloverInv, SelectionsOK
    <3>3. CASE i # sid
      BY <1>1, <1>3, <3>3 DEF RolloverInv, SelectionsOK
    <3> QED BY <3>1, <3>2, <3>3
  <2> QED BY <2>2 DEF SelectionsOK
<1>9. \A n : After(NoSession, n) = NoSession
  BY DEF AfterShareCall, AfterShare, AfterCompletion, HasSid
<1> HIDE DEF all, done, attests
<1>10. \A u, v \in Honest, n \in Rollovers : Agree(view[u], view[v], n)'
  <2> HIDE DEF After
  <2> QED BY <1>2, <1>9 DEF RolloverInv, Agree
<1>11. ASSUME NEW v \in Honest, NEW n \in Rollovers
       PROVE  CeremonyOK(view[v].signing[n])'
  <2>0. PICK z, t : z = view[v].signing[n] /\ t = view'[v].signing[n]
    OBVIOUS
  <2> SUFFICES CeremonyOK(t)'
    BY <2>0
  <2>1. CeremonyOK(z) /\ t = After(z, n)
    BY <1>2, <2>0 DEF RolloverInv
  <2>2. z = NoSession \/ Session(z, {Group}, Participants)
    BY <2>0, ViewFacts
  <2>4. NoSession.stage = "None"
    BY DEF NoSession
  <2>5. CASE ~ HasSid(z, sid)
    <3>1. t = z \/ t = NoSession
      BY <2>1, <2>5 DEF AfterShareCall, AfterShare, AfterCompletion
    <3>2. CASE t = z /\ z.stage \in {"CollectNonceCommitments", "CollectSigningShares"}
      <4>1. z.sid \in CeremonyIds /\ z.sid # sid
        BY <2>2, <2>4, <2>5, <3>2 DEF Session, HasSid
      <4>2. shares'[z.sid] = shares[z.sid] /\ (z.sid \in signed' <=> z.sid \in signed)
        BY <1>1, <1>3, <4>1
      <4>3. Quiet(z.sid) => z.sid \notin signed'
                /\ (\A q \in DOMAIN shares'[z.sid] : shares'[z.sid][q] \cap Honest = {})
                /\ (\A y \in pool' : y.c.kind = "SignShare" => y.c.sid # z.sid)
        BY <1>2, <4>2 DEF Quiet
      <4>4. OneSelection(z.sid, z.committed) => z.sid \notin signed'
                /\ (\A q \in DOMAIN shares'[z.sid] : shares'[z.sid][q] \cap Honest # {}
                       => q = z.committed)
                /\ (\A y \in pool' : y.c.kind = "SignShare" /\ y.c.sid = z.sid
                       => y.c.root = z.committed)
        BY <1>2, <4>2 DEF OneSelection
      <4>5. \A r : SharesOf(z.sid, r)' = SharesOf(z.sid, r)
        BY <1>6, <4>1
      <4> QED BY <2>1, <3>2, <4>3, <4>4, <4>5 DEF CeremonyOK, Quiet, OneSelection
    <3> QED BY <2>1, <2>4, <3>1, <3>2 DEF CeremonyOK
  <2>6. CASE HasSid(z, sid) /\ z.stage = "CollectNonceCommitments"
    <3>1. Quiet(sid)
      BY <2>1, <2>6 DEF CeremonyOK, HasSid
    <3>2. all \cap Honest = {}
      BY <1>7, <3>1 DEF Quiet
    <3>3. ~ done
      BY <1>1, <1>5, <3>2, SomebodyHonest
    <3>4. t = z
      BY <2>1, <2>6, <3>3 DEF AfterShareCall, AfterShare, attests
    <3>5. /\ sid \notin signed'
          /\ \A q \in DOMAIN shares'[sid] : shares'[sid][q] \cap Honest = {}
          /\ \A y \in pool' : y.c.kind = "SignShare" => y.c.sid # sid
      BY <1>1, <1>2, <1>4, <3>1, <3>2, <3>3 DEF Quiet
    <3> QED BY <2>6, <3>4, <3>5 DEF CeremonyOK, Quiet, HasSid
  <2>7. CASE HasSid(z, sid) /\ z.stage = "CollectSigningShares" /\ done
    <3>1. AfterShare(z, sid, root, p).sid = sid
          /\ AfterShare(z, sid, root, p).stage = "CollectSigningShares"
          /\ AfterShare(z, sid, root, p) # NoSession
      BY <2>2, <2>7 DEF AfterShare, HasSid, Session, SessionShape, NoSession
    <3>2. AfterCompletion(AfterShare(z, sid, root, p), block, sid).stage = "WaitingForAttestation"
      BY <3>1 DEF AfterCompletion, HasSid, Running
    <3>3. t = NoSession \/ t = AfterCompletion(AfterShare(z, sid, root, p), block, sid)
      BY <2>1, <2>7 DEF AfterShareCall
    <3>4. t.stage \in {"None", "WaitingForAttestation"}
      BY <2>4, <3>2, <3>3
    <3> QED BY <3>4 DEF CeremonyOK
  <2>8. CASE HasSid(z, sid) /\ z.stage = "CollectSigningShares" /\ ~ done
    <3> DEFINE sel == Put(z.selections, root,
                          [shares_from |-> SharesSeen(z, root) \cup {p}, last_signer |-> p])
    <3>1. t = [z EXCEPT !.selections = sel]
      BY <2>1, <2>8 DEF AfterShareCall, AfterShare, attests
    <3>2. /\ DOMAIN sel = DOMAIN z.selections \cup {root}
          /\ sel[root].shares_from = SharesSeen(z, root) \cup {p}
          /\ \A r \in DOMAIN z.selections : r # root => sel[r] = z.selections[r]
      BY DEF Put
    <3> HIDE DEF sel
    <3>3. /\ t.stage = z.stage /\ t.sid = sid /\ t.committed = z.committed
          /\ t.signers = z.signers /\ t.selections = sel
      BY <2>2, <2>4, <2>8, <3>1 DEF Session, SessionShape, HasSid
    <3>4. /\ OneSelection(sid, z.committed) /\ DOMAIN z.committed = z.signers
          /\ \A r \in DOMAIN z.selections : z.selections[r].shares_from \subseteq SharesOf(sid, r)
      BY <2>1, <2>8 DEF CeremonyOK, HasSid
    <3>5. all \cap Honest # {} => root = z.committed
      BY <1>7, <3>4 DEF OneSelection
    <3>6. /\ sid \notin signed'
          /\ \A q \in DOMAIN shares'[sid] : shares'[sid][q] \cap Honest # {} => q = z.committed
          /\ \A y \in pool' : y.c.kind = "SignShare" /\ y.c.sid = sid => y.c.root = z.committed
      BY <1>1, <1>2, <1>4, <2>8, <3>4, <3>5 DEF OneSelection
    <3>7. \A r \in DOMAIN sel : sel[r].shares_from \subseteq SharesOf(sid, r)'
      <4>1. sel[root].shares_from \subseteq all
        BY <3>2, <3>4 DEF SharesSeen, all
      <4> QED BY <1>6, <3>2, <3>4, <4>1
    <3> QED BY <2>8, <3>3, <3>4, <3>6, <3>7 DEF CeremonyOK, OneSelection
  <2>9. CASE HasSid(z, sid) /\ z.stage \notin {"CollectNonceCommitments", "CollectSigningShares"}
    <3>1. t = z \/ t = NoSession
      BY <2>1, <2>9 DEF AfterShareCall, AfterShare, AfterCompletion
    <3> QED BY <2>1, <2>4, <2>9, <3>1 DEF CeremonyOK
  <2> QED BY <2>5, <2>6, <2>7, <2>8, <2>9
<1>12. Shrinks
  <2> SUFFICES ASSUME NEW v \in Honest, NEW n \in Rollovers,
                      InStage(view[v], n, "CollectSigningShares"),
                      InStage(view'[v], n, "WaitingForRequest")
               PROVE  FALSE
    BY DEF Shrinks, Rollovers
  <2>1. PICK z, t : z = view[v].signing[n] /\ t = view'[v].signing[n]
    OBVIOUS
  <2>2. t = After(z, n) /\ z.stage = "CollectSigningShares" /\ t.stage = "WaitingForRequest"
    BY <1>2, <2>1 DEF InStage
  <2>3. Session(z, {Group}, Participants)
    BY <2>1, ViewFacts DEF InStage
  <2> DEFINE u == AfterShare(z, sid, root, p)
  <2>4. u.stage = "CollectSigningShares"
    BY <2>2, <2>3 DEF AfterShare, Session, SessionShape
  <2> HIDE DEF u
  <2>5. AfterCompletion(u, block, sid).stage \in {"CollectSigningShares", "WaitingForAttestation"}
    BY <2>4 DEF AfterCompletion, Running
  <2>6. t \in {NoSession, u, AfterCompletion(u, block, sid)} /\ NoSession.stage = "None"
    BY <2>2 DEF AfterShareCall, u, NoSession
  <2> QED BY <2>2, <2>4, <2>5, <2>6
<1> QED BY <1>8, <1>10, <1>11, <1>12 DEF RolloverInv

\* A transaction of an honest validator.
LEMMA IncludeRollover ==
    ASSUME NetworkInv, RolloverInv, Include
    PROVE  RolloverInv' /\ Shrinks
<1>1. PICK x \in pool : Submit(x)
  BY DEF Include
<1> DEFINE v == x.from
           c == x.c
<1>2. /\ v \in Honest
      /\ \/ \E m \in Messages : c = Sign(Group, m)
         \/ \E sid \in CeremonyIds : c = CommitNonces(sid, Nonces)
         \/ c.kind = "SignShare" /\ ShareOK(c.message, c.sid, c.root, message_of, approved)
         \/ \E m \in Messages, sid \in CeremonyIds : c = Attest(m, sid)
  BY DEF NetworkInv, QueuesOK, TransactionOK
<1>3. CASE \E m \in Messages : c = Sign(Group, m)
  <2>1. PICK m \in Messages : c = Sign(Group, m)
    BY <1>3
  <2>2. CallSign(x, m)
    BY <1>1, <2>1 DEF Submit, Sign
  <2> QED BY <2>2, SignRollover DEF CallSign
<1>4. CASE \E sid \in CeremonyIds : c = CommitNonces(sid, Nonces)
  <2>1. PICK sid \in CeremonyIds : c = CommitNonces(sid, Nonces)
    BY <1>4
  <2>2. CallCommitNonces(x, sid, v)
    BY <1>1, <2>1 DEF Submit, CommitNonces
  <2> QED BY <1>2, <2>2, CommitNoncesRollover, HonestAssumption
<1>5. CASE c.kind = "SignShare" /\ ShareOK(c.message, c.sid, c.root, message_of, approved)
  <2>1. CallSignShare(x, c.sid, c.root, v, TRUE)
    BY <1>1, <1>5 DEF Submit
  <2>2. c.sid \in CeremonyIds /\ DOMAIN c.root \subseteq Participants
    BY <1>5 DEF ShareOK
  <2> QED BY <1>5, <2>1, <2>2, SignShareRollover
<1>6. CASE \E m \in Messages, sid \in CeremonyIds : c = Attest(m, sid)
  <2>1. PICK m \in Messages, sid \in CeremonyIds : c = Attest(m, sid)
    BY <1>6
  <2>2. CallAttest(x, sid, m)
    BY <1>1, <2>1 DEF Submit, Attest
  <2> QED BY <2>2, AttestRollover
<1> QED BY <1>2, <1>3, <1>4, <1>5, <1>6

\* A share of a member that does not run the validator.
LEMMA FaultySharesRollover ==
    ASSUME NetworkInv, RolloverInv, FaultyShares
    PROVE  RolloverInv' /\ Shrinks
<1>1. PICK p \in Participants \ Honest, sid \in CeremonyIds, signers \in SUBSET Participants,
           callback \in BOOLEAN : CallSignShare(Nobody, sid, Root(signers), p, callback)
  BY DEF FaultyShares
<1>2. DOMAIN Root(signers) \subseteq Participants
  BY DEF Root
<1> HIDE DEF Root
<1> QED BY <1>1, <1>2, SignShareRollover

\* Nothing but a transaction that is gone.
LEMMA QuietRollover ==
    ASSUME RolloverInv, pool' \subseteq pool, UNCHANGED <<shares, signed, view>>
    PROVE  RolloverInv' /\ Shrinks
<1>1. NoShares
  BY DEF NoShares
<1>2. ASSUME NEW v \in Honest, NEW n \in Rollovers
      PROVE  CeremonyOK(view[v].signing[n])'
  <2>1. PICK w : w = view[v].signing[n] /\ w = view'[v].signing[n]
    OBVIOUS
  <2>2. CeremonyOK(w) /\ Follows(w, w)
    BY <2>1 DEF RolloverInv, Follows
  <2>3. CeremonyOK(w)'
    BY <1>1, <2>2, CeremonyFollows
  <2> QED BY <2>1, <2>3
<1>3. Shrinks
  BY DEF Shrinks, InStage
<1> QED BY <1>2, <1>3 DEF RolloverInv, Agree, SelectionsOK

\* The invariant is inductive, and its steps restart ceremonies with fewer signers.
LEMMA RolloverStep == NetworkInv /\ RolloverInv /\ [Next]_vars => RolloverInv' /\ Shrinks
<1> SUFFICES ASSUME NetworkInv, RolloverInv, [Next]_vars PROVE RolloverInv' /\ Shrinks
  OBVIOUS
<1>1. CASE Proposal
  BY <1>1, ProposeTransactionRollover, ProposeEpochRollover DEF Proposal
<1>2. CASE Outcome
  BY <1>2, OracleResultRollover DEF Outcome
<1>3. CASE EffectDone
  BY <1>3, EffectDoneRollover
<1>4. CASE Include
  BY <1>4, IncludeRollover
<1>5. CASE Revert
  <2>1. pool' \subseteq pool /\ UNCHANGED <<chainVars, view>>
    BY <1>5 DEF Revert
  <2> QED BY <2>1, QuietRollover DEF chainVars
<1>6. CASE NextBlock
  BY <1>6, NextBlockRollover
<1>7. CASE \E m \in Messages : OutsideSign(m)
  BY <1>7, SignRollover DEF OutsideSign, Dispatch
<1>8. CASE FaultyCommits
  BY <1>8, CommitNoncesRollover DEF FaultyCommits
<1>9. CASE FaultyShares
  BY <1>9, FaultySharesRollover
<1>10. CASE AnyoneAttests
  BY <1>10, AttestRollover DEF AnyoneAttests
<1>11. CASE UNCHANGED vars
  BY <1>11, QuietRollover DEF vars, chainVars
<1> QED BY <1>1, <1>2, <1>3, <1>4, <1>5, <1>6, <1>7, <1>8, <1>9, <1>10, <1>11 DEF Next

\* It holds at the start.
LEMMA RolloverInit == Init => RolloverInv
<1> SUFFICES ASSUME Init PROVE RolloverInv
  OBVIOUS
<1>1. \A v \in Honest, n \in Rollovers : view[v].signing[n] = NoSession
  BY DEF Init, NoSessions, Rollovers
<1>2. CeremonyOK(NoSession)
  BY DEF CeremonyOK, NoSession
<1>3. SelectionsOK
  BY DEF Init, SelectionsOK
<1> QED BY <1>1, <1>2, <1>3 DEF RolloverInv, Agree

\* The invariant of the rollovers.
THEOREM RolloverInvariant == Spec => []RolloverInv
  BY NetworkInvariant, RolloverInit, RolloverStep, PTL DEF Spec

\* Honest validators that collect shares for the same rollover expect the same
\* selection, in every group and whatever the other members send.
THEOREM SelectionsAgree == Spec => []SameSelection
<1>1. RolloverInv => SameSelection
  BY DEF RolloverInv, Agree, SameSelection, InStage, Rollovers
<1> QED BY <1>1, RolloverInvariant, PTL

\* handle_signing_timeouts restarts a rollover with strictly fewer signers, so there
\* are at most as many restarts as there are members.
THEOREM EveryRestartShrinks == Spec => RestartsShrink
<1>1. NetworkInv /\ RolloverInv /\ [Next]_vars => Shrinks
  BY RolloverStep
<1>2. Shrinks =>
        [\A v \in Honest, m \in Messages \ Transactions :
            InStage(view[v], m, "CollectSigningShares") /\ InStage(view'[v], m, "WaitingForRequest")
                => view'[v].signing[m].signers \subseteq view[v].signing[m].signers
                   /\ view'[v].signing[m].signers # view[v].signing[m].signers]_vars
  BY DEF Shrinks
<1> QED BY <1>1, <1>2, NetworkInvariant, RolloverInvariant, PTL DEF Spec, RestartsShrink
=============================================================================
