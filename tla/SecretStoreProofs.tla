------------------------- MODULE SecretStoreProofs -------------------------
(***************************************************************************)
(* Proofs about the validator's secret store, for any sets of groups,       *)
(* ceremonies, samples and blocks: the store hands a nonce pair out at most *)
(* once, and only schedules what every later reconciliation dropped.        *)
(***************************************************************************)
EXTENDS SecretStore, TLAPS

-----------------------------------------------------------------------------
(* Types                                                                    *)

\* Rescheduling rows keeps them rows (schedule_absent_groups).
LEMMA ScheduleKeepsKeygenRows ==
    ASSUME NEW T \in SUBSET KeygenRow, NEW b \in Blocks, NEW kept
    PROVE  ScheduleAbsentGroups(T, b, kept) \in SUBSET KeygenRow
  BY DEF ScheduleAbsentGroups, KeygenRow, Coalesce

\* The same for the table of nonces.
LEMMA ScheduleKeepsNonceRows ==
    ASSUME NEW T \in SUBSET NonceRow, NEW b \in Blocks, NEW kept
    PROVE  ScheduleAbsentGroups(T, b, kept) \in SUBSET NonceRow
  BY DEF ScheduleAbsentGroups, NonceRow, Coalesce

\* Every method of the store keeps its tables and history well typed.
LEMMA StoreTypeStep == StoreTypeOK /\ [StoreNext]_storeVars => StoreTypeOK'
<1> SUFFICES ASSUME StoreTypeOK, [StoreNext]_storeVars PROVE StoreTypeOK'
  OBVIOUS
<1>1. ASSUME NEW g \in Groups, NEW s \in Samples, StoreKeygenSecrets(g, s)
      PROVE  StoreTypeOK'
  <2>1. keygen_secrets' \subseteq KeygenRow
    BY <1>1 DEF StoreKeygenSecrets, StoreTypeOK, KeygenRow
  <2> QED BY <2>1, <1>1 DEF StoreKeygenSecrets, StoreTypeOK, history
<1>2. ASSUME NEW g \in Groups, NEW c \in SignatureIds, NEW s \in Samples,
             StoreSigningNonces(g, c, s)
      PROVE  StoreTypeOK'
  <2>1. signing_nonces' \subseteq NonceRow /\ HasNonces(signing_nonces', c)
    <3>1. CASE HasNonces(signing_nonces, c)
      BY <1>2, <3>1 DEF StoreSigningNonces, StoreTypeOK
    <3>2. CASE ~ HasNonces(signing_nonces, c)
      <4> DEFINE row == [sid |-> c, group |-> g, nonces |-> s, delete_at |-> Null]
      <4>1. row \in NonceRow /\ row.sid = c
        BY DEF NonceRow
      <4>2. signing_nonces' = signing_nonces \cup {row}
        BY <1>2, <3>2 DEF StoreSigningNonces
      <4> HIDE DEF row
      <4> QED BY <4>1, <4>2 DEF HasNonces, StoreTypeOK
    <3> QED BY <3>1, <3>2
  <2>2. NoncesOf(signing_nonces', c) \in Samples \cup {Used}
    BY <2>1 DEF NoncesOf, HasNonces, NonceRow
  <2>3. published' \in [SignatureIds -> SUBSET Samples]
    BY <2>2, <1>2 DEF StoreSigningNonces, StoreTypeOK
  <2> QED BY <2>1, <2>3, <1>2 DEF StoreSigningNonces, StoreTypeOK
<1>3. ASSUME NEW c \in SignatureIds, TakeSigningNonces(c)
      PROVE  StoreTypeOK'
  <2>1. signing_nonces' \subseteq NonceRow
    BY <1>3 DEF TakeSigningNonces, StoreTypeOK, NonceRow
  <2>2. takes' \in [Samples -> Nat]
    BY <1>3 DEF TakeSigningNonces, StoreTypeOK
  <2> QED BY <2>1, <2>2, <1>3 DEF TakeSigningNonces, StoreTypeOK
<1>4. ASSUME NEW b \in Blocks, NEW kept \in [Groups -> RetainedSecrets],
             ScheduleGroupSecretsDeletion(b, kept)
      PROVE  StoreTypeOK'
  <2>1. CASE Accepts(b)
    <3>1. keygen_secrets' \subseteq KeygenRow /\ signing_nonces' \subseteq NonceRow
      BY <1>4, <2>1, ScheduleKeepsKeygenRows, ScheduleKeepsNonceRows
      DEF ScheduleGroupSecretsDeletion, StoreTypeOK
    <3>2. absent_since' \in [Groups -> [keygen : Blocks \cup {Null}, nonces : Blocks \cup {Null}]]
      BY <1>4, <2>1 DEF ScheduleGroupSecretsDeletion, StoreTypeOK, Coalesce
    <3> QED BY <3>1, <3>2, <1>4, <2>1 DEF ScheduleGroupSecretsDeletion, StoreTypeOK
  <2>2. CASE ~ Accepts(b)
    BY <1>4, <2>2 DEF ScheduleGroupSecretsDeletion, StoreTypeOK, tables
  <2> QED BY <2>1, <2>2
<1>5. ASSUME NEW b \in Blocks, PruneScheduledSecrets(b)
      PROVE  StoreTypeOK'
  BY <1>5 DEF PruneScheduledSecrets, StoreTypeOK, history
<1>6. CASE UNCHANGED storeVars
  BY <1>6 DEF storeVars, StoreTypeOK
<1> QED BY <1>1, <1>2, <1>3, <1>4, <1>5, <1>6 DEF StoreNext

\* The store is well typed in every reachable state (the three tables of
\* SecretStore::new, and the history of its answers).
THEOREM StoreTyped == StoreSpec => []StoreTypeOK
<1>1. StoreInit => StoreTypeOK
  BY DEF StoreInit, StoreTypeOK
<1> QED BY <1>1, StoreTypeStep, PTL DEF StoreSpec

-----------------------------------------------------------------------------
(* Nonces                                                                   *)

\* What store_signing_nonces reads back is the nonce column of the row with the
\* ceremony's id: the primary key leaves no other.
LEMMA NoncesOfRow ==
    ASSUME NEW T, \A r, q \in T : r.sid = q.sid => r = q, NEW row \in T
    PROVE  NoncesOf(T, row.sid) = row.nonces
  BY DEF NoncesOf

\* Rescheduling rows changes neither their ceremony nor their pair.
LEMMA ScheduleKeepsPairs ==
    ASSUME NEW T \in SUBSET NonceRow, NEW b, NEW kept
    PROVE  \A q \in ScheduleAbsentGroups(T, b, kept) :
              \E r \in T : q.sid = r.sid /\ q.nonces = r.nonces
  BY DEF ScheduleAbsentGroups, NonceRow

\* The primary key and the uniqueness of pairs survive rescheduling.
LEMMA ScheduleKeepsKeys ==
    ASSUME NEW T \in SUBSET NonceRow, NEW b, NEW kept,
           \A r, q \in T : r.sid = q.sid => r = q,
           \A r, q \in T : r.nonces = q.nonces /\ r.nonces # Used => r = q
    PROVE  LET S == ScheduleAbsentGroups(T, b, kept) IN
           /\ \A r, q \in S : r.sid = q.sid => r = q
           /\ \A r, q \in S : r.nonces = q.nonces /\ r.nonces # Used => r = q
  BY DEF ScheduleAbsentGroups, NonceRow

\* The inductive step: no method of the store breaks NonceInv.
LEMMA NonceStep == StoreTypeOK /\ NonceInv /\ [StoreNext]_storeVars => NonceInv'
<1> SUFFICES ASSUME StoreTypeOK, NonceInv, [StoreNext]_storeVars PROVE NonceInv'
  OBVIOUS
<1>1. ASSUME NEW g \in Groups, NEW s \in Samples, StoreKeygenSecrets(g, s)
      PROVE  NonceInv'
  <2>1. sampled \subseteq sampled' /\ UNCHANGED <<signing_nonces, published, takes>>
    BY <1>1 DEF StoreKeygenSecrets, history
  <2> QED BY <2>1 DEF NonceInv
<1>2. ASSUME NEW g \in Groups, NEW c \in SignatureIds, NEW s \in Samples,
             StoreSigningNonces(g, c, s)
      PROVE  NonceInv'
  <2>1. CASE HasNonces(signing_nonces, c)
    \* The row is kept, and a pair it still holds was published already.
    <3>1. UNCHANGED <<signing_nonces, sampled, takes>>
      BY <1>2, <2>1 DEF StoreSigningNonces
    <3>2. PICK row \in signing_nonces : row.sid = c
      BY <2>1 DEF HasNonces
    <3>3. NoncesOf(signing_nonces, c) = row.nonces
      BY <3>2, NoncesOfRow DEF NonceInv
    <3>4. published' = published
      <4>1. CASE row.nonces = Used
        BY <1>2, <3>1, <3>3, <4>1 DEF StoreSigningNonces
      <4>2. CASE row.nonces # Used
        <5>1. row.nonces \in published[c]
          BY <3>2, <4>2 DEF NonceInv
        <5>2. published' = [published EXCEPT ![c] = @ \cup {row.nonces}]
          BY <1>2, <3>1, <3>3, <4>2 DEF StoreSigningNonces
        <5>3. published[c] \cup {row.nonces} = published[c]
          BY <5>1
        <5> QED BY <5>2, <5>3 DEF StoreTypeOK
      <4> QED BY <4>1, <4>2
    <3> QED BY <3>1, <3>4 DEF NonceInv
  <2>2. CASE ~ HasNonces(signing_nonces, c)
    \* A fresh sample becomes the ceremony's pair and is published.
    <3> DEFINE row == [sid |-> c, group |-> g, nonces |-> s, delete_at |-> Null]
    <3>1. /\ row.sid = c /\ row.nonces = s
          /\ signing_nonces' = signing_nonces \cup {row}
          /\ sampled' = sampled \cup {s} /\ takes' = takes /\ s \notin sampled
      BY <1>2, <2>2 DEF StoreSigningNonces
    <3> HIDE DEF row
    <3>2. \A r \in signing_nonces : r.sid # c /\ r.nonces # s
      BY <2>2, <3>1, SentinelAssumption DEF HasNonces, NonceInv, StoreTypeOK, NonceRow
    <3>3. \A r, q \in signing_nonces' : r.sid = q.sid => r = q
      BY <3>1, <3>2 DEF NonceInv
    <3>4. NoncesOf(signing_nonces', c) = s
      BY <3>1, <3>3, NoncesOfRow
    <3>5. published' = [published EXCEPT ![c] = @ \cup {s}]
      BY <1>2, <3>4, SentinelAssumption DEF StoreSigningNonces
    <3>6. /\ published'[c] = published[c] \cup {s}
          /\ \A d \in SignatureIds : d # c => published'[d] = published[d]
      BY <3>5 DEF StoreTypeOK
    <3>7. takes[s] = 0
      BY <3>1 DEF NonceInv, StoreTypeOK
    <3>8. \A r, q \in signing_nonces' : r.nonces = q.nonces /\ r.nonces # Used => r = q
      BY <3>1, <3>2 DEF NonceInv
    <3>9. \A r \in signing_nonces' : r.nonces # Used =>
             takes'[r.nonces] = 0 /\ r.nonces \in published'[r.sid]
      BY <3>1, <3>2, <3>6, <3>7 DEF NonceInv, StoreTypeOK, NonceRow
    <3>10. \A d \in SignatureIds : published'[d] \subseteq sampled'
      BY <3>1, <3>6 DEF NonceInv
    <3>11. \A d, e \in SignatureIds : d # e => published'[d] \cap published'[e] = {}
      BY <3>1, <3>6 DEF NonceInv
    <3>12. \A t \in Samples : takes'[t] > 0 =>
             takes'[t] = 1 /\ \E d \in SignatureIds : t \in published'[d]
      BY <3>1, <3>6 DEF NonceInv
    <3> QED BY <3>3, <3>8, <3>9, <3>10, <3>11, <3>12 DEF NonceInv
  <2> QED BY <2>1, <2>2
<1>3. ASSUME NEW c \in SignatureIds, TakeSigningNonces(c)
      PROVE  NonceInv'
  <2>1. UNCHANGED <<sampled, published>>
    BY <1>3 DEF TakeSigningNonces
  <2>2. \A q \in signing_nonces' : \E r \in signing_nonces :
           /\ q = [r EXCEPT !.nonces = IF r.sid = c THEN Used ELSE @]
           /\ q.sid = r.sid
           /\ q.nonces = IF r.sid = c THEN Used ELSE r.nonces
    BY <1>3 DEF TakeSigningNonces, StoreTypeOK, NonceRow
  <2>3. \A r, q \in signing_nonces' : r.sid = q.sid => r = q
    BY <2>2 DEF NonceInv
  <2>4. \A r, q \in signing_nonces' : r.nonces = q.nonces /\ r.nonces # Used => r = q
    BY <2>2 DEF NonceInv
  <2>5. \A t \in Samples : takes'[t] = IF t \in Available(signing_nonces, c)
                                       THEN takes[t] + 1 ELSE takes[t]
    BY <1>3 DEF TakeSigningNonces
  <2>6. \A t \in Available(signing_nonces, c) : takes[t] = 0 /\ t \in published[c]
    BY DEF Available, NonceInv
  <2>7. \A r \in signing_nonces : r.sid # c => r.nonces \notin Available(signing_nonces, c)
    BY DEF Available, NonceInv
  <2>8. \A r \in signing_nonces' : r.nonces # Used =>
           takes'[r.nonces] = 0 /\ r.nonces \in published'[r.sid]
    <3> SUFFICES ASSUME NEW q \in signing_nonces', q.nonces # Used
                 PROVE  takes'[q.nonces] = 0 /\ q.nonces \in published'[q.sid]
      OBVIOUS
    <3>1. PICK r \in signing_nonces : q.sid = r.sid /\ r.sid # c /\ q.nonces = r.nonces
      BY <2>2
    <3>2. r.nonces \in Samples
      BY <3>1 DEF StoreTypeOK, NonceRow
    <3> QED BY <3>1, <3>2, <2>1, <2>5, <2>7 DEF NonceInv
  <2>9. \A t \in Samples : takes'[t] > 0 =>
           takes'[t] = 1 /\ \E d \in SignatureIds : t \in published'[d]
    BY <2>1, <2>5, <2>6 DEF NonceInv
  <2> QED BY <2>1, <2>3, <2>4, <2>8, <2>9 DEF NonceInv
<1>4. ASSUME NEW b \in Blocks, NEW kept \in [Groups -> RetainedSecrets],
             ScheduleGroupSecretsDeletion(b, kept)
      PROVE  NonceInv'
  <2>1. UNCHANGED <<sampled, published, takes>>
    BY <1>4 DEF ScheduleGroupSecretsDeletion
  <2>2. CASE Accepts(b)
    <3> DEFINE nonces == Keeps(kept, {"All", "Nonces"})
    <3>1. signing_nonces' = ScheduleAbsentGroups(signing_nonces, b, nonces)
      BY <1>4, <2>2 DEF ScheduleGroupSecretsDeletion
    <3> HIDE DEF nonces
    <3>2. \A q \in signing_nonces' : \E r \in signing_nonces :
             q.sid = r.sid /\ q.nonces = r.nonces
      BY <3>1, ScheduleKeepsPairs DEF StoreTypeOK
    <3>3. /\ \A r, q \in signing_nonces' : r.sid = q.sid => r = q
          /\ \A r, q \in signing_nonces' : r.nonces = q.nonces /\ r.nonces # Used => r = q
      BY <3>1, ScheduleKeepsKeys DEF StoreTypeOK, NonceInv
    <3>4. \A q \in signing_nonces' : q.nonces # Used =>
             takes'[q.nonces] = 0 /\ q.nonces \in published'[q.sid]
      BY <2>1, <3>2 DEF NonceInv
    <3> QED BY <2>1, <3>3, <3>4 DEF NonceInv
  <2>3. CASE ~ Accepts(b)
    BY <1>4, <2>1, <2>3 DEF ScheduleGroupSecretsDeletion, NonceInv, tables
  <2> QED BY <2>2, <2>3
<1>5. ASSUME NEW b \in Blocks, PruneScheduledSecrets(b)
      PROVE  NonceInv'
  BY <1>5 DEF PruneScheduledSecrets, NonceInv, history
<1>6. CASE UNCHANGED storeVars
  BY <1>6 DEF storeVars, NonceInv
<1> QED BY <1>1, <1>2, <1>3, <1>4, <1>5, <1>6 DEF StoreNext

\* NonceInv holds in every reachable state of the store.
THEOREM NonceInvariant == StoreSpec => []NonceInv
<1>1. StoreInit => NonceInv
  BY DEF StoreInit, NonceInv
<1> QED BY <1>1, StoreTyped, NonceStep, PTL DEF StoreSpec

\* take_signing_nonces returns a pair at most once, however the effects that
\* call the store are ordered, repeated or interleaved with reconciliations.
THEOREM NonceUsedOnce == StoreSpec => []NonceTakenAtMostOnce
<1>1. StoreTypeOK /\ NonceInv => NonceTakenAtMostOnce
  BY DEF StoreTypeOK, NonceInv, NonceTakenAtMostOnce
<1> QED BY <1>1, StoreTyped, NonceInvariant, PTL

\* A pair that was handed out had its commitments returned first, and is in no
\* row of the table any more.
THEOREM TakenWasPublished == StoreSpec => []TakenPairWasPublished
<1>1. StoreTypeOK /\ NonceInv => TakenPairWasPublished
  BY SentinelAssumption DEF StoreTypeOK, NonceRow, NonceInv, TakenPairWasPublished
<1> QED BY <1>1, StoreTyped, NonceInvariant, PTL

-----------------------------------------------------------------------------
(* Scheduled deletions                                                      *)

\* One accepted reconciliation at block b moves a deadline and the absence of its
\* group together: the deadline stays between the absence and the new marker.
LEMMA CoalesceWithin ==
    ASSUME NEW b \in Blocks, NEW mark \in Blocks \cup {Null}, mark = Null \/ b >= mark,
           NEW d \in Blocks \cup {Null}, NEW since \in Blocks \cup {Null},
           d # Null => since # Null /\ mark # Null /\ since <= d /\ d <= mark,
           since # Null => mark # Null /\ since <= mark
    PROVE  /\ b # Null /\ Coalesce(since, b) # Null
           /\ Coalesce(since, b) <= Coalesce(d, b)
           /\ Coalesce(d, b) <= b
  BY BlocksAssumption, SentinelAssumption DEF Coalesce

\* The inductive step for the schedules of both tables.
LEMMA ScheduleStep ==
    StoreTypeOK /\ AbsenceInv /\ ScheduledSinceAbsent /\ [StoreNext]_storeVars
        => AbsenceInv' /\ ScheduledSinceAbsent'
<1> SUFFICES ASSUME StoreTypeOK, AbsenceInv, ScheduledSinceAbsent, [StoreNext]_storeVars
             PROVE  AbsenceInv' /\ ScheduledSinceAbsent'
  OBVIOUS
<1>1. ASSUME NEW g \in Groups, NEW s \in Samples, StoreKeygenSecrets(g, s)
      PROVE  AbsenceInv' /\ ScheduledSinceAbsent'
  <2>1. UNCHANGED <<signing_nonces, reconciliation, absent_since>>
    BY <1>1 DEF StoreKeygenSecrets, history
  <2>2. \A q \in keygen_secrets' : q.delete_at # Null =>
           \E r \in keygen_secrets : r.group = q.group /\ r.delete_at = q.delete_at
    BY <1>1 DEF StoreKeygenSecrets, StoreTypeOK, KeygenRow
  <2>3. \A q \in keygen_secrets' : Within(q.delete_at, absent_since[q.group].keygen)
    BY <2>2 DEF ScheduledSinceAbsent, Within
  <2> QED BY <2>1, <2>3 DEF AbsenceInv, ScheduledSinceAbsent, Within
<1>2. ASSUME NEW g \in Groups, NEW c \in SignatureIds, NEW s \in Samples,
             StoreSigningNonces(g, c, s)
      PROVE  AbsenceInv' /\ ScheduledSinceAbsent'
  <2>1. UNCHANGED <<keygen_secrets, reconciliation, absent_since>>
    BY <1>2 DEF StoreSigningNonces
  <2>2. \A q \in signing_nonces' : q \in signing_nonces \/ q.delete_at = Null
    BY <1>2 DEF StoreSigningNonces
  <2>3. \A q \in signing_nonces' : Within(q.delete_at, absent_since[q.group].nonces)
    BY <2>2 DEF ScheduledSinceAbsent, Within
  <2> QED BY <2>1, <2>3 DEF AbsenceInv, ScheduledSinceAbsent, Within
<1>3. ASSUME NEW c \in SignatureIds, TakeSigningNonces(c)
      PROVE  AbsenceInv' /\ ScheduledSinceAbsent'
  <2>1. UNCHANGED <<keygen_secrets, reconciliation, absent_since>>
    BY <1>3 DEF TakeSigningNonces
  <2>2. \A q \in signing_nonces' :
           \E r \in signing_nonces : r.group = q.group /\ r.delete_at = q.delete_at
    BY <1>3 DEF TakeSigningNonces, StoreTypeOK, NonceRow
  <2>3. \A q \in signing_nonces' : Within(q.delete_at, absent_since[q.group].nonces)
    BY <2>2 DEF ScheduledSinceAbsent
  <2> QED BY <2>1, <2>3 DEF AbsenceInv, ScheduledSinceAbsent, Within
<1>4. ASSUME NEW b \in Blocks, NEW kept \in [Groups -> RetainedSecrets],
             ScheduleGroupSecretsDeletion(b, kept)
      PROVE  AbsenceInv' /\ ScheduledSinceAbsent'
  <2>1. CASE Accepts(b)
    <3> DEFINE keygen == Keeps(kept, {"All"})
               nonces == Keeps(kept, {"All", "Nonces"})
    <3>1. /\ reconciliation' = b
          /\ keygen_secrets' = ScheduleAbsentGroups(keygen_secrets, b, keygen)
          /\ signing_nonces' = ScheduleAbsentGroups(signing_nonces, b, nonces)
          /\ \A g \in Groups :
                /\ absent_since'[g].keygen =
                      IF g \in keygen THEN Null ELSE Coalesce(absent_since[g].keygen, b)
                /\ absent_since'[g].nonces =
                      IF g \in nonces THEN Null ELSE Coalesce(absent_since[g].nonces, b)
      BY <1>4, <2>1 DEF ScheduleGroupSecretsDeletion
    <3> HIDE DEF keygen, nonces
    <3>2. \A q \in keygen_secrets' : \E r \in keygen_secrets :
             /\ q.group = r.group
             /\ q.delete_at = IF r.group \in keygen THEN Null ELSE Coalesce(r.delete_at, b)
      BY <3>1 DEF ScheduleAbsentGroups, StoreTypeOK, KeygenRow
    <3>3. \A q \in signing_nonces' : \E r \in signing_nonces :
             /\ q.group = r.group
             /\ q.delete_at = IF r.group \in nonces THEN Null ELSE Coalesce(r.delete_at, b)
      BY <3>1 DEF ScheduleAbsentGroups, StoreTypeOK, NonceRow
    <3>4. \A g \in Groups :
             /\ absent_since[g].keygen \in Blocks \cup {Null}
             /\ absent_since[g].nonces \in Blocks \cup {Null}
      BY DEF StoreTypeOK
    <3>5. AbsenceInv'
      <4> SUFFICES ASSUME NEW g \in Groups,
                          NEW since \in {absent_since'[g].keygen, absent_since'[g].nonces},
                          since # Null
                   PROVE  b # Null /\ since <= b
        BY <3>1 DEF AbsenceInv
      <4>1. PICK old \in {absent_since[g].keygen, absent_since[g].nonces} :
               since = Coalesce(old, b)
        BY <3>1
      <4>2. old \in Blocks \cup {Null}
        BY <3>4
      <4>3. old # Null => reconciliation # Null /\ old <= reconciliation
        BY DEF AbsenceInv
      <4> QED BY <2>1, <4>1, <4>2, <4>3, BlocksAssumption, SentinelAssumption
              DEF Coalesce, Accepts, StoreTypeOK
    <3>6. \A q \in keygen_secrets' : Within(q.delete_at, absent_since[q.group].keygen)'
      <4> SUFFICES ASSUME NEW q \in keygen_secrets'
                   PROVE  Within(q.delete_at, absent_since[q.group].keygen)'
        OBVIOUS
      <4>1. PICK r \in keygen_secrets :
               /\ q.group = r.group
               /\ q.delete_at = IF r.group \in keygen THEN Null ELSE Coalesce(r.delete_at, b)
        BY <3>2
      <4>2. r.group \in Groups /\ r.delete_at \in Blocks \cup {Null}
        BY DEF StoreTypeOK, KeygenRow
      <4>3. CASE r.group \in keygen
        BY <4>1, <4>3 DEF Within
      <4>4. CASE r.group \notin keygen
        <5> DEFINE since == absent_since[r.group].keygen
        <5>1. Within(r.delete_at, since) /\ since \in Blocks \cup {Null}
          BY <3>4, <4>2 DEF ScheduledSinceAbsent
        <5>2. since # Null => reconciliation # Null /\ since <= reconciliation
          BY <4>2 DEF AbsenceInv
        <5>3. absent_since'[q.group].keygen = Coalesce(since, b)
          BY <3>1, <4>1, <4>2, <4>4
        <5>4. q.delete_at = Coalesce(r.delete_at, b)
          BY <4>1, <4>4
        <5> HIDE DEF since
        <5>5. /\ b # Null /\ Coalesce(since, b) # Null
              /\ Coalesce(since, b) <= Coalesce(r.delete_at, b)
              /\ Coalesce(r.delete_at, b) <= b
          BY <2>1, <4>2, <5>1, <5>2, CoalesceWithin DEF Within, Accepts, StoreTypeOK
        <5> QED BY <3>1, <5>3, <5>4, <5>5 DEF Within
      <4> QED BY <4>3, <4>4
    <3>7. \A q \in signing_nonces' : Within(q.delete_at, absent_since[q.group].nonces)'
      <4> SUFFICES ASSUME NEW q \in signing_nonces'
                   PROVE  Within(q.delete_at, absent_since[q.group].nonces)'
        OBVIOUS
      <4>1. PICK r \in signing_nonces :
               /\ q.group = r.group
               /\ q.delete_at = IF r.group \in nonces THEN Null ELSE Coalesce(r.delete_at, b)
        BY <3>3
      <4>2. r.group \in Groups /\ r.delete_at \in Blocks \cup {Null}
        BY DEF StoreTypeOK, NonceRow
      <4>3. CASE r.group \in nonces
        BY <4>1, <4>3 DEF Within
      <4>4. CASE r.group \notin nonces
        <5> DEFINE since == absent_since[r.group].nonces
        <5>1. Within(r.delete_at, since) /\ since \in Blocks \cup {Null}
          BY <3>4, <4>2 DEF ScheduledSinceAbsent
        <5>2. since # Null => reconciliation # Null /\ since <= reconciliation
          BY <4>2 DEF AbsenceInv
        <5>3. absent_since'[q.group].nonces = Coalesce(since, b)
          BY <3>1, <4>1, <4>2, <4>4
        <5>4. q.delete_at = Coalesce(r.delete_at, b)
          BY <4>1, <4>4
        <5> HIDE DEF since
        <5>5. /\ b # Null /\ Coalesce(since, b) # Null
              /\ Coalesce(since, b) <= Coalesce(r.delete_at, b)
              /\ Coalesce(r.delete_at, b) <= b
          BY <2>1, <4>2, <5>1, <5>2, CoalesceWithin DEF Within, Accepts, StoreTypeOK
        <5> QED BY <3>1, <5>3, <5>4, <5>5 DEF Within
      <4> QED BY <4>3, <4>4
    <3> QED BY <3>5, <3>6, <3>7 DEF ScheduledSinceAbsent
  <2>2. CASE ~ Accepts(b)
    BY <1>4, <2>2 DEF ScheduleGroupSecretsDeletion, AbsenceInv, ScheduledSinceAbsent, tables, Within
  <2> QED BY <2>1, <2>2
<1>5. ASSUME NEW b \in Blocks, PruneScheduledSecrets(b)
      PROVE  AbsenceInv' /\ ScheduledSinceAbsent'
  BY <1>5 DEF PruneScheduledSecrets, AbsenceInv, ScheduledSinceAbsent, history, Within
<1>6. CASE UNCHANGED storeVars
  BY <1>6 DEF storeVars, AbsenceInv, ScheduledSinceAbsent, Within
<1> QED BY <1>1, <1>2, <1>3, <1>4, <1>5, <1>6 DEF StoreNext

\* A row is scheduled only while its group has been absent from every accepted
\* reconciliation since its deadline: collection never takes what the state
\* machine last asked to retain.
THEOREM ScheduledOnlyAbsent == StoreSpec => []ScheduledSinceAbsent
<1>1. StoreInit => AbsenceInv /\ ScheduledSinceAbsent
  BY DEF StoreInit, AbsenceInv, ScheduledSinceAbsent
<1> QED BY <1>1, StoreTyped, ScheduleStep, PTL DEF StoreSpec

-----------------------------------------------------------------------------
(* Deadlines                                                                *)

\* The primary key of keygen_secrets: store_keygen_secrets inserts a group once.
KeygenKeyInv == \A r, q \in keygen_secrets : r.group = q.group => r = q

\* The key survives every method of the store.
LEMMA KeygenKeyStep == StoreTypeOK /\ KeygenKeyInv /\ [StoreNext]_storeVars => KeygenKeyInv'
<1> SUFFICES ASSUME StoreTypeOK, KeygenKeyInv, [StoreNext]_storeVars PROVE KeygenKeyInv'
  OBVIOUS
<1>1. ASSUME NEW g \in Groups, NEW s \in Samples, StoreKeygenSecrets(g, s)
      PROVE  KeygenKeyInv'
  <2>1. CASE HasKeygen(keygen_secrets, g)
    <3>1. \A q \in keygen_secrets' : \E r \in keygen_secrets :
             q.group = r.group /\ q = [r EXCEPT !.delete_at = IF r.group = g THEN Null ELSE @]
      BY <1>1, <2>1 DEF StoreKeygenSecrets, StoreTypeOK, KeygenRow
    <3> QED BY <3>1 DEF KeygenKeyInv
  <2>2. CASE ~ HasKeygen(keygen_secrets, g)
    BY <1>1, <2>2 DEF StoreKeygenSecrets, HasKeygen, KeygenKeyInv
  <2> QED BY <2>1, <2>2
<1>2. ASSUME NEW b \in Blocks, NEW kept \in [Groups -> RetainedSecrets],
             ScheduleGroupSecretsDeletion(b, kept)
      PROVE  KeygenKeyInv'
  <2>1. CASE Accepts(b)
    <3> DEFINE keygen == Keeps(kept, {"All"})
    <3>1. keygen_secrets' = ScheduleAbsentGroups(keygen_secrets, b, keygen)
      BY <1>2, <2>1 DEF ScheduleGroupSecretsDeletion
    <3> HIDE DEF keygen
    <3>2. \A q \in keygen_secrets' : \E r \in keygen_secrets :
             /\ q.group = r.group
             /\ q = [r EXCEPT !.delete_at = IF r.group \in keygen THEN Null ELSE Coalesce(@, b)]
      BY <3>1 DEF ScheduleAbsentGroups, StoreTypeOK, KeygenRow
    <3> QED BY <3>2 DEF KeygenKeyInv
  <2>2. CASE ~ Accepts(b)
    BY <1>2, <2>2 DEF ScheduleGroupSecretsDeletion, KeygenKeyInv, tables
  <2> QED BY <2>1, <2>2
<1>3. CASE UNCHANGED keygen_secrets
  BY <1>3 DEF KeygenKeyInv
<1>4. ASSUME NEW b \in Blocks, PruneScheduledSecrets(b)
      PROVE  KeygenKeyInv'
  BY <1>4 DEF PruneScheduledSecrets, KeygenKeyInv
<1> QED BY <1>1, <1>2, <1>3, <1>4
        DEF StoreNext, storeVars, StoreSigningNonces, TakeSigningNonces

\* What DeadlineNeverMoved says of one step.
DeadlinesKept ==
    /\ \A r \in keygen_secrets, q \in keygen_secrets' :
          q.group = r.group /\ Null \notin {q.delete_at, r.delete_at}
             => q.delete_at = r.delete_at
    /\ \A r \in signing_nonces, q \in signing_nonces' :
          q.sid = r.sid /\ Null \notin {q.delete_at, r.delete_at}
             => q.delete_at = r.delete_at

\* With the keys of both tables, no method moves a deadline that is set: inserting
\* and rescheduling leave it or cancel it, and COALESCE prefers what is there.
LEMMA DeadlineStep ==
    StoreTypeOK /\ KeygenKeyInv /\ NonceInv /\ [StoreNext]_storeVars => DeadlinesKept
<1> SUFFICES ASSUME StoreTypeOK, KeygenKeyInv, NonceInv, [StoreNext]_storeVars
             PROVE  DeadlinesKept
  OBVIOUS
<1>1. ASSUME NEW g \in Groups, NEW s \in Samples, StoreKeygenSecrets(g, s)
      PROVE  DeadlinesKept
  <2>1. \A q \in keygen_secrets' : q.delete_at # Null =>
           \E r \in keygen_secrets : r.group = q.group /\ r.delete_at = q.delete_at
    BY <1>1 DEF StoreKeygenSecrets, StoreTypeOK, KeygenRow
  <2>2. UNCHANGED signing_nonces
    BY <1>1 DEF StoreKeygenSecrets
  <2> QED BY <2>1, <2>2 DEF DeadlinesKept, KeygenKeyInv, NonceInv
<1>2. ASSUME NEW g \in Groups, NEW c \in SignatureIds, NEW s \in Samples,
             StoreSigningNonces(g, c, s)
      PROVE  DeadlinesKept
  <2>1. \A q \in signing_nonces' : q \in signing_nonces \/ q.delete_at = Null
    BY <1>2 DEF StoreSigningNonces
  <2>2. UNCHANGED keygen_secrets
    BY <1>2 DEF StoreSigningNonces
  <2> QED BY <2>1, <2>2 DEF DeadlinesKept, KeygenKeyInv, NonceInv
<1>3. ASSUME NEW c \in SignatureIds, TakeSigningNonces(c)
      PROVE  DeadlinesKept
  <2>1. \A q \in signing_nonces' :
           \E r \in signing_nonces : r.sid = q.sid /\ r.delete_at = q.delete_at
    BY <1>3 DEF TakeSigningNonces, StoreTypeOK, NonceRow
  <2>2. UNCHANGED keygen_secrets
    BY <1>3 DEF TakeSigningNonces
  <2> QED BY <2>1, <2>2 DEF DeadlinesKept, KeygenKeyInv, NonceInv
<1>4. ASSUME NEW b \in Blocks, NEW kept \in [Groups -> RetainedSecrets],
             ScheduleGroupSecretsDeletion(b, kept)
      PROVE  DeadlinesKept
  <2>1. CASE Accepts(b)
    <3> DEFINE keygen == Keeps(kept, {"All"})
               nonces == Keeps(kept, {"All", "Nonces"})
    <3>1. /\ keygen_secrets' = ScheduleAbsentGroups(keygen_secrets, b, keygen)
          /\ signing_nonces' = ScheduleAbsentGroups(signing_nonces, b, nonces)
      BY <1>4, <2>1 DEF ScheduleGroupSecretsDeletion
    <3> HIDE DEF keygen, nonces
    <3>2. \A q \in keygen_secrets' : \E r \in keygen_secrets :
             /\ q.group = r.group
             /\ q.delete_at = IF r.group \in keygen THEN Null ELSE Coalesce(r.delete_at, b)
      BY <3>1 DEF ScheduleAbsentGroups, StoreTypeOK, KeygenRow
    <3>3. \A q \in signing_nonces' : \E r \in signing_nonces :
             /\ q.sid = r.sid
             /\ q.delete_at = IF r.group \in nonces THEN Null ELSE Coalesce(r.delete_at, b)
      BY <3>1 DEF ScheduleAbsentGroups, StoreTypeOK, NonceRow
    <3> QED BY <3>2, <3>3 DEF DeadlinesKept, KeygenKeyInv, NonceInv, Coalesce
  <2>2. CASE ~ Accepts(b)
    BY <1>4, <2>2 DEF ScheduleGroupSecretsDeletion, tables, DeadlinesKept, KeygenKeyInv, NonceInv
  <2> QED BY <2>1, <2>2
<1>5. ASSUME NEW b \in Blocks, PruneScheduledSecrets(b)
      PROVE  DeadlinesKept
  BY <1>5 DEF PruneScheduledSecrets, DeadlinesKept, KeygenKeyInv, NonceInv
<1>6. CASE UNCHANGED storeVars
  BY <1>6 DEF storeVars, DeadlinesKept, KeygenKeyInv, NonceInv
<1> QED BY <1>1, <1>2, <1>3, <1>4, <1>5, <1>6 DEF StoreNext

\* A deadline is cancelled or kept, never moved, so that secrets are deleted when they
\* were first due however often the group is found absent (the COALESCE of
\* schedule_absent_groups).
THEOREM DeadlinesStand == StoreSpec => DeadlineNeverMoved
<1>1. StoreInit => KeygenKeyInv
  BY DEF StoreInit, KeygenKeyInv
<1>2. StoreSpec => []KeygenKeyInv
  BY <1>1, StoreTyped, KeygenKeyStep, PTL DEF StoreSpec
<1>3. StoreTypeOK /\ KeygenKeyInv /\ NonceInv /\ [StoreNext]_storeVars => [DeadlinesKept]_storeVars
  BY DeadlineStep
<1>4. StoreSpec => [][DeadlinesKept]_storeVars
  BY <1>2, <1>3, StoreTyped, NonceInvariant, PTL DEF StoreSpec
<1> QED BY <1>4 DEF DeadlineNeverMoved, DeadlinesKept
=============================================================================
