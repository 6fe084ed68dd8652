------------------------- MODULE SigningReorgProofs -------------------------
(***************************************************************************)
(* Proofs about a validator that signs on a chain that reorgs, for any      *)
(* number of messages, ceremonies, blocks, reorgs, restarts and failures:   *)
(* it uses its store as SecretStore says it is used, so that what is proved *)
(* of the store holds here too; one nonce pair makes one share; shares are  *)
(* made only on branches on which the oracle approved; and a ceremony is    *)
(* signed for once unless the row of its nonces was collected.              *)
(***************************************************************************)
EXTENDS SigningReorg, SigningProofs, SecretStoreProofs, WellFoundedInduction, FiniteSetTheorems

-----------------------------------------------------------------------------
(* Effects, resumes and snapshots are in order                              *)

EffectOK(c) ==
    \/ \E sid \in CeremonyIds : c = [kind |-> "GenerateNonces", group |-> Group, sid |-> sid]
    \/ \E m \in Messages, sid \in CeremonyIds : c = UseNonces(m, sid)
    \/ c.kind = "Reconcile" /\ c.block \in Blocks

ResumeOK(r) ==
    \/ \E sid \in CeremonyIds, n \in Samples :
          r = [kind |-> "NonceCommitments", sid |-> sid, nonces |-> n]
    \/ \E m \in Messages, n \in Samples : r = [kind |-> "Nonces", message |-> m, nonces |-> n]

\* The state machine's state s fits the contracts' state c.
Fits(s, c) ==
    /\ s = [sign |-> s.sign, epoch |-> s.epoch, active |-> s.active]
    /\ c = [message_of |-> c.message_of, requests |-> c.requests, approved |-> c.approved,
            shares |-> c.shares, signed |-> c.signed, attested |-> c.attested]
    /\ c.message_of = [sid \in CeremonyIds |-> c.message_of[sid]]
    /\ \A sid \in CeremonyIds : c.message_of[sid] \in Messages \cup {NoMessage}
    /\ \A sid \in c.signed : sid \in CeremonyIds /\ c.message_of[sid] \in Messages
    /\ StateOK(s.sign, {Group}, Participants, c.approved)
    /\ Linked(s.sign, c.message_of)

BlocksOK ==
    /\ block \in 1..MaxBlock
    /\ due \in Blocks \cup {Null}
    /\ \A n \in DOMAIN past : n \in Nat /\ n < block

\* The state fits the branch: so does every snapshot its own.
BranchesOK ==
    /\ Fits(state, chain)
    /\ \A n \in DOMAIN past : Fits(past[n].state, past[n].chain)

EffectsOK == \A c \in BagToSet(effects) : EffectOK(c)
ResumesOK == \A r \in BagToSet(resumes) : ResumeOK(r)

ReorgInv == BlocksOK /\ BranchesOK /\ EffectsOK /\ ResumesOK

-----------------------------------------------------------------------------
(* Bags                                                                     *)

\* What is in the union of two bags, and in a difference.
LEMMA BagElements ==
    ASSUME NEW B, NEW C
    PROVE  /\ BagToSet(B (+) C) = BagToSet(B) \cup BagToSet(C)
           /\ BagToSet(B (-) C) \subseteq BagToSet(B)
  BY DEF BagToSet, (+), (-)

\* A bag made of a set has its elements.
LEMMA SetBagElements ==
    ASSUME NEW S
    PROVE  BagToSet(SetToBag(S)) = S
  BY DEF BagToSet, SetToBag

\* The empty bag has none.
LEMMA EmptyBagElements == BagToSet(EmptyBag) = {}
  BY DEF BagToSet, SetToBag, EmptyBag

-----------------------------------------------------------------------------
(* Effects that handlers ask for                                            *)

\* The driver runs what the handlers ask of the store.
LEMMA HandlerEffects ==
    ASSUME NEW commands, \A c \in commands : CommandOK(c, {Group}),
           NEW B, \A c \in BagToSet(B) : EffectOK(c)
    PROVE  \A c \in BagToSet(B (+) EffectsIn(commands)) : EffectOK(c)
<1> DEFINE S == {c \in commands : c.kind \in {"GenerateNonces", "UseNonces"}}
<1>1. \A c \in S : EffectOK(c)
  BY DEF CommandOK, EffectOK, UseNonces, Sign, Attest
<1>2. BagToSet(EffectsIn(commands)) = S
  BY SetBagElements DEF EffectsIn
<1> HIDE DEF S
<1> QED BY <1>1, <1>2, BagElements

-----------------------------------------------------------------------------
(* Nonces                                                                   *)

\* A pair on its way from the store to a share was taken once and has made no share
\* yet; a pair that made a share was taken and will not come again.
PairsInv ==
    /\ \A r \in BagToSet(resumes) : r.kind = "Nonces" =>
          /\ resumes[r] = 1 /\ takes[r.nonces] = 1
          /\ \A x \in shared : x.pair # r.nonces
    /\ \A r, q \in BagToSet(resumes) :
          r.kind = "Nonces" /\ q.kind = "Nonces" /\ r.nonces = q.nonces => r = q
    /\ \A x \in shared : x.pair \in Samples /\ takes[x.pair] = 1
    /\ NoncePairSignsOnce

-----------------------------------------------------------------------------
(* Steps of the driver                                                      *)

\* The block that housekeeping prunes to is a block.
LEMMA SafeBlock ==
    ASSUME NEW b \in 1..MaxBlock
    PROVE  Safe(b) \in Blocks /\ b \in Blocks
  BY HeightAssumption, ReorgDepthAssumption DEF Safe

\* Two fields of the state are set.
LEMMA StateFields ==
    ASSUME NEW s, s = [sign |-> s.sign, epoch |-> s.epoch, active |-> s.active], NEW x, NEW y
    PROVE  [s EXCEPT !.sign = x, !.active = y] = [sign |-> x, epoch |-> s.epoch, active |-> y]
<1> DEFINE u == [s EXCEPT !.sign = x]
<1>1. u = [sign |-> x, epoch |-> s.epoch, active |-> s.active]
  OBVIOUS
<1>2. [s EXCEPT !.sign = x, !.active = y] = [u EXCEPT !.active = y]
  OBVIOUS
<1> HIDE DEF u
<1>3. [u EXCEPT !.active = y] = [sign |-> x, epoch |-> s.epoch, active |-> y]
  BY <1>1
<1> QED BY <1>2, <1>3

\* The NewBlock transition: timeouts and rollovers keep the state in order, and the
\* effects it asks for are effects.
LEMMA NewBlockFits ==
    ASSUME NEW s, NEW c, Fits(s, c), NEW b \in 1..MaxBlock, NEW rolls
    PROVE  LET r == NewBlockOn(s, b, rolls) IN
           /\ Fits(r.state, c)
           /\ \A B : (\A x \in BagToSet(B) : EffectOK(x))
                        => \A x \in BagToSet(B (+) r.effects) : EffectOK(x)
<1> DEFINE timed == HandleSigningTimeouts(s.sign, Me, b)
           active == s.active /\ ~ rolls
           on == [s EXCEPT !.sign = timed.state, !.active = active]
           next == Reaped(on)
           r == NewBlockOn(s, b, rolls)
<1>1. ResultOK(timed, {Group}, Participants, c.approved) /\ Linked(timed.state, c.message_of)
  BY SigningTimeoutsOK, SigningTimeoutsLinked DEF Fits
<1>2. r = [state |-> next, effects |-> EffectsIn(timed.commands) (+) SetToBag({Reconcile(next, b)})]
  BY DEF NewBlockOn
<1> HIDE DEF timed, active
<1>3. on = [sign |-> timed.state, epoch |-> s.epoch, active |-> active]
  <2>1. s = [sign |-> s.sign, epoch |-> s.epoch, active |-> s.active]
    BY DEF Fits
  <2>2. \A x, y : [s EXCEPT !.sign = x, !.active = y]
                     = [sign |-> x, epoch |-> s.epoch, active |-> y]
    BY <2>1, StateFields
  <2> QED BY <2>2, Zenon
<1> HIDE DEF on
<1>4. next = [sign |-> timed.state, epoch |-> next.epoch, active |-> next.active]
  BY <1>3 DEF Reaped
<1>5. EffectOK(Reconcile(next, b))
  BY SafeBlock DEF EffectOK, Reconcile
<1> HIDE DEF next, r
<1>6. Fits(r.state, c)
  BY <1>1, <1>2, <1>4 DEF Fits, ResultOK
<1>7. \A x \in BagToSet(r.effects) : EffectOK(x)
  <2> DEFINE S == {x \in timed.commands : x.kind \in {"GenerateNonces", "UseNonces"}}
  <2>1. \A x \in S : EffectOK(x)
    BY <1>1 DEF ResultOK, CommandOK, EffectOK, UseNonces, Sign, Attest
  <2>2. BagToSet(EffectsIn(timed.commands)) = S
    BY SetBagElements DEF EffectsIn
  <2>3. BagToSet(SetToBag({Reconcile(next, b)})) = {Reconcile(next, b)}
    BY SetBagElements
  <2> HIDE DEF S
  <2>4. BagToSet(r.effects) = S \cup {Reconcile(next, b)}
    <3>1. BagToSet(r.effects) = BagToSet(EffectsIn(timed.commands))
                                   \cup BagToSet(SetToBag({Reconcile(next, b)}))
      BY <1>2, BagElements, Zenon
    <3> QED BY <2>2, <2>3, <3>1, Zenon
  <2> QED BY <1>5, <2>1, <2>4
<1>8. ASSUME NEW B, \A x \in BagToSet(B) : EffectOK(x)
      PROVE  \A x \in BagToSet(B (+) r.effects) : EffectOK(x)
  BY <1>7, <1>8, BagElements
<1> QED BY <1>6, <1>8 DEF r

\* Observing a block.
LEMMA ObserveInv ==
    ASSUME ReorgInv, NEW b \in 1..MaxBlock, NEW rolls, Observe(b, state, rolls)
    PROVE  Fits(state', chain) /\ EffectsOK' /\ block' = b /\ due' \in Blocks \cup {Null}
<1> DEFINE r == NewBlockOn(state, b, rolls)
<1>1. Fits(r.state, chain)
  BY NewBlockFits DEF ReorgInv, BranchesOK
<1>2. \A x \in BagToSet(effects (+) r.effects) : EffectOK(x)
  BY NewBlockFits DEF ReorgInv, BranchesOK, EffectsOK
<1>3. state' = r.state /\ effects' = effects (+) r.effects /\ block' = b /\ due' = Safe(b)
  BY DEF Observe
<1> HIDE DEF r
<1> QED BY <1>1, <1>2, <1>3, SafeBlock DEF EffectsOK

\* The next block: its predecessor's snapshot is the state and the branch at its end.
LEMMA NextBlockInv ==
    ASSUME ReorgInv, NextBlock
    PROVE  ReorgInv'
<1>1. PICK rolls \in BOOLEAN : Observe(block + 1, state, rolls)
  BY DEF NextBlock
<1>2. block + 1 \in 1..MaxBlock
  BY HeightAssumption DEF NextBlock, ReorgInv, BlocksOK
<1>3. Fits(state', chain) /\ EffectsOK' /\ block' = block + 1 /\ due' \in Blocks \cup {Null}
  BY <1>1, <1>2, ObserveInv
<1>4. UNCHANGED <<chain, resumes>>
  BY DEF NextBlock
<1>5. /\ \A n \in DOMAIN past' : n = block \/ n \in DOMAIN past
      /\ \A n \in DOMAIN past' :
            past'[n] = IF n = block THEN [state |-> state, chain |-> chain] ELSE past[n]
  BY DEF NextBlock
<1>6. \A n \in DOMAIN past' : Fits(past'[n].state, past'[n].chain)
  BY <1>5 DEF ReorgInv, BranchesOK
<1>7. BlocksOK'
  BY <1>2, <1>3, <1>5, HeightAssumption DEF ReorgInv, BlocksOK
<1> QED BY <1>3, <1>4, <1>6, <1>7 DEF ReorgInv, BranchesOK, ResumesOK

\* The first block after a rollback.
LEMMA ReplacementBlockInv ==
    ASSUME ReorgInv, ReplacementBlock
    PROVE  ReorgInv'
<1>1. PICK rolls \in BOOLEAN : Observe(block, state, rolls)
  BY DEF ReplacementBlock
<1>2. Fits(state', chain) /\ EffectsOK' /\ block' = block /\ due' \in Blocks \cup {Null}
  BY <1>1, ObserveInv DEF ReorgInv, BlocksOK
<1> QED BY <1>2 DEF ReplacementBlock, ReorgInv, BlocksOK, BranchesOK, ResumesOK

\* A rollback brings a snapshot back, the state with its branch.
LEMMA RollBackInv ==
    ASSUME ReorgInv, NEW n \in DOMAIN past, RollBack(n)
    PROVE  BlocksOK' /\ BranchesOK' /\ UNCHANGED <<storeVars, shared>>
<1>1. /\ \A k \in DOMAIN past' : k \in DOMAIN past /\ k <= n /\ past'[k] = past[k]
      /\ state' = past[n].state /\ chain' = past[n].chain /\ block' = n + 1 /\ due' = due
      /\ UNCHANGED <<storeVars, shared>>
  BY DEF RollBack
<1>2. BlocksOK'
  BY <1>1, HeightAssumption DEF ReorgInv, BlocksOK
<1>3. BranchesOK'
  BY <1>1 DEF ReorgInv, BranchesOK
<1> QED BY <1>1, <1>2, <1>3

\* Reorgs and restarts.
LEMMA RollsInv ==
    ASSUME ReorgInv, Reorg \/ Restart
    PROVE  ReorgInv'
<1>1. BlocksOK' /\ BranchesOK'
  BY RollBackInv DEF Reorg, Restart
<1>2. EffectsOK' /\ ResumesOK'
  <2>1. CASE Reorg
    BY <2>1 DEF Reorg, ReorgInv, EffectsOK, ResumesOK
  <2>2. CASE Restart
    BY <2>2, EmptyBagElements DEF Restart, EffectsOK, ResumesOK
  <2> QED BY <2>1, <2>2
<1> QED BY <1>1, <1>2 DEF ReorgInv

-----------------------------------------------------------------------------
(* Steps of effects and resumes                                             *)

\* A finished effect leaves, its resume comes.
LEMMA FinishInv ==
    ASSUME ReorgInv, NEW c, NEW S, \A r \in S : ResumeOK(r), Finish(c, S)
    PROVE  ReorgInv'
<1>1. /\ effects' = effects (-) SetToBag({c}) /\ resumes' = resumes (+) SetToBag(S)
      /\ UNCHANGED <<block, due, past, state, chain>>
  BY DEF Finish
<1>2. BagToSet(effects') \subseteq BagToSet(effects)
  BY <1>1, BagElements
<1>3. BagToSet(resumes') = BagToSet(resumes) \cup S
  BY <1>1, BagElements, SetBagElements
<1>4. EffectsOK' /\ ResumesOK'
  BY <1>2, <1>3 DEF ReorgInv, EffectsOK, ResumesOK
<1> QED BY <1>1, <1>4 DEF ReorgInv, BlocksOK, BranchesOK

\* What GenerateNonces did: the ceremony has a row, and the resume brings its pair.
LEMMA GenerateNoncesInv ==
    ASSUME ReorgInv, StoreTypeOK, NEW c \in BagToSet(effects), GenerateNoncesDone(c)
    PROVE  ReorgInv' /\ StoreNext
<1>1. c.sid \in CeremonyIds /\ c.group = Group
  BY DEF GenerateNoncesDone, ReorgInv, EffectsOK, EffectOK, UseNonces
<1>2. PICK sample \in Samples : StoreSigningNonces(c.group, c.sid, sample)
  BY DEF GenerateNoncesDone
<1>3. StoreNext
  BY <1>1, <1>2, IdsAssumption, GroupAssumption DEF StoreNext
<1>4. signing_nonces' \subseteq NonceRow
  BY <1>3, StoreTypeStep DEF StoreTypeOK
<1>5. HasNonces(signing_nonces', c.sid)
  <2> DEFINE row == [sid |-> c.sid, group |-> c.group, nonces |-> sample, delete_at |-> Null]
  <2>1. row.sid = c.sid
    OBVIOUS
  <2>2. \/ HasNonces(signing_nonces, c.sid) /\ signing_nonces' = signing_nonces
        \/ signing_nonces' = signing_nonces \cup {row}
    BY <1>2 DEF StoreSigningNonces
  <2> HIDE DEF row
  <2> QED BY <2>1, <2>2 DEF HasNonces
<1> DEFINE stored == NoncesOf(signing_nonces', c.sid)
           S == IF stored = Used THEN {}
                ELSE {[kind |-> "NonceCommitments", sid |-> c.sid, nonces |-> stored]}
<1>6. stored \in Samples \cup {Used}
  BY <1>4, <1>5 DEF NoncesOf, HasNonces, NonceRow
<1>7. Finish(c, S)
  BY DEF GenerateNoncesDone
<1>8. \A r \in S : ResumeOK(r)
  <2> HIDE DEF stored
  <2> QED BY <1>1, <1>6 DEF ResumeOK
<1> HIDE DEF S
<1> QED BY <1>3, <1>7, <1>8, FinishInv

\* What UseNonces did: a pair that is still there is taken.
LEMMA UseNoncesInv ==
    ASSUME ReorgInv, StoreTypeOK, NEW c \in BagToSet(effects), UseNoncesDone(c)
    PROVE  ReorgInv' /\ StoreNext
<1>1. c.sid \in CeremonyIds /\ c.message \in Messages
  BY DEF UseNoncesDone, ReorgInv, EffectsOK, EffectOK, UseNonces
<1>2. StoreNext
  BY <1>1, IdsAssumption DEF UseNoncesDone, StoreNext
<1>3. Available(signing_nonces, c.sid) \subseteq Samples
  BY DEF Available, StoreTypeOK, NonceRow
<1> DEFINE S == {[kind |-> "Nonces", message |-> c.message, nonces |-> n]
                    : n \in Available(signing_nonces, c.sid)}
<1>4. \A r \in S : ResumeOK(r)
  BY <1>1, <1>3 DEF ResumeOK
<1>5. Finish(c, S)
  BY DEF UseNoncesDone
<1> HIDE DEF S
<1> QED BY <1>2, <1>4, <1>5, FinishInv

\* A reconciliation schedules what is not retained.
LEMMA ReconcileInv ==
    ASSUME ReorgInv, NEW c \in BagToSet(effects), ReconcileDone(c)
    PROVE  ReorgInv' /\ StoreNext
<1>1. c.block \in Blocks
  BY DEF ReconcileDone, ReorgInv, EffectsOK, EffectOK, UseNonces
<1> DEFINE kept == [g \in Groups |-> IF c.retains THEN "Nonces" ELSE "Nothing"]
<1>2. kept \in [Groups -> RetainedSecrets] /\ ScheduleGroupSecretsDeletion(c.block, kept)
  BY DEF RetainedSecrets, ReconcileDone
<1> HIDE DEF kept
<1>3. StoreNext
  BY <1>1, <1>2 DEF StoreNext
<1>4. Finish(c, {})
  BY DEF ReconcileDone
<1> QED BY <1>3, <1>4, FinishInv

\* Failed effects, handled resumes and housekeeping.
LEMMA QuietStepsInv ==
    ASSUME ReorgInv, EffectFails \/ HandleResume \/ Housekeeping
    PROVE  ReorgInv' /\ [StoreNext]_storeVars
<1>1. CASE EffectFails
  <2>1. BagToSet(effects') \subseteq BagToSet(effects)
    BY <1>1, BagElements DEF EffectFails
  <2>2. UNCHANGED <<storeVars, block, due, past, state, chain, resumes>>
    BY <1>1 DEF EffectFails
  <2> QED BY <2>1, <2>2 DEF ReorgInv, BlocksOK, BranchesOK, EffectsOK, ResumesOK
<1>2. CASE HandleResume
  <2>1. BagToSet(resumes') \subseteq BagToSet(resumes)
    BY <1>2, BagElements DEF HandleResume
  <2>2. UNCHANGED <<storeVars, block, due, past, state, chain, effects>>
    BY <1>2 DEF HandleResume
  <2> QED BY <2>1, <2>2 DEF ReorgInv, BlocksOK, BranchesOK, EffectsOK, ResumesOK
<1>3. CASE Housekeeping
  <2>1. StoreNext
    BY <1>3 DEF Housekeeping, StoreNext, ReorgInv, BlocksOK
  <2>2. due' = Null /\ UNCHANGED <<block, past, state, chain, effects, resumes>>
    BY <1>3 DEF Housekeeping
  <2> QED BY <2>1, <2>2 DEF ReorgInv, BlocksOK, BranchesOK, EffectsOK, ResumesOK
<1> QED BY <1>1, <1>2, <1>3

-----------------------------------------------------------------------------
(* Steps of the chain                                                       *)

\* An event whose handler keeps the state fitting the contracts' next state.
LEMMA EmitInv ==
    ASSUME ReorgInv, NEW r, NEW next, Emit(r, next),
           Fits([sign |-> r.state, epoch |-> state.epoch, active |-> state.active], next),
           \A c \in r.commands : CommandOK(c, {Group})
    PROVE  ReorgInv' /\ UNCHANGED <<storeVars, resumes, shared>>
<1>1. /\ state' = [state EXCEPT !.sign = r.state]
      /\ effects' = effects (+) EffectsIn(r.commands)
      /\ chain' = next
      /\ UNCHANGED <<storeVars, block, due, past, resumes, shared>>
  BY DEF Emit
<1>2. state = [sign |-> state.sign, epoch |-> state.epoch, active |-> state.active]
  BY DEF ReorgInv, BranchesOK, Fits
<1>3. state' = [sign |-> r.state, epoch |-> state.epoch, active |-> state.active]
  <2>1. [state EXCEPT !.sign = r.state] =
           [sign |-> r.state, epoch |-> state.epoch, active |-> state.active]
    BY <1>2
  <2> QED BY <1>1, <2>1
<1>4. BranchesOK'
  BY <1>1, <1>3 DEF ReorgInv, BranchesOK
<1>5. EffectsOK'
  BY <1>1, HandlerEffects DEF ReorgInv, EffectsOK
<1> QED BY <1>1, <1>4, <1>5 DEF ReorgInv, BlocksOK, ResumesOK

\* The next signature id is a free one.
LEMMA NextIdUnassigned ==
    ASSUME Unassigned # {}
    PROVE  NextId \in CeremonyIds /\ chain.message_of[NextId] = NoMessage
<1> DEFINE R == {ss \in Nat \X Nat : ss[1] < ss[2]}
<1>1. Unassigned \subseteq Nat
  BY IdsAssumption DEF Unassigned
<1>2. PICK x \in Unassigned : \A y \in Unassigned : ~ (<<y, x>> \in R)
  <2>1. IsWellFoundedOn(R, Nat)
    BY NatLessThanWellFounded DEF OpToRel
  <2> HIDE DEF R
  <2> QED BY <1>1, <2>1, WFMin
<1>3. ASSUME NEW j \in Unassigned PROVE x <= j
  <2>1. x \in Nat /\ j \in Nat /\ ~ (<<j, x>> \in R)
    BY <1>1, <1>2
  <2> QED BY <2>1
<1>4. NextId \in Unassigned
  BY <1>2, <1>3 DEF NextId
<1> QED BY <1>4 DEF Unassigned

\* The parts of Fits that a handler and the contracts keep apart.
LEMMA FitsParts ==
    ASSUME NEW s, NEW e, NEW a, NEW c,
           c = [message_of |-> c.message_of, requests |-> c.requests, approved |-> c.approved,
                shares |-> c.shares, signed |-> c.signed, attested |-> c.attested],
           c.message_of = [sid \in CeremonyIds |-> c.message_of[sid]],
           \A sid \in CeremonyIds : c.message_of[sid] \in Messages \cup {NoMessage},
           \A sid \in c.signed : sid \in CeremonyIds /\ c.message_of[sid] \in Messages,
           StateOK(s, {Group}, Participants, c.approved),
           Linked(s, c.message_of)
    PROVE  Fits([sign |-> s, epoch |-> e, active |-> a], c)
  BY DEF Fits

\* The contracts' state with another message, other requests, approvals, shares,
\* signatures or attestations.
ChainShape(c) ==
    c = [message_of |-> c.message_of, requests |-> c.requests, approved |-> c.approved,
         shares |-> c.shares, signed |-> c.signed, attested |-> c.attested]

\* The coordinator gives the next id to a message.
LEMMA SignChain ==
    ASSUME NEW s, NEW c, Fits(s, c), NEW sid \in CeremonyIds, c.message_of[sid] = NoMessage,
           NEW m \in Messages, NEW d, ChainShape(d), d.approved = c.approved,
           d.signed = c.signed, d.message_of = [c.message_of EXCEPT ![sid] = m],
           NEW t, StateOK(t, {Group}, Participants, c.approved), Linked(t, c.message_of),
           NEW b, NEW e, NEW a
    PROVE  LET r == HandleSign(t, b, m, Group, sid) IN
           /\ Fits([sign |-> r.state, epoch |-> e, active |-> a], d)
           /\ \A x \in r.commands : CommandOK(x, {Group})
<1> DEFINE r == HandleSign(t, b, m, Group, sid)
           N == d.message_of
<1>1. /\ N[sid] = m /\ \A i \in CeremonyIds : i # sid => N[i] = c.message_of[i]
      /\ N = [i \in CeremonyIds |-> N[i]]
      /\ \A i \in CeremonyIds : N[i] \in Messages \cup {NoMessage}
      /\ \A i \in d.signed : i \in CeremonyIds /\ N[i] \in Messages
  BY DEF Fits
<1>2. ResultOK(r, {Group}, Participants, d.approved)
  BY SignOK
<1> HIDE DEF N
<1>3. Linked(r.state, N)
  BY <1>1, SignLinked
<1> HIDE DEF r
<1>4. Fits([sign |-> r.state, epoch |-> e, active |-> a], d)
  BY <1>1, <1>2, <1>3, FitsParts DEF ResultOK, ChainShape, N
<1> QED BY <1>2, <1>4 DEF ResultOK, r

\* Setting the requests and the approvals of the contracts' state leaves the rest alone.
LEMMA SetApproved ==
    ASSUME NEW c, ChainShape(c)
    PROVE  \A x, y :
              LET d == [c EXCEPT !.requests = x, !.approved = y] IN
              /\ ChainShape(d) /\ d.approved = y /\ d.signed = c.signed
              /\ d.message_of = c.message_of
<1> TAKE x, y
<1> DEFINE u == [c EXCEPT !.requests = x]
<1>1. /\ ChainShape(u) /\ u.signed = c.signed /\ u.message_of = c.message_of
  BY DEF ChainShape
<1>2. [c EXCEPT !.requests = x, !.approved = y] = [u EXCEPT !.approved = y]
  OBVIOUS
<1> HIDE DEF u
<1>3. LET d == [u EXCEPT !.approved = y] IN
      /\ ChainShape(d) /\ d.approved = y /\ d.signed = u.signed /\ d.message_of = u.message_of
  BY <1>1 DEF ChainShape
<1> QED BY <1>1, <1>2, <1>3, Zenon

\* TransactionProposed and the Sign that follows it.
LEMMA ProposedInv ==
    ASSUME ReorgInv, NEW m \in Messages, Proposed(m)
    PROVE  ReorgInv' /\ UNCHANGED <<storeVars, resumes, shared>>
<1> DEFINE opened == HandleTransactionProposed(state.sign, block, m, Group, Participants).state
           next == [chain EXCEPT !.message_of[NextId] = m, !.requests = @ \cup {m}]
           r == HandleSign(opened, block, m, Group, NextId)
<1>1. Fits(state, chain)
  BY DEF ReorgInv, BranchesOK
<1>2. NextId \in CeremonyIds /\ chain.message_of[NextId] = NoMessage
  BY NextIdUnassigned DEF Proposed
<1>3. StateOK(opened, {Group}, Participants, chain.approved)
  BY <1>1, TransactionProposedOK DEF Fits, ResultOK
<1>4. Linked(opened, chain.message_of)
  BY <1>1, TransactionProposedLinked DEF Fits, StateOK
<1>5. /\ ChainShape(next) /\ next.approved = chain.approved /\ next.signed = chain.signed
      /\ next.message_of = [chain.message_of EXCEPT ![NextId] = m]
  <2>1. ChainShape(chain)
    BY <1>1 DEF Fits, ChainShape
  <2> DEFINE u == [chain EXCEPT !.message_of[NextId] = m]
             more == chain.requests \cup {m}
  <2>2. /\ ChainShape(u) /\ u.approved = chain.approved /\ u.signed = chain.signed
        /\ u.message_of = [chain.message_of EXCEPT ![NextId] = m]
    BY <2>1 DEF ChainShape
  <2> HIDE DEF more
  <2>3. next = [u EXCEPT !.requests = more]
    BY DEF more
  <2> HIDE DEF u, next
  <2> QED BY <2>2, <2>3 DEF ChainShape
<1>6. Emit(r, next)
  BY DEF Proposed, Event
<1> HIDE DEF opened, next
<1>7. /\ Fits([sign |-> r.state, epoch |-> state.epoch, active |-> state.active], next)
      /\ \A x \in r.commands : CommandOK(x, {Group})
  BY <1>1, <1>2, <1>3, <1>4, <1>5, SignChain
<1> HIDE DEF r
<1> QED BY <1>6, <1>7, EmitInv

\* A Sign without a proposal.
LEMMA SignRequestedInv ==
    ASSUME ReorgInv, NEW m \in Messages, SignRequested(m)
    PROVE  ReorgInv' /\ UNCHANGED <<storeVars, resumes, shared>>
<1> DEFINE next == [chain EXCEPT !.message_of[NextId] = m]
           r == HandleSign(state.sign, block, m, Group, NextId)
<1>1. Fits(state, chain)
  BY DEF ReorgInv, BranchesOK
<1>2. NextId \in CeremonyIds /\ chain.message_of[NextId] = NoMessage
  BY NextIdUnassigned DEF SignRequested
<1>3. StateOK(state.sign, {Group}, Participants, chain.approved)
      /\ Linked(state.sign, chain.message_of)
  BY <1>1 DEF Fits
<1>4. /\ ChainShape(next) /\ next.approved = chain.approved /\ next.signed = chain.signed
      /\ next.message_of = [chain.message_of EXCEPT ![NextId] = m]
  BY <1>1, <1>2 DEF Fits, ChainShape
<1>5. Emit(r, next)
  BY DEF SignRequested, Event
<1> HIDE DEF next
<1>6. /\ Fits([sign |-> r.state, epoch |-> state.epoch, active |-> state.active], next)
      /\ \A x \in r.commands : CommandOK(x, {Group})
  BY <1>1, <1>2, <1>3, <1>4, SignChain
<1> HIDE DEF r
<1> QED BY <1>5, <1>6, EmitInv

\* The oracle's answer, which the contracts record as an approval.
LEMMA OracleResultInv ==
    ASSUME ReorgInv, NEW m \in Messages, NEW ok \in BOOLEAN, OracleResult(m, ok)
    PROVE  ReorgInv' /\ UNCHANGED <<storeVars, resumes, shared>>
<1> DEFINE A == IF ok THEN chain.approved \cup {m} ELSE chain.approved
           next == [chain EXCEPT !.requests = @ \ {m}, !.approved = A]
           r == HandleOracleResult(state.sign, block, m, ok)
<1>1. Fits(state, chain)
  BY DEF ReorgInv, BranchesOK
<1>2. ChainShape(next) /\ next.approved = A /\ next.signed = chain.signed
      /\ next.message_of = chain.message_of
  <2>1. ChainShape(chain)
    BY <1>1 DEF Fits, ChainShape
  <2>2. \A x, y :
           LET d == [chain EXCEPT !.requests = x, !.approved = y] IN
           /\ ChainShape(d) /\ d.approved = y /\ d.signed = chain.signed
           /\ d.message_of = chain.message_of
    BY <2>1, SetApproved
  <2> HIDE DEF A
  <2> QED BY <2>2, Zenon
<1>3. Emit(r, next)
  BY DEF OracleResult, Event
<1>4. StateOK(state.sign, {Group}, Participants, A)
  <2>1. chain.approved \subseteq A
    OBVIOUS
  <2> HIDE DEF A
  <2> QED BY <1>1, <2>1, ApprovalsGrow DEF Fits
<1>5. ok => m \in A
  OBVIOUS
<1> HIDE DEF A, next
<1>6. ResultOK(r, {Group}, Participants, A)
  BY <1>4, <1>5, OracleResultOK
<1>7. Linked(r.state, chain.message_of)
  BY <1>1, <1>4, OracleResultLinked DEF Fits
<1> HIDE DEF r
<1>8. Fits([sign |-> r.state, epoch |-> state.epoch, active |-> state.active], next)
  BY <1>1, <1>2, <1>6, <1>7, FitsParts DEF Fits, ResultOK, ChainShape
<1> QED BY <1>3, <1>6, <1>8, EmitInv DEF ResultOK

\* A commitment to nonces.
LEMMA CommittedInv ==
    ASSUME ReorgInv, NEW sid \in CeremonyIds, NEW p \in Participants, Committed(sid, p)
    PROVE  ReorgInv' /\ UNCHANGED <<storeVars, resumes, shared>>
<1>1. PICK nonces : Emit(HandleSignCommittedNonces(state.sign, block, sid, p, nonces), chain)
  BY DEF Committed, Event
<1> DEFINE r == HandleSignCommittedNonces(state.sign, block, sid, p, nonces)
<1>2. Fits(state, chain)
  BY DEF ReorgInv, BranchesOK
<1>3. ResultOK(r, {Group}, Participants, chain.approved)
  BY <1>2, SignCommittedNoncesOK DEF Fits
<1>4. Linked(r.state, chain.message_of)
  BY <1>2, SignCommittedNoncesLinked DEF Fits
<1> HIDE DEF r
<1>5. Fits([sign |-> r.state, epoch |-> state.epoch, active |-> state.active], chain)
  BY <1>2, <1>3, <1>4, FitsParts DEF Fits, ResultOK
<1>6. Emit(r, chain)
  BY <1>1 DEF r
<1> QED BY <1>3, <1>5, <1>6, EmitInv DEF ResultOK

\* An attestation.
LEMMA AttestedInv ==
    ASSUME ReorgInv, NEW sid \in CeremonyIds, Attested(sid)
    PROVE  ReorgInv' /\ UNCHANGED <<storeVars, resumes, shared>>
<1> DEFINE m == chain.message_of[sid]
           r == HandleSignAttested(state.sign, sid, m)
           done == chain.attested \cup {m}
           next == [chain EXCEPT !.attested = done]
<1>1. Fits(state, chain)
  BY DEF ReorgInv, BranchesOK
<1>2. m \in Messages
  BY <1>1 DEF Fits, Attested
<1>3. ChainShape(next) /\ next.approved = chain.approved /\ next.signed = chain.signed
      /\ next.message_of = chain.message_of
  <2>1. ChainShape(chain)
    BY <1>1 DEF Fits, ChainShape
  <2> HIDE DEF done
  <2> QED BY <2>1 DEF ChainShape
<1>4. Emit(r, next)
  BY DEF Attested
<1> HIDE DEF m, next
<1>5. ResultOK(r, {Group}, Participants, chain.approved)
  BY <1>1, <1>2, SignAttestedOK DEF Fits
<1>6. Linked(r.state, chain.message_of)
  BY <1>1, <1>2, SignAttestedLinked DEF Fits
<1> HIDE DEF r
<1>7. Fits([sign |-> r.state, epoch |-> state.epoch, active |-> state.active], next)
  BY <1>1, <1>3, <1>5, <1>6, FitsParts DEF Fits, ResultOK, ChainShape
<1> QED BY <1>4, <1>5, <1>7, EmitInv DEF ResultOK

\* Handlers that follow each other on one log.
LEMMA CompletedFits ==
    ASSUME NEW s, NEW c, StateOK(s, {Group}, Participants, c.approved),
           Linked(s, c.message_of), NEW b, NEW sid \in CeremonyIds, NEW m \in Messages
    PROVE  /\ LET r == HandleSignCompleted(s, b, sid) IN
              /\ ResultOK(r, {Group}, Participants, c.approved)
              /\ Linked(r.state, c.message_of)
           /\ LET r == HandleSignAttested(s, sid, m) IN
              /\ ResultOK(r, {Group}, Participants, c.approved)
              /\ Linked(r.state, c.message_of)
  BY SignCompletedOK, SignCompletedLinked, SignAttestedOK, SignAttestedLinked

\* A share, with the completion and the attestation that it may bring about.
LEMMA SharedInv ==
    ASSUME ReorgInv, NEW sid \in CeremonyIds, NEW p \in Participants, NEW callback \in BOOLEAN,
           Shared(sid, p, callback)
    PROVE  ReorgInv' /\ UNCHANGED <<storeVars, resumes, shared>>
<1>0. PICK root \in RootFor(sid) :
        LET m    == chain.message_of[sid]
            now  == {x.p : x \in {y \in chain.shares : y.sid = sid /\ y.root = root}} \cup {p}
            done == now = DOMAIN root /\ sid \notin chain.signed
            attests == done /\ callback
            next == [chain EXCEPT !.shares = @ \cup {[sid |-> sid, root |-> root, p |-> p]},
                                  !.signed = IF done THEN @ \cup {sid} ELSE @,
                                  !.attested = IF attests THEN @ \cup {m} ELSE @]
            r    == HandleSignShared(state.sign, sid, root, p)
            c    == IF done THEN HandleSignCompleted(r.state, block, sid) ELSE r
        IN  Event(IF attests THEN HandleSignAttested(c.state, sid, m) ELSE c, next)
  BY DEF Shared
<1> DEFINE m    == chain.message_of[sid]
           now  == {x.p : x \in {y \in chain.shares : y.sid = sid /\ y.root = root}} \cup {p}
           done == now = DOMAIN root /\ sid \notin chain.signed
           attests == done /\ callback
           shares  == chain.shares \cup {[sid |-> sid, root |-> root, p |-> p]}
           signed  == IF done THEN chain.signed \cup {sid} ELSE chain.signed
           attested == IF attests THEN chain.attested \cup {m} ELSE chain.attested
           next == [chain EXCEPT !.shares = shares, !.signed = signed, !.attested = attested]
           r    == HandleSignShared(state.sign, sid, root, p)
           c    == IF done THEN HandleSignCompleted(r.state, block, sid) ELSE r
           a    == IF attests THEN HandleSignAttested(c.state, sid, m) ELSE c
<1>1. Fits(state, chain)
  BY DEF ReorgInv, BranchesOK
<1>2. m \in Messages
  <2>1. Runs(state.sign, sid, "CollectSigningShares")
    BY DEF RootFor
  <2>2. state.sign.index[sid] \in Messages
    BY <1>1, <2>1, RunsSession DEF Fits, Ceremony
  <2> QED BY <1>1, <2>2, MarkersAssumption DEF Fits, Linked
<1>3. ChainShape(next) /\ next.approved = chain.approved /\ next.signed = signed
      /\ next.message_of = chain.message_of
  <2>1. ChainShape(chain)
    BY <1>1 DEF Fits, ChainShape
  <2> DEFINE u == [chain EXCEPT !.shares = shares]
             v == [u EXCEPT !.signed = signed]
  <2> HIDE DEF shares, signed, attested
  <2>2. ChainShape(u) /\ u.approved = chain.approved /\ u.message_of = chain.message_of
    BY <2>1 DEF ChainShape
  <2>3. next = [v EXCEPT !.attested = attested]
    OBVIOUS
  <2> HIDE DEF u, next
  <2>4. ChainShape(v) /\ v.approved = u.approved /\ v.signed = signed
        /\ v.message_of = u.message_of
    BY <2>2 DEF ChainShape
  <2> HIDE DEF v
  <2> QED BY <2>2, <2>3, <2>4 DEF ChainShape
<1>4. Emit(a, next)
  BY <1>0 DEF Event
<1>5. \A i \in signed : i \in CeremonyIds /\ chain.message_of[i] \in Messages
  BY <1>1, <1>2 DEF Fits
<1> HIDE DEF m, done, attests, next, signed
<1>6. ResultOK(r, {Group}, Participants, chain.approved) /\ Linked(r.state, chain.message_of)
  BY <1>1, SignSharedOK, SignSharedLinked DEF Fits
<1> HIDE DEF r
<1>7. ResultOK(c, {Group}, Participants, chain.approved) /\ Linked(c.state, chain.message_of)
  BY <1>2, <1>6, CompletedFits DEF ResultOK
<1> HIDE DEF c
<1>8. ResultOK(a, {Group}, Participants, chain.approved) /\ Linked(a.state, chain.message_of)
  BY <1>2, <1>7, CompletedFits DEF ResultOK
<1> HIDE DEF a
<1>9. Fits([sign |-> a.state, epoch |-> state.epoch, active |-> state.active], next)
  BY <1>1, <1>3, <1>5, <1>8, FitsParts DEF Fits, ResultOK, ChainShape
<1> QED BY <1>4, <1>8, <1>9, EmitInv DEF ResultOK

-----------------------------------------------------------------------------
(* The composed system                                                      *)

\* Every step keeps the invariant, and uses the store by its methods only.
LEMMA ReorgStep ==
    ASSUME ReorgInv, StoreTypeOK, [Next]_vars
    PROVE  ReorgInv' /\ [StoreNext]_storeVars
<1>1. CASE NextBlock \/ ReplacementBlock
  <2>1. UNCHANGED storeVars
    BY <1>1 DEF NextBlock, ReplacementBlock
  <2> QED BY <1>1, <2>1, NextBlockInv, ReplacementBlockInv
<1>2. CASE Reorg \/ Restart
  <2>1. UNCHANGED storeVars
    BY <1>2, RollBackInv DEF Reorg, Restart
  <2> QED BY <1>2, <2>1, RollsInv
<1>3. CASE EffectDone
  BY <1>3, GenerateNoncesInv, UseNoncesInv, ReconcileInv DEF EffectDone
<1>4. CASE EffectFails \/ HandleResume \/ Housekeeping
  BY <1>4, QuietStepsInv
<1>5. CASE ChainEvent
  BY <1>5, ProposedInv, SignRequestedInv, OracleResultInv, CommittedInv, SharedInv, AttestedInv
  DEF ChainEvent
<1>6. CASE UNCHANGED vars
  <2>1. UNCHANGED <<storeVars, block, due, past, state, chain, effects, resumes>>
    BY <1>6 DEF vars, reorgVars
  <2> QED BY <2>1 DEF ReorgInv, BlocksOK, BranchesOK, EffectsOK, ResumesOK
<1> QED BY <1>1, <1>2, <1>3, <1>4, <1>5, <1>6 DEF Next

\* The first state.
LEMMA ReorgInit == Init => ReorgInv /\ PairsInv
<1> SUFFICES ASSUME Init PROVE ReorgInv /\ PairsInv
  OBVIOUS
<1>1. BagToSet(effects) = {} /\ BagToSet(resumes) = {} /\ shared = {}
  BY EmptyBagElements DEF Init
<1>2. Fits(state, chain)
  <2>1. StateOK(NoSessions, {Group}, Participants, {})
    BY NoSessionsOK
  <2>2. Linked(NoSessions, [sid \in CeremonyIds |-> NoMessage])
    BY MarkersAssumption DEF Linked, IndexExact, NoSessions
  <2>3. /\ state.sign = NoSessions
        /\ state = [sign |-> state.sign, epoch |-> state.epoch, active |-> state.active]
        /\ chain = [message_of |-> [sid \in CeremonyIds |-> NoMessage],
                    requests |-> {}, approved |-> {}, shares |-> {}, signed |-> {},
                    attested |-> {}]
    BY DEF Init
  <2> HIDE DEF NoSessions
  <2> QED BY <2>1, <2>2, <2>3 DEF Fits
<1>3. DOMAIN past = {0} /\ past[0].state = state /\ past[0].chain = chain
  BY DEF Init
<1>4. BlocksOK
  BY <1>3, HeightAssumption DEF Init, BlocksOK
<1> QED BY <1>1, <1>2, <1>3, <1>4
        DEF ReorgInv, BranchesOK, EffectsOK, ResumesOK, PairsInv, NoncePairSignsOnce

\* Effects, resumes, snapshots and the live state stay in order, and the store its type.
THEOREM ReorgInvariant == Spec => []ReorgInv /\ []StoreTypeOK
<1>1. Init => ReorgInv /\ StoreTypeOK
  BY ReorgInit DEF Init, StoreInit, StoreTypeOK
<1>2. ReorgInv /\ StoreTypeOK /\ [Next]_vars => (ReorgInv /\ StoreTypeOK)'
  BY ReorgStep, StoreTypeStep
<1> QED BY <1>1, <1>2, PTL DEF Spec

\* The validator, with its reorgs, restarts and concurrent effects, uses the store as
\* StoreSpec allows: StoreSpec is implemented, and its theorems hold of the validator.
THEOREM StoreImplemented == Spec => StoreSpec
<1>1. Init => StoreInit
  BY DEF Init
<1>2. ReorgInv /\ StoreTypeOK /\ [Next]_vars => [StoreNext]_storeVars
  BY ReorgStep
<1> QED BY <1>1, <1>2, ReorgInvariant, PTL DEF Spec, StoreSpec

-----------------------------------------------------------------------------
(* One pair, one share                                                      *)

\* Counts after elements were added to a bag.
LEMMA BagAdd ==
    ASSUME NEW B, NEW S
    PROVE  LET D == B (+) SetToBag(S) IN
           /\ \A r \in BagToSet(D) : r \in BagToSet(B) \/ r \in S
           /\ \A r \in BagToSet(B) : r \notin S /\ B[r] = 1 => D[r] = 1
           /\ \A r \in S : r \notin BagToSet(B) => D[r] = 1
  BY DEF BagToSet, SetToBag, (+)

\* Counts after an element was removed: one that was there once is gone.
LEMMA BagRemove ==
    ASSUME NEW B, NEW r
    PROVE  LET D == B (-) SetToBag({r}) IN
           \A q \in BagToSet(D) : /\ q \in BagToSet(B)
                                  /\ q # r => D[q] = B[q]
                                  /\ q = r => B[r] # 1
  BY DEF BagToSet, SetToBag, (-)

\* Resumes other than nonces leave the pairs alone.
LEMMA OtherResumes ==
    ASSUME PairsInv, NEW S, \A r \in S : r.kind # "Nonces",
           resumes' = resumes (+) SetToBag(S), UNCHANGED <<takes, shared>>
    PROVE  PairsInv'
<1>1. \A r \in BagToSet(resumes') : r.kind = "Nonces" =>
         r \in BagToSet(resumes) /\ (resumes[r] = 1 => resumes'[r] = 1)
  BY BagAdd
<1> QED BY <1>1 DEF PairsInv, NoncePairSignsOnce

\* take_signing_nonces hands out a pair that is in no resume and in no share.
LEMMA TakePairs ==
    ASSUME ReorgInv, StoreTypeOK, NonceInv, PairsInv,
           NEW c \in BagToSet(effects), UseNoncesDone(c)
    PROVE  PairsInv'
<1> DEFINE got == Available(signing_nonces, c.sid)
           S == {[kind |-> "Nonces", message |-> c.message, nonces |-> n] : n \in got}
<1>1. got \subseteq Samples /\ \A n \in got : takes[n] = 0
  BY DEF Available, StoreTypeOK, NonceRow, NonceInv
<1>2. \A n \in Samples : takes'[n] = IF n \in got THEN takes[n] + 1 ELSE takes[n]
  BY DEF UseNoncesDone, TakeSigningNonces
<1>3. resumes' = resumes (+) SetToBag(S) /\ shared' = shared
  BY DEF UseNoncesDone, Finish
<1> HIDE DEF got
<1>4. \A r \in S : r.kind = "Nonces" /\ r.nonces \in got
  OBVIOUS
<1>5. \A r, q \in S : r.nonces = q.nonces => r = q
  OBVIOUS
<1> HIDE DEF S
<1>6. \A r \in BagToSet(resumes) : r.kind = "Nonces" =>
         r.nonces \in Samples /\ r.nonces \notin got
  BY <1>1 DEF PairsInv, ReorgInv, ResumesOK, ResumeOK
<1>7. \A x \in shared : x.pair \in Samples /\ x.pair \notin got
  BY <1>1 DEF PairsInv
<1>8. \A r \in BagToSet(resumes') : r.kind = "Nonces" =>
         \/ r \in BagToSet(resumes) /\ r \notin S /\ resumes'[r] = 1
         \/ r \in S /\ r \notin BagToSet(resumes) /\ resumes'[r] = 1
  <2> SUFFICES ASSUME NEW r \in BagToSet(resumes'), r.kind = "Nonces"
               PROVE  \/ r \in BagToSet(resumes) /\ r \notin S /\ resumes'[r] = 1
                      \/ r \in S /\ r \notin BagToSet(resumes) /\ resumes'[r] = 1
    OBVIOUS
  <2>1. CASE r \in S
    <3>1. r \notin BagToSet(resumes)
      BY <1>4, <1>6, <2>1
    <3> QED BY <1>3, <2>1, <3>1, BagAdd
  <2>2. CASE r \notin S
    <3>1. r \in BagToSet(resumes)
      BY <1>3, <2>2, BagAdd
    <3>2. resumes[r] = 1
      BY <3>1 DEF PairsInv
    <3> QED BY <1>3, <2>2, <3>1, <3>2, BagAdd
  <2> QED BY <2>1, <2>2
<1>9. ASSUME NEW r \in BagToSet(resumes'), r.kind = "Nonces"
      PROVE  resumes'[r] = 1 /\ takes'[r.nonces] = 1 /\ \A x \in shared' : x.pair # r.nonces
  <2>1. CASE r \in S
    <3>1. r.nonces \in got /\ takes'[r.nonces] = 0 + 1
      BY <1>1, <1>2, <1>4, <2>1
    <3> QED BY <1>3, <1>7, <1>8, <1>9, <2>1, <3>1
  <2>2. CASE r \in BagToSet(resumes)
    <3>1. takes'[r.nonces] = takes[r.nonces]
      BY <1>2, <1>6, <1>9, <2>2
    <3> QED BY <1>3, <1>8, <1>9, <2>2, <3>1 DEF PairsInv
  <2> QED BY <1>8, <1>9, <2>1, <2>2
<1>10. \A r, q \in BagToSet(resumes') :
          r.kind = "Nonces" /\ q.kind = "Nonces" /\ r.nonces = q.nonces => r = q
  BY <1>4, <1>5, <1>6, <1>8 DEF PairsInv
<1>11. \A x \in shared' : x.pair \in Samples /\ takes'[x.pair] = 1
  BY <1>2, <1>3, <1>7 DEF PairsInv
<1> QED BY <1>3, <1>9, <1>10, <1>11 DEF PairsInv, NoncePairSignsOnce

\* handle_nonces makes at most one share of a pair, of a message that is approved if it
\* needs to be.
LEMMA ShareMade ==
    ASSUME ReorgInv, NEW r \in BagToSet(resumes)
    PROVE  LET made == {c \in Resumed(state.sign, r).commands : c.kind = "SignShare"} IN
           /\ made # {} => r.kind = "Nonces"
           /\ \A c, d \in made : c = d
           /\ \A c \in made : c.message \in Transactions => c.message \in chain.approved
<1> DEFINE made == {c \in Resumed(state.sign, r).commands : c.kind = "SignShare"}
<1>1. CASE r.kind = "NonceCommitments"
  <2>1. made = {}
    BY <1>1 DEF Resumed, HandleNonceCommitments, Result, Ignored, CommitNonces
  <2> QED BY <2>1
<1>2. CASE r.kind = "Nonces"
  <2> DEFINE w == state.sign.signing[r.message]
             c == SignShare(r.message, w.sid, w.committed)
  <2>1. r.message \in Messages
    BY <1>2 DEF ReorgInv, ResumesOK, ResumeOK
  <2>2. made = {} \/ (made = {c} /\ w.stage = "CollectSigningShares")
    <3>1. Resumed(state.sign, r) = HandleNonces(state.sign, Me, r.message, r.nonces)
      BY <1>2 DEF Resumed
    <3>2. c.kind = "SignShare"
      BY DEF SignShare
    <3>3. \/ Resumed(state.sign, r).commands = {}
          \/ Resumed(state.sign, r).commands = {c} /\ w.stage = "CollectSigningShares"
      <4>1. \/ HandleNonces(state.sign, Me, r.message, r.nonces) = Ignored(state.sign)
            \/ /\ InStage(state.sign, r.message, "CollectSigningShares")
               /\ HandleNonces(state.sign, Me, r.message, r.nonces) = Result(state.sign, {c})
        BY DEF HandleNonces
      <4> HIDE DEF c
      <4> QED BY <3>1, <4>1 DEF Result, Ignored, InStage
    <3> HIDE DEF c
    <3> QED BY <3>2, <3>3
  <2>3. c.message = r.message
    BY DEF SignShare
  <2>4. w.stage = "CollectSigningShares" /\ r.message \in Transactions
           => r.message \in chain.approved
    BY DEF ReorgInv, BranchesOK, Fits, StateOK, Cleared
  <2> HIDE DEF made, c
  <2> QED BY <1>2, <2>2, <2>3, <2>4 DEF made
<1>3. r.kind \in {"NonceCommitments", "Nonces"}
  BY DEF ReorgInv, ResumesOK, ResumeOK
<1> QED BY <1>1, <1>2, <1>3

\* A handled resume is gone, and its pair is in the only share made of it.
LEMMA ResumePairs ==
    ASSUME ReorgInv, PairsInv, HandleResume
    PROVE  PairsInv'
<1>1. PICK r \in BagToSet(resumes) :
         LET made == {c \in Resumed(state.sign, r).commands : c.kind = "SignShare"}
         IN  /\ resumes' = resumes (-) SetToBag({r})
             /\ shared' = shared \cup
                    {[pair |-> r.nonces, sid |-> c.sid, message |-> c.message, root |-> c.root,
                      approved |-> c.message \in chain.approved] : c \in made}
  BY DEF HandleResume
<1> DEFINE made == {c \in Resumed(state.sign, r).commands : c.kind = "SignShare"}
           share(c) == [pair |-> r.nonces, sid |-> c.sid, message |-> c.message,
                        root |-> c.root, approved |-> c.message \in chain.approved]
           new == {share(c) : c \in made}
<1>2. (made # {} => r.kind = "Nonces") /\ \A c, d \in made : c = d
  BY ShareMade
<1>3. resumes' = resumes (-) SetToBag({r}) /\ shared' = shared \cup new /\ takes' = takes
  BY <1>1 DEF HandleResume, storeVars
<1>4. \A x \in new : x.pair = r.nonces
  OBVIOUS
<1> HIDE DEF made, share
<1>5. (new # {} => r.kind = "Nonces") /\ \A x, y \in new : x = y
  BY <1>2
<1> HIDE DEF new
<1>6. \A q \in BagToSet(resumes') : /\ q \in BagToSet(resumes)
                                    /\ q # r => resumes'[q] = resumes[q]
                                    /\ q = r => resumes[r] # 1
  <2> DEFINE D == resumes (-) SetToBag({r})
  <2>1. \A q \in BagToSet(D) : /\ q \in BagToSet(resumes)
                               /\ q # r => D[q] = resumes[q]
                               /\ q = r => resumes[r] # 1
    BY BagRemove
  <2>2. resumes' = D
    BY <1>3
  <2> HIDE DEF D
  <2> QED BY <2>1, <2>2
<1>7. r.kind = "Nonces" => r.nonces \in Samples /\ takes[r.nonces] = 1
                           /\ resumes[r] = 1 /\ \A x \in shared : x.pair # r.nonces
  BY DEF PairsInv, ReorgInv, ResumesOK, ResumeOK
<1>8. \A q \in BagToSet(resumes') : q.kind = "Nonces" => q # r
  BY <1>6, <1>7
<1>9. ASSUME NEW q \in BagToSet(resumes'), q.kind = "Nonces"
      PROVE  resumes'[q] = 1 /\ takes'[q.nonces] = 1 /\ \A x \in shared' : x.pair # q.nonces
  <2>1. q \in BagToSet(resumes) /\ q # r /\ resumes'[q] = 1 /\ takes'[q.nonces] = 1
        /\ \A x \in shared : x.pair # q.nonces
    BY <1>3, <1>6, <1>8, <1>9 DEF PairsInv
  <2>2. \A x \in new : x.pair # q.nonces
    BY <1>4, <1>5, <1>9, <2>1 DEF PairsInv
  <2> QED BY <1>3, <2>1, <2>2
<1>10. \A x \in shared' : x.pair \in Samples /\ takes'[x.pair] = 1
  BY <1>3, <1>4, <1>5, <1>7 DEF PairsInv
<1>11. NoncePairSignsOnce'
  BY <1>3, <1>4, <1>5, <1>7 DEF PairsInv, NoncePairSignsOnce
<1> QED BY <1>6, <1>9, <1>10, <1>11 DEF PairsInv

\* Pairs are kept apart by every step.
LEMMA PairsStep ==
    ASSUME ReorgInv, StoreTypeOK, NonceInv, PairsInv, [Next]_vars
    PROVE  PairsInv'
<1>1. CASE UNCHANGED <<takes, resumes, shared>>
  BY <1>1 DEF PairsInv, NoncePairSignsOnce
<1>2. CASE NextBlock \/ ReplacementBlock \/ Reorg \/ Housekeeping \/ EffectFails
  BY <1>1, <1>2 DEF NextBlock, ReplacementBlock, Reorg, RollBack, Housekeeping, EffectFails,
     PruneScheduledSecrets, storeVars, history
<1>3. CASE Restart
  <2>1. resumes' = EmptyBag /\ UNCHANGED <<takes, shared>>
    BY <1>3 DEF Restart, RollBack, storeVars
  <2> QED BY <2>1, EmptyBagElements DEF PairsInv, NoncePairSignsOnce
<1>4. ASSUME NEW c \in BagToSet(effects), GenerateNoncesDone(c)
      PROVE  PairsInv'
  <2> DEFINE stored == NoncesOf(signing_nonces', c.sid)
             S == IF stored = Used THEN {}
                  ELSE {[kind |-> "NonceCommitments", sid |-> c.sid, nonces |-> stored]}
  <2>1. takes' = takes /\ shared' = shared /\ resumes' = resumes (+) SetToBag(S)
    BY <1>4 DEF GenerateNoncesDone, StoreSigningNonces, Finish
  <2>2. \A r \in S : r.kind # "Nonces"
    <3> HIDE DEF stored
    <3> QED OBVIOUS
  <2> HIDE DEF S
  <2> QED BY <2>1, <2>2, OtherResumes
<1>5. ASSUME NEW c \in BagToSet(effects), ReconcileDone(c)
      PROVE  PairsInv'
  <2>1. takes' = takes /\ shared' = shared /\ resumes' = resumes (+) SetToBag({})
    BY <1>5 DEF ReconcileDone, ScheduleGroupSecretsDeletion, Finish
  <2> QED BY <2>1, OtherResumes
<1>6. CASE EffectDone
  BY <1>4, <1>5, <1>6, TakePairs DEF EffectDone
<1>7. CASE HandleResume
  BY <1>7, ResumePairs
<1>8. CASE ChainEvent
  <2>1. UNCHANGED <<storeVars, resumes, shared>>
    BY <1>8, ProposedInv, SignRequestedInv, OracleResultInv, CommittedInv, SharedInv,
       AttestedInv DEF ChainEvent
  <2> QED BY <1>1, <2>1 DEF storeVars
<1>9. CASE UNCHANGED vars
  BY <1>1, <1>9 DEF vars, reorgVars, storeVars
<1> QED BY <1>2, <1>3, <1>6, <1>7, <1>8, <1>9 DEF Next

\* One nonce pair makes at most one signature share, whatever is reorged, restarted,
\* delayed or repeated: take_signing_nonces hands a pair out once, and the resume that
\* carries it is handled once (EffectHandler, handle_nonces).
THEOREM PairSignsOnce == Spec => []NoncePairSignsOnce
<1>1. Spec => []NonceInv
  BY StoreImplemented, NonceInvariant
<1>2. Init => PairsInv
  BY ReorgInit
<1>3. ReorgInv /\ StoreTypeOK /\ NonceInv /\ PairsInv /\ [Next]_vars => PairsInv'
  BY PairsStep
<1>4. PairsInv => NoncePairSignsOnce
  BY DEF PairsInv
<1> QED BY <1>1, <1>2, <1>3, <1>4, ReorgInvariant, PTL DEF Spec

\* A share of a transaction is made only on a branch on which the oracle approved it,
\* however late the resume comes and whatever was rolled back in between: every snapshot
\* fits its own branch (the oracle's approval of handle_oracle_result).
THEOREM SharesApproved == Spec => []SharedOnlyApproved
<1>1. Init => SharedOnlyApproved
  BY DEF Init, SharedOnlyApproved
<1>2. ASSUME ReorgInv, SharedOnlyApproved, [Next]_vars
      PROVE  SharedOnlyApproved'
  <2>1. CASE UNCHANGED shared
    BY <1>2, <2>1 DEF SharedOnlyApproved
  <2>2. CASE HandleResume
    <3>1. PICK r \in BagToSet(resumes) :
             shared' = shared \cup
                    {[pair |-> r.nonces, sid |-> c.sid, message |-> c.message, root |-> c.root,
                      approved |-> c.message \in chain.approved] :
                         c \in {c \in Resumed(state.sign, r).commands : c.kind = "SignShare"}}
      BY <2>2 DEF HandleResume
    <3> DEFINE made == {c \in Resumed(state.sign, r).commands : c.kind = "SignShare"}
    <3>2. \A c \in made : c.message \in Transactions => c.message \in chain.approved
      BY <1>2, ShareMade
    <3>3. shared' = shared \cup
              {[pair |-> r.nonces, sid |-> c.sid, message |-> c.message, root |-> c.root,
                approved |-> c.message \in chain.approved] : c \in made}
      BY <3>1
    <3> HIDE DEF made
    <3>4. ASSUME NEW x \in shared', x.message \in Transactions
          PROVE  x.approved
      <4>1. CASE x \in shared
        BY <1>2, <3>4, <4>1 DEF SharedOnlyApproved
      <4>2. ASSUME NEW c \in made,
                   x = [pair |-> r.nonces, sid |-> c.sid, message |-> c.message,
                        root |-> c.root, approved |-> c.message \in chain.approved]
            PROVE  x.approved
        <5>1. x.message = c.message /\ x.approved = (c.message \in chain.approved)
          BY <4>2, Zenon
        <5> QED BY <3>2, <3>4, <5>1
      <4> QED BY <3>3, <4>1, <4>2
    <3> QED BY <3>4 DEF SharedOnlyApproved
  <2>3. CASE NextBlock \/ ReplacementBlock \/ Reorg \/ Restart \/ Housekeeping \/ EffectFails
    BY <2>1, <2>3 DEF NextBlock, ReplacementBlock, Reorg, Restart, RollBack, Housekeeping,
       EffectFails
  <2>4. CASE EffectDone
    BY <2>1, <2>4 DEF EffectDone, GenerateNoncesDone, UseNoncesDone, ReconcileDone, Finish
  <2>5. CASE ChainEvent
    <3>1. UNCHANGED shared
      BY <1>2, <2>5, ProposedInv, SignRequestedInv, OracleResultInv, CommittedInv, SharedInv,
         AttestedInv DEF ChainEvent
    <3> QED BY <2>1, <3>1
  <2>6. CASE UNCHANGED vars
    BY <2>1, <2>6 DEF vars, reorgVars
  <2> QED BY <1>2, <2>2, <2>3, <2>4, <2>5, <2>6 DEF Next
<1>3. ReorgInv /\ SharedOnlyApproved /\ [Next]_vars => SharedOnlyApproved'
  BY <1>2
<1> QED BY <1>1, <1>3, ReorgInvariant, PTL DEF Spec
-----------------------------------------------------------------------------
(* One share as long as the row is kept                                      *)
(*                                                                          *)
(* A share is made of a pair that was published for its ceremony, and pairs *)
(* are published one per row: a second one only after the row of the first  *)
(* one, with the mark that it was used, was collected. Nothing is assumed   *)
(* of the depth of reorgs and of how late or how often effects run.          *)

\* The session counts only such commitments of the validator as it published.
SessionSound(w, pub) ==
    \/ w = NoSession
    \/ Me \in DOMAIN w.committed => w.sid \in CeremonyIds /\ w.committed[Me] \in pub[w.sid]

Sound(s, pub) == \A m \in Messages : SessionSound(s.signing[m], pub)

\* handle_sign starts a session without commitments.
LEMMA SignSound ==
    ASSUME NEW s, StateShape(s), NEW pub, Sound(s, pub),
           NEW b, NEW m \in Messages, NEW g, NEW sid \in CeremonyIds
    PROVE  Sound(HandleSign(s, b, m, g, sid).state, pub)
<1> SUFFICES ASSUME NEW n \in Messages
             PROVE  SessionSound(HandleSign(s, b, m, g, sid).state.signing[n], pub)
  BY DEF Sound
<1>1. HandleSign(s, b, m, g, sid).state.signing[n] = AfterSign(s.signing[n], b, m, n, g, sid)
  BY SignSession
<1>2. SessionSound(s.signing[n], pub)
  BY DEF Sound
<1>3. SessionSound(AfterSign(s.signing[n], b, m, n, g, sid), pub)
  BY <1>2 DEF SessionSound, AfterSign, Running
<1> QED BY <1>1, <1>3

\* handle_oracle_result starts the collection of commitments, or ends the session.
LEMMA OracleSound ==
    ASSUME NEW G, NEW P, NEW A, NEW s, StateOK(s, G, P, A), NEW pub, Sound(s, pub),
           NEW b, NEW m \in Messages, NEW ok
    PROVE  Sound(HandleOracleResult(s, b, m, ok).state, pub)
<1> DEFINE w == s.signing[m]
           next == Running("CollectNonceCommitments", w, w.sid, w.signers, << >>,
                           b + SigningTimeout)
           t == SetSession(s, m, next)
           u == SetSession(s, m, NoSession)
<1>1. StateShape(s)
  BY DEF StateOK
<1>2. CASE ~ InStage(s, m, "WaitingForOracle")
  BY <1>2 DEF HandleOracleResult, Ignored, Result
<1>3. CASE InStage(s, m, "WaitingForOracle")
  <2>1. w # NoSession /\ w.sid \in CeremonyIds
    BY <1>3 DEF InStage, StateOK, Session
  <2>2. SessionSound(next, pub)
    BY <2>1 DEF Sound, SessionSound, Running
  <2>3. HandleOracleResult(s, b, m, ok).state \in {t, Unlink(u, w.sid)}
    BY <1>3 DEF HandleOracleResult, Ignored, Result
  <2> HIDE DEF next
  <2>4. /\ StateShape(t) /\ t.signing[m] = next
        /\ \A n \in Messages : n # m => t.signing[n] = s.signing[n]
    BY <1>1, SetSessionState
  <2>5. /\ StateShape(u) /\ u.signing[m] = NoSession
        /\ \A n \in Messages : n # m => u.signing[n] = s.signing[n]
    BY <1>1, SetSessionState
  <2> HIDE DEF t, u, w
  <2>6. Unlink(u, w.sid).signing = u.signing
    BY <2>1, <2>5, UnlinkState
  <2>7. Sound(t, pub)
    BY <2>2, <2>4 DEF Sound
  <2>8. Sound(Unlink(u, w.sid), pub)
    BY <2>5, <2>6 DEF Sound, SessionSound
  <2> QED BY <2>3, <2>7, <2>8
<1> QED BY <1>2, <1>3

\* handle_sign_committed_nonces counts a commitment that the validator published, if it is
\* one of its own.
LEMMA CommitmentSound ==
    ASSUME NEW s, StateShape(s), IndexExact(s), NEW pub, Sound(s, pub),
           NEW b, NEW sid \in CeremonyIds, NEW p, NEW nonces, p = Me => nonces \in pub[sid]
    PROVE  Sound(HandleSignCommittedNonces(s, b, sid, p, nonces).state, pub)
<1> SUFFICES ASSUME NEW n \in Messages
             PROVE  SessionSound(HandleSignCommittedNonces(s, b, sid, p, nonces).state.signing[n],
                                 pub)
  BY DEF Sound
<1> DEFINE w == s.signing[n]
           committed == FirstCommitment(w, p, nonces)
<1>1. HandleSignCommittedNonces(s, b, sid, p, nonces).state.signing[n]
         = AfterCommitment(w, b, sid, p, nonces)
  BY CommitmentSession
<1>2. SessionSound(w, pub)
  BY DEF Sound
<1>3. ASSUME HasSid(w, sid), Me \in DOMAIN committed
      PROVE  committed[Me] \in pub[sid]
  BY <1>2, <1>3 DEF FirstCommitment, Put, SessionSound, HasSid
<1> HIDE DEF w, committed
<1>4. SessionSound(AfterCommitment(w, b, sid, p, nonces), pub)
  <2>1. CASE ~ (HasSid(w, sid) /\ w.stage = "CollectNonceCommitments")
    BY <1>2, <2>1 DEF AfterCommitment
  <2>2. CASE HasSid(w, sid) /\ w.stage = "CollectNonceCommitments"
    <3>2. AfterCommitment(w, b, sid, p, nonces) =
             IF DOMAIN committed # w.signers THEN [w EXCEPT !.committed = committed]
             ELSE Running("CollectSigningShares", w, w.sid, w.signers, committed,
                          b + SigningTimeout)
      BY <2>2 DEF AfterCommitment, committed
    <3> DEFINE x == AfterCommitment(w, b, sid, p, nonces)
    <3>3. CASE DOMAIN committed = w.signers
      BY <1>3, <2>2, <3>2, <3>3 DEF SessionSound, Running, HasSid
    <3>4. CASE DOMAIN committed # w.signers
      <4>1. /\ x.sid = w.sid
            /\ x.committed = committed \/ x.committed = w.committed
        BY <3>2, <3>4
      <4> QED BY <1>2, <1>3, <2>2, <4>1 DEF SessionSound, HasSid
    <3> QED BY <3>3, <3>4
  <2> QED BY <2>1, <2>2
<1> QED BY <1>1, <1>4 DEF w

\* handle_sign_shared and handle_sign_completed add no commitment.
LEMMA ShareSound ==
    ASSUME NEW s, StateShape(s), IndexExact(s), NEW pub, Sound(s, pub),
           NEW b, NEW sid \in CeremonyIds, NEW root, NEW p
    PROVE  /\ Sound(HandleSignShared(s, sid, root, p).state, pub)
           /\ Sound(HandleSignCompleted(s, b, sid).state, pub)
<1> SUFFICES ASSUME NEW n \in Messages
             PROVE  /\ SessionSound(HandleSignShared(s, sid, root, p).state.signing[n], pub)
                    /\ SessionSound(HandleSignCompleted(s, b, sid).state.signing[n], pub)
  BY DEF Sound
<1> DEFINE w == s.signing[n]
<1>1. SessionSound(w, pub)
  BY DEF Sound
<1>2. HandleSignShared(s, sid, root, p).state.signing[n] = AfterShare(w, sid, root, p)
  BY ShareSession
<1>3. HandleSignCompleted(s, b, sid).state.signing[n] = AfterCompletion(w, b, sid)
  BY CompletionSession
<1> HIDE DEF w
<1>4. SessionSound(AfterShare(w, sid, root, p), pub)
  <2>1. \A y : [w EXCEPT !.selections = y].sid = w.sid
               /\ [w EXCEPT !.selections = y].committed = w.committed
    OBVIOUS
  <2> QED BY <1>1, <2>1 DEF AfterShare, SessionSound, HasSid
<1>5. SessionSound(AfterCompletion(w, b, sid), pub)
  BY <1>1 DEF AfterCompletion, SessionSound, HasSid, Running
<1> QED BY <1>2, <1>3, <1>4, <1>5

\* handle_sign_attested drops a session.
LEMMA AttestedSound ==
    ASSUME NEW G, NEW P, NEW A, NEW s, StateOK(s, G, P, A), NEW pub, Sound(s, pub),
           NEW sid, NEW m \in Messages
    PROVE  Sound(HandleSignAttested(s, sid, m).state, pub)
  BY AttestedSession DEF Sound, SessionSound

\* handle_signing_timeouts: those who go on do so with the commitments there are.
LEMMA TimeoutsSound ==
    ASSUME NEW G, NEW P, NEW A, NEW s, StateOK(s, G, P, A), NEW pub, Sound(s, pub),
           NEW b
    PROVE  Sound(HandleSigningTimeouts(s, Me, b).state, pub)
<1> SUFFICES ASSUME NEW n \in Messages
             PROVE  SessionSound(HandleSigningTimeouts(s, Me, b).state.signing[n], pub)
  BY DEF Sound
<1> DEFINE w == s.signing[n]
           x == Expire(Me, n, w, b).session
<1>1. HandleSigningTimeouts(s, Me, b).state.signing[n] = AfterDeadline(Me, n, w, b)
  BY DeadlineSession
<1>2. SessionSound(w, pub)
  BY DEF Sound
<1>3. w # NoSession => w.stage \in Stages
  BY DEF StateOK, Session
<1> HIDE DEF w
<1>4. w # NoSession => SessionSound(x, pub)
  <2> SUFFICES ASSUME w # NoSession PROVE SessionSound(x, pub)
    OBVIOUS
  <2>1. CASE w.stage = "WaitingForRequest"
    BY <1>2, <2>1 DEF Expire, ExpireRequest, Dropped, Moves, Request, SessionSound
  <2>2. CASE w.stage = "WaitingForOracle"
    BY <1>2, <2>2 DEF Expire, Dropped, Moves, SessionSound
  <2>3. CASE w.stage = "CollectNonceCommitments"
    BY <1>2, <2>3 DEF Expire, ExpireCommitments, Dropped, Moves, Running, SessionSound
  <2>4. CASE w.stage = "CollectSigningShares"
    BY <1>2, <2>4 DEF Expire, ExpireShares, Dropped, Moves, Request, SessionSound
  <2>5. CASE w.stage = "WaitingForAttestation"
    BY <1>2, <2>5 DEF Expire, ExpireAttestation, Moves, SessionSound
  <2> QED BY <1>3, <2>1, <2>2, <2>3, <2>4, <2>5 DEF Stages
<1>5. SessionSound(AfterDeadline(Me, n, w, b), pub)
  BY <1>2, <1>4 DEF AfterDeadline
<1> QED BY <1>1, <1>5

\* handle_transaction_proposed opens a session without commitments.
LEMMA ProposedSound ==
    ASSUME NEW s, StateShape(s), NEW pub, Sound(s, pub), NEW b, NEW m \in Messages,
           NEW g, NEW members
    PROVE  Sound(HandleTransactionProposed(s, b, m, g, members).state, pub)
<1> DEFINE w == Request(g, FALSE, NoOne, members, b + SigningTimeout)
<1>1. HandleTransactionProposed(s, b, m, g, members).state \in {s, SetSession(s, m, w)}
  BY DEF HandleTransactionProposed, Ignored, Result
<1>2. SessionSound(w, pub)
  BY DEF SessionSound, Request
<1> HIDE DEF w
<1>3. /\ SetSession(s, m, w).signing[m] = w
      /\ \A n \in Messages : n # m => SetSession(s, m, w).signing[n] = s.signing[n]
  BY SetSessionState
<1>4. Sound(SetSession(s, m, w), pub)
  BY <1>2, <1>3 DEF Sound
<1> QED BY <1>1, <1>4

\* A state stays sound when more pairs are published.
LEMMA SoundGrows ==
    ASSUME NEW s, NEW pub, NEW more,
           \A sid \in CeremonyIds : pub[sid] \subseteq more[sid], Sound(s, pub)
    PROVE  Sound(s, more)
  BY DEF Sound, SessionSound


\* The NewBlock transition, whose timeouts go on with the commitments there are.
LEMMA NewBlockSound ==
    ASSUME NEW s, NEW c, Fits(s, c), NEW b, NEW rolls, NEW pub, Sound(s.sign, pub)
    PROVE  Sound(NewBlockOn(s, b, rolls).state.sign, pub)
<1> DEFINE timed == HandleSigningTimeouts(s.sign, Me, b)
           active == s.active /\ ~ rolls
           on == [s EXCEPT !.sign = timed.state, !.active = active]
<1>1. Sound(timed.state, pub)
  BY TimeoutsSound DEF Fits
<1>2. NewBlockOn(s, b, rolls).state = Reaped(on)
  BY DEF NewBlockOn
<1> HIDE DEF timed, active
<1>3. on = [sign |-> timed.state, epoch |-> s.epoch, active |-> active]
  <2>1. s = [sign |-> s.sign, epoch |-> s.epoch, active |-> s.active]
    BY DEF Fits
  <2>2. \A x, y : [s EXCEPT !.sign = x, !.active = y]
                     = [sign |-> x, epoch |-> s.epoch, active |-> y]
    BY <2>1, StateFields
  <2> QED BY <2>2, Zenon
<1> HIDE DEF on
<1>4. Reaped(on).sign = timed.state
  BY <1>3 DEF Reaped
<1> QED BY <1>1, <1>2, <1>4

-----------------------------------------------------------------------------
(* The inductive invariant                                                  *)

\* The state and every snapshot are sound.
SoundOK ==
    /\ Sound(state.sign, published)
    /\ \A n \in DOMAIN past : Sound(past[n].state.sign, published)

\* A ceremony was given a pair for the row that it has, and one for every row of it that
\* was collected.
PairsOK(sid) ==
    /\ collections[sid] \in Nat /\ IsFiniteSet(published[sid])
    /\ Cardinality(published[sid]) <= collections[sid] + 1
    /\ ~ HasNonces(signing_nonces, sid) => Cardinality(published[sid]) <= collections[sid]

\* A share is made of a pair that was published for its ceremony.
SharesOK == \A x \in shared : x.sid \in CeremonyIds /\ x.pair \in published[x.sid]

RowInv == SoundOK /\ (\A sid \in CeremonyIds : PairsOK(sid)) /\ SharesOK

\* What the state machine's state is made of.
LEMMA SessionIds ==
    ASSUME NEW s, NEW c, Fits(s, c)
    PROVE  StateOK(s.sign, {Group}, Participants, c.approved) /\ StateShape(s.sign)
           /\ IndexExact(s.sign)
  BY DEF Fits, StateOK, Linked

\* A step that leaves the store, the counts and the shares alone.
LEMMA StoreQuiet ==
    ASSUME RowInv, UNCHANGED <<storeVars, shared, collections>>
    PROVE  (\A sid \in CeremonyIds : PairsOK(sid)') /\ SharesOK' /\ published' = published
  BY DEF RowInv, PairsOK, SharesOK, storeVars

\* Blocks, reorgs and restarts.
LEMMA BlocksRow ==
    ASSUME ReorgInv, RowInv, NextBlock \/ ReplacementBlock \/ Reorg \/ Restart
    PROVE  RowInv'
<1>1. UNCHANGED <<storeVars, shared, collections>>
  BY DEF NextBlock, ReplacementBlock, Reorg, Restart, RollBack
<1>2. (\A sid \in CeremonyIds : PairsOK(sid)') /\ SharesOK' /\ published' = published
  BY <1>1, StoreQuiet
<1>3. ASSUME NEW b, NEW rolls, Observe(b, state, rolls)
      PROVE  Sound(state'.sign, published)
  <2>1. state' = NewBlockOn(state, b, rolls).state
    BY <1>3 DEF Observe
  <2>2. Sound(NewBlockOn(state, b, rolls).state.sign, published)
    BY NewBlockSound DEF ReorgInv, BranchesOK, RowInv, SoundOK
  <2> QED BY <2>1, <2>2
<1>4. CASE NextBlock
  <2>1. Sound(state'.sign, published)
    BY <1>3, <1>4 DEF NextBlock
  <2>2. \A n \in DOMAIN past' :
           past'[n].state = state \/ (n \in DOMAIN past /\ past'[n] = past[n])
    BY <1>4 DEF NextBlock
  <2> QED BY <1>2, <2>1, <2>2 DEF RowInv, SoundOK
<1>5. CASE ReplacementBlock
  <2>1. Sound(state'.sign, published) /\ past' = past
    BY <1>3, <1>5 DEF ReplacementBlock
  <2> QED BY <1>2, <2>1 DEF RowInv, SoundOK
<1>6. CASE Reorg \/ Restart
  <2>1. PICK n \in DOMAIN past : RollBack(n)
    BY <1>6 DEF Reorg, Restart
  <2>2. /\ state' = past[n].state
        /\ \A k \in DOMAIN past' : k \in DOMAIN past /\ past'[k] = past[k]
    BY <2>1 DEF RollBack
  <2> QED BY <1>2, <2>2 DEF RowInv, SoundOK
<1> QED BY <1>4, <1>5, <1>6

\* Housekeeping: a row that goes is counted.
LEMMA HousekeepingRow ==
    ASSUME RowInv, Housekeeping
    PROVE  RowInv'
<1>1. /\ UNCHANGED <<state, past, shared, published>>
      /\ collections' = [sid \in CeremonyIds |->
             collections[sid] + IF HasNonces(signing_nonces, sid) /\ ~ HasNonces(signing_nonces', sid)
                                THEN 1 ELSE 0]
      /\ signing_nonces' \subseteq signing_nonces
  BY DEF Housekeeping, PruneScheduledSecrets, history
<1>2. ASSUME NEW sid \in CeremonyIds PROVE PairsOK(sid)'
  <2> DEFINE had == HasNonces(signing_nonces, sid)
             has == HasNonces(signing_nonces', sid)
  <2>1. collections'[sid] = collections[sid] + IF had /\ ~ has THEN 1 ELSE 0
    BY <1>1
  <2>2. PairsOK(sid)
    BY DEF RowInv
  <2>3. Cardinality(published[sid]) \in Nat
    BY <2>2, FS_CardinalityType DEF PairsOK
  <2> QED BY <1>1, <2>1, <2>2, <2>3 DEF PairsOK
<1> QED BY <1>1, <1>2 DEF RowInv, SoundOK, SharesOK

-----------------------------------------------------------------------------
(* Steps of effects and resumes                                             *)

\* store_signing_nonces publishes a pair that was published before, or the first one of a
\* ceremony without a row.
LEMMA GenerateStored ==
    ASSUME StoreTypeOK, NonceInv, NEW g, NEW sid \in CeremonyIds, NEW sample \in Samples,
           StoreSigningNonces(g, sid, sample)
    PROVE  /\ \A i \in CeremonyIds : published[i] \subseteq published'[i]
           /\ \A i \in CeremonyIds : HasNonces(signing_nonces, i) => HasNonces(signing_nonces', i)
           /\ \A i \in CeremonyIds :
                 \/ published'[i] = published[i]
                 \/ /\ ~ HasNonces(signing_nonces, i) /\ HasNonces(signing_nonces', i)
                    /\ published'[i] = published[i] \cup {sample}
<1> DEFINE row == [sid |-> sid, group |-> g, nonces |-> sample, delete_at |-> Null]
           stored == NoncesOf(signing_nonces', sid)
<1>1. published \in [CeremonyIds -> SUBSET Samples]
  BY IdsAssumption DEF StoreTypeOK
<1>2. published' = IF stored = Used THEN published
                   ELSE [published EXCEPT ![sid] = published[sid] \cup {stored}]
  BY DEF StoreSigningNonces
<1>3. row.sid = sid /\ row.nonces = sample 
  OBVIOUS
<1>4. CASE HasNonces(signing_nonces, sid)
  <2>1. signing_nonces' = signing_nonces
    BY <1>4 DEF StoreSigningNonces
  <2>2. stored # Used => stored \in published[sid]
    BY <1>4, <2>1 DEF NonceInv, NoncesOf, HasNonces
  <2> HIDE DEF stored
  <2>3. \A i \in CeremonyIds : published'[i] = published[i]
    BY <1>1, <1>2, <2>2
  <2> QED BY <2>1, <2>3
<1>5. CASE ~ HasNonces(signing_nonces, sid)
  <2>1. signing_nonces' = signing_nonces \cup {row}
    BY <1>5 DEF StoreSigningNonces
  <2> HIDE DEF row
  <2>2. stored = sample
    BY <1>3, <1>5, <2>1 DEF HasNonces, NoncesOf
  <2> HIDE DEF stored
  <2>3. \A i \in CeremonyIds :
           published'[i] = IF i = sid THEN published[i] \cup {sample} ELSE published[i]
    BY <1>1, <1>2, <2>2, SentinelAssumption
  <2>4. \A i : HasNonces(signing_nonces, i) => HasNonces(signing_nonces', i)
    BY <2>1 DEF HasNonces
  <2>5. HasNonces(signing_nonces', sid)
    BY <1>3, <2>1 DEF HasNonces
  <2> QED BY <1>3, <1>5, <2>1, <2>3, <2>4, <2>5
<1> QED BY <1>4, <1>5

\* A ceremony without a row gets one more pair, and a row.
LEMMA GenerateNoncesRow ==
    ASSUME ReorgInv, StoreTypeOK, NonceInv, RowInv, NEW c \in BagToSet(effects),
           GenerateNoncesDone(c)
    PROVE  RowInv'
<1>1. c.sid \in CeremonyIds
  BY DEF GenerateNoncesDone, ReorgInv, EffectsOK, EffectOK, UseNonces
<1>2. PICK sample \in Samples : StoreSigningNonces(c.group, c.sid, sample)
  BY DEF GenerateNoncesDone
<1>3. /\ \A i \in CeremonyIds : published[i] \subseteq published'[i]
      /\ \A i \in CeremonyIds : HasNonces(signing_nonces, i) => HasNonces(signing_nonces', i)
      /\ \A i \in CeremonyIds :
            \/ published'[i] = published[i]
            \/ /\ ~ HasNonces(signing_nonces, i) /\ HasNonces(signing_nonces', i)
               /\ published'[i] = published[i] \cup {sample}
  BY <1>1, <1>2, GenerateStored
<1>4. UNCHANGED <<state, past, shared, collections>>
  BY DEF GenerateNoncesDone, Finish
<1>5. ASSUME NEW i \in CeremonyIds PROVE PairsOK(i)'
  <2>1. PairsOK(i)
    BY DEF RowInv
  <2>2. CASE published'[i] = published[i]
    BY <1>3, <1>4, <2>1, <2>2 DEF PairsOK
  <2>3. CASE /\ ~ HasNonces(signing_nonces, i) /\ HasNonces(signing_nonces', i)
             /\ published'[i] = published[i] \cup {sample}
    <3>1. /\ IsFiniteSet(published[i] \cup {sample})
          /\ Cardinality(published[i] \cup {sample}) <= Cardinality(published[i]) + 1
          /\ Cardinality(published[i]) \in Nat
          /\ Cardinality(published[i] \cup {sample}) \in Nat
      <4>1. IsFiniteSet(published[i])
        BY <2>1 DEF PairsOK
      <4>2. /\ IsFiniteSet(published[i] \cup {sample})
            /\ Cardinality(published[i] \cup {sample}) =
                  IF sample \in published[i] THEN Cardinality(published[i])
                  ELSE Cardinality(published[i]) + 1
        BY <4>1, FS_AddElement, Zenon
      <4>3. Cardinality(published[i]) \in Nat /\ Cardinality(published[i] \cup {sample}) \in Nat
        BY <4>1, <4>2, FS_CardinalityType
      <4> QED BY <4>2, <4>3
    <3> QED BY <1>4, <2>1, <2>3, <3>1 DEF PairsOK
  <2> QED BY <1>3, <2>2, <2>3
<1>6. SoundOK'
  BY <1>3, <1>4, SoundGrows DEF RowInv, SoundOK
<1>7. SharesOK'
  BY <1>3, <1>4 DEF RowInv, SharesOK
<1> QED BY <1>5, <1>6, <1>7 DEF RowInv

\* take_signing_nonces and schedule_group_secrets_deletion keep the rows' ids.
LEMMA RowsStay ==
    ASSUME StoreTypeOK, NEW c \in BagToSet(effects), UseNoncesDone(c) \/ ReconcileDone(c)
    PROVE  /\ \A i : HasNonces(signing_nonces, i) => HasNonces(signing_nonces', i)
           /\ published' = published
<1>1. CASE UseNoncesDone(c)
  <2> DEFINE taken(r) == [r EXCEPT !.nonces = IF r.sid = c.sid THEN Used ELSE @]
  <2>1. published' = published /\ signing_nonces' = {taken(r) : r \in signing_nonces}
    BY <1>1 DEF UseNoncesDone, TakeSigningNonces
  <2>2. \A r \in signing_nonces : taken(r).sid = r.sid
    BY DEF StoreTypeOK, NonceRow
  <2> HIDE DEF taken
  <2> QED BY <2>1, <2>2 DEF HasNonces
<1>2. CASE ReconcileDone(c)
  <2>1. PICK keep : ScheduleGroupSecretsDeletion(c.block, keep)
    BY <1>2 DEF ReconcileDone
  <2> DEFINE nonces == Keeps(keep, {"All", "Nonces"})
             at(r) == IF r.group \in nonces THEN Null ELSE Coalesce(r.delete_at, c.block)
             scheduled(r) == [r EXCEPT !.delete_at = at(r)]
  <2>2. /\ published' = published
        /\ \/ signing_nonces' = signing_nonces
           \/ signing_nonces' = ScheduleAbsentGroups(signing_nonces, c.block, nonces)
    BY <2>1 DEF ScheduleGroupSecretsDeletion, tables
  <2> HIDE DEF nonces
  <2>3. signing_nonces' = signing_nonces \/ signing_nonces' = {scheduled(r) : r \in signing_nonces}
    BY <2>2 DEF ScheduleAbsentGroups
  <2>4. \A r \in signing_nonces : scheduled(r).sid = r.sid
    BY DEF StoreTypeOK, NonceRow
  <2> HIDE DEF scheduled
  <2> QED BY <2>2, <2>3, <2>4 DEF HasNonces
<1> QED BY <1>1, <1>2

\* Nonces are taken and groups reconciled.
LEMMA RowsStayRow ==
    ASSUME StoreTypeOK, RowInv, NEW c \in BagToSet(effects), UseNoncesDone(c) \/ ReconcileDone(c)
    PROVE  RowInv'
<1>1. /\ \A i : HasNonces(signing_nonces, i) => HasNonces(signing_nonces', i)
      /\ published' = published
  BY RowsStay
<1>2. UNCHANGED <<state, past, shared, collections>>
  BY DEF UseNoncesDone, ReconcileDone, Finish
<1> QED BY <1>1, <1>2 DEF RowInv, SoundOK, PairsOK, SharesOK

\* A share is made of the pair that the validator committed to in a session: one that was
\* published for its ceremony.
LEMMA ShareSource ==
    ASSUME ReorgInv, RowInv, NEW r \in BagToSet(resumes),
           NEW c \in Resumed(state.sign, r).commands, c.kind = "SignShare"
    PROVE  c.sid \in CeremonyIds /\ r.nonces \in published[c.sid]
<1>1. r.kind = "Nonces"
  BY ShareMade
<1>2. r.message \in Messages
  BY <1>1 DEF ReorgInv, ResumesOK, ResumeOK
<1> DEFINE w == state.sign.signing[r.message]
<1>3. Resumed(state.sign, r) = HandleNonces(state.sign, Me, r.message, r.nonces)
  BY <1>1 DEF Resumed
<1>4. /\ InStage(state.sign, r.message, "CollectSigningShares")
      /\ Me \in DOMAIN w.committed /\ w.committed[Me] = r.nonces
      /\ c = SignShare(r.message, w.sid, w.committed)
  BY <1>3 DEF HandleNonces, Result, Ignored
<1>5. c.sid = w.sid
  BY <1>4 DEF SignShare
<1>6. SessionSound(w, published) /\ w # NoSession
  BY <1>2, <1>4 DEF RowInv, SoundOK, Sound, InStage
<1> HIDE DEF w
<1> QED BY <1>4, <1>5, <1>6 DEF SessionSound

\* A handled resume.
LEMMA HandleResumeRow ==
    ASSUME ReorgInv, RowInv, HandleResume
    PROVE  RowInv'
<1>1. PICK r \in BagToSet(resumes) :
         shared' = shared \cup
                {[pair |-> r.nonces, sid |-> c.sid, message |-> c.message, root |-> c.root,
                  approved |-> c.message \in chain.approved] :
                     c \in {c \in Resumed(state.sign, r).commands : c.kind = "SignShare"}}
  BY DEF HandleResume
<1> DEFINE made == {c \in Resumed(state.sign, r).commands : c.kind = "SignShare"}
           share(c) == [pair |-> r.nonces, sid |-> c.sid, message |-> c.message,
                        root |-> c.root, approved |-> c.message \in chain.approved]
<1>2. \A c \in made : c.sid \in CeremonyIds /\ r.nonces \in published[c.sid]
  BY ShareSource
<1>3. shared' = shared \cup {share(c) : c \in made}
  BY <1>1
<1>4. \A c : share(c).pair = r.nonces /\ share(c).sid = c.sid
  OBVIOUS
<1> HIDE DEF made, share
<1>5. UNCHANGED <<signing_nonces, published, state, past, collections>>
  BY DEF HandleResume, storeVars
<1>6. \A x \in shared' : x.sid \in CeremonyIds /\ x.pair \in published[x.sid]
  BY <1>2, <1>3, <1>4 DEF RowInv, SharesOK
<1> QED BY <1>5, <1>6 DEF RowInv, SoundOK, PairsOK, SharesOK

-----------------------------------------------------------------------------
(* Steps of the chain                                                       *)

\* An event whose handler keeps the sessions sound.
LEMMA EmitRow ==
    ASSUME ReorgInv, RowInv, NEW r, NEW next, Emit(r, next), Sound(r.state, published)
    PROVE  RowInv'
<1>1. /\ state' = [state EXCEPT !.sign = r.state]
      /\ UNCHANGED <<storeVars, past, shared, collections>>
  BY DEF Emit
<1>2. state = [sign |-> state.sign, epoch |-> state.epoch, active |-> state.active]
  BY DEF ReorgInv, BranchesOK, Fits
<1>3. state'.sign = r.state
  <2>1. [state EXCEPT !.sign = r.state] =
           [sign |-> r.state, epoch |-> state.epoch, active |-> state.active]
    BY <1>2
  <2> QED BY <1>1, <2>1
<1>4. (\A sid \in CeremonyIds : PairsOK(sid)') /\ SharesOK' /\ published' = published
  BY <1>1, StoreQuiet
<1> QED BY <1>1, <1>3, <1>4 DEF RowInv, SoundOK

\* TransactionProposed, and the Sign that follows it.
LEMMA ProposedRow ==
    ASSUME ReorgInv, RowInv, NEW m \in Messages, Proposed(m)
    PROVE  RowInv'
<1> DEFINE opened == HandleTransactionProposed(state.sign, block, m, Group, Participants).state
           r == HandleSign(opened, block, m, Group, NextId)
<1>1. PICK next : Emit(r, next)
  BY DEF Proposed, Event
<1>2. NextId \in CeremonyIds
  BY NextIdUnassigned DEF Proposed
<1>3. Fits(state, chain) /\ Sound(state.sign, published)
  BY DEF ReorgInv, BranchesOK, RowInv, SoundOK
<1>4. StateShape(state.sign)
  BY <1>3, SessionIds
<1>5. StateShape(opened)
  BY <1>3, TransactionProposedOK DEF Fits, ResultOK, StateOK
<1>6. Sound(opened, published)
  BY <1>2, <1>3, <1>4, ProposedSound
<1> HIDE DEF opened
<1>7. Sound(r.state, published)
  BY <1>2, <1>5, <1>6, SignSound
<1> HIDE DEF r
<1> QED BY <1>1, <1>7, EmitRow

\* Signing requests, the oracle's answers, commitments and attestations.
LEMMA PlainEventsRow ==
    ASSUME ReorgInv, RowInv,
           \/ \E m \in Messages : SignRequested(m)
           \/ \E m \in Messages, ok \in BOOLEAN : OracleResult(m, ok)
           \/ \E sid \in CeremonyIds, p \in Participants : Committed(sid, p)
           \/ \E sid \in CeremonyIds : Attested(sid)
    PROVE  RowInv'
<1> DEFINE s == state.sign
<1>1. Fits(state, chain) /\ Sound(s, published)
  BY DEF ReorgInv, BranchesOK, RowInv, SoundOK
<1>2. StateOK(s, {Group}, Participants, chain.approved) /\ StateShape(s) /\ IndexExact(s)
  BY <1>1, SessionIds
<1>3. ASSUME NEW m \in Messages, SignRequested(m)
      PROVE  RowInv'
  <2> DEFINE r == HandleSign(s, block, m, Group, NextId)
  <2>1. PICK next : Emit(r, next)
    BY <1>3 DEF SignRequested, Event
  <2>2. NextId \in CeremonyIds
    BY <1>3, NextIdUnassigned DEF SignRequested
  <2>3. Sound(r.state, published)
    BY <1>1, <1>2, <2>2, SignSound
  <2> HIDE DEF r
  <2> QED BY <2>1, <2>3, EmitRow
<1>4. ASSUME NEW m \in Messages, NEW ok \in BOOLEAN, OracleResult(m, ok)
      PROVE  RowInv'
  <2> DEFINE r == HandleOracleResult(s, block, m, ok)
  <2>1. PICK next : Emit(r, next)
    BY <1>4 DEF OracleResult, Event
  <2>2. Sound(r.state, published)
    BY <1>1, <1>2, OracleSound
  <2> HIDE DEF r
  <2> QED BY <2>1, <2>2, EmitRow
<1>5. ASSUME NEW sid \in CeremonyIds, NEW p \in Participants, Committed(sid, p)
      PROVE  RowInv'
  <2>1. PICK nonces \in (IF p = Me THEN published[sid] ELSE {Foreign}) :
           Emit(HandleSignCommittedNonces(s, block, sid, p, nonces), chain)
    BY <1>5 DEF Committed, Event
  <2> DEFINE r == HandleSignCommittedNonces(s, block, sid, p, nonces)
  <2>2. Sound(r.state, published)
    BY <1>1, <1>2, <2>1, CommitmentSound
  <2>3. Emit(r, chain)
    BY <2>1
  <2> HIDE DEF r
  <2> QED BY <2>2, <2>3, EmitRow
<1>6. ASSUME NEW sid \in CeremonyIds, Attested(sid)
      PROVE  RowInv'
  <2> DEFINE m == chain.message_of[sid]
             r == HandleSignAttested(s, sid, m)
  <2>1. PICK next : Emit(r, next)
    BY <1>6 DEF Attested
  <2>2. m \in Messages
    BY <1>1, <1>6 DEF Fits, Attested
  <2> HIDE DEF m
  <2>3. Sound(r.state, published)
    BY <1>1, <1>2, <2>2, AttestedSound
  <2> HIDE DEF r
  <2> QED BY <2>1, <2>3, EmitRow
<1> QED BY <1>3, <1>4, <1>5, <1>6

\* A share, with the completion and the attestation that it may bring about.
LEMMA SharedRow ==
    ASSUME ReorgInv, RowInv, NEW sid \in CeremonyIds, NEW p \in Participants,
           NEW callback \in BOOLEAN, Shared(sid, p, callback)
    PROVE  RowInv'
<1>1. PICK root, done, attests, next :
         LET r == HandleSignShared(state.sign, sid, root, p)
             c == IF done THEN HandleSignCompleted(r.state, block, sid) ELSE r
         IN  /\ root \in RootFor(sid) /\ done \in BOOLEAN /\ attests \in BOOLEAN
             /\ Emit(IF attests THEN HandleSignAttested(c.state, sid, chain.message_of[sid]) ELSE c,
                     next)
  <2>1. PICK root \in RootFor(sid) :
        LET m    == chain.message_of[sid]
            now  == {x.p : x \in {y \in chain.shares : y.sid = sid /\ y.root = root}} \cup {p}
            done == now = DOMAIN root /\ sid \notin chain.signed
            attests == done /\ callback
            next == [chain EXCEPT !.shares = @ \cup {[sid |-> sid, root |-> root, p |-> p]},
                                  !.signed = IF done THEN @ \cup {sid} ELSE @,
                                  !.attested = IF attests THEN @ \cup {m} ELSE @]
            r    == HandleSignShared(state.sign, sid, root, p)
            c    == IF done THEN HandleSignCompleted(r.state, block, sid) ELSE r
        IN  Event(IF attests THEN HandleSignAttested(c.state, sid, m) ELSE c, next)
    BY DEF Shared
  <2> DEFINE m    == chain.message_of[sid]
             now  == {x.p : x \in {y \in chain.shares : y.sid = sid /\ y.root = root}} \cup {p}
             done == now = DOMAIN root /\ sid \notin chain.signed
             attests == done /\ callback
             next == [chain EXCEPT !.shares = @ \cup {[sid |-> sid, root |-> root, p |-> p]},
                                   !.signed = IF done THEN @ \cup {sid} ELSE @,
                                   !.attested = IF attests THEN @ \cup {m} ELSE @]
             r    == HandleSignShared(state.sign, sid, root, p)
             c    == IF done THEN HandleSignCompleted(r.state, block, sid) ELSE r
  <2>2. Emit(IF attests THEN HandleSignAttested(c.state, sid, m) ELSE c, next)
    BY <2>1 DEF Event
  <2>3. done \in BOOLEAN /\ attests \in BOOLEAN
    OBVIOUS
  <2> HIDE DEF now, next, done, attests
  <2> QED BY <2>2, <2>3
<1> DEFINE m == chain.message_of[sid]
           r == HandleSignShared(state.sign, sid, root, p)
           c == IF done THEN HandleSignCompleted(r.state, block, sid) ELSE r
           a == IF attests THEN HandleSignAttested(c.state, sid, m) ELSE c
<1>2. Fits(state, chain) /\ Sound(state.sign, published)
  BY DEF ReorgInv, BranchesOK, RowInv, SoundOK
<1>3. m \in Messages
  <2>1. Runs(state.sign, sid, "CollectSigningShares")
    BY <1>1 DEF RootFor
  <2>2. state.sign.index[sid] \in Messages
    BY <1>2, <2>1, RunsSession DEF Fits, Ceremony
  <2> QED BY <1>2, <2>2, MarkersAssumption DEF Fits, Linked
<1>4. Emit(a, next)
  BY <1>1
<1> HIDE DEF m
<1>5. /\ ResultOK(r, {Group}, Participants, chain.approved) /\ Linked(r.state, chain.message_of)
      /\ Sound(r.state, published)
  BY <1>2, SignSharedOK, SignSharedLinked, SessionIds, ShareSound DEF Fits
<1> HIDE DEF r
<1>6. StateShape(r.state) /\ IndexExact(r.state)
  BY <1>5 DEF ResultOK, StateOK, Linked
<1>7. StateOK(c.state, {Group}, Participants, chain.approved)
      /\ Sound(c.state, published)
  <2>1. StateOK(r.state, {Group}, Participants, chain.approved)
    BY <1>5 DEF ResultOK
  <2>2. ResultOK(HandleSignCompleted(r.state, block, sid), {Group}, Participants, chain.approved)
    BY <1>3, <1>5, <2>1, CompletedFits
  <2>3. Sound(HandleSignCompleted(r.state, block, sid).state, published)
    BY <1>5, <1>6, ShareSound
  <2> QED BY <1>5, <2>1, <2>2, <2>3 DEF ResultOK
<1> HIDE DEF c
<1>8. Sound(a.state, published)
  BY <1>3, <1>7, AttestedSound
<1> HIDE DEF a
<1> QED BY <1>4, <1>8, EmitRow

-----------------------------------------------------------------------------
(* The composed system                                                      *)

\* Every step keeps the invariant.
LEMMA RowStep ==
    ASSUME ReorgInv, StoreTypeOK, NonceInv, RowInv, [Next]_vars
    PROVE  RowInv'
<1>1. CASE NextBlock \/ ReplacementBlock \/ Reorg \/ Restart
  BY <1>1, BlocksRow
<1>2. CASE Housekeeping \/ HandleResume
  BY <1>2, HousekeepingRow, HandleResumeRow
<1>3. CASE EffectDone
  BY <1>3, GenerateNoncesRow, RowsStayRow DEF EffectDone
<1>4. CASE ChainEvent
  BY <1>4, ProposedRow, PlainEventsRow, SharedRow DEF ChainEvent
<1>5. CASE EffectFails \/ UNCHANGED vars
  <2>1. UNCHANGED <<storeVars, state, past, shared, collections>>
    BY <1>5 DEF EffectFails, vars, reorgVars
  <2>2. (\A sid \in CeremonyIds : PairsOK(sid)') /\ SharesOK' /\ published' = published
    BY <2>1, StoreQuiet
  <2> QED BY <2>1, <2>2 DEF RowInv, SoundOK
<1> QED BY <1>1, <1>2, <1>3, <1>4, <1>5 DEF Next

\* The first state.
LEMMA RowInit == Init => RowInv
<1> SUFFICES ASSUME Init PROVE RowInv
  OBVIOUS
<1>1. /\ signing_nonces = {} /\ shared = {} /\ collections = [sid \in CeremonyIds |-> 0]
      /\ published = [sid \in CeremonyIds |-> {}]
  BY IdsAssumption DEF Init, StoreInit
<1>2. DOMAIN past = {0} /\ past[0].state = state /\ state.sign = NoSessions
  BY DEF Init
<1>3. Sound(NoSessions, published)
  BY DEF Sound, SessionSound, NoSessions
<1>4. \A sid \in CeremonyIds : PairsOK(sid)
  BY <1>1, FS_EmptySet DEF PairsOK
<1> QED BY <1>1, <1>2, <1>3, <1>4 DEF RowInv, SoundOK, SharesOK

\* Shares are made of published pairs, and a ceremony is given at most one pair more than
\* rows of it were collected, on every branch.
THEOREM RowInvariant == Spec => []RowInv
<1>1. Spec => []NonceInv
  BY StoreImplemented, NonceInvariant
<1>2. ReorgInv /\ StoreTypeOK /\ NonceInv /\ RowInv /\ [Next]_vars => RowInv'
  BY RowStep
<1> QED BY <1>1, <1>2, RowInit, ReorgInvariant, PTL DEF Spec

\* The validator signs for a signature id once as long as the row of its nonces is kept,
\* whatever reorgs of any depth put under that id, and however late, often or badly
\* effects run (store_signing_nonces inserts only where there is no row,
\* take_signing_nonces keeps the row): a second share needs a collection.
THEOREM OneShareUntilCollected == Spec => []OneSharePerRow
<1>1. ASSUME RowInv, NoncePairSignsOnce PROVE OneSharePerRow
  <2> SUFFICES ASSUME NEW sid \in CeremonyIds
               PROVE  Cardinality({x \in shared : x.sid = sid}) <= 1 + collections[sid]
    BY DEF OneSharePerRow
  <2> DEFINE S == {x \in shared : x.sid = sid}
             f == [x \in S |-> x.pair]
  <2>1. f \in Injection(S, published[sid])
    <3>1. f \in [S -> published[sid]]
      BY <1>1 DEF RowInv, SharesOK
    <3>2. \A x, y \in S : f[x] = f[y] => x = y
      BY <1>1 DEF NoncePairSignsOnce
    <3> HIDE DEF f, S
    <3> QED BY <3>1, <3>2 DEF Injection, IsInjective
  <2>2. PairsOK(sid)
    BY <1>1 DEF RowInv
  <2> HIDE DEF f, S
  <2>3. /\ IsFiniteSet(S) /\ Cardinality(S) <= Cardinality(published[sid])
    BY <2>1, <2>2, FS_Injection DEF PairsOK
  <2>4. Cardinality(S) \in Nat /\ Cardinality(published[sid]) \in Nat
    BY <2>2, <2>3, FS_CardinalityType DEF PairsOK
  <2>5. Cardinality(S) <= 1 + collections[sid]
    BY <2>2, <2>3, <2>4 DEF PairsOK
  <2> QED BY <2>5 DEF S
<1>2. RowInv /\ NoncePairSignsOnce => OneSharePerRow
  BY <1>1
<1> QED BY <1>2, RowInvariant, PairSignsOnce, PTL
=============================================================================
