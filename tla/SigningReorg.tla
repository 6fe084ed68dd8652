---------------------------- MODULE SigningReorg ----------------------------
(***************************************************************************)
(* One validator signing on a chain that reorgs: the handlers of Signing    *)
(* driven as crates/core/src/driver.rs drives them, with effects that run   *)
(* concurrently against the store of SecretStore and are neither rolled     *)
(* back by a reorg nor kept by a restart.                                   *)
(*                                                                          *)
(* A reorg rolls the chain back too: the same signature id may come to name *)
(* another message, and the same transactions may be included again.        *)
(***************************************************************************)
EXTENDS Signing, SecretStore, Sequences, Bags

CONSTANTS
    Participants, Me,
    Group,
    ReorgDepth,     \* max_reorg_depth
    MaxBlock,       \* bound: height
    MaxEvents,      \* bound: events in a block
    MaxPending,     \* bound: effects that are outstanding when a block comes
    MaxTroubles     \* bound: reorgs, restarts and effects that fail

ASSUME IdsAssumption == CeremonyIds = SignatureIds /\ CeremonyIds \subseteq Nat
ASSUME MeAssumption == Me \in Participants
ASSUME GroupAssumption == Group \in Groups
ASSUME ReorgDepthAssumption == ReorgDepth \in Nat
ASSUME HeightAssumption == MaxBlock \in Nat \ {0} /\ 0..MaxBlock \subseteq Blocks

VARIABLES
    block,      \* the block whose events are handled, or awaited
    observed,   \* the block was observed: its events may come
    state,      \* StateMachine: the live state, with the group's epoch in it
    chain,      \* the contracts' state on the current branch
    past,       \* snapshots: [block -> [state, chain]] as of its end
    effects,    \* effects in progress
    resumes,    \* completed effects whose resume is not handled yet
    due,        \* the safe block that housekeeping is to prune to, or Null
    events, troubles,
    shared,     \* history: the signature shares the validator ever produced
    collections \* history: [sid -> how often its nonce row was collected]

reorgVars == <<block, observed, state, chain, past, effects, resumes, due, events, troubles, shared,
               collections>>
vars == <<storeVars, reorgVars>>

\* `epoch`: the group's epoch is in State::epochs; `active`: it is the active one.
Init ==
    /\ StoreInit
    /\ block = 1 /\ observed = TRUE
    /\ state = [sign |-> NoSessions, epoch |-> TRUE, active |-> TRUE]
    /\ chain = [message_of |-> [sid \in CeremonyIds |-> NoMessage],
                requests |-> {}, approved |-> {}, shares |-> {}, signed |-> {}, attested |-> {}]
    /\ past = [n \in {0} |-> [state |-> state, chain |-> chain]]
    /\ effects = EmptyBag /\ resumes = EmptyBag /\ due = Null
    /\ events = 0 /\ troubles = 0 /\ shared = {}
    /\ collections = [sid \in CeremonyIds |-> 0]

-----------------------------------------------------------------------------
(* The driver                                                               *)

Safe(latest) == IF latest < ReorgDepth THEN 0 ELSE latest - ReorgDepth

EffectsIn(commands) == SetToBag({c \in commands : c.kind \in {"GenerateNonces", "UseNonces"}})

\* handle_group_reconciliation: the epoch is reaped once another one is active and
\* no ceremony of it is left; its nonces are retained until then.
Reaped(s) ==
    [s EXCEPT !.epoch = @ /\ (s.active \/ \E m \in Messages : s.sign.signing[m] # NoSession)]

Reconcile(s, number) == [kind |-> "Reconcile", block |-> number, retains |-> s.epoch]

\* The NewBlock transition: the rollover, the timeouts and the reconciliation.
NewBlockOn(s, number, rolls) ==
    LET timed == HandleSigningTimeouts(s.sign, Me, number)
        next  == Reaped([s EXCEPT !.sign = timed.state, !.active = @ /\ ~ rolls])
    IN  [state |-> next,
         effects |-> EffectsIn(timed.commands) (+) SetToBag({Reconcile(next, number)})]

Observe(number, from, rolls) ==
    LET r == NewBlockOn(from, number, rolls) IN
    /\ BagCardinality(effects) <= MaxPending
    /\ state' = r.state
    /\ effects' = effects (+) r.effects
    /\ block' = number /\ observed' = TRUE
    /\ due' = Safe(number)
    /\ events' = 0

\* The block's logs are complete: its snapshot is committed and the next block is
\* begun. Its observation makes housekeeping due.
NextBlock ==
    /\ observed /\ due = Null /\ block < MaxBlock
    /\ past' = [n \in {k \in DOMAIN past : k >= Safe(block + 1)} \cup {block} |->
                   IF n = block THEN [state |-> state, chain |-> chain] ELSE past[n]]
    /\ \E rolls \in BOOLEAN : Observe(block + 1, state, rolls)
    /\ UNCHANGED <<storeVars, chain, resumes, troubles, shared, collections>>

\* The first block after a rollback.
ReplacementBlock ==
    /\ ~ observed /\ due = Null
    /\ \E rolls \in BOOLEAN : Observe(block, state, rolls)
    /\ UNCHANGED <<storeVars, chain, past, resumes, troubles, shared, collections>>

RollBack(n) ==
    /\ due = Null
    /\ troubles < MaxTroubles /\ troubles' = troubles + 1
    /\ state' = past[n].state /\ chain' = past[n].chain
    /\ past' = [k \in {j \in DOMAIN past : j <= n} |-> past[k]]
    /\ block' = n + 1 /\ observed' = FALSE
    /\ events' = 0
    /\ UNCHANGED <<storeVars, due, shared, collections>>

\* Uncle updates: effects and resumes of the uncled blocks stay.
Reorg ==
    /\ \E n \in DOMAIN past : n < block /\ RollBack(n)
    /\ UNCHANGED <<effects, resumes>>

\* A restart replays everything after the oldest snapshot; effects are lost.
Restart ==
    /\ \E n \in DOMAIN past : (\A k \in DOMAIN past : n <= k) /\ RollBack(n)
    /\ effects' = EmptyBag /\ resumes' = EmptyBag

\* EffectHandler::housekeeping
Housekeeping ==
    /\ due # Null
    /\ PruneScheduledSecrets(due)
    /\ collections' = [sid \in CeremonyIds |->
           collections[sid] + IF HasNonces(signing_nonces, sid) /\ ~ HasNonces(signing_nonces', sid)
                              THEN 1 ELSE 0]
    /\ due' = Null
    /\ UNCHANGED <<block, observed, state, chain, past, effects, resumes, events, troubles, shared>>

-----------------------------------------------------------------------------
(* Effects                                                                  *)

Finish(c, resume) ==
    /\ effects' = effects (-) SetToBag({c})
    /\ resumes' = resumes (+) SetToBag(resume)
    /\ UNCHANGED <<block, observed, state, chain, past, due, events, troubles, shared, collections>>

GenerateNoncesDone(c) ==
    /\ c.kind = "GenerateNonces"
    /\ \E sample \in Samples : StoreSigningNonces(c.group, c.sid, sample)
    /\ LET stored == NoncesOf(signing_nonces', c.sid) IN
       Finish(c, IF stored = Used THEN {}
                 ELSE {[kind |-> "NonceCommitments", sid |-> c.sid, nonces |-> stored]})

UseNoncesDone(c) ==
    /\ c.kind = "UseNonces"
    /\ TakeSigningNonces(c.sid)
    /\ Finish(c, {[kind |-> "Nonces", message |-> c.message, nonces |-> n]
                    : n \in Available(signing_nonces, c.sid)})

ReconcileDone(c) ==
    /\ c.kind = "Reconcile"
    /\ ScheduleGroupSecretsDeletion(c.block, [g \in Groups |-> IF c.retains THEN "Nonces"
                                                              ELSE "Nothing"])
    /\ Finish(c, {})

EffectDone ==
    \E c \in BagToSet(effects) : GenerateNoncesDone(c) \/ UseNoncesDone(c) \/ ReconcileDone(c)

\* The store's transaction fails: logged, and a Noop resume.
EffectFails ==
    /\ troubles < MaxTroubles /\ troubles' = troubles + 1
    /\ \E c \in BagToSet(effects) : effects' = effects (-) SetToBag({c})
    /\ UNCHANGED <<storeVars, block, observed, state, chain, past, resumes, due, events, shared,
                   collections>>

\* apply_transition of a resume
Resumed(s, r) ==
    IF r.kind = "NonceCommitments" THEN HandleNonceCommitments(s, r.sid, r.nonces)
    ELSE HandleNonces(s, Me, r.message, r.nonces)

\* A resume is handled on whatever state there is by then.
HandleResume ==
    /\ due = Null
    /\ \E r \in BagToSet(resumes) :
          LET made == {c \in Resumed(state.sign, r).commands : c.kind = "SignShare"}
          IN  /\ resumes' = resumes (-) SetToBag({r})
              /\ shared' = shared \cup
                     {[pair |-> r.nonces, sid |-> c.sid, message |-> c.message, root |-> c.root,
                       approved |-> c.message \in chain.approved] : c \in made}
    /\ UNCHANGED <<storeVars, block, observed, state, chain, past, effects, due, events, troubles,
                   collections>>

-----------------------------------------------------------------------------
(* Events of the current block, as the contracts emit them                  *)

\* Logs with their handlers' result `r` and what the contracts then hold.
Emit(r, next) ==
    /\ observed /\ due = Null
    /\ state' = [state EXCEPT !.sign = r.state]
    /\ effects' = effects (+) EffectsIn(r.commands)
    /\ chain' = next
    /\ UNCHANGED <<storeVars, block, observed, past, resumes, due, troubles, shared, collections>>

Event(r, next) == events < MaxEvents /\ events' = events + 1 /\ Emit(r, next)

Unassigned == {sid \in CeremonyIds : chain.message_of[sid] = NoMessage}
NextId == CHOOSE sid \in Unassigned : \A j \in Unassigned : sid <= j

Proposed(m) ==
    /\ Unassigned # {} /\ m \notin chain.requests /\ m \notin chain.attested
    /\ state.epoch
    /\ LET opened == HandleTransactionProposed(state.sign, block, m, Group, Participants).state
       IN  Event(HandleSign(opened, block, m, Group, NextId),
                 [chain EXCEPT !.message_of[NextId] = m, !.requests = @ \cup {m}])

SignRequested(m) ==
    /\ Unassigned # {}
    /\ Event(HandleSign(state.sign, block, m, Group, NextId),
             [chain EXCEPT !.message_of[NextId] = m])

OracleResult(m, ok) ==
    /\ m \in chain.requests
    /\ Event(HandleOracleResult(state.sign, block, m, ok),
             [chain EXCEPT !.requests = @ \ {m},
                           !.approved = IF ok THEN @ \cup {m} ELSE @])

Foreign == "foreign"

\* The validator's own commitments are ones that it published for this id, on
\* this branch or on another.
Committed(sid, p) ==
    /\ chain.message_of[sid] # NoMessage
    /\ \E nonces \in (IF p = Me THEN published[sid] ELSE {Foreign}) :
          Event(HandleSignCommittedNonces(state.sign, block, sid, p, nonces), chain)

RootFor(sid) ==
    IF Runs(state.sign, sid, "CollectSigningShares")
    THEN {state.sign.signing[Ceremony(state.sign, sid)].committed} ELSE {}

\* A share for the validator's own selection; its own are the ones it produced
\* for the message that the id names on this branch. With a callback, which the
\* validator always asks for, the last share attests the message too.
Shared(sid, p, callback) ==
    \E root \in RootFor(sid) :
        LET m    == chain.message_of[sid]
            now  == {x.p : x \in {y \in chain.shares : y.sid = sid /\ y.root = root}} \cup {p}
            done == now = DOMAIN root /\ sid \notin chain.signed
            attests == done /\ callback
            next == [chain EXCEPT !.shares = @ \cup {[sid |-> sid, root |-> root, p |-> p]},
                                  !.signed = IF done THEN @ \cup {sid} ELSE @,
                                  !.attested = IF attests THEN @ \cup {m} ELSE @]
            r    == HandleSignShared(state.sign, sid, root, p)
            c    == IF done THEN HandleSignCompleted(r.state, block, sid) ELSE r
        IN  /\ p \in DOMAIN root /\ [sid |-> sid, root |-> root, p |-> p] \notin chain.shares
            /\ attests => m \notin chain.attested
            /\ p = Me => callback /\ \E x \in shared : x.sid = sid /\ x.root = root /\ x.message = m
            /\ Event(IF attests THEN HandleSignAttested(c.state, sid, m) ELSE c, next)

\* At most one attestation per message, so these need no bound.
Attested(sid) ==
    LET m == chain.message_of[sid] IN
    /\ sid \in chain.signed /\ m \notin chain.attested
    /\ Emit(HandleSignAttested(state.sign, sid, m), [chain EXCEPT !.attested = @ \cup {m}])
    /\ UNCHANGED events

ChainEvent ==
    \/ \E m \in Messages : Proposed(m) \/ SignRequested(m)
    \/ \E m \in Messages, ok \in BOOLEAN : OracleResult(m, ok)
    \/ \E sid \in CeremonyIds, p \in Participants :
          Committed(sid, p) \/ \E callback \in BOOLEAN : Shared(sid, p, callback)
    \/ \E sid \in CeremonyIds : Attested(sid)

Next ==
    \/ NextBlock \/ ReplacementBlock \/ Reorg \/ Restart \/ Housekeeping
    \/ EffectDone \/ EffectFails \/ HandleResume
    \/ ChainEvent

Spec == Init /\ [][Next]_vars

-----------------------------------------------------------------------------
(* Properties                                                               *)

\* One nonce pair makes one share: two shares that differ in the message or in the
\* selection and use the same pair reveal the validator's key share. Reorgs put
\* other messages and other commitments under the same signature id.
NoncePairSignsOnce ==
    \A x, y \in shared : x.pair = y.pair => x = y

\* A share is produced only on a branch on which the oracle approved the message:
\* nonces that were taken on another branch do not make one.
SharedOnlyApproved ==
    \A x \in shared : x.message \in Transactions => x.approved

\* As long as the row of a signature id is in the store, the validator signs for the
\* id once: the mark of a used pair outlives reorgs, restarts, and failed, late and
\* repeated effects, and only a collection of the row makes room for a fresh pair.
\* docs/overview.md:68 promises that there is no second share at all. That needs rows
\* to be collected only once no rollback brings their ceremonies back, which deadlines
\* ordered by block numbers do not ensure when reorgs are two blocks deep or when a
\* reconciliation is late or fails.
OneSharePerRow ==
    \A sid \in CeremonyIds :
        Cardinality({x \in shared : x.sid = sid}) <= 1 + collections[sid]
=============================================================================
