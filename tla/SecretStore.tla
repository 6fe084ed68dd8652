---------------------------- MODULE SecretStore ----------------------------
(***************************************************************************)
(* The validator's reorg-resistant store of locally sampled secrets         *)
(* (crates/validator/src/secrets/store.rs), reached only through the effect *)
(* handler (crates/validator/src/service/effect.rs).                        *)
(*                                                                          *)
(* Every method of the store is one SQLite transaction, so every action     *)
(* below is one atomic step; a crash can only fall between two of them.     *)
(* Tables are sets of rows. The running validator has one account, so the   *)
(* address column is constant and left out.                                 *)
(***************************************************************************)
EXTENDS Naturals, FiniteSets

CONSTANTS
    Groups,         \* FROST group ids
    SignatureIds,   \* signing ceremony ids
    Samples,        \* random values: no two samplings return the same one
    Blocks,         \* block numbers
    Null,           \* SQL NULL
    Used            \* a nonce column cleared by take_signing_nonces

ASSUME BlocksAssumption == Blocks \subseteq Nat
ASSUME SentinelAssumption == Null \notin Nat /\ Used \notin Samples

VARIABLES
    keygen_secrets,     \* rows [group, secret, delete_at]
    signing_nonces,     \* rows [sid, group, nonces, delete_at]
    reconciliation,     \* group_secret_reconciliation: last accepted block
    sampled,            \* samples that ever entered a table
    \* History variables: what the store answered, never read by an action.
    absent_since,       \* [group -> since which reconciliation it keeps less
                        \*  than "All" (keygen) or nothing (nonces), or Null]
    published,          \* [sid -> nonce pairs whose commitments were returned]
    takes               \* [sample -> how often take_signing_nonces returned it]

tables == <<keygen_secrets, signing_nonces, reconciliation>>
history == <<absent_since, published, takes>>
storeVars == <<keygen_secrets, signing_nonces, reconciliation, sampled,
               absent_since, published, takes>>

\* RetainedSecrets: what a reconciliation keeps of a group. A group that is
\* not in the map keeps nothing.
RetainedSecrets == {"Nonces", "All", "Nothing"}

KeygenRow == [group : Groups, secret : Samples, delete_at : Blocks \cup {Null}]
NonceRow  == [sid : SignatureIds, group : Groups, nonces : Samples \cup {Used},
              delete_at : Blocks \cup {Null}]

StoreInit ==
    /\ keygen_secrets = {}
    /\ signing_nonces = {}
    /\ reconciliation = Null
    /\ sampled = {}
    /\ absent_since = [g \in Groups |-> [keygen |-> Null, nonces |-> Null]]
    /\ published = [sid \in SignatureIds |-> {}]
    /\ takes = [s \in Samples |-> 0]

-----------------------------------------------------------------------------
(* What the tables answer                                                   *)

HasKeygen(table, g) == \E r \in table : r.group = g
HasNonces(table, sid) == \E r \in table : r.sid = sid

\* SELECT nonces FROM signing_nonces WHERE signature_id = sid: the pair, or
\* Used once it was taken.
NoncesOf(table, sid) == (CHOOSE r \in table : r.sid = sid).nonces

-----------------------------------------------------------------------------
(* The methods of the store                                                 *)

\* store_keygen_secrets, with the sample Effect::KeyGenSetup drew for it.
\* Secrets already stored are kept and lose their scheduled deletion; the
\* fresh sample is then thrown away.
StoreKeygenSecrets(g, sample) ==
    /\ sample \notin sampled
    /\ IF HasKeygen(keygen_secrets, g)
       THEN /\ keygen_secrets' = {[r EXCEPT !.delete_at = IF r.group = g THEN Null ELSE @]
                                    : r \in keygen_secrets}
            /\ UNCHANGED sampled
       ELSE /\ keygen_secrets' = keygen_secrets \cup
                    {[group |-> g, secret |-> sample, delete_at |-> Null]}
            /\ sampled' = sampled \cup {sample}
    /\ UNCHANGED <<signing_nonces, reconciliation, history>>

\* Faulty variant: a used pair is replaced by the fresh one.
StoreSigningNoncesRefreshing(g, sid, sample) ==
    /\ sample \notin sampled
    /\ IF HasNonces(signing_nonces, sid) /\ NoncesOf(signing_nonces, sid) # Used
       THEN UNCHANGED <<signing_nonces, sampled>>
       ELSE /\ signing_nonces' = {r \in signing_nonces : r.sid # sid} \cup
                    {[sid |-> sid, group |-> g, nonces |-> sample, delete_at |-> Null]}
            /\ sampled' = sampled \cup {sample}
    /\ published' = [published EXCEPT ![sid] = @ \cup {NoncesOf(signing_nonces', sid)}]
    /\ UNCHANGED <<keygen_secrets, reconciliation, absent_since, takes>>

\* store_signing_nonces: INSERT ... ON CONFLICT DO NOTHING, then read back what
\* is stored. A stored pair is never overwritten, and an existing row keeps its
\* scheduled deletion. Commitments are returned unless the pair was used.
StoreSigningNonces(g, sid, sample) ==
    /\ sample \notin sampled
    /\ IF HasNonces(signing_nonces, sid)
       THEN UNCHANGED <<signing_nonces, sampled>>
       ELSE /\ signing_nonces' = signing_nonces \cup
                    {[sid |-> sid, group |-> g, nonces |-> sample, delete_at |-> Null]}
            /\ sampled' = sampled \cup {sample}
    /\ LET stored == NoncesOf(signing_nonces', sid) IN
       published' = IF stored = Used THEN published
                    ELSE [published EXCEPT ![sid] = @ \cup {stored}]
    /\ UNCHANGED <<keygen_secrets, reconciliation, absent_since, takes>>

\* The nonces take_signing_nonces would return, as a set of at most one pair.
Available(table, sid) ==
    {r.nonces : r \in {row \in table : row.sid = sid /\ row.nonces # Used}}

\* Faulty variant: the pair is read but not cleared.
TakeSigningNoncesKeeping(sid) ==
    /\ takes' = [s \in Samples |->
                    IF s \in Available(signing_nonces, sid) THEN takes[s] + 1 ELSE takes[s]]
    /\ UNCHANGED <<tables, sampled, absent_since, published>>

\* take_signing_nonces: read the pair and clear it in one write transaction.
TakeSigningNonces(sid) ==
    /\ signing_nonces' = {[r EXCEPT !.nonces = IF r.sid = sid THEN Used ELSE @]
                            : r \in signing_nonces}
    /\ takes' = [s \in Samples |->
                    IF s \in Available(signing_nonces, sid) THEN takes[s] + 1 ELSE takes[s]]
    /\ UNCHANGED <<keygen_secrets, reconciliation, sampled, absent_since, published>>

\* Faulty variant: the deadline is overwritten on every reconciliation.
CoalesceOverwriting(deadline, block) == block

\* Faulty variant: off by one, deletion starts after the next block.
CoalesceNextBlock(deadline, block) == IF deadline = Null THEN block + 1 ELSE deadline

\* COALESCE(deadline, block)
Coalesce(deadline, block) == IF deadline = Null THEN block ELSE deadline

\* schedule_absent_groups: rows of retained groups lose their deadline, the
\* others get one unless they already have it.
ScheduleAbsentGroups(table, block, retained) ==
    {[r EXCEPT !.delete_at = IF r.group \in retained THEN Null ELSE Coalesce(@, block)]
        : r \in table}

Keeps(retained, kinds) == {g \in Groups : retained[g] \in kinds}

\* Faulty variant: a reconciliation of an earlier block is accepted as well.
AcceptsAlways(block) == TRUE

\* The conditional write of the marker: equal and higher blocks are accepted.
Accepts(block) == reconciliation = Null \/ block >= reconciliation

\* schedule_group_secrets_deletion: `retained` gives what is kept per group.
ScheduleGroupSecretsDeletion(block, retained) ==
    /\ LET keygen == Keeps(retained, {"All"})
           nonces == Keeps(retained, {"All", "Nonces"})
           since(kept, g, was) == IF g \in kept THEN Null ELSE Coalesce(was, block)
       IN IF Accepts(block)
          THEN /\ reconciliation' = block
               /\ keygen_secrets' = ScheduleAbsentGroups(keygen_secrets, block, keygen)
               /\ signing_nonces' = ScheduleAbsentGroups(signing_nonces, block, nonces)
               /\ absent_since' = [g \in Groups |->
                      [keygen |-> since(keygen, g, absent_since[g].keygen),
                       nonces |-> since(nonces, g, absent_since[g].nonces)]]
          ELSE UNCHANGED <<tables, absent_since>>
    /\ UNCHANGED <<sampled, published, takes>>

Due(r, safe) == r.delete_at # Null /\ r.delete_at <= safe

\* prune_scheduled_secrets, called by the effect handler's housekeeping.
PruneScheduledSecrets(safe) ==
    /\ keygen_secrets' = {r \in keygen_secrets : ~ Due(r, safe)}
    /\ signing_nonces' = {r \in signing_nonces : ~ Due(r, safe)}
    /\ UNCHANGED <<reconciliation, sampled, history>>

-----------------------------------------------------------------------------
(* The store on its own: its caller runs effects concurrently and replays    *)
(* them after reorgs and restarts, so calls come in any order.               *)

StoreNext ==
    \/ \E g \in Groups, s \in Samples : StoreKeygenSecrets(g, s)
    \/ \E g \in Groups, sid \in SignatureIds, s \in Samples : StoreSigningNonces(g, sid, s)
    \/ \E sid \in SignatureIds : TakeSigningNonces(sid)
    \/ \E b \in Blocks, kept \in [Groups -> RetainedSecrets] :
            ScheduleGroupSecretsDeletion(b, kept)
    \/ \E b \in Blocks : PruneScheduledSecrets(b)

StoreSpec == StoreInit /\ [][StoreNext]_storeVars

-----------------------------------------------------------------------------
(* Properties                                                               *)

\* Type invariant of the store (store.rs: the three tables).
StoreTypeOK ==
    /\ keygen_secrets \subseteq KeygenRow
    /\ signing_nonces \subseteq NonceRow
    /\ reconciliation \in Blocks \cup {Null}
    /\ sampled \subseteq Samples
    /\ absent_since \in [Groups -> [keygen : Blocks \cup {Null}, nonces : Blocks \cup {Null}]]
    /\ published \in [SignatureIds -> SUBSET Samples]
    /\ takes \in [Samples -> Nat]

\* take_signing_nonces hands out a nonce pair at most once, whatever the order
\* and the repetition of effects: signing twice with one pair would reveal the
\* validator's key share.
NonceTakenAtMostOnce == \A s \in Samples : takes[s] <= 1

\* A pair that was handed out is gone from the store, and it was published: the
\* validator never signs with nonces whose commitments it did not return.
TakenPairWasPublished ==
    \A s \in Samples : takes[s] > 0 =>
        /\ \E sid \in SignatureIds : s \in published[sid]
        /\ \A r \in signing_nonces : r.nonces # s

\* The deadline, if there is one, lies between `since` and the marker.
Within(deadline, since) ==
    deadline # Null =>
        /\ since # Null /\ reconciliation # Null
        /\ since <= deadline /\ deadline <= reconciliation

\* A row scheduled for deletion belongs to a group that every reconciliation
\* accepted since its deadline has dropped, and the deadline lies between the
\* block that dropped the group and the marker: collection at the safe block
\* deletes nothing the state machine has asked to retain in the meantime, and a
\* reconciliation applied late never schedules a group that came back.
ScheduledSinceAbsent ==
    /\ \A r \in keygen_secrets : Within(r.delete_at, absent_since[r.group].keygen)
    /\ \A r \in signing_nonces : Within(r.delete_at, absent_since[r.group].nonces)

\* Its strengthening: a group's absence never starts after the marker.
AbsenceInv ==
    \A g \in Groups : \A since \in {absent_since[g].keygen, absent_since[g].nonces} :
        since # Null => reconciliation # Null /\ since <= reconciliation

\* The inductive strengthening of the nonce properties: the primary key of the
\* table, and what a row that still holds its pair, a published pair and a taken
\* pair each imply (store_signing_nonces never overwrites a row, and
\* take_signing_nonces clears the pair in the transaction that reads it).
NonceInv ==
    /\ \A r, q \in signing_nonces : r.sid = q.sid => r = q
    /\ \A r, q \in signing_nonces : r.nonces = q.nonces /\ r.nonces # Used => r = q
    /\ \A r \in signing_nonces : r.nonces # Used =>
          takes[r.nonces] = 0 /\ r.nonces \in published[r.sid]
    /\ \A sid \in SignatureIds : published[sid] \subseteq sampled
    /\ \A s1, s2 \in SignatureIds : s1 # s2 => published[s1] \cap published[s2] = {}
    /\ \A s \in Samples : takes[s] > 0 =>
          takes[s] = 1 /\ \E sid \in SignatureIds : s \in published[sid]

\* A deadline already set is only ever cancelled, never moved: repeated
\* reconciliations without a group do not postpone the deletion of its secrets.
DeadlineNeverMoved ==
    [][/\ \A r \in keygen_secrets, q \in keygen_secrets' :
             q.group = r.group /\ Null \notin {q.delete_at, r.delete_at}
                => q.delete_at = r.delete_at
       /\ \A r \in signing_nonces, q \in signing_nonces' :
             q.sid = r.sid /\ Null \notin {q.delete_at, r.delete_at}
                => q.delete_at = r.delete_at]_storeVars
=============================================================================
