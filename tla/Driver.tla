------------------------------- MODULE Driver -------------------------------
(***************************************************************************)
(* The driver of a service (crates/core/src/driver.rs, effects.rs): it      *)
(* feeds the indexer's updates and the resumes of completed effects to the  *)
(* state machine, and restarts from what the snapshot store kept.           *)
(*                                                                          *)
(* Composes Indexer and StateMachine. The transaction queue is a module of  *)
(* its own: the driver only hands it actions and the block status.          *)
(***************************************************************************)
EXTENDS Indexer, StateMachine

CONSTANTS
    MaxCrashes,     \* bound: crashes and restarts
    MaxResumes      \* bound: effects that are resumed

ASSUME BoundAssumption == MaxCrashes \in Nat /\ MaxResumes \in Nat

VARIABLES
    inflight,   \* EffectManager::tasks: effects in progress, by the log that asked
    halted,     \* the driver stopped on an unrecoverable error
    crashes,
    resumes,
    byNumber    \* history: the heights a start took by their number, without their hash

driverVars == <<inflight, halted, crashes, resumes, byNumber>>
vars == <<indexVars, machineVars, driverVars>>

DriverInit ==
    /\ NodeInit /\ WatcherInit /\ MachineInit
    /\ inflight = {} /\ halted = FALSE /\ crashes = 0 /\ resumes = 0 /\ byNumber = {}

Chain == (Mine \/ Reorg) /\ UNCHANGED <<machineVars, driverVars>>

\* What the snapshot store says has been indexed.
Indexed == IF Stored(snapshots) = {} THEN {} ELSE {SnapshotStatus(snapshots)}

\* Driver::new: the state machine loads its tip, then the watcher initializes.
Boot ==
    /\ InitializeLatest
    /\ Start(snapshots)
    /\ halted' = FALSE
    /\ UNCHANGED <<snapshots, inflight, crashes, resumes, byNumber>>

\* The heights that a start takes by number: its anchor and what it will warp over.
TakenByNumber(updates) ==
    {s.safe : s \in Indexed}
    \cup UNION {updates[i].from .. updates[i].to
                  : i \in {j \in DOMAIN updates : updates[j].tag = "Warp"}}

BootScan ==
    /\ InitializeScan(Indexed)
    /\ byNumber' = byNumber \cup TakenByNumber(queue')
    /\ UNCHANGED <<machineVars, inflight, halted, crashes, resumes>>
BootFails == InitializeMissing /\ UNCHANGED <<machineVars, driverVars>>

\* Every log asks for one effect.
EffectsOf(u) == IF u.tag = "Logs" THEN {u.logs[i].data : i \in DOMAIN u.logs} ELSE {}

\* Driver::update for a watcher update: handle it, prune to the watcher's safe
\* block, spawn the effects. An error stops the driver.
Update ==
    /\ ~ halted
    /\ \E u \in WatcherUpdates :
          /\ WatcherNext(u)
          /\ HandleUpdate(u, safe'.number)
          /\ halted' = (status' = Poisoned)
          /\ inflight' = IF status' = Poisoned THEN {} ELSE inflight \cup EffectsOf(u)
    /\ UNCHANGED <<crashes, resumes, byNumber>>

\* next_input returns ExceededMaxReorgDepth instead of retrying.
ReorgTooDeep ==
    /\ phase = "up" /\ ~ halted
    /\ ExceededMaxReorgDepth
    /\ halted' = TRUE /\ inflight' = {}
    /\ UNCHANGED <<indexVars, machineVars, crashes, resumes, byNumber>>

RetryFetch == ~ halted /\ FetchFails /\ UNCHANGED <<machineVars, driverVars>>

\* An effect completes, in any order, and resumes the state machine ...
ResumeEffect ==
    /\ phase = "up" /\ ~ halted /\ resumes < MaxResumes
    /\ \E e \in inflight : HandleResume(e) /\ inflight' = inflight \ {e}
    /\ resumes' = resumes + 1
    /\ UNCHANGED <<indexVars, halted, crashes, byNumber>>

\* ... or its task fails, and there is no resume.
EffectFails ==
    /\ phase = "up" /\ ~ halted /\ resumes < MaxResumes
    /\ \E e \in inflight : inflight' = inflight \ {e}
    /\ resumes' = resumes + 1
    /\ UNCHANGED <<indexVars, machineVars, halted, crashes, byNumber>>

\* The process stops: everything but the snapshots is lost. A halted driver has
\* exited already, and is started again by whoever runs it.
Stop ==
    /\ crashes < MaxCrashes
    /\ crashes' = crashes + 1
    /\ phase' = "down" /\ latest' = NoBlock
    /\ pending' = 0 /\ safe' = [number |-> 0, hash |-> NoHash]
    /\ recent' = <<>> /\ queue' = <<>> /\ step' = Idle
    /\ live' = <<>> /\ status' = Initialized
    /\ inflight' = {} /\ halted' = FALSE
    /\ UNCHANGED <<nodeVars, resumes, byNumber>>

Crash == phase # "down" /\ Stop /\ UNCHANGED snapshots

\* A crash right after handle_update wrote to the snapshot store: neither the
\* prune nor the dispatch of the commands happened.
CrashInUpdate ==
    /\ phase = "up" /\ ~ halted
    /\ Stop
    /\ \/ \E u \in BlockUpdates :
             /\ u.tag = "Uncle" /\ CanUncle(u)
             /\ snapshots' = Discard(snapshots, u.number)
       \/ \E u \in LogUpdates :
             /\ CanLogs(u)
             /\ snapshots' = Commit(snapshots, u.to,
                                 AppliedLogs(live, u, status.tag = "WarpEvents"))

DriverNext ==
    \/ Chain
    \/ Boot \/ BootScan \/ BootFails
    \/ Update \/ ReorgTooDeep \/ RetryFetch
    \/ ResumeEffect \/ EffectFails
    \/ Crash \/ CrashInUpdate

DriverSpec == DriverInit /\ [][DriverNext]_vars

\* The run loop keeps asking the watcher, retrying after errors, and a stopped
\* service is started again; effects and the chain may stand still.
FairSpec ==
    /\ DriverSpec
    /\ WF_vars(Boot) /\ WF_vars(BootScan) /\ WF_vars(BootFails) /\ WF_vars(Update)

-----------------------------------------------------------------------------
(* Properties                                                               *)

FirstBlock == IF StartBlock = NoBlock THEN 0 ELSE StartBlock

\* The state that a service reaches by applying, for each block up to n, the
\* block's transition and then its log.
StateAt(n, Hash(_)) ==
    LET upTo[b \in FirstBlock - 1 .. n] ==
            IF b < FirstBlock THEN <<>>
            ELSE upTo[b - 1] \o
                 <<NewBlock(b), [msg |-> "Event", number |-> b, data |-> Hash(b)]>>
    IN  upTo[n]

WithoutResumes(state) == SelectSeq(state, LAMBDA m : m.msg # "Resume")

\* A reorg that stays within max_reorg_depth never stops the service: no update
\* is rejected, the snapshot a rollback needs is there, and the watcher finds
\* the common ancestor.
SurvivesReorgs == Shallow => ~ halted

\* The oldest snapshot, which a restart rolls back to and trusts by its number
\* alone, and every snapshot the watcher holds to be safe, is the state of the
\* canonical chain up to a final block: each block's transition exactly once,
\* before its own log, and no log of an uncled block, through reorgs, warps,
\* crashes and restarts.
AnchorCanonical ==
    Shallow => \A n \in Stored(snapshots) :
        n = Oldest(snapshots) \/ (phase = "up" /\ queue = <<>> /\ n <= safe.number) =>
            /\ n <= Final
            /\ WithoutResumes(snapshots[n]) = StateAt(n, LAMBDA b : chain[b])

\* The logs in the live state are those of consecutive blocks, and of one branch
\* wherever the service knows the blocks by their hashes: however deep the reorgs
\* are, it joins no two branches there (a deeper one than max_reorg_depth is
\* refused, blocks.rs:86-91). A start takes its anchor and the blocks it warps over
\* by number alone, and only a chain as shallow as max_reorg_depth keeps those on
\* one branch.
LinkedState ==
    LET events == SelectSeq(live, LAMBDA m : m.msg = "Event")
    IN  \A i \in 1 .. Len(events) - 1 :
            /\ events[i + 1].number = events[i].number + 1
            /\ \/ parent[events[i + 1].data] = events[i].data
               \/ ~ Shallow /\ events[i].number \in byNumber

\* The hash the watcher believes in at a height it has emitted.
Tracked(b) == IF b <= safe.number THEN chain[b]
              ELSE recent[b - safe.number].hash

\* Once the indexer is drained, the live state is that of the chain it tracks,
\* with the pending block's transition applied ahead of the block.
LiveFollowsTracked ==
    /\ Shallow /\ phase = "up" /\ ~ halted
    /\ queue = <<>> /\ step = Idle /\ status.tag = "BlockApplied"
    =>
        /\ status.block = pending
        /\ WithoutResumes(live) =
              Append(StateAt(pending - 1, Tracked), NewBlock(pending))

\* Once the chain settles on a head at a new height, the service's tip snapshot
\* becomes the state of that chain and stays it.
InSync ==
    /\ Stored(snapshots) # {} /\ Tip(snapshots) = Height
    /\ WithoutResumes(snapshots[Height]) = StateAt(Height, LAMBDA b : chain[b])

EventuallyInSync == Shallow /\ <>[]raised => <>[]InSync
=============================================================================
