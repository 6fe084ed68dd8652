---------------------------- MODULE StateMachine ----------------------------
(***************************************************************************)
(* The reorg-aware state machine of the services and its snapshot store     *)
(* (crates/core/src/state/mod.rs, crates/core/src/state/storage.rs).        *)
(*                                                                          *)
(* A service's state is a function of the messages it was transitioned      *)
(* with, so the model's state IS that sequence of messages: it tells apart  *)
(* everything that any transition function could tell apart.                *)
(***************************************************************************)
EXTENDS Integers, Sequences, FiniteSets, Functions

VARIABLES
    live,       \* the state held by StateMachine::inner: a sequence of messages
    status,     \* Status, or Poisoned when inner is None
    snapshots   \* the snapshots table: [block number -> state], partial

machineVars == <<live, status, snapshots>>

\* Message
NewBlock(number) == [msg |-> "NewBlock", number |-> number]
Event(log)       == [msg |-> "Event", number |-> log.number, data |-> log.data]
Resume(data)     == [msg |-> "Resume", data |-> data]

\* Status
Initialized           == [tag |-> "Initialized"]
BlockPending(pending) == [tag |-> "BlockPending", block |-> pending]
BlockApplied(pending) == [tag |-> "BlockApplied", block |-> pending]
BlockEvents(latest)   == [tag |-> "BlockEvents", block |-> latest]
WarpEvents(from, to)  == [tag |-> "WarpEvents", from |-> from, to |-> to]
Poisoned              == [tag |-> "Poisoned"]

-----------------------------------------------------------------------------
(* SnapshotStore                                                            *)

Stored(table) == DOMAIN table
Tip(table)    == CHOOSE n \in Stored(table) : \A m \in Stored(table) : m <= n
Oldest(table) == CHOOSE n \in Stored(table) : \A m \in Stored(table) : n <= m

\* SnapshotStore::status, for a table that is not empty.
SnapshotStatus(table) == [latest |-> Tip(table), safe |-> Oldest(table)]

\* SnapshotStore::commit
Commit(table, number, state) ==
    [n \in Stored(table) \cup {number} |-> IF n = number THEN state ELSE table[n]]

\* The part of SnapshotStore::reorg that runs once the parent's snapshot is
\* known to exist.
Discard(table, uncle) == Restrict(table, {n \in Stored(table) : n < uncle})

\* SnapshotStore::prune
PruneSnapshots(table, safe) ==
    Restrict(table, {n \in Stored(table) : n >= safe \/ n = Tip(table)})

-----------------------------------------------------------------------------
(* StateMachine                                                             *)

\* Faulty variant: the block after the tip is not the one awaited.
StartAtTip(table) ==
    /\ live' = IF Stored(table) = {} THEN <<>> ELSE table[Tip(table)]
    /\ status' = IF Stored(table) = {} THEN Initialized ELSE BlockPending(Tip(table))

\* StateMachine::with_init: resume from the tip snapshot, if there is one.
Start(table) ==
    /\ live' = IF Stored(table) = {} THEN <<>> ELSE table[Tip(table)]
    /\ status' = IF Stored(table) = {} THEN Initialized ELSE BlockPending(Tip(table) + 1)

MachineInit ==
    /\ live = <<>>
    /\ status = Initialized
    /\ snapshots = << >>

\* handle_update takes the state out of the lock and only puts it back when it
\* succeeds: every error leaves the machine poisoned and the tables unchanged.
Fail == live' = <<>> /\ status' = Poisoned /\ UNCHANGED snapshots

AwaitsBlock(number) ==
    status = Initialized \/ status \in {BlockPending(number), BlockApplied(number)}

CanWarp(u) == (status = Initialized \/ status = BlockPending(u.from)) /\ u.from <= u.to

\* The driver prunes right after each update, with the watcher's safe block.
HandleWarp(u, safe) ==
    /\ CanWarp(u)
    /\ status' = WarpEvents(u.from, u.to)
    /\ snapshots' = PruneSnapshots(snapshots, safe)
    /\ UNCHANGED live

CanUncle(u) ==
    /\ \/ status.tag \in {"BlockPending", "BlockApplied"} /\ u.number < status.block
       \/ status.tag = "BlockEvents" /\ u.number <= status.block
    /\ u.number - 1 \in Stored(snapshots)

\* The live state goes back to the parent's snapshot, which must be stored.
HandleUncle(u, safe) ==
    /\ CanUncle(u)
    /\ live' = snapshots[u.number - 1]
    /\ snapshots' = PruneSnapshots(Discard(snapshots, u.number), safe)
    /\ status' = BlockPending(u.number)

CanNew(u) == AwaitsBlock(u.number)

\* Faulty variant: an optimistically applied block is applied again.
HandleNewAgain(u, safe) ==
    /\ CanNew(u)
    /\ live' = Append(live, NewBlock(u.number))
    /\ status' = BlockEvents(u.number)
    /\ snapshots' = PruneSnapshots(snapshots, safe)

\* The block's transition may have been applied with the previous block's logs.
HandleNew(u, safe) ==
    /\ CanNew(u)
    /\ live' = IF status = BlockApplied(u.number) THEN live ELSE Append(live, NewBlock(u.number))
    /\ status' = BlockEvents(u.number)
    /\ snapshots' = PruneSnapshots(snapshots, safe)

\* The logs must be strictly sorted and lie in the update's range.
WellFormedLogs(u) ==
    /\ \A i \in DOMAIN u.logs : u.logs[i].number \in u.from .. u.to
    /\ \A i, j \in DOMAIN u.logs : i < j =>
          \/ u.logs[i].number < u.logs[j].number
          \/ u.logs[i].number = u.logs[j].number /\ u.logs[i].index < u.logs[j].index

CanLogs(u) ==
    /\ \/ status.tag = "BlockEvents" /\ u.from = status.block /\ u.to = status.block
       \/ status.tag = "WarpEvents" /\ u.from = status.from /\ u.to \in u.from .. status.to
    /\ WellFormedLogs(u)

EventsOf(u, number) ==
    LET own == SelectSeq(u.logs, LAMBDA log : log.number = number)
    IN  [i \in DOMAIN own |-> Event(own[i])]

\* The loop over the update's blocks: a warped block's own transition comes
\* before its logs, a live block's was applied when it was observed.
AppliedLogs(state, u, warping) ==
    LET upTo[n \in u.from - 1 .. u.to] ==
            IF n < u.from THEN state
            ELSE upTo[n - 1] \o (IF warping THEN <<NewBlock(n)>> ELSE <<>>) \o EventsOf(u, n)
    IN  upTo[u.to]

\* Faulty variant: the pending block's transition is applied before the
\* snapshot is committed.
HandleLogsCommittingLate(u, safe) ==
    /\ CanLogs(u)
    /\ LET warping == status.tag = "WarpEvents"
           state   == AppliedLogs(live, u, warping)
           more    == warping /\ u.to < status.to
           next    == IF more THEN state ELSE Append(state, NewBlock(u.to + 1))
       IN /\ live' = next
          /\ snapshots' = PruneSnapshots(Commit(snapshots, u.to, next), safe)
          /\ status' = IF more THEN WarpEvents(u.to + 1, status.to) ELSE BlockApplied(u.to + 1)

\* The snapshot is committed before the pending block's transition is applied
\* optimistically, so that a restart replays that transition.
HandleLogs(u, safe) ==
    /\ CanLogs(u)
    /\ LET warping == status.tag = "WarpEvents"
           state   == AppliedLogs(live, u, warping)
           more    == warping /\ u.to < status.to
       IN /\ snapshots' = PruneSnapshots(Commit(snapshots, u.to, state), safe)
          /\ live' = IF more THEN state ELSE Append(state, NewBlock(u.to + 1))
          /\ status' = IF more THEN WarpEvents(u.to + 1, status.to) ELSE BlockApplied(u.to + 1)

CanHandle(u) ==
    \/ u.tag = "Warp" /\ CanWarp(u)
    \/ u.tag = "Uncle" /\ CanUncle(u)
    \/ u.tag = "New" /\ CanNew(u)
    \/ u.tag = "Logs" /\ CanLogs(u)

HandleUpdate(u, safe) ==
    \/ u.tag = "Warp" /\ HandleWarp(u, safe)
    \/ u.tag = "Uncle" /\ HandleUncle(u, safe)
    \/ u.tag = "New" /\ HandleNew(u, safe)
    \/ u.tag = "Logs" /\ HandleLogs(u, safe)
    \/ ~ CanHandle(u) /\ Fail

\* handle_resume: the live state only; it is persisted with the next logs.
HandleResume(data) ==
    /\ status # Poisoned
    /\ live' = Append(live, Resume(data))
    /\ UNCHANGED <<status, snapshots>>
=============================================================================
