------------------------------ MODULE Indexer ------------------------------
(***************************************************************************)
(* The chain index of the services: the block watcher, the event watcher    *)
(* and the watcher that couples them (crates/core/src/index/blocks.rs,      *)
(* events.rs, mod.rs), following a node whose chain reorgs.                 *)
(*                                                                          *)
(* A block is named by its hash. Every block carries one log, named by the  *)
(* same hash, so a missed, repeated or foreign log is visible. Timers are   *)
(* left out: waiting for a block is waiting for it to be on the chain.      *)
(***************************************************************************)
EXTENDS Integers, Sequences, FiniteSets

CONSTANTS
    MaxReorgDepth,  \* Config::max_reorg_depth
    NoBlock,
    PageSize,       \* Config::block_page_size
    Settings,       \* Config::start_block, or NoBlock, with how deep the chain reorgs
    InitialHeight,  \* the chain's height when the service is first started
    MaxMined        \* bound: blocks mined after that

ASSUME DepthAssumption == MaxReorgDepth \in Nat
ASSUME ChainAssumption == InitialHeight \in Nat /\ MaxMined \in Nat
ASSUME NoBlockAssumption == NoBlock \notin Nat
ASSUME PageAssumption == PageSize \in Nat \ {0}
ASSUME SettingsAssumption == \A s \in Settings : s.start_block \in Nat \cup {NoBlock} /\ s.limit \in Nat

VARIABLES
    chain,      \* the node's canonical chain: [0..height -> hash]
    setting,    \* the one of this behaviour
    mined,      \* hashes handed out so far
    highest,    \* the greatest height the chain ever had
    raised,     \* history: the head is the first block ever at its height
    parent,     \* history: [hash -> its parent's hash]
    phase,      \* "down", "init" (between the two reads of initialize) or "up"
    latest,     \* the header initialize read first, while phase = "init"
    pending,    \* BlockWatcher::pending.number
    safe,       \* BlockWatcher::safe
    recent,     \* BlockWatcher::recent, oldest first
    queue,      \* BlockWatcher::queue
    step        \* EventWatcher::step

nodeVars == <<chain, setting, mined, highest, raised, parent>>
watcherVars == <<phase, latest, pending, safe, recent, queue, step>>
indexVars == <<nodeVars, watcherVars>>

-----------------------------------------------------------------------------
(* The node (external)                                                      *)

Height == CHOOSE n \in DOMAIN chain : n + 1 \notin DOMAIN chain
NoHash == -1

\* The header of the canonical block at a height, as get_block returns it.
Header(number) ==
    [number |-> number, hash |-> chain[number],
     parent_hash |-> IF number = 0 THEN NoHash ELSE chain[number - 1]]

Saturating(a, b) == IF a < b THEN 0 ELSE a - b

StartBlock == setting.start_block

\* Blocks at and below this height are final.
Final == Saturating(highest, setting.limit)

\* What max_reorg_depth assumes of the chain.
Shallow == setting.limit <= MaxReorgDepth

NodeInit ==
    /\ chain = [n \in 0 .. InitialHeight |-> n]
    /\ setting \in Settings
    /\ mined = InitialHeight
    /\ highest = InitialHeight
    /\ raised = TRUE
    /\ parent = [n \in 0 .. InitialHeight |-> n - 1]

Mine ==
    /\ mined < InitialHeight + MaxMined
    /\ mined' = mined + 1
    /\ chain' = [n \in 0 .. Height + 1 |-> IF n <= Height THEN chain[n] ELSE mined']
    /\ highest' = IF Height + 1 > highest THEN Height + 1 ELSE highest
    /\ raised' = (Height + 1 > highest)
    /\ parent' = [h \in 0 .. mined' |-> IF h = mined' THEN chain[Height] ELSE parent[h]]
    /\ UNCHANGED <<setting, watcherVars>>

\* A reorg drops the blocks above an ancestor that is not below the final block;
\* Mine then grows the new branch. A reader may see any intermediate height.
Reorg ==
    /\ mined < InitialHeight + MaxMined
    /\ \E ancestor \in Final .. Height - 1 :
          chain' = [n \in 0 .. ancestor |-> chain[n]]
    /\ raised' = FALSE
    /\ UNCHANGED <<setting, mined, highest, parent, watcherVars>>

-----------------------------------------------------------------------------
(* Updates and steps                                                        *)

Warp(from, to)  == [tag |-> "Warp", from |-> from, to |-> to]
Uncle(number)   == [tag |-> "Uncle", number |-> number]
New(header)     == [tag |-> "New", number |-> header.number, hash |-> header.hash]
Logs(from, to, logs) == [tag |-> "Logs", from |-> from, to |-> to, logs |-> logs]

Idle == [tag |-> "Idle"]
Warping(from, to, page, fetched) ==
    [tag |-> "Warping", from |-> from, to |-> to, page |-> page, fetched |-> fetched]
Block(number, hash) == [tag |-> "Block", number |-> number, hash |-> hash]

-----------------------------------------------------------------------------
(* BlockWatcher                                                             *)

WatcherInit ==
    /\ phase = "down" /\ latest = NoBlock /\ pending = 0
    /\ safe = [number |-> 0, hash |-> NoHash]
    /\ recent = <<>> /\ queue = <<>> /\ step = Idle

\* The first part of initialize: read the latest block.
InitializeLatest ==
    /\ phase = "down"
    /\ phase' = "init"
    /\ latest' = Header(Height)
    /\ UNCHANGED <<nodeVars, pending, safe, recent, queue, step>>

\* What initialize queues before it looks at the recent blocks: the synthetic
\* reorg to the oldest snapshot and the warp over reorg-safe blocks. `indexed` is
\* the set with the snapshot store's status, or empty.
Resumption(indexed, safeNumber) ==
    IF indexed # {}
    THEN LET s == CHOOSE i \in indexed : TRUE
             uncle == s.safe + 1
         IN  (IF uncle <= s.latest THEN <<Uncle(uncle)>> ELSE <<>>)
             \o (IF uncle <= safeNumber THEN <<Warp(uncle, safeNumber)>> ELSE <<>>)
    ELSE IF StartBlock # NoBlock /\ StartBlock <= safeNumber
         THEN <<Warp(StartBlock, safeNumber)>> ELSE <<>>

\* The first block whose update initialize emits.
EmitFrom(indexed) ==
    IF indexed # {} THEN (CHOOSE i \in indexed : TRUE).safe + 1
    ELSE IF StartBlock # NoBlock THEN StartBlock ELSE 0

\* The range scan: a linked segment of the chain as it is now, except that the
\* cached latest block stands in for its height when it links.
Scanned(number) ==
    IF number = latest.number /\ number # 0 /\ latest.parent_hash = chain[number - 1]
    THEN latest ELSE Header(number)

InitializeScan(indexed) ==
    /\ phase = "init"
    /\ latest.number <= Height      \* else MissingBlock: the service does not start
    /\ LET safeNumber == Saturating(latest.number, MaxReorgDepth)
           count   == latest.number - safeNumber
           headers == [i \in 1 .. count |-> Scanned(safeNumber + i)]
           skipped == Saturating(EmitFrom(indexed), safeNumber + 1)
       IN /\ safe' = [number |-> safeNumber, hash |-> Scanned(safeNumber).hash]
          /\ recent' = headers
          /\ queue' = Resumption(indexed, safeNumber)
                         \o [i \in 1 .. count - skipped |-> New(headers[i + skipped])]
    /\ pending' = latest.number + 1
    /\ phase' = "up"
    /\ step' = Idle
    /\ latest' = NoBlock
    /\ UNCHANGED nodeVars

\* The scan met a height the node no longer serves: startup fails.
InitializeMissing ==
    /\ phase = "init"
    /\ latest.number > Height
    /\ phase' = "down" /\ latest' = NoBlock
    /\ UNCHANGED <<nodeVars, pending, safe, recent, queue, step>>

Last(s) == s[Len(s)]
Front(s) == SubSeq(s, 1, Len(s) - 1)

\* Faulty variant: with no tracked block left, any block is accepted.
AnchorForgettingSafe == IF recent = <<>> THEN Header(pending).parent_hash ELSE Last(recent).hash

\* The hash the next block has to build on.
Anchor == IF recent = <<>> THEN safe.hash ELSE Last(recent).hash

BlockReady == pending \in DOMAIN chain

\* The update BlockWatcher::next returns: queued updates come first; a block that
\* does not build on the last tracked one uncles that one instead.
BlockUpdates ==
    IF queue # <<>> THEN {Head(queue)}
    ELSE IF ~ BlockReady THEN {}
    ELSE IF Header(pending).parent_hash = Anchor THEN {New(Header(pending))}
    ELSE IF recent # <<>> THEN {Uncle(Last(recent).number)}
    ELSE {}

\* Not even the safe block is on the chain any more.
ExceededMaxReorgDepth ==
    /\ step = Idle /\ queue = <<>> /\ BlockReady /\ recent = <<>>
    /\ Header(pending).parent_hash # Anchor

PopQueue ==
    /\ queue # <<>>
    /\ queue' = Tail(queue)
    /\ UNCHANGED <<pending, safe, recent>>

UncleRecent ==
    /\ queue = <<>> /\ BlockReady /\ recent # <<>>
    /\ Header(pending).parent_hash # Anchor
    /\ pending' = Last(recent).number
    /\ recent' = Front(recent)
    /\ UNCHANGED <<safe, queue>>

\* A new block pushes the oldest tracked one out, which becomes the safe anchor.
TrackBlock ==
    /\ queue = <<>> /\ BlockReady
    /\ Header(pending).parent_hash = Anchor
    /\ pending' = pending + 1
    /\ LET tracked == Append(recent, Header(pending))
           evict   == Len(tracked) > MaxReorgDepth
       IN /\ recent' = IF evict THEN Tail(tracked) ELSE tracked
          /\ safe' = IF evict THEN [number |-> Head(tracked).number, hash |-> Head(tracked).hash]
                     ELSE safe
    /\ UNCHANGED queue

\* revalidate_last_block: the last emitted block, if it is still tracked and the
\* next queued update is not a warp or an uncle.
Emitted == IF queue = <<>> THEN DOMAIN recent
           ELSE IF Head(queue).tag = "New"
                THEN {i \in DOMAIN recent : recent[i].number < Head(queue).number}
                ELSE {}

LastEmitted == CHOOSE i \in Emitted : \A j \in Emitted : j <= i

Canonical(header) == header.number \in DOMAIN chain /\ chain[header.number] = header.hash

Invalidates == Emitted # {} /\ ~ Canonical(recent[LastEmitted])

\* Faulty variant: the queued children of the dropped block stay queued.
InvalidateKeepingQueue ==
    LET last == recent[LastEmitted] IN
    /\ Invalidates
    /\ recent' = SubSeq(recent, 1, LastEmitted - 1)
    /\ pending' = last.number
    /\ UNCHANGED <<safe, queue>>

\* The block and its children are dropped, and Watcher::next goes on to return
\* the queued uncle.
Invalidate ==
    LET last == recent[LastEmitted] IN
    /\ Invalidates
    /\ recent' = SubSeq(recent, 1, LastEmitted - 1)
    /\ pending' = last.number
    /\ queue' = <<>>
    /\ UNCHANGED safe

-----------------------------------------------------------------------------
(* EventWatcher                                                             *)

\* on_block_update, for an idle watcher.
StepFor(u) ==
    CASE u.tag = "Warp"  -> Warping(u.from, u.to, PageSize, NoBlock)
      [] u.tag = "Uncle" -> Idle
      [] u.tag = "New"   -> Block(u.number, u.hash)

\* on_block_invalidated insists that it is the block in progress.
OnBlockInvalidated(hash) == step.tag = "Block" /\ step.hash = hash /\ step' = Idle

Before(a, b) == a.number < b.number \/ (a.number = b.number /\ a.index < b.index)

\* decode_and_sort: by block, and by index within a block
DecodeAndSort(logs) ==
    [i \in 1 .. Cardinality(logs) |->
        CHOOSE log \in logs : Cardinality({l \in logs : Before(l, log)}) = i - 1]

\* The logs the node returns for a range of blocks, whichever way they are fetched.
LogsIn(from, to) ==
    {[number |-> n, index |-> 0, data |-> chain[n]] : n \in from .. to}

PageEnd == IF step.fetched # NoBlock THEN step.fetched
           ELSE IF step.from + step.page - 1 < step.to THEN step.from + step.page - 1 ELSE step.to

\* The logs EventWatcher::next returns: a page of a warp, or a block's logs. Those
\* are queried by hash, so a node may also serve the ones of an uncled block.
LogUpdates ==
    CASE step.tag = "Idle"    -> {}
      [] step.tag = "Block"   -> {Logs(step.number, step.number,
                                   <<[number |-> step.number, index |-> 0, data |-> step.hash]>>)}
      [] step.tag = "Warping" -> IF PageEnd \in DOMAIN chain
                                 THEN {Logs(step.from, PageEnd, DecodeAndSort(LogsIn(step.from, PageEnd)))}
                                 ELSE {}

\* A page or a block is done; a page resets the page size.
NextStep ==
    IF step.tag = "Warping" /\ PageEnd # step.to
    THEN Warping(PageEnd + 1, step.to, PageSize, NoBlock) ELSE Idle

\* The logs query of a page fails and the page is narrowed, or a header request
\* fails after it and the fetched page is kept. A failed query of a block's logs
\* is repeated.
FetchFails ==
    /\ phase = "up" /\ step.tag = "Warping"
    /\ \/ /\ step.fetched = NoBlock
          /\ step' = Warping(step.from, step.to, (step.page + 1) \div 2, NoBlock)
       \/ step' = Warping(step.from, step.to, step.page, PageEnd)
    /\ UNCHANGED <<nodeVars, phase, latest, pending, safe, recent, queue>>

-----------------------------------------------------------------------------
(* Watcher                                                                  *)

\* "Resource not found" for the logs of a block that was uncled: the block
\* watcher revalidates its last block.
LogsNotFound ==
    /\ step.tag = "Block" /\ ~ Canonical([number |-> step.number, hash |-> step.hash])
    /\ Invalidates

\* Watcher::next returns u: logs while there are any to fetch, else a block.
WatcherNext(u) ==
    /\ phase = "up"
    /\ \/ /\ u \in LogUpdates
          /\ step' = NextStep
          /\ UNCHANGED <<pending, safe, recent, queue>>
       \/ /\ LogsNotFound
          /\ u = Uncle(step.number)
          /\ OnBlockInvalidated(recent[LastEmitted].hash)
          /\ Invalidate
       \/ /\ step = Idle
          /\ u \in BlockUpdates
          /\ PopQueue \/ UncleRecent \/ TrackBlock
          /\ step' = StepFor(u)
    /\ UNCHANGED <<nodeVars, phase, latest>>

WatcherUpdates ==
    BlockUpdates \cup LogUpdates \cup
        IF step.tag = "Block" THEN {Uncle(step.number)} ELSE {}
=============================================================================
