---------------------------- MODULE DriverProofs ----------------------------
(***************************************************************************)
(* A service survives every reorg within max_reorg_depth: the watcher and   *)
(* the state machine stay in step (Driver).                                 *)
(***************************************************************************)
EXTENDS Driver, FiniteSetTheorems, TLAPS

\* On a chain that respects the depth, the service indexes from a configured block
\* that was final when it was first started.
StartsFinal ==
    \A s \in Settings : s.limit <= MaxReorgDepth =>
        s.start_block \in Nat /\ s.start_block + s.limit <= InitialHeight

-----------------------------------------------------------------------------
(* The node and the watcher's window                                        *)

NodeOK ==
    /\ setting \in Settings /\ mined \in Nat /\ highest \in Nat
    /\ Height \in Nat /\ DOMAIN chain = 0 .. Height
    /\ Final <= Height /\ Height <= highest
    /\ \A n \in 0 .. Height : chain[n] \in Nat /\ chain[n] <= mined

Headers == [number : Nat, hash : Nat, parent_hash : Int]

\* The safe block is final. A tracked block that is on the chain has the tracked
\* blocks before it on the chain.
WindowOK ==
    /\ safe \in [number : Nat, hash : Nat] /\ recent \in Seq(Headers)
    /\ Len(recent) <= MaxReorgDepth
    /\ pending = safe.number + Len(recent) + 1
    /\ safe.number <= Final /\ Canonical(safe)
    /\ \A i \in 1 .. Len(recent) : recent[i].number = safe.number + i /\ recent[i].hash <= mined
    /\ \A i, j \in 1 .. Len(recent) : i <= j /\ Canonical(recent[j]) => Canonical(recent[i])

\* A block that the watcher has and that stays.
Pinned(n) ==
    /\ n <= Final
    /\ \/ n <= safe.number
       \/ n - safe.number \in 1 .. Len(recent) /\ Canonical(recent[n - safe.number])

-----------------------------------------------------------------------------
(* The state machine awaits what the watcher is going to return             *)

Updates == [tag : {"New"}, number : Nat, hash : Nat] \cup [tag : {"Uncle"}, number : Nat]
              \cup [tag : {"Warp"}, from : Nat, to : Nat]

\* The blocks from n on, up to the one before end, are queued in q.
News(q, n, end) ==
    /\ q \in Seq(Updates) /\ Len(q) = end - n
    /\ \A i \in 1 .. Len(q) : q[i].tag = "New" /\ q[i].number = n + i - 1

\* The blocks from n on, up to the last tracked one, are queued in q.
NewsFrom(q, n) == News(q, n, pending)

\* There is a snapshot of every block from a pinned one to the one before n. Before
\* the first block is applied there is none.
SnapshotsUpTo(n) ==
    \/ Stored(snapshots) = {} /\ n = StartBlock /\ Pinned(n)
    \/ \E lo \in Nat : lo < n /\ Stored(snapshots) = lo .. n - 1 /\ Pinned(lo)

\* The state machine awaits block n, or has no block yet.
Awaits(n) ==
    IF Stored(snapshots) = {} THEN status = Initialized
    ELSE status \in {BlockPending(n), BlockApplied(n)}

\* A warp starts at the configured block, or after the only snapshot.
WarpBase(f) == \/ Stored(snapshots) = {} /\ f = StartBlock
               \/ f > 0 /\ Stored(snapshots) = {f - 1}

\* The next update is that of block n, queued or still to come.
AtBlock(n) ==
    /\ n \in safe.number + 1 .. pending
    /\ step = Idle /\ NewsFrom(queue, n)
    /\ Awaits(n) /\ SnapshotsUpTo(n)

\* The next update is a warp from block f on.
AtWarp(f) ==
    /\ f \in 0 .. safe.number
    /\ step = Idle /\ queue \in Seq(Updates) /\ queue # <<>>
    /\ Head(queue) = Warp(f, safe.number) /\ NewsFrom(Tail(queue), safe.number + 1)
    /\ status = (IF Stored(snapshots) = {} THEN Initialized ELSE BlockPending(f))
    /\ WarpBase(f)

\* The next update rolls back to the oldest snapshot, that of the block before n.
AtUncle(n) ==
    /\ n > 0 /\ n - 1 <= Final /\ step = Idle /\ queue \in Seq(Updates) /\ queue # <<>>
    /\ Head(queue) = Uncle(n)
    /\ n - 1 \in Stored(snapshots) /\ \A m \in Stored(snapshots) : n - 1 <= m
    /\ \E tip \in Stored(snapshots) :
          tip \in Nat /\ n <= tip /\ status = BlockPending(tip + 1) /\ Stored(snapshots) \subseteq 0 .. tip
    /\ Pinned(n - 1)
    /\ \/ n \in safe.number + 1 .. pending /\ NewsFrom(Tail(queue), n)
       \/ /\ n <= safe.number /\ Tail(queue) # <<>> /\ Head(Tail(queue)) = Warp(n, safe.number)
          /\ NewsFrom(Tail(Tail(queue)), safe.number + 1)

\* The logs of block n are fetched.
InBlock(n) ==
    /\ n \in safe.number .. pending - 1
    /\ n = safe.number => recent = <<>>
    /\ step.tag = "Block" /\ step.number = n /\ step.hash \in Nat
    /\ NewsFrom(queue, n + 1)
    /\ status = BlockEvents(n) /\ SnapshotsUpTo(n)

\* The logs of a warp are fetched, from block f on.
InWarp(f) ==
    /\ f \in 0 .. safe.number
    /\ \E page \in Nat \ {0}, fetched \in (f .. safe.number) \cup {NoBlock} :
          step = Warping(f, safe.number, page, fetched)
    /\ NewsFrom(queue, safe.number + 1)
    /\ status = WarpEvents(f, safe.number)
    /\ WarpBase(f)

InStep == \E n \in Nat : AtBlock(n) \/ AtWarp(n) \/ AtUncle(n) \/ InBlock(n) \/ InWarp(n)

\* What is stored when the service stops: the oldest snapshot is that of a final block.
TableOK(final) ==
    \/ Stored(snapshots) = {}
    \/ \E lo, tip \in Stored(snapshots) :
          lo \in Nat /\ tip \in Nat /\ lo <= final /\ Stored(snapshots) \subseteq lo .. tip

\* What was final when the latest block was read.
ReadOK ==
    /\ latest \in Headers /\ latest.hash <= mined
    /\ \E final \in 0 .. Final :
          /\ final <= latest.number /\ latest.number <= final + MaxReorgDepth
          /\ StartBlock <= final /\ TableOK(final)
          /\ latest.number = final => Canonical(latest)
    /\ status = IF Stored(snapshots) = {} THEN Initialized ELSE BlockPending(Tip(snapshots) + 1)

ServiceOK ==
    /\ ~ halted /\ StartBlock \in Nat /\ StartBlock <= Final
    /\ phase = "down" => TableOK(Final)
    /\ phase = "init" => ReadOK
    /\ phase = "up" => WindowOK /\ InStep

DriverInv ==
    /\ NodeOK
    /\ phase \in {"down", "init", "up"}
    /\ Shallow => ServiceOK

-----------------------------------------------------------------------------
(* The chain                                                                *)

\* The last of a range of numbers.
LEMMA LastOfRange ==
    ASSUME NEW h \in Nat
    PROVE  (CHOOSE n \in 0 .. h : n + 1 \notin 0 .. h) = h
<1>1. \E n \in 0 .. h : n + 1 \notin 0 .. h
  <2>1. h \in 0 .. h /\ h + 1 \notin 0 .. h
    OBVIOUS
  <2> QED BY <2>1
<1>2. \A n \in 0 .. h : n + 1 \notin 0 .. h => n = h
  OBVIOUS
<1> QED BY <1>1, <1>2, Zenon

\* What is final, in numbers.
LEMMA FinalIs ==
    ASSUME NodeOK
    PROVE  /\ setting.limit \in Nat /\ Final \in Nat
           /\ Final + setting.limit >= highest
           /\ Final = 0 \/ Final = highest - setting.limit
  BY SettingsAssumption DEF NodeOK, Final, Saturating

\* The chain grows or is cut back: final blocks stay, a block that is on the chain
\* now was on it unless it is the new one, and takes those before it along.
ChainMoves ==
    /\ Final <= Final' /\ Final' \in Nat /\ mined <= mined' /\ mined' \in Nat
    /\ setting' = setting
    /\ \A n \in 0 .. Final : n \in DOMAIN chain' /\ chain'[n] = chain[n]
    /\ \A k \in DOMAIN chain' : chain'[k] <= mined => k \in DOMAIN chain /\ chain[k] = chain'[k]
    /\ \A k \in DOMAIN chain', j \in DOMAIN chain : j <= k =>
           j \in DOMAIN chain' /\ chain'[j] = chain[j]

\* Mine
LEMMA MineMoves ==
    ASSUME NodeOK, Mine
    PROVE  NodeOK' /\ ChainMoves
<1>1. /\ Height \in Nat /\ mined \in Nat /\ highest \in Nat /\ setting.limit \in Nat
      /\ DOMAIN chain = 0 .. Height /\ Height <= highest /\ Final \in Nat /\ Final <= Height
  BY FinalIs DEF NodeOK
<1>2. PICK h \in Nat : h = Height
  BY <1>1
<1>3. /\ DOMAIN chain' = 0 .. h + 1
      /\ \A n \in 0 .. h : chain'[n] = chain[n]
      /\ chain'[h + 1] = mined + 1
  BY <1>2 DEF Mine
<1>4. Height' = h + 1
  <2>1. h + 1 \in Nat
    BY <1>2
  <2>2. (CHOOSE n \in 0 .. h + 1 : n + 1 \notin 0 .. h + 1) = h + 1
    BY <2>1, LastOfRange
  <2> QED BY <1>3, <2>2 DEF Height
<1>5. mined' = mined + 1 /\ setting' = setting
  BY DEF Mine
<1>6. highest' = IF h + 1 > highest THEN h + 1 ELSE highest
  BY <1>2 DEF Mine
<1>7. PICK g \in Nat : g = highest' /\ g >= highest /\ g >= h + 1 /\ (g = h + 1 \/ g = highest)
  BY <1>1, <1>2, <1>6
<1>8. Final' = IF g < setting.limit THEN 0 ELSE g - setting.limit
  BY <1>5, <1>7 DEF Final, Saturating
<1>9. Final' \in Nat /\ Final <= Final' /\ Final' <= h + 1
  BY <1>1, <1>2, <1>7, <1>8 DEF Final, Saturating
<1>10. NodeOK'
  <2>1. \A n \in 0 .. h + 1 : chain'[n] \in Nat /\ chain'[n] <= mined'
    BY <1>1, <1>2, <1>3, <1>5 DEF NodeOK
  <2>2. setting' \in Settings /\ mined' \in Nat
    BY <1>1, <1>5 DEF NodeOK
  <2> QED BY <1>3, <1>4, <1>7, <1>9, <2>1, <2>2 DEF NodeOK
<1>11. ChainMoves
  <2>1. \A n \in 0 .. Final : n \in 0 .. h + 1 /\ n \in 0 .. h
    BY <1>1, <1>2
  <2>2. \A k \in 0 .. h + 1 : chain'[k] <= mined => k \in 0 .. h
    BY <1>1, <1>2, <1>3
  <2> QED BY <1>1, <1>2, <1>3, <1>5, <1>9, <2>1, <2>2 DEF ChainMoves
<1> QED BY <1>10, <1>11

\* Reorg
LEMMA ReorgMoves ==
    ASSUME NodeOK, Reorg
    PROVE  NodeOK' /\ ChainMoves
<1>1. /\ Height \in Nat /\ mined \in Nat /\ highest \in Nat
      /\ DOMAIN chain = 0 .. Height /\ Height <= highest /\ Final \in Nat /\ Final <= Height
  BY FinalIs DEF NodeOK
<1>2. PICK a \in Final .. Height - 1 : chain' = [n \in 0 .. a |-> chain[n]]
  BY DEF Reorg
<1>3. a \in Nat /\ a < Height /\ Final <= a
  BY <1>1, <1>2
<1>4. Height' = a
  BY <1>2, <1>3, LastOfRange DEF Height
<1>5. UNCHANGED <<mined, highest, setting>> /\ Final' = Final
  BY DEF Reorg, Final
<1>6. NodeOK'
  <2>1. \A n \in 0 .. a : chain'[n] \in Nat /\ chain'[n] <= mined
    BY <1>1, <1>2, <1>3 DEF NodeOK
  <2> QED BY <1>1, <1>2, <1>3, <1>4, <1>5, <2>1 DEF NodeOK
<1>7. ChainMoves
  BY <1>1, <1>2, <1>3, <1>5 DEF ChainMoves
<1> QED BY <1>6, <1>7

\* The node stands still.
LEMMA NodeStays ==
    ASSUME NodeOK, UNCHANGED nodeVars
    PROVE  NodeOK' /\ ChainMoves /\ Final' = Final /\ StartBlock' = StartBlock
<1>1. UNCHANGED <<chain, setting, mined, highest>>
  BY DEF nodeVars
<1>2. Final' = Final /\ Height' = Height /\ StartBlock' = StartBlock
  BY <1>1 DEF Final, Height, StartBlock
<1>3. NodeOK'
  BY <1>1, <1>2 DEF NodeOK
<1>4. Final \in Nat /\ mined \in Nat /\ DOMAIN chain = 0 .. Height /\ Height \in Nat /\ Final <= Height
  BY FinalIs DEF NodeOK
<1>5. ChainMoves
  BY <1>1, <1>2, <1>4 DEF ChainMoves
<1> QED BY <1>2, <1>3, <1>5

\* The window stays in order while the chain moves.
LEMMA WindowMoves ==
    ASSUME NodeOK, ChainMoves, WindowOK, UNCHANGED watcherVars
    PROVE  WindowOK' /\ \A n \in Nat : Pinned(n) => Pinned(n)'
<1>1. /\ Final \in Nat /\ Final <= Final' /\ Final' \in Nat
      /\ mined \in Nat /\ mined <= mined' /\ mined' \in Nat
  BY FinalIs DEF ChainMoves, NodeOK
<1>2. UNCHANGED <<safe, recent, pending>>
  BY DEF watcherVars
<1> DEFINE Stays(x) == x.number \in DOMAIN chain' /\ chain'[x.number] = x.hash
<1>3. \A x \in [number : Nat, hash : Nat] \cup Headers : x.number <= Final /\ Canonical(x) => Stays(x)
  BY <1>1 DEF ChainMoves, Canonical, Headers
<1>4. \A x \in Headers : x.hash <= mined /\ Stays(x) => Canonical(x)
  BY DEF ChainMoves, Canonical, Headers
<1>5. \A x, y \in Headers : x.number <= y.number /\ Stays(y) /\ Canonical(x) => Stays(x)
  BY DEF ChainMoves, Canonical, Headers
<1> HIDE DEF Stays
<1>6. /\ Len(recent) \in Nat /\ safe.number \in Nat /\ safe \in [number : Nat, hash : Nat]
      /\ \A i \in 1 .. Len(recent) : /\ recent[i] \in Headers
                                     /\ recent[i].number = safe.number + i /\ recent[i].hash <= mined
  BY DEF WindowOK
<1>7. WindowOK'
  <2>1. safe.number <= Final' /\ Stays(safe)
    BY <1>1, <1>3, <1>6 DEF WindowOK
  <2>2. \A i \in 1 .. Len(recent) : recent[i].hash <= mined'
    BY <1>1, <1>6 DEF Headers
  <2>3. ASSUME NEW i \in 1 .. Len(recent), NEW j \in 1 .. Len(recent), i <= j, Stays(recent[j])
        PROVE  Stays(recent[i])
    <3>1. Canonical(recent[j])
      BY <1>4, <1>6, <2>3
    <3>2. Canonical(recent[i])
      BY <2>3, <3>1 DEF WindowOK
    <3>3. recent[i].number <= recent[j].number
      BY <1>6, <2>3
    <3> QED BY <1>5, <1>6, <2>3, <3>2, <3>3
  <2>4. Canonical(safe)'
    BY <1>2, <2>1 DEF Canonical, Stays
  <2>5. \A i, j \in 1 .. Len(recent)' : i <= j /\ Canonical(recent[j])' => Canonical(recent[i])'
    BY <1>2, <2>3 DEF Canonical, Stays
  <2> QED BY <1>2, <1>6, <2>1, <2>2, <2>4, <2>5 DEF WindowOK
<1>8. ASSUME NEW n \in Nat, Pinned(n) PROVE Pinned(n)'
  <2>1. n <= Final'
    BY <1>1, <1>8 DEF Pinned
  <2>2. CASE n <= safe.number
    BY <1>2, <2>1, <2>2 DEF Pinned
  <2>3. CASE n - safe.number \in 1 .. Len(recent) /\ Canonical(recent[n - safe.number])
    <3>1. PICK i \in 1 .. Len(recent) : i = n - safe.number
      BY <2>3
    <3>2. recent[i].number = n
      BY <1>6, <3>1
    <3>3. Stays(recent[i])
      BY <1>3, <1>6, <1>8, <2>3, <3>1, <3>2 DEF Pinned
    <3>4. Canonical(recent[n - safe.number])'
      BY <1>2, <3>1, <3>3 DEF Canonical, Stays
    <3> QED BY <3>4, <1>2, <2>1, <3>1, <3>3 DEF Pinned
  <2> QED BY <1>8, <2>2, <2>3 DEF Pinned
<1> QED BY <1>7, <1>8

\* The service stays in order while the chain moves.
LEMMA ServiceMoves ==
    ASSUME NodeOK, NodeOK', ChainMoves, Shallow, ServiceOK,
           UNCHANGED <<watcherVars, status, snapshots, halted>>
    PROVE  ServiceOK'
<1>1. /\ Final \in Nat /\ Final <= Final' /\ Final' \in Nat
      /\ mined \in Nat /\ mined <= mined' /\ mined' \in Nat
  BY FinalIs DEF ChainMoves, NodeOK
<1>2. ~ halted' /\ StartBlock' = StartBlock /\ StartBlock \in Nat /\ StartBlock <= Final'
  BY <1>1 DEF ServiceOK, ChainMoves, StartBlock
<1>3. ASSUME phase' = "down" PROVE TableOK(Final)'
  <2>1. TableOK(Final)
    BY <1>3 DEF ServiceOK, watcherVars
  <2> QED BY <1>1, <2>1 DEF TableOK, Stored
<1>4. ASSUME phase' = "init" PROVE ReadOK'
  <2>1. ReadOK /\ latest' = latest /\ status' = status /\ snapshots' = snapshots
    BY <1>4 DEF ServiceOK, watcherVars
  <2>2. PICK final \in 0 .. Final :
          /\ final <= latest.number /\ latest.number <= final + MaxReorgDepth
          /\ StartBlock <= final /\ TableOK(final)
          /\ latest.number = final => Canonical(latest)
    BY <2>1 DEF ReadOK
  <2>3. final \in 0 .. Final'
    BY <1>1, <2>2
  <2>4. latest \in Headers /\ latest.hash <= mined'
    BY <1>1, <2>1 DEF ReadOK, Headers
  <2>5. latest.number = final => Canonical(latest)'
    BY <1>1, <2>1, <2>2, <2>4 DEF ChainMoves, Canonical, Headers
  <2>6. TableOK(final)'
    BY <2>1, <2>2 DEF TableOK, Stored
  <2>7. status' = IF Stored(snapshots') = {} THEN Initialized ELSE BlockPending(Tip(snapshots') + 1)
    BY <2>1 DEF ReadOK
  <2> QED BY <1>2, <2>1, <2>2, <2>3, <2>4, <2>5, <2>6, <2>7 DEF ReadOK
<1>5. ASSUME phase' = "up" PROVE WindowOK' /\ InStep'
  <2>1. WindowOK /\ InStep
    BY <1>5 DEF ServiceOK, watcherVars
  <2>2. WindowOK' /\ \A n \in Nat : Pinned(n) => Pinned(n)'
    BY <2>1, WindowMoves
  <2>3. UNCHANGED <<safe, recent, pending, queue, step, status, snapshots>> /\ StartBlock' = StartBlock
    BY <1>2 DEF watcherVars
  <2>4. \A q, n : NewsFrom(q, n)' <=> NewsFrom(q, n)
    BY <2>3 DEF NewsFrom, News
  <2>5. \A n : (Awaits(n)' <=> Awaits(n)) /\ (WarpBase(n)' <=> WarpBase(n))
    BY <2>3 DEF Awaits, WarpBase, Stored
  <2>6. \A n \in Nat : SnapshotsUpTo(n) => SnapshotsUpTo(n)'
    BY <2>2, <2>3 DEF SnapshotsUpTo, Stored
  <2>7. PICK n \in Nat : AtBlock(n) \/ AtWarp(n) \/ AtUncle(n) \/ InBlock(n) \/ InWarp(n)
    BY <2>1 DEF InStep
  <2>8. ASSUME AtBlock(n) PROVE AtBlock(n)'
    BY <2>3, <2>4, <2>5, <2>6, <2>8 DEF AtBlock
  <2>9. ASSUME AtWarp(n) PROVE AtWarp(n)'
    BY <2>3, <2>4, <2>5, <2>9 DEF AtWarp, Stored
  <2>10. ASSUME AtUncle(n) PROVE AtUncle(n)'
    <3>1. n - 1 \in Nat /\ n - 1 <= Final'
      BY <1>1, <2>10 DEF AtUncle
    <3>2. Pinned(n - 1)'
      BY <2>2, <2>10, <3>1 DEF AtUncle
    <3> QED BY <2>3, <2>4, <2>10, <3>1, <3>2 DEF AtUncle, Stored
  <2>11. ASSUME InBlock(n) PROVE InBlock(n)'
    BY <2>3, <2>4, <2>6, <2>11 DEF InBlock
  <2>12. ASSUME InWarp(n) PROVE InWarp(n)'
    BY <2>3, <2>4, <2>5, <2>12 DEF InWarp
  <2>13. InStep'
    BY <2>7, <2>8, <2>9, <2>10, <2>11, <2>12 DEF InStep
  <2> QED BY <2>2, <2>13
<1> QED BY <1>2, <1>3, <1>4, <1>5 DEF ServiceOK

-----------------------------------------------------------------------------
(* Snapshots and queues                                                     *)

\* The latest snapshot.
LEMMA TipIs ==
    ASSUME NEW t, NEW tip \in Stored(t), tip \in Int, \A m \in Stored(t) : m \in Int /\ m <= tip
    PROVE  Tip(t) = tip
<1>1. \A n \in Stored(t) : (\A m \in Stored(t) : m <= n) => n = tip
  OBVIOUS
<1> QED BY <1>1, Zenon DEF Tip

\* The oldest snapshot.
LEMMA OldestIs ==
    ASSUME NEW t, NEW lo \in Stored(t), lo \in Int, \A m \in Stored(t) : m \in Int /\ lo <= m
    PROVE  Oldest(t) = lo
<1>1. \A n \in Stored(t) : (\A m \in Stored(t) : n <= m) => n = lo
  OBVIOUS
<1> QED BY <1>1, Zenon DEF Oldest

\* What pruning keeps.
LEMMA PruneKeeps ==
    ASSUME NEW t, NEW s
    PROVE  Stored(PruneSnapshots(t, s)) = {n \in Stored(t) : n >= s \/ n = Tip(t)}
  BY DEF PruneSnapshots, Restrict, Stored

\* Of a range, pruning keeps a range up to the same block.
LEMMA PruneRange ==
    ASSUME NEW t, NEW lo \in Nat, NEW hi \in Nat, lo <= hi, Stored(t) = lo .. hi, NEW s \in Nat
    PROVE  \E l \in lo .. hi : Stored(PruneSnapshots(t, s)) = l .. hi /\ (l = lo \/ l <= s)
<1>1. Tip(t) = hi
  <2>1. hi \in Stored(t) /\ hi \in Int /\ \A m \in Stored(t) : m \in Int /\ m <= hi
    OBVIOUS
  <2> QED BY <2>1, TipIs, Zenon
<1> DEFINE l == IF s <= lo THEN lo ELSE IF s >= hi THEN hi ELSE s
<1>2. l \in lo .. hi /\ (l = lo \/ l <= s)
  OBVIOUS
<1>3. {n \in lo .. hi : n >= s \/ n = hi} = l .. hi
  OBVIOUS
<1> HIDE DEF l
<1>4. Stored(PruneSnapshots(t, s)) = l .. hi
  <2>1. Stored(PruneSnapshots(t, s)) = {n \in Stored(t) : n >= s \/ n = Tip(t)}
    BY PruneKeeps, Zenon
  <2>2. {n \in Stored(t) : n >= s \/ n = Tip(t)} = {n \in lo .. hi : n >= s \/ n = hi}
    BY <1>1
  <2> QED BY <1>3, <2>1, <2>2, Zenon
<1> QED BY <1>2, <1>4, Zenon

\* Of nothing, nothing.
LEMMA PruneNone ==
    ASSUME NEW t, NEW s, Stored(t) = {}
    PROVE  Stored(PruneSnapshots(t, s)) = {}
  BY PruneKeeps

\* A commit adds its block.
LEMMA CommitStores ==
    ASSUME NEW t, NEW n, NEW x
    PROVE  Stored(Commit(t, n, x)) = Stored(t) \cup {n}
  BY DEF Commit, Stored

\* A rollback removes the uncled blocks.
LEMMA DiscardStores ==
    ASSUME NEW t, NEW n
    PROVE  Stored(Discard(t, n)) = {m \in Stored(t) : m < n}
  BY DEF Discard, Restrict, Stored

\* The snapshots of a table are those of the blocks from lo to the one before n.
Span(t, lo, n) == lo < n /\ Stored(t) = lo .. n - 1

\* There are such snapshots.
LEMMA SpanStored ==
    ASSUME NEW t, NEW lo \in Nat, NEW n \in Nat, Span(t, lo, n)
    PROVE  Stored(t) # {} /\ lo \in Stored(t) /\ n - 1 \in Stored(t) /\ \A m \in Stored(t) : m \in Nat
<1>1. lo \in lo .. n - 1 /\ n - 1 \in lo .. n - 1 /\ \A m \in lo .. n - 1 : m \in Nat
  BY DEF Span
<1>2. Stored(t) = lo .. n - 1
  BY DEF Span
<1> QED BY <1>1, <1>2, Zenon

\* Of a range, a rollback and pruning keep a range up to the parent.
LEMMA RollRange ==
    ASSUME NEW t, NEW lo \in Nat, NEW n \in Nat, NEW m \in Nat, lo < n, m = n \/ m = n + 1,
           Span(t, lo, m), NEW s \in Nat
    PROVE  \E l \in Nat : Span(PruneSnapshots(Discard(t, n), s), l, n) /\ (l = lo \/ l <= s)
<1>1. Stored(Discard(t, n)) = {k \in lo .. m - 1 : k < n}
  BY DiscardStores DEF Span
<1>2. {k \in lo .. m - 1 : k < n} = lo .. n - 1
  OBVIOUS
<1>3. Stored(Discard(t, n)) = lo .. n - 1
  BY <1>1, <1>2, Zenon
<1>4. PICK p \in Nat : p = n - 1 /\ lo <= p /\ p < n
  OBVIOUS
<1>5. PICK l \in lo .. p : Stored(PruneSnapshots(Discard(t, n), s)) = l .. p /\ (l = lo \/ l <= s)
  BY <1>3, <1>4, PruneRange
<1>6. l \in Nat /\ l < n
  BY <1>4, <1>5
<1> QED BY <1>4, <1>5, <1>6 DEF Span

\* The first of a sequence, and the rest.
LEMMA Prepended ==
    ASSUME NEW S, NEW s \in Seq(S), NEW x \in S
    PROVE  /\ <<x>> \o s \in Seq(S) /\ <<x>> \o s # <<>>
           /\ Head(<<x>> \o s) = x /\ Tail(<<x>> \o s) = s
<1> DEFINE q == <<x>> \o s
<1>1. q \in Seq(S) /\ Len(q) = Len(s) + 1 /\ Len(s) \in Nat
  OBVIOUS
<1>2. q[1] = x /\ \A i \in 1 .. Len(s) : q[i + 1] = s[i]
  OBVIOUS
<1> HIDE DEF q
<1>3. q # <<>> /\ Head(q) = x
  BY <1>1, <1>2
<1>4. Tail(q) \in Seq(S) /\ Len(Tail(q)) = Len(s) /\ \A i \in 1 .. Len(s) : Tail(q)[i] = s[i]
  BY <1>1, <1>2, <1>3
<1>5. Tail(q) = s
  BY <1>4
<1> QED BY <1>1, <1>3, <1>5 DEF q

\* The first of a sequence, and the second.
LEMMA Regrouped ==
    ASSUME NEW S, NEW s \in Seq(S), NEW x \in S, NEW y \in S
    PROVE  (<<x>> \o <<y>>) \o s = <<x>> \o (<<y>> \o s)
<1> DEFINE p == (<<x>> \o <<y>>) \o s
           q == <<x>> \o (<<y>> \o s)
<1>1. p \in Seq(S) /\ Len(p) = Len(s) + 2 /\ p[1] = x /\ p[2] = y
      /\ \A i \in 3 .. Len(s) + 2 : p[i] = s[i - 2]
  OBVIOUS
<1>2. q \in Seq(S) /\ Len(q) = Len(s) + 2 /\ q[1] = x /\ q[2] = y
      /\ \A i \in 3 .. Len(s) + 2 : q[i] = s[i - 2]
  <2> DEFINE w == <<y>> \o s
  <2>1. w \in Seq(S) /\ Len(w) = Len(s) + 1 /\ w[1] = y /\ \A i \in 2 .. Len(s) + 1 : w[i] = s[i - 1]
    OBVIOUS
  <2> HIDE DEF w
  <2>2. <<x>> \o w \in Seq(S) /\ Len(<<x>> \o w) = Len(w) + 1 /\ (<<x>> \o w)[1] = x
        /\ \A i \in 2 .. Len(w) + 1 : (<<x>> \o w)[i] = w[i - 1]
    BY <2>1
  <2>3. \A i \in 3 .. Len(s) + 2 : i - 1 \in 2 .. Len(s) + 1 /\ i \in 2 .. Len(w) + 1 /\ i - 1 - 1 = i - 2
    BY <2>1
  <2> QED BY <2>1, <2>2, <2>3 DEF w
<1> HIDE DEF p, q
<1>3. \A i \in 1 .. Len(s) + 2 : p[i] = q[i]
  BY <1>1, <1>2
<1>4. p = q
  BY <1>1, <1>2, <1>3
<1> QED BY <1>4 DEF p, q

\* Queued blocks: the first one, and the rest.
LEMMA NewsHead ==
    ASSUME NEW q, NEW n \in Int, NEW end \in Int, News(q, n, end), q # <<>>
    PROVE  /\ Head(q) \in [tag : {"New"}, number : Nat, hash : Nat]
           /\ Head(q).number = n /\ n < end
           /\ News(Tail(q), n + 1, end)
<1>1. q \in Seq(Updates) /\ Len(q) \in Nat /\ Len(q) > 0 /\ Len(q) = end - n
  BY DEF News
<1>2. Head(q) = q[1] /\ q[1] \in Updates /\ q[1].tag = "New" /\ q[1].number = n
  BY <1>1 DEF News
<1>3. q[1] \in [tag : {"New"}, number : Nat, hash : Nat]
  BY <1>2 DEF Updates
<1>4. Tail(q) \in Seq(Updates) /\ Len(Tail(q)) = end - (n + 1)
  BY <1>1
<1>5. \A i \in 1 .. Len(Tail(q)) : Tail(q)[i].tag = "New" /\ Tail(q)[i].number = n + 1 + i - 1
  BY <1>1, <1>4 DEF News
<1> QED BY <1>1, <1>2, <1>3, <1>4, <1>5 DEF News

\* Nothing is queued exactly when the next block is the last one.
LEMMA NewsEmpty ==
    ASSUME NEW q, NEW n \in Int, NEW end \in Int, News(q, n, end)
    PROVE  q = <<>> <=> n = end
  BY DEF News

-----------------------------------------------------------------------------
(* Starting                                                                 *)

\* A final block stays final.
LEMMA TableLater ==
    ASSUME NEW a \in Nat, NEW b \in Nat, a <= b, TableOK(a)
    PROVE  TableOK(b)
  BY DEF TableOK

\* The first state.
LEMMA DriverStarts ==
    ASSUME StartsFinal, DriverInit
    PROVE  DriverInv
<1>1. /\ chain = [n \in 0 .. InitialHeight |-> n] /\ setting \in Settings
      /\ mined = InitialHeight /\ highest = InitialHeight /\ InitialHeight \in Nat
  BY ChainAssumption DEF DriverInit, NodeInit
<1>2. Height = InitialHeight /\ DOMAIN chain = 0 .. InitialHeight
  BY <1>1, LastOfRange DEF Height
<1>3. setting.limit \in Nat
  BY <1>1, SettingsAssumption
<1>4. Final \in Nat /\ Final <= InitialHeight
      /\ \A b \in Nat : b + setting.limit <= InitialHeight => b <= Final
  BY <1>1, <1>3 DEF Final, Saturating
<1>5. NodeOK
  BY <1>1, <1>2, <1>4 DEF NodeOK
<1>6. phase = "down" /\ ~ halted /\ Stored(snapshots) = {}
  BY DEF DriverInit, WatcherInit, MachineInit, Stored
<1>7. Shallow => StartBlock \in Nat /\ StartBlock <= Final
  BY <1>1, <1>4 DEF Shallow, StartBlock, StartsFinal
<1> QED BY <1>5, <1>6, <1>7 DEF DriverInv, ServiceOK, TableOK

\* Boot
LEMMA BootKeeps ==
    ASSUME NodeOK, Shallow, ServiceOK, Boot
    PROVE  ServiceOK'
<1>1. /\ UNCHANGED <<nodeVars, snapshots>> /\ phase = "down" /\ phase' = "init" /\ ~ halted'
      /\ latest' = Header(Height)
      /\ status' = IF Stored(snapshots) = {} THEN Initialized ELSE BlockPending(Tip(snapshots) + 1)
  BY DEF Boot, InitializeLatest, Start
<1>2. /\ Height \in Nat /\ DOMAIN chain = 0 .. Height /\ Final \in Nat /\ Final <= Height
      /\ Height <= highest /\ highest \in Nat /\ setting.limit \in Nat /\ mined \in Nat
      /\ highest <= Final + setting.limit /\ setting.limit <= MaxReorgDepth
      /\ StartBlock \in Nat /\ StartBlock <= Final
  BY FinalIs DEF NodeOK, Shallow, ServiceOK
<1>3. UNCHANGED <<chain, mined, Final, StartBlock>>
  BY <1>1 DEF nodeVars, Final, StartBlock
<1>4. Height <= Final + MaxReorgDepth
  BY <1>2, DepthAssumption
<1>5. chain[Height] \in Nat /\ chain[Height] <= mined /\ (Height # 0 => chain[Height - 1] \in Nat)
  BY <1>2 DEF NodeOK
<1>6. /\ latest' \in Headers /\ latest'.number = Height /\ latest'.hash = chain[Height]
  BY <1>1, <1>2, <1>5 DEF Header, Headers, NoHash
<1>7. TableOK(Final)'
  <2>1. TableOK(Final)
    BY <1>1 DEF ServiceOK
  <2> QED BY <1>1, <1>3, <2>1 DEF TableOK, Stored
<1>8. Canonical(latest)'
  BY <1>2, <1>3, <1>6 DEF Canonical
<1>9. ReadOK'
  <2>1. PICK final \in 0 .. Final : final = Final
    BY <1>2
  <2>2. TableOK(final)'
    BY <1>3, <1>7, <2>1 DEF TableOK
  <2>3. final \in 0 .. Final' /\ final <= latest'.number /\ latest'.number <= final + MaxReorgDepth
        /\ StartBlock' <= final
    BY <1>2, <1>3, <1>4, <1>6, <2>1
  <2>4. latest' \in Headers /\ latest'.hash <= mined'
    BY <1>3, <1>5, <1>6
  <2>5. status' = IF Stored(snapshots') = {} THEN Initialized ELSE BlockPending(Tip(snapshots') + 1)
    BY <1>1
  <2> QED BY <1>8, <2>2, <2>3, <2>4, <2>5 DEF ReadOK
<1> QED BY <1>1, <1>2, <1>3, <1>9 DEF ServiceOK

\* BootFails
LEMMA BootFailsKeeps ==
    ASSUME NodeOK, Shallow, ServiceOK, BootFails
    PROVE  ServiceOK'
<1>1. /\ UNCHANGED <<nodeVars, snapshots, halted>> /\ phase = "init" /\ phase' = "down"
  BY DEF BootFails, InitializeMissing, machineVars, driverVars
<1>2. UNCHANGED <<Final, StartBlock>> /\ Final \in Nat
  BY <1>1, FinalIs DEF nodeVars, Final, StartBlock
<1>3. TableOK(Final)
  <2>1. PICK final \in 0 .. Final : TableOK(final)
    BY <1>1 DEF ServiceOK, ReadOK
  <2> QED BY <1>2, <2>1, TableLater
<1>4. TableOK(Final)'
  BY <1>1, <1>2, <1>3 DEF TableOK, Stored
<1> QED BY <1>1, <1>2, <1>4 DEF ServiceOK

\* The range scan reads the chain; only the latest block may be an older one.
LEMMA ScanReads ==
    ASSUME NodeOK, latest \in Headers, latest.hash <= mined, latest.number <= Height,
           NEW n \in 0 .. latest.number
    PROVE  /\ Scanned(n) \in Headers /\ Scanned(n).number = n /\ Scanned(n).hash <= mined
           /\ n # latest.number \/ n = 0 \/ Canonical(latest) => Canonical(Scanned(n))
<1>1. latest.number \in Nat /\ Height \in Nat /\ DOMAIN chain = 0 .. Height
      /\ \A k \in 0 .. Height : chain[k] \in Nat /\ chain[k] <= mined
  BY DEF NodeOK, Headers
<1>2. n \in Nat /\ n \in 0 .. Height /\ (n # 0 => n - 1 \in 0 .. Height)
  BY <1>1
<1>3. Header(n) \in Headers /\ Header(n).number = n /\ Header(n).hash = chain[n]
  BY <1>1, <1>2 DEF Header, Headers, NoHash
<1>4. Canonical(Header(n))
  BY <1>1, <1>2, <1>3 DEF Canonical
<1>5. CASE Scanned(n) = Header(n)
  BY <1>1, <1>2, <1>3, <1>4, <1>5
<1>6. CASE Scanned(n) = latest /\ n = latest.number /\ n # 0
  BY <1>6
<1> QED BY <1>5, <1>6 DEF Scanned

\* What BootScan makes of the watcher, in numbers: the window after the safe block s,
\* the queued blocks from e on.
LEMMA ScanWindow ==
    ASSUME NodeOK, Shallow, ServiceOK, BootScan
    PROVE  /\ WindowOK'
           /\ \A n \in Nat : \A final \in 0 .. Final :
                 /\ n <= final /\ final <= latest.number
                 /\ latest.number = final => Canonical(latest)
                 => Pinned(n)'
           /\ safe'.number = Saturating(latest.number, MaxReorgDepth) /\ pending' = latest.number + 1
           /\ \A skipped \in 0 .. pending' - safe'.number - 1 :
                 skipped = Saturating(EmitFrom(Indexed), safe'.number + 1) =>
                     \E news : /\ queue' = Resumption(Indexed, safe'.number) \o news
                               /\ News(news, safe'.number + 1 + skipped, pending')
<1>1. /\ phase = "init" /\ phase' = "up" /\ latest.number <= Height /\ UNCHANGED nodeVars
      /\ pending' = latest.number + 1 /\ step' = Idle
  BY DEF BootScan, InitializeScan
<1>2. UNCHANGED <<chain, mined, Final>>
  BY <1>1 DEF nodeVars, Final
<1>3. ReadOK
  BY <1>1 DEF ServiceOK
<1>4. PICK final \in 0 .. Final :
         /\ final <= latest.number /\ latest.number <= final + MaxReorgDepth
         /\ latest.number = final => Canonical(latest)
  BY <1>3 DEF ReadOK
<1>5. latest \in Headers /\ latest.hash <= mined /\ latest.number \in Nat
  BY <1>3 DEF ReadOK, Headers
<1>6. PICK L \in Nat : L = latest.number
  BY <1>5
<1>7. PICK s \in Nat : s = Saturating(L, MaxReorgDepth)
  BY <1>6, DepthAssumption DEF Saturating
<1>8. /\ s <= L /\ L - s <= MaxReorgDepth /\ s <= final
      /\ s = L => L = 0 \/ L = final
  BY <1>4, <1>6, <1>7, DepthAssumption DEF Saturating
<1>9. \A n \in 0 .. L : /\ Scanned(n) \in Headers /\ Scanned(n).number = n /\ Scanned(n).hash <= mined
                        /\ n # L \/ n = 0 \/ Canonical(latest) => Canonical(Scanned(n))
  BY <1>1, <1>5, <1>6, ScanReads
<1>10. /\ safe' = [number |-> s, hash |-> Scanned(s).hash]
       /\ recent' = [i \in 1 .. L - s |-> Scanned(s + i)]
  BY <1>6, <1>7 DEF BootScan, InitializeScan
<1>11. /\ recent' \in Seq(Headers) /\ Len(recent') = L - s
       /\ \A i \in 1 .. L - s : recent'[i] = Scanned(s + i) /\ s + i \in 0 .. L
  BY <1>8, <1>9, <1>10
<1> DEFINE On(x) == x.number \in DOMAIN chain /\ chain[x.number] = x.hash
<1>12. \A n \in 0 .. L : n # L \/ n = 0 \/ Canonical(latest) => On(Scanned(n))
  BY <1>9 DEF Canonical
<1> HIDE DEF On
<1>13. Final \in Nat /\ final \in Nat /\ final <= Final
  BY FinalIs, <1>4
<1>14. WindowOK'
  <2>1. safe' \in [number : Nat, hash : Nat] /\ safe'.number = s /\ s <= Final
    BY <1>8, <1>9, <1>10, <1>13 DEF Headers
  <2>2. On(Scanned(s))
    BY <1>4, <1>6, <1>8, <1>12
  <2>3. Canonical(safe)'
    BY <1>2, <1>8, <1>9, <1>10, <2>1, <2>2 DEF On, Canonical
  <2>4. \A i \in 1 .. L - s : recent'[i].number = s + i /\ recent'[i].hash <= mined
    BY <1>9, <1>11
  <2>5. \A i, j \in 1 .. L - s : i <= j /\ On(recent'[j]) => On(recent'[i])
    <3> SUFFICES ASSUME NEW i \in 1 .. L - s, NEW j \in 1 .. L - s, i <= j, On(recent'[j])
                 PROVE  On(recent'[i])
      OBVIOUS
    <3>1. CASE i = L - s
      <4>1. j = i
        BY <3>1
      <4> QED BY <4>1
    <3>2. CASE i # L - s
      <4>1. s + i # L /\ s + i \in 0 .. L
        BY <1>11, <3>2
      <4> QED BY <1>11, <1>12, <4>1
    <3> QED BY <3>1, <3>2
  <2>6. \A i, j \in 1 .. L - s : i <= j /\ Canonical(recent[j])' => Canonical(recent[i])'
    BY <1>2, <2>5 DEF Canonical, On
  <2>7. pending' = s + (L - s) + 1
    BY <1>1, <1>6
  <2> QED BY <1>2, <1>8, <1>11, <2>1, <2>3, <2>4, <2>6, <2>7 DEF WindowOK
<1>15. ASSUME NEW n \in Nat, NEW f \in 0 .. Final, n <= f, f <= latest.number,
              latest.number = f => Canonical(latest)
       PROVE  Pinned(n)'
  <2>1. n <= Final'
    BY <1>2, <1>13, <1>15
  <2>2. CASE n <= s
    BY <1>10, <2>1, <2>2 DEF Pinned
  <2>3. CASE n > s
    <3>1. PICK i \in 1 .. L - s : i = n - s
      BY <1>6, <1>13, <1>15, <2>3
    <3>2. n \in 0 .. L /\ (n = L => f = L)
      BY <1>6, <1>13, <1>15
    <3>3. On(Scanned(n))
      BY <1>6, <1>12, <1>15, <3>2
    <3>4. recent'[i] = Scanned(n)
      BY <1>11, <3>1
    <3>5. Canonical(recent[n - safe.number])'
      BY <1>2, <1>10, <3>1, <3>3, <3>4 DEF Canonical, On
    <3> QED BY <1>10, <1>11, <2>1, <3>1, <3>5 DEF Pinned
  <2> QED BY <2>2, <2>3
<1>16. ASSUME NEW skipped \in 0 .. L - s, skipped = Saturating(EmitFrom(Indexed), s + 1)
       PROVE  \E news : /\ queue' = Resumption(Indexed, s) \o news
                        /\ News(news, s + 1 + skipped, L + 1)
  <2> DEFINE hs == [i \in 1 .. L - s |-> Scanned(s + i)]
             news == [i \in 1 .. (L - s) - skipped |-> New(hs[i + skipped])]
  <2>1. queue' = Resumption(Indexed, s) \o news
    BY <1>6, <1>7, <1>16 DEF BootScan, InitializeScan
  <2>2. \A i \in 1 .. (L - s) - skipped :
           /\ i + skipped \in 1 .. L - s /\ s + (i + skipped) \in 0 .. L
           /\ s + (i + skipped) = s + 1 + skipped + i - 1
    BY <1>8
  <2>3. \A i \in 1 .. (L - s) - skipped :
           /\ news[i] \in Updates /\ news[i].tag = "New"
           /\ news[i].number = s + 1 + skipped + i - 1
    BY <1>9, <2>2 DEF Updates, New, Headers
  <2>4. (L - s) - skipped \in Nat /\ (L - s) - skipped = L + 1 - (s + 1 + skipped)
    BY <1>8
  <2>5. DOMAIN news = 1 .. (L - s) - skipped
    OBVIOUS
  <2>6. news \in Seq(Updates) /\ Len(news) = (L - s) - skipped
    <3>1. news \in [1 .. (L - s) - skipped -> Updates]
      BY <2>3
    <3> HIDE DEF news
    <3> QED BY <2>4, <3>1
  <2> HIDE DEF news
  <2>7. News(news, s + 1 + skipped, L + 1)
    BY <2>3, <2>4, <2>6 DEF News
  <2> QED BY <2>1, <2>7
<1>17. safe'.number = s /\ pending' = L + 1 /\ pending' - safe'.number - 1 = L - s
  BY <1>1, <1>6, <1>10
<1> QED BY <1>6, <1>7, <1>14, <1>15, <1>16, <1>17

\* What the store tells the watcher when the service starts.
LEMMA IndexedIs ==
    ASSUME NEW lo \in Stored(snapshots), NEW tip \in Stored(snapshots), lo \in Nat, tip \in Nat,
           Stored(snapshots) \subseteq lo .. tip, NEW s
    PROVE  /\ Tip(snapshots) = tip /\ EmitFrom(Indexed) = lo + 1
           /\ Resumption(Indexed, s) = (IF lo + 1 <= tip THEN <<Uncle(lo + 1)>> ELSE <<>>)
                                          \o (IF lo + 1 <= s THEN <<Warp(lo + 1, s)>> ELSE <<>>)
<1>1. \A m \in Stored(snapshots) : m \in Int /\ m <= tip /\ lo <= m
  OBVIOUS
<1>2. Tip(snapshots) = tip
  BY <1>1, TipIs, Zenon
<1>3. Oldest(snapshots) = lo
  BY <1>1, OldestIs, Zenon
<1>4. Indexed = {[latest |-> tip, safe |-> lo]}
  BY <1>2, <1>3 DEF Indexed, SnapshotStatus
<1> DEFINE st == CHOOSE i \in Indexed : TRUE
<1>5. Indexed # {} /\ st = [latest |-> tip, safe |-> lo]
  BY <1>4
<1>6. EmitFrom(Indexed) = st.safe + 1
  BY <1>5, Zenon DEF EmitFrom
<1>7. Resumption(Indexed, s) = (IF st.safe + 1 <= st.latest THEN <<Uncle(st.safe + 1)>> ELSE <<>>)
                                  \o (IF st.safe + 1 <= s THEN <<Warp(st.safe + 1, s)>> ELSE <<>>)
  BY <1>5, Zenon DEF Resumption
<1> HIDE DEF st
<1>8. st.safe = lo /\ st.latest = tip
  BY <1>5
<1> QED BY <1>2, <1>6, <1>7, <1>8, Zenon

\* BootScan: the synthetic uncle, the warp and the new blocks that are queued are the
\* ones that the state machine awaits.
LEMMA BootScanKeeps ==
    ASSUME NodeOK, Shallow, ServiceOK, BootScan
    PROVE  ServiceOK'
<1>1. /\ phase = "init" /\ phase' = "up" /\ UNCHANGED <<nodeVars, machineVars, halted>>
      /\ step' = Idle
  BY DEF BootScan, InitializeScan
<1>2. UNCHANGED <<Final, StartBlock, status, snapshots, halted>>
  BY <1>1 DEF nodeVars, Final, StartBlock, machineVars
<1>3. ReadOK
  BY <1>1 DEF ServiceOK
<1>4. PICK final \in 0 .. Final :
         /\ final <= latest.number /\ latest.number <= final + MaxReorgDepth
         /\ StartBlock <= final /\ TableOK(final)
         /\ latest.number = final => Canonical(latest)
  BY <1>3 DEF ReadOK
<1>5. Final \in Nat /\ final \in Nat /\ final <= Final /\ StartBlock \in Nat
  BY <1>4, FinalIs DEF ServiceOK
<1>6. PICK L \in Nat : L = latest.number
  BY <1>3 DEF ReadOK, Headers
<1>7. PICK s \in Nat : s = Saturating(L, MaxReorgDepth) /\ s <= L
  BY <1>6, DepthAssumption DEF Saturating
<1>8. /\ WindowOK' /\ safe'.number = s /\ pending' = L + 1
      /\ \A n \in Nat : n <= final => Pinned(n)'
      /\ \A skipped \in 0 .. L - s :
            skipped = Saturating(EmitFrom(Indexed), s + 1) =>
                \E news : /\ queue' = Resumption(Indexed, s) \o news
                          /\ News(news, s + 1 + skipped, L + 1)
  <2>1. safe'.number = s /\ pending' = L + 1 /\ pending' - safe'.number - 1 = L - s
    BY <1>6, <1>7, ScanWindow
  <2> QED BY <1>4, <1>6, <2>1, ScanWindow
<1>9. InStep'
  <2>1. CASE Stored(snapshots) = {}
    <3>1. PICK b \in Nat : b = StartBlock /\ b <= final /\ b <= L /\ b # NoBlock
      BY <1>4, <1>5, <1>6, NoBlockAssumption
    <3>2. Indexed = {} /\ EmitFrom(Indexed) = b /\ status = Initialized
      BY <1>3, <2>1, <3>1 DEF Indexed, EmitFrom, ReadOK
    <3>3. CASE b <= s
      <4>1. Saturating(b, s + 1) = 0
        BY <3>3 DEF Saturating
      <4>2. PICK news : queue' = <<Warp(b, s)>> \o news /\ News(news, s + 1, L + 1)
        <5>1. Resumption(Indexed, s) = <<Warp(b, s)>>
          BY <3>1, <3>2, <3>3 DEF Resumption
        <5>2. 0 \in 0 .. L - s /\ 0 = Saturating(EmitFrom(Indexed), s + 1) /\ s + 1 + 0 = s + 1
          BY <1>7, <3>2, <4>1
        <5> QED BY <1>8, <5>1, <5>2
      <4>3. Warp(b, s) \in Updates
        BY DEF Warp, Updates
      <4>4. /\ queue' \in Seq(Updates) /\ queue' # <<>>
            /\ Head(queue') = Warp(b, s) /\ Tail(queue') = news
        BY <4>2, <4>3, Prepended DEF News
      <4>5. b \in 0 .. safe'.number /\ WarpBase(b)'
            /\ status' = (IF Stored(snapshots)' = {} THEN Initialized ELSE BlockPending(b))
        BY <1>2, <1>8, <2>1, <3>1, <3>2, <3>3 DEF WarpBase, Stored
      <4>6. AtWarp(b)'
        BY <1>1, <1>8, <4>2, <4>4, <4>5 DEF AtWarp, NewsFrom
      <4> QED BY <3>1, <4>6 DEF InStep
    <3>4. CASE b > s
      <4>1. Saturating(b, s + 1) = b - s - 1 /\ b - s - 1 \in 0 .. L - s /\ s + 1 + (b - s - 1) = b
        BY <3>1, <3>4 DEF Saturating
      <4>2. PICK news : queue' = <<>> \o news /\ News(news, b, L + 1)
        <5>1. Resumption(Indexed, s) = <<>>
          BY <3>1, <3>2, <3>4 DEF Resumption
        <5> QED BY <1>8, <3>2, <4>1, <5>1
      <4>3. News(queue', b, L + 1)
        BY <4>2 DEF News
      <4>4. Pinned(b)'
        BY <1>8, <3>1
      <4>5. AtBlock(b)'
        BY <1>1, <1>2, <1>8, <2>1, <3>1, <3>2, <3>4, <4>3, <4>4
           DEF AtBlock, NewsFrom, Awaits, SnapshotsUpTo
      <4> QED BY <3>1, <4>5 DEF InStep
    <3> QED BY <3>1, <3>3, <3>4
  <2>2. CASE Stored(snapshots) # {}
    <3>1. PICK lo, tip \in Stored(snapshots) :
             lo \in Nat /\ tip \in Nat /\ lo <= final /\ Stored(snapshots) \subseteq lo .. tip
      BY <1>4, <2>2 DEF TableOK
    <3>2. /\ Tip(snapshots) = tip /\ EmitFrom(Indexed) = lo + 1
          /\ Resumption(Indexed, s) = (IF lo + 1 <= tip THEN <<Uncle(lo + 1)>> ELSE <<>>)
                                         \o (IF lo + 1 <= s THEN <<Warp(lo + 1, s)>> ELSE <<>>)
      BY <3>1, IndexedIs
    <3>3. status = BlockPending(tip + 1)
      BY <1>3, <2>2, <3>2 DEF ReadOK
    <3>4. Resumption(Indexed, s) = (IF lo + 1 <= tip THEN <<Uncle(lo + 1)>> ELSE <<>>)
                                      \o (IF lo + 1 <= s THEN <<Warp(lo + 1, s)>> ELSE <<>>)
      BY <3>2
    <3>5. PICK n \in Nat : n = lo + 1 /\ n > 0 /\ n - 1 = lo
      BY <3>1
    <3>6. Pinned(lo)' /\ lo <= tip /\ lo <= L /\ lo <= Final
      BY <1>4, <1>5, <1>6, <1>8, <3>1
    <3>7. Uncle(n) \in Updates /\ Warp(n, s) \in Updates
      BY DEF Uncle, Warp, Updates
    <3>8. CASE n <= s
      <4>1. Saturating(n, s + 1) = 0
        BY <3>8 DEF Saturating
      <4>2. PICK news : queue' = Resumption(Indexed, s) \o news /\ News(news, s + 1, L + 1)
        <5>1. 0 \in 0 .. L - s /\ 0 = Saturating(EmitFrom(Indexed), s + 1) /\ s + 1 + 0 = s + 1
          BY <1>7, <3>2, <3>5, <4>1
        <5> QED BY <1>8, <5>1
      <4>3. CASE lo = tip
        <5>1. queue' = <<Warp(n, s)>> \o news
          BY <3>1, <3>4, <3>5, <3>8, <4>2, <4>3
        <5>2. /\ queue' \in Seq(Updates) /\ queue' # <<>>
              /\ Head(queue') = Warp(n, s) /\ Tail(queue') = news
          BY <3>7, <4>2, <5>1, Prepended DEF News
        <5>3. Stored(snapshots) = {n - 1}
          BY <3>1, <3>5, <4>3
        <5>4. status = BlockPending(n)
          BY <3>3, <3>5, <4>3
        <5>5. n \in 0 .. safe'.number /\ WarpBase(n)'
              /\ status' = (IF Stored(snapshots)' = {} THEN Initialized ELSE BlockPending(n))
          BY <1>2, <1>8, <3>5, <3>8, <5>3, <5>4 DEF WarpBase, Stored
        <5>6. AtWarp(n)'
          BY <1>1, <1>8, <4>2, <5>2, <5>5 DEF AtWarp, NewsFrom
        <5> QED BY <5>6 DEF InStep
      <4>4. CASE lo # tip
        <5>1. queue' = (<<Uncle(n)>> \o <<Warp(n, s)>>) \o news
          <6>1. lo + 1 = n /\ n <= tip /\ n <= s
            BY <3>1, <3>5, <3>6, <3>8, <4>4
          <6> QED BY <3>4, <4>2, <6>1
        <5>2. queue' = <<Uncle(n)>> \o (<<Warp(n, s)>> \o news)
          <6>1. news \in Seq(Updates)
            BY <4>2 DEF News
          <6> QED BY <3>7, <5>1, <6>1, Regrouped, Zenon
        <5>3. /\ <<Warp(n, s)>> \o news \in Seq(Updates) /\ <<Warp(n, s)>> \o news # <<>>
              /\ Head(<<Warp(n, s)>> \o news) = Warp(n, s) /\ Tail(<<Warp(n, s)>> \o news) = news
          BY <3>7, <4>2, Prepended DEF News
        <5>4. /\ queue' \in Seq(Updates) /\ queue' # <<>>
              /\ Head(queue') = Uncle(n) /\ Tail(queue') = <<Warp(n, s)>> \o news
          BY <3>7, <5>2, <5>3, Prepended
        <5>5. tip \in Stored(snapshots) /\ tip \in Nat /\ n <= tip /\ Stored(snapshots) \subseteq 0 .. tip
          BY <3>1, <3>5, <3>6, <4>4
        <5>6. n - 1 \in Stored(snapshots) /\ \A m \in Stored(snapshots) : n - 1 <= m
          BY <3>1, <3>5
        <5>7. AtUncle(n)'
          BY <1>1, <1>2, <1>8, <3>3, <3>5, <3>6, <3>8, <4>2, <5>3, <5>4, <5>5, <5>6
             DEF AtUncle, NewsFrom
        <5> QED BY <5>7 DEF InStep
      <4> QED BY <4>3, <4>4
    <3>9. CASE n > s
      <4>1. Saturating(n, s + 1) = n - s - 1 /\ n - s - 1 \in 0 .. L - s /\ s + 1 + (n - s - 1) = n
            /\ n \in s + 1 .. L + 1
        BY <3>5, <3>6, <3>9 DEF Saturating
      <4>2. PICK news : queue' = Resumption(Indexed, s) \o news /\ News(news, n, L + 1)
        BY <1>8, <3>2, <3>5, <4>1
      <4>3. CASE lo = tip
        <5>1. queue' = (<<>> \o <<>>) \o news
          <6>1. ~ (lo + 1 <= tip) /\ ~ (lo + 1 <= s)
            BY <3>1, <3>5, <3>9, <4>3
          <6> QED BY <3>4, <4>2, <6>1
        <5>2. News(queue', n, L + 1)
          BY <4>2, <5>1 DEF News
        <5>3. Stored(snapshots) = lo .. n - 1 /\ lo < n
          BY <3>1, <3>5, <4>3
        <5>4. status = BlockPending(n)
          BY <3>3, <3>5, <4>3
        <5>5. AtBlock(n)'
          BY <1>1, <1>2, <1>8, <2>2, <3>1, <3>6, <4>1, <5>2, <5>3, <5>4
             DEF AtBlock, NewsFrom, Awaits, SnapshotsUpTo
        <5> QED BY <5>5 DEF InStep
      <4>4. CASE lo # tip
        <5>1. queue' = (<<Uncle(n)>> \o <<>>) \o news
          BY <3>1, <3>4, <3>5, <3>6, <3>9, <4>2, <4>4
        <5>2. queue' = <<Uncle(n)>> \o news
          BY <3>7, <4>2, <5>1 DEF News
        <5>3. /\ queue' \in Seq(Updates) /\ queue' # <<>>
              /\ Head(queue') = Uncle(n) /\ Tail(queue') = news
          BY <3>7, <4>2, <5>2, Prepended DEF News
        <5>4. tip \in Stored(snapshots) /\ tip \in Nat /\ n <= tip /\ Stored(snapshots) \subseteq 0 .. tip
          BY <3>1, <3>5, <3>6, <4>4
        <5>5. n - 1 \in Stored(snapshots) /\ \A m \in Stored(snapshots) : n - 1 <= m
          BY <3>1, <3>5
        <5>6. AtUncle(n)'
          BY <1>1, <1>2, <1>8, <3>3, <3>5, <3>6, <4>1, <4>2, <5>3, <5>4, <5>5
             DEF AtUncle, NewsFrom
        <5> QED BY <5>6 DEF InStep
      <4> QED BY <4>3, <4>4
    <3> QED BY <3>8, <3>9
  <2> QED BY <2>1, <2>2
<1> QED BY <1>1, <1>2, <1>8, <1>9 DEF ServiceOK

-----------------------------------------------------------------------------
(* Logs                                                                     *)

\* The logs of a range of blocks are as many as the blocks.
LEMMA LogsCount ==
    ASSUME NEW from \in Int, NEW to \in Int
    PROVE  Cardinality(LogsIn(from, to)) = IF from > to THEN 0 ELSE to - from + 1
<1> DEFINE S == from .. to
           L(n) == [number |-> n, index |-> 0, data |-> chain[n]]
           T == {L(n) : n \in S}
           f == [n \in S |-> L(n)]
<1>1. \A m, n \in S : L(m) = L(n) => m = n
  OBVIOUS
<1> HIDE DEF L
<1>2. f \in [S -> T] /\ (\A m, n \in S : f[m] = f[n] => m = n) /\ \A t \in T : \E n \in S : f[n] = t
  BY <1>1
<1> HIDE DEF f, T, S
<1>3. f \in Bijection(S, T)
  <2>1. DOMAIN f = S
    BY <1>2
  <2> QED BY <1>2, <2>1, Zenon DEF Bijection, Injection, Surjection, IsInjective
<1>4. ExistsBijection(S, T)
  BY <1>3 DEF ExistsBijection
<1>5. IsFiniteSet(S) /\ Cardinality(S) = IF from > to THEN 0 ELSE to - from + 1
  BY FS_Interval DEF S
<1>6. Cardinality(T) = Cardinality(S)
  BY <1>4, <1>5, FS_Bijection
<1>7. LogsIn(from, to) = T
  BY DEF LogsIn, T, L, S
<1> QED BY <1>5, <1>6, <1>7

\* The logs of a page are sorted: the i-th is that of the page's i-th block.
LEMMA PageSorted ==
    ASSUME NEW from \in Nat, NEW to \in Nat, from <= to
    PROVE  WellFormedLogs(Logs(from, to, DecodeAndSort(LogsIn(from, to))))
<1> DEFINE S == LogsIn(from, to)
           L(n) == [number |-> n, index |-> 0, data |-> chain[n]]
           sorted == DecodeAndSort(S)
           Rank(log) == Cardinality({l \in S : Before(l, log)})
<1>1. Cardinality(S) = to - from + 1
  BY LogsCount
<1>2. \A log \in S : \E k \in from .. to : log = L(k)
  BY DEF LogsIn
<1>3. \A k \in from .. to : L(k) \in S /\ L(k).number = k /\ L(k).index = 0
  BY DEF LogsIn
<1>4. ASSUME NEW k \in from .. to
      PROVE  Rank(L(k)) = k - from
  <2>1. k \in Int /\ k - 1 \in Int
    OBVIOUS
  <2>2. \A n \in from .. to : Before(L(n), L(k)) <=> n < k
    BY <1>3, <2>1 DEF Before
  <2> DEFINE P == LogsIn(from, k - 1)
  <2>3. \A log : log \in P <=> \E n \in from .. to : n < k /\ log = L(n)
    BY DEF LogsIn
  <2> HIDE DEF S, P, L
  <2>4. {l \in S : Before(l, L(k))} = P
    BY <1>2, <1>3, <2>2, <2>3
  <2>5. Cardinality(P) = IF from > k - 1 THEN 0 ELSE k - 1 - from + 1
    BY <2>1, LogsCount DEF P
  <2>6. Cardinality(P) = k - from
    BY <2>1, <2>5
  <2> QED BY <2>4, <2>6
<1>5. sorted = [i \in 1 .. to - from + 1 |-> CHOOSE log \in S : Rank(log) = i - 1]
  BY <1>1 DEF DecodeAndSort
<1> HIDE DEF S, Rank, sorted, L
<1>6. ASSUME NEW i \in 1 .. to - from + 1
      PROVE  sorted[i] = L(from + i - 1) /\ from + i - 1 \in from .. to
  <2>1. from + i - 1 \in from .. to /\ from + i - 1 - from = i - 1
    OBVIOUS
  <2>2. L(from + i - 1) \in S /\ Rank(L(from + i - 1)) = i - 1
    BY <1>3, <1>4, <2>1
  <2>3. ASSUME NEW log \in S, Rank(log) = i - 1 PROVE log = L(from + i - 1)
    <3>1. PICK k \in from .. to : log = L(k)
      BY <1>2
    <3>2. k - from = i - 1
      BY <1>4, <2>3, <3>1
    <3>3. k = from + i - 1
      BY <3>2
    <3> QED BY <3>1, <3>3
  <2> DEFINE st == CHOOSE log \in S : Rank(log) = i - 1
  <2>4. st \in S /\ Rank(st) = i - 1
    BY <2>2
  <2> HIDE DEF st
  <2>5. st = L(from + i - 1)
    BY <2>3, <2>4
  <2>6. sorted[i] = st
    BY <1>5 DEF st
  <2> QED BY <2>1, <2>5, <2>6
<1>7. DOMAIN sorted = 1 .. to - from + 1
  BY <1>5
<1>8. \A i \in 1 .. to - from + 1 : sorted[i].number = from + i - 1 /\ sorted[i].number \in from .. to
  BY <1>3, <1>6
<1> DEFINE u == Logs(from, to, sorted)
<1>9. u.from = from /\ u.to = to /\ u.logs = sorted
  BY DEF Logs
<1> HIDE DEF u
<1>10. \A i, j \in 1 .. to - from + 1 : i < j => sorted[i].number < sorted[j].number
  BY <1>8
<1>11. WellFormedLogs(u)
  BY <1>7, <1>8, <1>9, <1>10 DEF WellFormedLogs
<1> QED BY <1>11 DEF u, sorted, S

-----------------------------------------------------------------------------
(* Updates                                                                  *)

\* Once block n is committed, the snapshots reach up to it from a pinned block.
LEMMA CommitKeeps ==
    ASSUME NEW n \in Nat, SnapshotsUpTo(n), NEW x
    PROVE  \E lo \in 0 .. n : Stored(Commit(snapshots, n, x)) = lo .. n /\ Pinned(lo)
<1>1. Stored(Commit(snapshots, n, x)) = Stored(snapshots) \cup {n}
  BY CommitStores, Zenon
<1>2. CASE Stored(snapshots) = {} /\ Pinned(n)
  <2>1. Stored(Commit(snapshots, n, x)) = n .. n /\ n \in 0 .. n
    BY <1>1, <1>2
  <2> QED BY <1>2, <2>1
<1>3. CASE \E lo \in Nat : lo < n /\ Stored(snapshots) = lo .. n - 1 /\ Pinned(lo)
  <2>1. PICK lo \in Nat : lo < n /\ Stored(snapshots) = lo .. n - 1 /\ Pinned(lo)
    BY <1>3
  <2>2. Stored(Commit(snapshots, n, x)) = lo .. n /\ lo \in 0 .. n
    BY <1>1, <2>1
  <2> QED BY <2>1, <2>2
<1> QED BY <1>2, <1>3 DEF SnapshotsUpTo

\* What the watcher and the chain pin does not change with them.
LEMMA PinnedStays ==
    ASSUME NodeOK, WindowOK, UNCHANGED <<nodeVars, safe, recent, pending>>
    PROVE  WindowOK' /\ (\A n \in Nat : Pinned(n)' <=> Pinned(n)) /\ safe.number \in Nat
           /\ \A n \in Nat : n <= safe.number => Pinned(n)
<1>1. UNCHANGED <<chain, mined, Final>> /\ Final \in Nat
  BY NodeStays, FinalIs DEF nodeVars
<1>2. \A x : Canonical(x)' <=> x.number' \in DOMAIN chain /\ chain[x.number'] = x.hash'
  BY <1>1 DEF Canonical
<1> QED BY <1>1 DEF WindowOK, Pinned, Canonical

\* The logs of a block are applied: the next block is awaited.
LEMMA LogsOfBlock ==
    ASSUME NodeOK, WindowOK, NEW n \in Nat, InBlock(n), NEW u \in LogUpdates,
           UNCHANGED <<nodeVars, pending, safe, recent, queue>>, step' = NextStep,
           HandleUpdate(u, safe'.number)
    PROVE  WindowOK' /\ AtBlock(n + 1)' /\ status'.tag # "Poisoned"
<1>1. step.tag = "Block" /\ step.number = n /\ status = BlockEvents(n)
      /\ n \in safe.number .. pending - 1 /\ SnapshotsUpTo(n) /\ NewsFrom(queue, n + 1)
  BY DEF InBlock
<1>2. WindowOK' /\ (\A k \in Nat : Pinned(k)' <=> Pinned(k)) /\ safe.number \in Nat
      /\ \A k \in Nat : k <= safe.number => Pinned(k)
  BY PinnedStays
<1>3. u = Logs(n, n, <<[number |-> n, index |-> 0, data |-> step.hash]>>)
  BY <1>1 DEF LogUpdates
<1>4. u.tag = "Logs" /\ u.from = n /\ u.to = n /\ DOMAIN u.logs = 1 .. 1 /\ u.logs[1].number = n
  BY <1>3 DEF Logs
<1>5. CanLogs(u) /\ status.tag = "BlockEvents"
  <2>1. WellFormedLogs(u)
    BY <1>4 DEF WellFormedLogs
  <2> QED BY <1>1, <1>4, <2>1 DEF CanLogs, BlockEvents
<1>6. HandleLogs(u, safe.number)
  BY <1>4, <1>5 DEF HandleUpdate, CanHandle
<1>7. PICK x : snapshots' = PruneSnapshots(Commit(snapshots, n, x), safe.number)
  BY <1>4, <1>6 DEF HandleLogs
<1>8. status' = BlockApplied(n + 1)
  BY <1>4, <1>5, <1>6 DEF HandleLogs
<1>9. PICK lo \in 0 .. n : Stored(Commit(snapshots, n, x)) = lo .. n /\ Pinned(lo)
  BY <1>1, CommitKeeps
<1>10. PICK l \in lo .. n : Stored(snapshots') = l .. n /\ (l = lo \/ l <= safe.number)
  BY <1>2, <1>7, <1>9, PruneRange
<1>11. l \in Nat /\ Pinned(l)'
  BY <1>2, <1>9, <1>10
<1>12. SnapshotsUpTo(n + 1)' /\ Awaits(n + 1)'
  <2>1. l < n + 1 /\ Stored(snapshots') = l .. (n + 1) - 1 /\ Stored(snapshots') # {}
    <3>1. l \in Nat /\ l <= n /\ (n + 1) - 1 = n
      BY <1>9, <1>10
    <3>2. l < n + 1 /\ l \in l .. n
      BY <3>1
    <3> QED BY <1>10, <3>1, <3>2, Zenon
  <2> QED BY <1>8, <1>11, <2>1 DEF SnapshotsUpTo, Awaits
<1>13. step' = Idle
  BY <1>1 DEF NextStep
<1>14. n + 1 \in safe'.number + 1 .. pending'
  BY <1>1, <1>2 DEF WindowOK
<1>15. NewsFrom(queue, n + 1)'
  BY <1>1 DEF NewsFrom
<1> QED BY <1>2, <1>8, <1>12, <1>13, <1>14, <1>15 DEF AtBlock, BlockApplied

\* A page of a warp is within the warp.
LEMMA PageWithin ==
    ASSUME NEW f \in Nat, NEW to \in Nat, f <= to, NEW page \in Nat \ {0},
           NEW fetched \in (f .. to) \cup {NoBlock}, step = Warping(f, to, page, fetched)
    PROVE  PageEnd \in f .. to
  BY DEF PageEnd, Warping

\* The logs of a page are applied: the next page, or the block after the warp, is awaited.
LEMMA LogsOfPage ==
    ASSUME NodeOK, WindowOK, NEW f \in Nat, InWarp(f), NEW u \in LogUpdates,
           UNCHANGED <<nodeVars, pending, safe, recent, queue>>, step' = NextStep,
           HandleUpdate(u, safe'.number)
    PROVE  /\ WindowOK' /\ status'.tag # "Poisoned"
           /\ \E n \in Nat : InWarp(n)' \/ AtBlock(n)'
<1>1. PICK s \in Nat : s = safe.number /\ f <= s
  BY DEF InWarp, WindowOK
<1>2. PICK page \in Nat \ {0}, fetched \in (f .. s) \cup {NoBlock} : step = Warping(f, s, page, fetched)
  BY <1>1 DEF InWarp
<1>3. PICK to \in f .. s : to = PageEnd
  BY <1>1, <1>2, PageWithin
<1>4. step.tag = "Warping" /\ step.from = f /\ step.to = s
  BY <1>2 DEF Warping
<1>5. u = Logs(f, to, DecodeAndSort(LogsIn(f, to)))
  BY <1>3, <1>4 DEF LogUpdates
<1>6. u.tag = "Logs" /\ u.from = f /\ u.to = to
  BY <1>5 DEF Logs
<1>7. /\ status = WarpEvents(f, s) /\ status.tag = "WarpEvents" /\ status.from = f /\ status.to = s
      /\ NewsFrom(queue, s + 1) /\ WarpBase(f)
  BY <1>1 DEF InWarp, WarpEvents
<1>8. to \in Nat /\ f <= to /\ to <= s
  BY <1>1, <1>3
<1>9. WellFormedLogs(u)
  BY <1>5, <1>8, PageSorted
<1>10. CanLogs(u)
  BY <1>6, <1>7, <1>8, <1>9 DEF CanLogs
<1>11. HandleLogs(u, s)
  BY <1>1, <1>6, <1>10 DEF HandleUpdate, CanHandle
<1>12. PICK x : snapshots' = PruneSnapshots(Commit(snapshots, to, x), s)
  BY <1>6, <1>11 DEF HandleLogs
<1>13. status' = IF to < s THEN WarpEvents(to + 1, s) ELSE BlockApplied(to + 1)
  BY <1>6, <1>7, <1>11 DEF HandleLogs
<1>14. Stored(snapshots') = {to}
  <2> DEFINE t == Commit(snapshots, to, x)
  <2>1. Stored(t) = Stored(snapshots) \cup {to}
    BY CommitStores, Zenon
  <2>2. to \in Stored(t) /\ to \in Int /\ \A m \in Stored(t) : m \in Int /\ m <= to /\ (m = to \/ m = f - 1)
    BY <1>7, <1>8, <2>1 DEF WarpBase
  <2> HIDE DEF t
  <2>3. Tip(t) = to
    BY <2>2, TipIs, Zenon
  <2>4. Stored(PruneSnapshots(t, s)) = {m \in Stored(t) : m >= s \/ m = Tip(t)}
    BY PruneKeeps, Zenon
  <2>5. {m \in Stored(t) : m >= s \/ m = Tip(t)} = {to}
    <3>1. f - 1 \in Int /\ f - 1 # to /\ ~ (f - 1 >= s)
      BY <1>8
    <3>2. \A m \in Stored(t) : (m >= s \/ m = to) <=> m = to
      BY <2>2, <3>1
    <3> QED BY <2>2, <2>3, <3>2, Zenon
  <2> QED BY <1>12, <2>4, <2>5 DEF t
<1>15. WindowOK' /\ Pinned(s)'
  BY <1>1, PinnedStays
<1>16. CASE to = s
  <2>1. step' = Idle
    BY <1>3, <1>4, <1>16 DEF NextStep
  <2>2. status' = BlockApplied(s + 1)
    BY <1>13, <1>16
  <2>3. Stored(snapshots') = s .. (s + 1) - 1 /\ s < s + 1 /\ Stored(snapshots') # {}
    BY <1>14, <1>16
  <2>4. SnapshotsUpTo(s + 1)' /\ Awaits(s + 1)'
    BY <1>15, <2>2, <2>3 DEF SnapshotsUpTo, Awaits
  <2>5. s + 1 \in safe'.number + 1 .. pending'
    BY <1>1 DEF WindowOK
  <2>6. AtBlock(s + 1)'
    BY <1>7, <2>1, <2>4, <2>5 DEF AtBlock, NewsFrom
  <2> QED BY <1>15, <2>2, <2>6 DEF BlockApplied
<1>17. CASE to < s
  <2>1. step' = Warping(to + 1, s, PageSize, NoBlock)
    BY <1>3, <1>4, <1>17 DEF NextStep
  <2>2. status' = WarpEvents(to + 1, s)
    BY <1>13, <1>17
  <2>3. WarpBase(to + 1)'
    <3>1. to + 1 > 0 /\ to + 1 - 1 = to
      BY <1>8
    <3> QED BY <1>14, <3>1 DEF WarpBase
  <2>4. to + 1 \in 0 .. safe'.number /\ to + 1 \in Nat /\ safe'.number = s
    BY <1>1, <1>8, <1>17
  <2>5. \E p \in Nat \ {0}, g \in (to + 1 .. s) \cup {NoBlock} : step' = Warping(to + 1, s, p, g)
    BY <2>1, PageAssumption
  <2>6. NewsFrom(queue, s + 1)'
    BY <1>7 DEF NewsFrom
  <2>7. InWarp(to + 1)'
    BY <2>2, <2>3, <2>4, <2>5, <2>6 DEF InWarp
  <2> QED BY <1>15, <2>2, <2>4, <2>7 DEF WarpEvents
<1> QED BY <1>8, <1>16, <1>17

\* A tracked block that is not on the chain is not the oldest one with a snapshot.
LEMMA ParentStored ==
    ASSUME NodeOK, WindowOK, NEW i \in 1 .. Len(recent), ~ Canonical(recent[i]),
           NEW n \in Nat, n = safe.number + i, NEW m \in {n, n + 1}, SnapshotsUpTo(m)
    PROVE  \E lo \in Nat : lo < n /\ Stored(snapshots) = lo .. m - 1 /\ Pinned(lo)
<1>1. safe.number \in Nat /\ Len(recent) \in Nat
  BY DEF WindowOK
<1>2. \A j \in 1 .. Len(recent) : i <= j => ~ Canonical(recent[j])
  BY DEF WindowOK
<1>3. \A k \in Nat : Pinned(k) => k < n
  <2> SUFFICES ASSUME NEW k \in Nat, Pinned(k) PROVE k < n
    OBVIOUS
  <2>1. CASE k <= safe.number
    BY <1>1, <2>1
  <2>2. CASE k - safe.number \in 1 .. Len(recent) /\ Canonical(recent[k - safe.number])
    <3>1. ~ (i <= k - safe.number)
      BY <1>2, <2>2
    <3> QED BY <1>1, <2>2, <3>1
  <2> QED BY <2>1, <2>2 DEF Pinned
<1>4. m \in Nat /\ n <= m
  OBVIOUS
<1>5. ~ Pinned(m)
  BY <1>3, <1>4
<1> QED BY <1>3, <1>5 DEF SnapshotsUpTo

\* The window and the snapshots are cut back to the parent of a tracked block that is
\* not on the chain: that block is awaited again.
LEMMA RollBack ==
    ASSUME NodeOK, WindowOK, NEW i \in 1 .. Len(recent), NEW n \in Nat, NEW m \in {n, n + 1}
    PROVE  /\ ~ Canonical(recent[i]) /\ n = safe.number + i /\ SnapshotsUpTo(m)
           /\ UNCHANGED <<nodeVars, safe>> /\ recent' = SubSeq(recent, 1, i - 1)
           /\ pending' = n /\ queue' = <<>> /\ step' = Idle
           /\ snapshots' = PruneSnapshots(Discard(snapshots, n), safe.number)
           /\ status' = BlockPending(n)
           => WindowOK' /\ AtBlock(n)'
<1>0. SUFFICES
        ASSUME ~ Canonical(recent[i]), n = safe.number + i, SnapshotsUpTo(m),
               UNCHANGED <<nodeVars, safe>>, recent' = SubSeq(recent, 1, i - 1),
               pending' = n, queue' = <<>>, step' = Idle,
               snapshots' = PruneSnapshots(Discard(snapshots, n), safe.number),
               status' = BlockPending(n)
        PROVE  WindowOK' /\ AtBlock(n)'
  OBVIOUS
<1>1. safe.number \in Nat /\ Len(recent) \in Nat /\ recent \in Seq(Headers)
  BY <1>0 DEF WindowOK
<1>2. UNCHANGED <<chain, mined, Final>> /\ Final \in Nat
  BY <1>0, NodeStays, FinalIs DEF nodeVars
<1>3. recent' \in Seq(Headers) /\ Len(recent') = i - 1 /\ \A j \in 1 .. i - 1 : recent'[j] = recent[j]
  BY <1>0, <1>1
<1> DEFINE On(x) == x.number \in DOMAIN chain /\ chain[x.number] = x.hash
<1>4. \A j \in 1 .. i - 1 : j \in 1 .. Len(recent)
  BY <1>0, <1>1
<1>5. WindowOK'
  <2>1. Len(recent') <= MaxReorgDepth /\ pending' = safe'.number + Len(recent') + 1
    <3>1. PICK r \in Nat : r = Len(recent) /\ r <= MaxReorgDepth
      BY <1>1 DEF WindowOK
    <3>2. i - 1 <= MaxReorgDepth /\ n = safe.number + (i - 1) + 1
      BY <1>0, <1>1, <3>1, DepthAssumption
    <3> QED BY <1>0, <1>3, <3>2
  <2>2. safe'.number <= Final' /\ Canonical(safe)'
    BY <1>0, <1>2 DEF WindowOK, Canonical
  <2>3. \A j \in 1 .. i - 1 : recent'[j].number = safe.number + j /\ recent'[j].hash <= mined
    BY <1>0, <1>3, <1>4 DEF WindowOK
  <2>4. \A j, k \in 1 .. i - 1 : j <= k /\ On(recent'[k]) => On(recent'[j])
    BY <1>0, <1>3, <1>4 DEF WindowOK, Canonical
  <2>5. \A j, k \in 1 .. i - 1 : j <= k /\ Canonical(recent[k])' => Canonical(recent[j])'
    BY <1>0, <1>2, <2>4 DEF Canonical
  <2> QED BY <1>0, <1>2, <1>3, <2>1, <2>2, <2>3, <2>5 DEF WindowOK
<1>6. PICK lo \in Nat : lo < n /\ Span(snapshots, lo, m) /\ Pinned(lo)
  <2>1. PICK lo \in Nat : lo < n /\ Stored(snapshots) = lo .. m - 1 /\ Pinned(lo)
    BY <1>0, ParentStored
  <2>2. lo < m
    BY <2>1
  <2> QED BY <2>1, <2>2 DEF Span
<1>7. PICK s \in Nat : s = safe.number
  BY <1>1
<1>8. PICK l \in Nat : Span(snapshots', l, n) /\ (l = lo \/ l <= s)
  <2>1. m \in Nat /\ (m = n \/ m = n + 1)
    OBVIOUS
  <2>2. \E l \in Nat : Span(PruneSnapshots(Discard(snapshots, n), s), l, n) /\ (l = lo \/ l <= s)
    BY <1>6, <2>1, RollRange
  <2> QED BY <1>0, <1>7, <2>2, Zenon
<1>9. \A k \in Nat : k < n /\ (Pinned(k) \/ k <= safe.number) => Pinned(k)'
  <2> SUFFICES ASSUME NEW k \in Nat, k < n, Pinned(k) \/ k <= safe.number PROVE Pinned(k)'
    OBVIOUS
  <2>1. k <= Final'
    BY <1>0, <1>1, <1>2 DEF Pinned, WindowOK
  <2>2. CASE k <= safe.number
    BY <1>0, <2>1, <2>2 DEF Pinned
  <2>3. CASE k - safe.number \in 1 .. Len(recent) /\ Canonical(recent[k - safe.number])
    <3>1. k - safe.number \in 1 .. i - 1
      BY <1>0, <1>1, <2>3
    <3>2. Canonical(recent[k - safe.number])'
      BY <1>0, <1>2, <1>3, <2>3, <3>1 DEF Canonical
    <3> QED BY <1>0, <1>3, <2>1, <3>1, <3>2 DEF Pinned
  <2> QED BY <1>0, <2>2, <2>3 DEF Pinned
<1>10. l < n /\ Pinned(l)' /\ Stored(snapshots') # {}
  <2>1. l < n /\ Stored(snapshots') # {}
    BY <1>8, SpanStored DEF Span
  <2> QED BY <1>6, <1>7, <1>8, <1>9, <2>1, Zenon
<1>11. SnapshotsUpTo(n)' /\ Awaits(n)'
  <2>1. SnapshotsUpTo(n)'
    BY <1>8, <1>10, Zenon DEF SnapshotsUpTo, Span
  <2>2. Awaits(n)'
    BY <1>0, <1>10, Zenon DEF Awaits
  <2> QED BY <2>1, <2>2
<1>12. NewsFrom(queue, n)'
  BY <1>0 DEF NewsFrom, News
<1>13. n \in safe'.number + 1 .. pending'
  BY <1>0, <1>1
<1> QED BY <1>0, <1>5, <1>11, <1>12, <1>13 DEF AtBlock

\* Pruning to the safe block leaves what the next block needs.
LEMMA PruneUpTo ==
    ASSUME NEW n \in Nat, SnapshotsUpTo(n), NEW s \in Nat,
           snapshots' = PruneSnapshots(snapshots, s), StartBlock' = StartBlock,
           \A k \in Nat : Pinned(k) \/ k <= s => Pinned(k)'
    PROVE  SnapshotsUpTo(n)' /\ (Stored(snapshots') = {} <=> Stored(snapshots) = {})
<1>1. CASE Stored(snapshots) = {} /\ n = StartBlock /\ Pinned(n)
  <2>1. Stored(snapshots') = {}
    BY <1>1, PruneNone
  <2> QED BY <1>1, <2>1 DEF SnapshotsUpTo
<1>2. CASE \E lo \in Nat : lo < n /\ Stored(snapshots) = lo .. n - 1 /\ Pinned(lo)
  <2>1. PICK lo \in Nat : lo < n /\ Stored(snapshots) = lo .. n - 1 /\ Pinned(lo)
    BY <1>2
  <2>2. n - 1 \in Nat /\ lo <= n - 1
    BY <2>1
  <2>3. PICK l \in lo .. n - 1 : Stored(snapshots') = l .. n - 1 /\ (l = lo \/ l <= s)
    BY <2>1, <2>2, PruneRange
  <2>4. l \in Nat /\ l < n /\ l \in l .. n - 1 /\ lo \in lo .. n - 1
    BY <2>1, <2>2, <2>3
  <2>5. Pinned(l)'
    BY <2>1, <2>3, <2>4
  <2>6. SnapshotsUpTo(n)'
    BY <2>3, <2>4, <2>5 DEF SnapshotsUpTo
  <2>7. Stored(snapshots') # {} /\ Stored(snapshots) # {}
    BY <2>1, <2>3, <2>4, Zenon
  <2> QED BY <2>6, <2>7
<1> QED BY <1>1, <1>2 DEF SnapshotsUpTo

\* The logs of a block are not found and the block is not on the chain: it is dropped
\* and rolled back.
LEMMA BlockInvalidated ==
    ASSUME NodeOK, WindowOK, NEW n \in Nat, InBlock(n), UNCHANGED nodeVars, LogsNotFound, Invalidate,
           OnBlockInvalidated(recent[LastEmitted].hash), HandleUpdate(Uncle(n), safe'.number)
    PROVE  WindowOK' /\ AtBlock(n)' /\ status'.tag # "Poisoned"
<1>1. /\ safe.number \in Nat /\ pending \in Int /\ n \in safe.number .. pending - 1
      /\ status = BlockEvents(n) /\ SnapshotsUpTo(n) /\ News(queue, n + 1, pending)
      /\ Len(recent) \in Nat /\ DOMAIN recent = 1 .. Len(recent)
      /\ pending = safe.number + Len(recent) + 1
      /\ \A j \in 1 .. Len(recent) : recent[j].number = safe.number + j
  BY DEF InBlock, WindowOK, NewsFrom
<1>2. PICK i \in 0 .. Len(recent) : i = n - safe.number
  BY <1>1
<1>3. Emitted = 1 .. i
  <2>1. CASE queue = <<>>
    <3>1. i = Len(recent)
      BY <1>1, <1>2, <2>1, NewsEmpty
    <3> QED BY <1>1, <2>1, <3>1 DEF Emitted
  <2>2. CASE queue # <<>>
    <3>1. n + 1 \in Int /\ Head(queue).tag = "New" /\ Head(queue).number = n + 1
      BY <1>1, <2>2, NewsHead
    <3>2. Emitted = {j \in 1 .. Len(recent) : recent[j].number < n + 1}
      BY <1>1, <2>2, <3>1 DEF Emitted
    <3>3. \A j \in 1 .. Len(recent) : recent[j].number < n + 1 <=> j <= i
      <4>1. PICK a \in Nat : a = safe.number /\ i = n - a
        BY <1>1, <1>2
      <4>2. \A j \in Int : a + j < n + 1 <=> j <= i
        BY <4>1
      <4>3. \A j \in 1 .. Len(recent) : j \in Int /\ recent[j].number = a + j
        BY <1>1, <4>1
      <4> QED BY <4>2, <4>3
    <3>4. {j \in 1 .. Len(recent) : recent[j].number < n + 1} = 1 .. i
      <4>1. {j \in 1 .. Len(recent) : j <= i} = 1 .. i
        BY <1>1, <1>2
      <4> QED BY <3>3, <4>1, Zenon
    <3> QED BY <3>2, <3>4
  <2> QED BY <2>1, <2>2
<1>4. Invalidates
  BY DEF LogsNotFound
<1>5. i \in 1 .. Len(recent)
  <2>1. 1 .. i # {}
    BY <1>3, <1>4, Zenon DEF Invalidates
  <2> QED BY <2>1
<1>6. LastEmitted = i
  <2>1. i \in Emitted /\ \A j \in Emitted : j <= i
    BY <1>3, <1>5
  <2>2. \A k \in Emitted : (\A j \in Emitted : j <= k) => k = i
    BY <1>3, <2>1
  <2> QED BY <2>1, <2>2, Zenon DEF LastEmitted
<1>7. ~ Canonical(recent[i])
  BY <1>4, <1>6 DEF Invalidates
<1>8. n = safe.number + i /\ recent[i].number = n
  BY <1>1, <1>2, <1>5
<1>9. /\ recent' = SubSeq(recent, 1, i - 1) /\ pending' = n /\ queue' = <<>> /\ safe' = safe
      /\ step' = Idle
  BY <1>6, <1>8 DEF Invalidate, OnBlockInvalidated
<1>10. n \in {n, n + 1}
  OBVIOUS
<1>11. PICK lo \in Nat : lo < n /\ Stored(snapshots) = lo .. n - 1
  BY <1>1, <1>5, <1>7, <1>8, <1>10, ParentStored
<1>12. n - 1 \in Stored(snapshots)
  BY <1>11
<1>13. HandleUncle(Uncle(n), safe.number)
  <2>1. Uncle(n).tag = "Uncle" /\ Uncle(n).number = n
    BY DEF Uncle
  <2>2. CanUncle(Uncle(n))
    BY <1>1, <1>12, <2>1 DEF CanUncle, BlockEvents
  <2> QED BY <1>9, <2>1, <2>2 DEF HandleUpdate, CanHandle
<1>14. /\ snapshots' = PruneSnapshots(Discard(snapshots, n), safe.number)
       /\ status' = BlockPending(n)
  BY <1>13 DEF HandleUncle, Uncle
<1>15. WindowOK' /\ AtBlock(n)'
  BY <1>1, <1>5, <1>7, <1>8, <1>9, <1>10, <1>14, RollBack
<1> QED BY <1>14, <1>15 DEF BlockPending

\* A queued update is returned.
LEMMA QueuedUpdate ==
    ASSUME NodeOK, WindowOK, InStep, step = Idle, PopQueue, UNCHANGED nodeVars,
           step' = StepFor(Head(queue)), HandleUpdate(Head(queue), safe'.number)
    PROVE  WindowOK' /\ InStep' /\ status'.tag # "Poisoned"
<1>1. queue # <<>> /\ queue' = Tail(queue) /\ UNCHANGED <<pending, safe, recent>>
  BY DEF PopQueue
<1>2. PICK s \in Nat : s = safe.number /\ pending \in Int
  BY DEF WindowOK
<1>3. /\ WindowOK' /\ (\A k \in Nat : Pinned(k)' <=> Pinned(k))
      /\ \A k \in Nat : k <= s => Pinned(k)
  BY <1>1, <1>2, PinnedStays
<1>4. StartBlock' = StartBlock
  BY NodeStays
<1>5. PICK n \in Nat : AtBlock(n) \/ AtWarp(n) \/ AtUncle(n) \/ InBlock(n) \/ InWarp(n)
  BY DEF InStep
<1>6. ~ InBlock(n) /\ ~ InWarp(n)
  BY DEF InBlock, InWarp, Idle, Warping
<1>7. CASE AtBlock(n)
  <2>1. News(queue, n, pending) /\ n \in s + 1 .. pending /\ Awaits(n) /\ SnapshotsUpTo(n)
    BY <1>2, <1>7 DEF AtBlock, NewsFrom
  <2>2. PICK u \in [tag : {"New"}, number : Nat, hash : Nat] :
           u = Head(queue) /\ u.number = n /\ n < pending /\ News(Tail(queue), n + 1, pending)
    <3>1. n \in Int /\ pending \in Int /\ queue # <<>>
      BY <1>1, <1>2
    <3>2. /\ Head(queue) \in [tag : {"New"}, number : Nat, hash : Nat]
          /\ Head(queue).number = n /\ n < pending /\ News(Tail(queue), n + 1, pending)
      BY <2>1, <3>1, NewsHead, Zenon
    <3> QED BY <3>2
  <2>3. u.tag = "New" /\ u.hash \in Nat
    BY <2>2
  <2>4. CanNew(u)
    BY <2>1, <2>2 DEF CanNew, AwaitsBlock, Awaits
  <2>5. HandleNew(u, s)
    BY <1>1, <1>2, <2>2, <2>3, <2>4 DEF HandleUpdate, CanHandle
  <2>6. status' = BlockEvents(n) /\ snapshots' = PruneSnapshots(snapshots, s)
    BY <2>2, <2>5 DEF HandleNew
  <2>7. SnapshotsUpTo(n)'
    BY <1>3, <1>4, <2>1, <2>6, PruneUpTo
  <2>8. step'.tag = "Block" /\ step'.number = n /\ step'.hash \in Nat
    BY <2>2, <2>3 DEF StepFor, Block
  <2>9. n \in safe'.number .. pending' - 1 /\ n # safe'.number
    BY <1>1, <1>2, <2>1, <2>2
  <2>10. NewsFrom(queue, n + 1)'
    BY <1>1, <2>2 DEF NewsFrom
  <2>11. InBlock(n)'
    BY <2>6, <2>7, <2>8, <2>9, <2>10 DEF InBlock
  <2> QED BY <1>3, <2>6, <2>11 DEF InStep, BlockEvents
<1>8. CASE AtWarp(n)
  <2>1. /\ Head(queue) = Warp(n, s) /\ n <= s /\ News(Tail(queue), s + 1, pending) /\ WarpBase(n)
        /\ status = (IF Stored(snapshots) = {} THEN Initialized ELSE BlockPending(n))
    BY <1>2, <1>8 DEF AtWarp, NewsFrom
  <2> DEFINE u == Warp(n, s)
  <2>2. u.tag = "Warp" /\ u.from = n /\ u.to = s
    BY DEF Warp
  <2> HIDE DEF u
  <2>3. CanWarp(u)
    BY <2>1, <2>2 DEF CanWarp
  <2>4. HandleWarp(u, s)
    BY <1>1, <1>2, <2>1, <2>2, <2>3 DEF HandleUpdate, CanHandle, u
  <2>5. status' = WarpEvents(n, s) /\ snapshots' = PruneSnapshots(snapshots, s)
    BY <2>2, <2>4 DEF HandleWarp
  <2>6. WarpBase(n)'
    <3>1. CASE Stored(snapshots) = {} /\ n = StartBlock
      <4>1. Stored(snapshots') = {}
        BY <2>5, <3>1, PruneNone
      <4> QED BY <1>4, <3>1, <4>1 DEF WarpBase
    <3>2. CASE n > 0 /\ Stored(snapshots) = {n - 1}
      <4>1. n - 1 \in Int /\ n - 1 \in Stored(snapshots)
            /\ \A m \in Stored(snapshots) : m \in Int /\ m <= n - 1
        BY <3>2
      <4>2. Tip(snapshots) = n - 1
        BY <4>1, TipIs, Zenon
      <4>3. Stored(PruneSnapshots(snapshots, s)) =
               {m \in Stored(snapshots) : m >= s \/ m = Tip(snapshots)}
        BY PruneKeeps, Zenon
      <4>4. Stored(snapshots') = {n - 1}
        BY <2>5, <3>2, <4>2, <4>3
      <4> QED BY <3>2, <4>4 DEF WarpBase
    <3> QED BY <2>1, <3>1, <3>2 DEF WarpBase
  <2>7. step' = Warping(n, s, PageSize, NoBlock)
    BY <2>1, <2>2 DEF StepFor, u
  <2>8. \E page \in Nat \ {0}, fetched \in (n .. s) \cup {NoBlock} : step' = Warping(n, s, page, fetched)
    BY <2>7, PageAssumption
  <2>9. n \in 0 .. s /\ safe'.number = s
    BY <1>1, <1>2, <2>1
  <2>10. NewsFrom(queue, s + 1)'
    BY <1>1, <2>1 DEF NewsFrom
  <2>11. InWarp(n)'
    BY <2>5, <2>6, <2>8, <2>9, <2>10 DEF InWarp
  <2> QED BY <1>3, <2>5, <2>11 DEF InStep, WarpEvents
<1>9. CASE AtUncle(n)
  <2>1. /\ n > 0 /\ Head(queue) = Uncle(n) /\ n - 1 \in Stored(snapshots) /\ Pinned(n - 1)
        /\ \A m \in Stored(snapshots) : n - 1 <= m
    BY <1>9 DEF AtUncle
  <2>2. PICK tip \in Nat : n <= tip /\ status = BlockPending(tip + 1) /\ Stored(snapshots) \subseteq 0 .. tip
    BY <1>9 DEF AtUncle
  <2> DEFINE u == Uncle(n)
  <2>3. u.tag = "Uncle" /\ u.number = n
    BY DEF Uncle
  <2> HIDE DEF u
  <2>4. CanUncle(u)
    BY <2>1, <2>2, <2>3 DEF CanUncle, BlockPending
  <2>5. HandleUncle(u, s)
    BY <1>1, <1>2, <2>1, <2>3, <2>4 DEF HandleUpdate, CanHandle, u
  <2>6. status' = BlockPending(n) /\ snapshots' = PruneSnapshots(Discard(snapshots, n), s)
    BY <2>3, <2>5 DEF HandleUncle
  <2>7. Stored(snapshots') = {n - 1}
    <3> DEFINE t == Discard(snapshots, n)
    <3>1. Stored(t) = {m \in Stored(snapshots) : m < n}
      BY DiscardStores, Zenon
    <3>2. \A m \in Stored(snapshots) : m < n <=> m = n - 1
      BY <2>1, <2>2
    <3>3. Stored(t) = {n - 1} /\ n - 1 \in Int
      BY <2>1, <3>1, <3>2
    <3> HIDE DEF t
    <3>4. Tip(t) = n - 1
      BY <3>3, TipIs
    <3>5. Stored(PruneSnapshots(t, s)) = {m \in Stored(t) : m >= s \/ m = Tip(t)}
      BY PruneKeeps, Zenon
    <3> QED BY <2>6, <3>3, <3>4, <3>5 DEF t
  <2>8. step' = Idle
    BY <2>1, <2>3 DEF StepFor, u
  <2>9. CASE n \in s + 1 .. pending /\ News(Tail(queue), n, pending)
    <3>1. n - 1 \in Nat /\ n - 1 < n /\ Stored(snapshots') = n - 1 .. n - 1
      BY <2>1, <2>7
    <3>2. SnapshotsUpTo(n)' /\ Awaits(n)'
      BY <1>3, <2>1, <2>6, <2>7, <3>1 DEF SnapshotsUpTo, Awaits
    <3>3. n \in safe'.number + 1 .. pending' /\ NewsFrom(queue, n)'
      BY <1>1, <1>2, <2>9 DEF NewsFrom
    <3>4. AtBlock(n)'
      BY <2>8, <3>2, <3>3 DEF AtBlock
    <3> QED BY <1>3, <2>6, <3>4 DEF InStep, BlockPending
  <2>10. CASE /\ n <= s /\ Tail(queue) # <<>> /\ Head(Tail(queue)) = Warp(n, s)
              /\ News(Tail(Tail(queue)), s + 1, pending)
    <3>1. WarpBase(n)' /\ status' = (IF Stored(snapshots)' = {} THEN Initialized ELSE BlockPending(n))
      BY <2>1, <2>6, <2>7 DEF WarpBase
    <3>2. queue' \in Seq(Updates) /\ queue' # <<>> /\ Head(queue') = Warp(n, s)
          /\ NewsFrom(Tail(queue), s + 1)'
      BY <1>1, <1>9, <2>10 DEF NewsFrom, AtUncle
    <3>3. n \in 0 .. safe'.number /\ safe'.number = s
      BY <1>1, <1>2, <2>10
    <3>4. AtWarp(n)'
      BY <2>8, <3>1, <3>2, <3>3 DEF AtWarp
    <3> QED BY <1>3, <2>6, <3>4 DEF InStep, BlockPending
  <2> QED BY <1>2, <1>9, <2>9, <2>10 DEF AtUncle, NewsFrom
<1> QED BY <1>5, <1>6, <1>7, <1>8, <1>9

\* No block at the pending height or above is tracked, so none is pinned.
LEMMA PendingNotPinned ==
    ASSUME WindowOK
    PROVE  pending \in Nat /\ pending > 0 /\ ~ Pinned(pending)
<1>1. safe.number \in Nat /\ Len(recent) \in Nat /\ pending = safe.number + Len(recent) + 1
  BY DEF WindowOK
<1>2. pending \in Nat /\ pending > 0 /\ ~ (pending <= safe.number) /\ pending - safe.number \notin 1 .. Len(recent)
  BY <1>1
<1> QED BY <1>2 DEF Pinned

\* The last tracked block is not on the chain: it is uncled.
LEMMA RecentUncled ==
    ASSUME NodeOK, WindowOK, InStep, step = Idle, UncleRecent, UNCHANGED nodeVars,
           NEW u \in BlockUpdates, step' = StepFor(u), HandleUpdate(u, safe'.number)
    PROVE  WindowOK' /\ InStep' /\ status'.tag # "Poisoned"
<1>1. /\ queue = <<>> /\ pending \in DOMAIN chain /\ recent # <<>> /\ queue' = <<>> /\ safe' = safe
      /\ Header(pending).parent_hash # Last(recent).hash
      /\ pending' = Last(recent).number /\ recent' = Front(recent)
  BY DEF UncleRecent, Anchor, BlockReady
<1>2. /\ safe.number \in Nat /\ Len(recent) \in Nat /\ recent \in Seq(Headers)
      /\ pending = safe.number + Len(recent) + 1 /\ pending \in Nat /\ pending > 0
  BY PendingNotPinned DEF WindowOK
<1>3. PICK i \in 1 .. Len(recent) : i = Len(recent)
  BY <1>1, <1>2
<1>4. PICK n \in Nat : n = safe.number + i /\ pending = n + 1
  BY <1>2, <1>3
<1>5. Last(recent) = recent[i] /\ recent[i].number = n
  BY <1>3, <1>4 DEF Last, WindowOK
<1>6. ~ Canonical(recent[i])
  <2>1. Header(pending).parent_hash = chain[n]
    BY <1>2, <1>4 DEF Header
  <2> QED BY <1>1, <1>5, <2>1 DEF Canonical
<1>7. u = Uncle(n)
  BY <1>1, <1>5 DEF BlockUpdates, BlockReady, Anchor
<1>8. AtBlock(n + 1)
  <2>1. PICK k \in Nat : AtBlock(k) \/ AtWarp(k) \/ AtUncle(k) \/ InBlock(k) \/ InWarp(k)
    BY DEF InStep
  <2>2. AtBlock(k)
    BY <1>1, <2>1 DEF AtWarp, AtUncle, InBlock, InWarp, Idle, Warping
  <2>3. k = pending
    BY <1>1, <1>2, <2>2, NewsEmpty DEF AtBlock, NewsFrom
  <2> QED BY <1>4, <2>2, <2>3
<1>9. SnapshotsUpTo(n + 1) /\ n + 1 \in {n, n + 1} /\ Awaits(n + 1)
  BY <1>8 DEF AtBlock
<1>10. PICK lo \in Nat : lo < n /\ Stored(snapshots) = lo .. n + 1 - 1
  BY <1>4, <1>6, <1>9, ParentStored
<1>11. n - 1 \in Stored(snapshots)
  BY <1>10
<1>12. HandleUncle(u, safe.number)
  <2>1. u.tag = "Uncle" /\ u.number = n
    BY <1>7 DEF Uncle
  <2>2. status \in {BlockPending(n + 1), BlockApplied(n + 1)}
    BY <1>9, <1>11 DEF Awaits
  <2>3. status.tag \in {"BlockPending", "BlockApplied"} /\ n < status.block
    BY <2>2 DEF BlockPending, BlockApplied
  <2>4. CanUncle(u)
    BY <1>11, <2>1, <2>3 DEF CanUncle
  <2> QED BY <1>1, <2>1, <2>4 DEF HandleUpdate, CanHandle
<1>13. /\ snapshots' = PruneSnapshots(Discard(snapshots, n), safe.number)
       /\ status' = BlockPending(n)
  BY <1>7, <1>12 DEF HandleUncle, Uncle
<1>14. step' = Idle
  BY <1>7 DEF StepFor, Uncle
<1>15. recent' = SubSeq(recent, 1, i - 1) /\ pending' = n
  BY <1>1, <1>3, <1>5 DEF Front
<1>16. WindowOK' /\ AtBlock(n)'
  BY <1>1, <1>4, <1>6, <1>9, <1>13, <1>14, <1>15, RollBack
<1> QED BY <1>13, <1>16 DEF BlockPending, InStep

\* The next block builds on the window: it is tracked, and the oldest tracked block,
\* which is final by now, becomes the safe one when the window is full.
LEMMA BlockTracked ==
    ASSUME NodeOK, Shallow, WindowOK, TrackBlock, UNCHANGED nodeVars
    PROVE  /\ WindowOK' /\ \A n \in Nat : Pinned(n) \/ n <= safe'.number => Pinned(n)'
           /\ pending' = pending + 1 /\ pending >= safe'.number
           /\ pending = safe'.number => recent' = <<>>
<1>1. /\ pending \in DOMAIN chain /\ pending' = pending + 1
      /\ Header(pending).parent_hash = Anchor
  BY DEF TrackBlock, BlockReady
<1>2. /\ safe.number \in Nat /\ Len(recent) \in Nat /\ recent \in Seq(Headers)
      /\ pending = safe.number + Len(recent) + 1 /\ pending \in Nat /\ pending > 0
      /\ Len(recent) <= MaxReorgDepth /\ safe.number <= Final
  BY PendingNotPinned DEF WindowOK
<1>3. PICK h \in Headers : h = Header(pending) /\ h.number = pending /\ h.hash = chain[pending]
                           /\ h.hash <= mined /\ Canonical(h)
  <2>1. PICK p \in Nat : p = pending /\ p > 0
    BY <1>2
  <2>2. p \in 0 .. Height /\ p - 1 \in 0 .. Height
    BY <1>1, <2>1 DEF NodeOK
  <2>3. chain[p] \in Nat /\ chain[p] <= mined /\ chain[p - 1] \in Nat
    BY <2>2 DEF NodeOK
  <2>4. /\ Header(p) \in Headers /\ Header(p).number = p /\ Header(p).hash = chain[p]
    BY <2>1, <2>3 DEF Header, Headers
  <2>5. Canonical(Header(p))
    BY <1>1, <2>1, <2>4 DEF Canonical
  <2> QED BY <2>1, <2>3, <2>4, <2>5
<1>4. UNCHANGED <<chain, mined, Final>> /\ Final \in Nat
  BY NodeStays, FinalIs DEF nodeVars
<1> DEFINE On(x) == x.number \in DOMAIN chain /\ chain[x.number] = x.hash
<1>5. \A j \in 1 .. Len(recent) : /\ recent[j] \in Headers /\ recent[j].number = safe.number + j
                                  /\ recent[j].hash <= mined /\ On(recent[j])
  <2> SUFFICES ASSUME NEW j \in 1 .. Len(recent)
               PROVE  On(recent[j])
    BY <1>2 DEF WindowOK
  <2>1. PICK k \in 1 .. Len(recent) : k = Len(recent) /\ j <= k
    BY <1>2
  <2>2. recent[k].number = pending - 1 /\ pending - 1 \in DOMAIN chain
    <3>1. recent[k].number = pending - 1
      BY <1>2, <2>1 DEF WindowOK
    <3>2. \A p \in Nat : p > 0 /\ p \in DOMAIN chain => p - 1 \in DOMAIN chain
      BY DEF NodeOK
    <3> QED BY <1>1, <1>2, <3>1, <3>2
  <2>3. recent # <<>> /\ Last(recent) = recent[k]
    BY <1>2, <2>1 DEF Last
  <2>4. recent[k].hash = chain[pending - 1]
    BY <1>1, <1>2, <2>3 DEF Anchor, Header
  <2>5. Canonical(recent[k])
    BY <2>2, <2>4 DEF Canonical
  <2>6. Canonical(recent[j])
    BY <2>1, <2>5 DEF WindowOK
  <2> QED BY <2>6 DEF Canonical
<1> DEFINE tracked == Append(recent, h)
<1>6. /\ tracked \in Seq(Headers) /\ Len(tracked) = Len(recent) + 1
      /\ \A j \in 1 .. Len(recent) : tracked[j] = recent[j]
      /\ tracked[Len(recent) + 1] = h
  BY <1>2
<1>7. \A j \in 1 .. Len(recent) + 1 : /\ tracked[j] \in Headers /\ tracked[j].number = safe.number + j
                                      /\ tracked[j].hash <= mined /\ On(tracked[j])
  <2> SUFFICES ASSUME NEW j \in 1 .. Len(recent) + 1
               PROVE  /\ tracked[j] \in Headers /\ tracked[j].number = safe.number + j
                      /\ tracked[j].hash <= mined /\ On(tracked[j])
    OBVIOUS
  <2> HIDE DEF tracked
  <2>1. CASE j \in 1 .. Len(recent)
    BY <1>5, <1>6, <2>1
  <2>2. CASE j = Len(recent) + 1
    <3>1. On(h) /\ h.number = safe.number + j
      BY <1>2, <1>3, <2>2 DEF Canonical
    <3> QED BY <1>3, <1>6, <2>2, <3>1
  <2> QED BY <1>2, <2>1, <2>2
<1>8. /\ recent' = IF Len(tracked) > MaxReorgDepth THEN Tail(tracked) ELSE tracked
      /\ safe' = IF Len(tracked) > MaxReorgDepth
                 THEN [number |-> Head(tracked).number, hash |-> Head(tracked).hash] ELSE safe
  BY <1>3 DEF TrackBlock
<1> HIDE DEF tracked
<1>9. PICK e \in {0, 1} :
         /\ recent' \in Seq(Headers) /\ Len(recent') = Len(recent) + 1 - e
         /\ \A j \in 1 .. Len(recent') : j + e \in 1 .. Len(recent) + 1 /\ recent'[j] = tracked[j + e]
         /\ safe' \in [number : Nat, hash : Nat] /\ safe'.number = safe.number + e
         /\ Len(recent') <= MaxReorgDepth /\ safe'.number <= Final /\ On(safe')
  <2>1. CASE Len(tracked) > MaxReorgDepth
    <3>1. /\ recent' = Tail(tracked) /\ Len(recent) = MaxReorgDepth
          /\ safe' = [number |-> tracked[1].number, hash |-> tracked[1].hash]
      BY <1>2, <1>6, <1>8, <2>1, DepthAssumption
    <3>2. /\ recent' \in Seq(Headers) /\ Len(recent') = Len(recent) + 1 - 1
          /\ \A j \in 1 .. Len(recent') : j + 1 \in 1 .. Len(recent) + 1 /\ recent'[j] = tracked[j + 1]
      BY <1>2, <1>6, <3>1
    <3>3. /\ tracked[1] \in Headers /\ tracked[1].number = safe.number + 1 /\ On(tracked[1])
      BY <1>2, <1>7
    <3>4. safe' \in [number : Nat, hash : Nat] /\ safe'.number = safe.number + 1 /\ On(safe')
      BY <3>1, <3>3 DEF Headers
    <3>5. safe.number + 1 <= Final
      <4>1. pending <= Height /\ Height <= highest /\ Height \in Nat /\ highest \in Nat
        BY <1>1, <1>2 DEF NodeOK
      <4>2. highest <= Final + setting.limit /\ setting.limit \in Nat /\ setting.limit <= MaxReorgDepth
        BY FinalIs, <4>1 DEF Shallow
      <4> QED BY <1>2, <1>4, <3>1, <4>1, <4>2, DepthAssumption
    <3>6. Len(recent') <= MaxReorgDepth
      BY <1>2, <3>1, <3>2
    <3> QED BY <3>2, <3>4, <3>5, <3>6
  <2>2. CASE ~ (Len(tracked) > MaxReorgDepth)
    <3>1. recent' = tracked /\ safe' = safe /\ Len(recent) + 1 <= MaxReorgDepth
      BY <1>2, <1>6, <1>8, <2>2, DepthAssumption
    <3>2. On(safe) /\ safe \in [number : Nat, hash : Nat]
      BY DEF WindowOK, Canonical
    <3> QED BY <1>2, <1>6, <3>1, <3>2
  <2> QED BY <2>1, <2>2
<1>10. \A j \in 1 .. Len(recent') : /\ recent'[j].number = safe'.number + j
                                    /\ recent'[j].hash <= mined /\ On(recent'[j])
  <2> SUFFICES ASSUME NEW j \in 1 .. Len(recent')
               PROVE  /\ recent'[j].number = safe'.number + j
                      /\ recent'[j].hash <= mined /\ On(recent'[j])
    OBVIOUS
  <2>1. PICK k \in 1 .. Len(recent) + 1 : k = j + e /\ recent'[j] = tracked[k]
    BY <1>9
  <2>2. recent'[j].number = safe.number + k /\ recent'[j].hash <= mined /\ On(recent'[j])
    BY <1>7, <2>1
  <2>3. safe'.number + j = safe.number + k
    <3>1. safe'.number = safe.number + e /\ k = j + e /\ j \in Int
      BY <1>9, <2>1
    <3> QED BY <1>2, <3>1
  <2> QED BY <2>2, <2>3
<1>11. \A j \in 1 .. Len(recent)' : Canonical(recent[j])'
  BY <1>4, <1>10 DEF Canonical
<1>12. pending' = safe'.number + Len(recent') + 1
  BY <1>1, <1>2, <1>9
<1>13. WindowOK'
  <2>1. Canonical(safe)'
    BY <1>4, <1>9 DEF Canonical
  <2> QED BY <1>4, <1>9, <1>10, <1>11, <1>12, <2>1 DEF WindowOK
<1>14. ASSUME NEW n \in Nat, Pinned(n) \/ n <= safe'.number PROVE Pinned(n)'
  <2> DEFINE s == safe.number
             r == Len(recent)
             s1 == safe'.number
             r1 == Len(recent')
  <2>1. s \in Nat /\ r \in Nat /\ s1 \in Nat /\ r1 \in Nat
    BY <1>2, <1>9
  <2>2. r1 = r + 1 - e /\ s1 = s + e /\ s1 <= Final
    BY <1>9
  <2>3. Pinned(n) => n <= Final /\ n <= s + r
    BY <2>1 DEF Pinned
  <2> HIDE DEF s, r, s1, r1
  <2>4. n <= Final /\ n <= s1 + r1
    <3>1. Pinned(n) \/ n <= s1
      BY <1>14 DEF s1
    <3> QED BY <1>4, <2>1, <2>2, <2>3, <3>1
  <2>5. n <= s1 \/ n - s1 \in 1 .. r1
    BY <2>1, <2>4
  <2>6. n <= Final'
    BY <1>4, <2>4
  <2> QED BY <1>11, <2>5, <2>6 DEF Pinned, s1, r1
<1>15. pending >= safe'.number /\ (pending = safe'.number => recent' = <<>>)
  <2>1. /\ safe'.number = safe.number + e /\ Len(recent') = Len(recent) + 1 - e
        /\ recent' \in Seq(Headers)
    BY <1>9
  <2>2. pending = safe.number + e => Len(recent) + 1 - e = 0
    BY <1>2
  <2>3. pending >= safe.number + e
    BY <1>2
  <2> QED BY <2>1, <2>2, <2>3
<1> QED BY <1>1, <1>13, <1>14, <1>15

\* The next block is returned.
LEMMA NewBlockUpdate ==
    ASSUME NodeOK, Shallow, WindowOK, InStep, step = Idle, TrackBlock, UNCHANGED nodeVars,
           NEW u \in BlockUpdates, step' = StepFor(u), HandleUpdate(u, safe'.number)
    PROVE  WindowOK' /\ InStep' /\ status'.tag # "Poisoned"
<1>1. /\ queue = <<>> /\ queue' = <<>> /\ pending \in DOMAIN chain
      /\ Header(pending).parent_hash = Anchor
  BY DEF TrackBlock, BlockReady
<1>2. pending \in Nat
  BY PendingNotPinned
<1>3. PICK n \in Nat : n = pending
  BY <1>2
<1>4. /\ WindowOK' /\ \A k \in Nat : Pinned(k) \/ k <= safe'.number => Pinned(k)'
      /\ pending' = n + 1 /\ n >= safe'.number /\ (n = safe'.number => recent' = <<>>)
  BY <1>3, BlockTracked
<1>5. PICK s \in Nat : s = safe'.number
  BY <1>4 DEF WindowOK
<1>6. u = New(Header(n))
  BY <1>1, <1>3 DEF BlockUpdates, BlockReady
<1>7. u.tag = "New" /\ u.number = n /\ u.hash = chain[n]
  BY <1>6 DEF New, Header
<1>8. chain[n] \in Nat
  BY <1>1, <1>3 DEF NodeOK
<1>9. AtBlock(n)
  <2>1. PICK k \in Nat : AtBlock(k) \/ AtWarp(k) \/ AtUncle(k) \/ InBlock(k) \/ InWarp(k)
    BY DEF InStep
  <2>2. AtBlock(k)
    BY <1>1, <2>1 DEF AtWarp, AtUncle, InBlock, InWarp, Idle, Warping
  <2>3. k = pending
    BY <1>1, <1>2, <2>2, NewsEmpty DEF AtBlock, NewsFrom
  <2> QED BY <1>3, <2>2, <2>3
<1>10. CanNew(u)
  BY <1>7, <1>9 DEF CanNew, AwaitsBlock, Awaits, AtBlock
<1>11. HandleNew(u, s)
  BY <1>5, <1>7, <1>10 DEF HandleUpdate, CanHandle
<1>12. status' = BlockEvents(n) /\ snapshots' = PruneSnapshots(snapshots, s)
  BY <1>7, <1>11 DEF HandleNew
<1>13. SnapshotsUpTo(n)'
  <2>1. StartBlock' = StartBlock /\ SnapshotsUpTo(n)
    BY <1>9, NodeStays DEF AtBlock
  <2>2. \A k \in Nat : Pinned(k) \/ k <= s => Pinned(k)'
    BY <1>4, <1>5
  <2> QED BY <1>12, <2>1, <2>2, PruneUpTo
<1>14. step'.tag = "Block" /\ step'.number = n /\ step'.hash \in Nat
  BY <1>7, <1>8 DEF StepFor, Block
<1>15. n \in safe'.number .. pending' - 1
  BY <1>4, <1>5
<1>16. NewsFrom(queue, n + 1)'
  BY <1>1, <1>4 DEF NewsFrom, News
<1>17. InBlock(n)'
  BY <1>4, <1>12, <1>13, <1>14, <1>15, <1>16 DEF InBlock
<1> QED BY <1>4, <1>12, <1>17 DEF InStep, BlockEvents

\* Update: whatever the watcher returns is what the state machine awaits.
LEMMA UpdateKeeps ==
    ASSUME NodeOK, Shallow, ServiceOK, Update
    PROVE  ServiceOK'
<1>1. PICK u \in WatcherUpdates :
         /\ WatcherNext(u) /\ HandleUpdate(u, safe'.number) /\ halted' = (status' = Poisoned)
  BY DEF Update
<1>2. phase = "up" /\ phase' = "up" /\ UNCHANGED nodeVars
  BY <1>1 DEF WatcherNext
<1>3. WindowOK /\ InStep
  BY <1>2 DEF ServiceOK
<1>4. PICK n \in Nat : AtBlock(n) \/ AtWarp(n) \/ AtUncle(n) \/ InBlock(n) \/ InWarp(n)
  BY <1>3 DEF InStep
<1>5. n + 1 \in Nat
  OBVIOUS
<1>6. WindowOK' /\ InStep' /\ status'.tag # "Poisoned"
  <2>1. CASE u \in LogUpdates /\ step' = NextStep /\ UNCHANGED <<pending, safe, recent, queue>>
    <3>1. step.tag # "Idle"
      BY <2>1 DEF LogUpdates
    <3>2. InBlock(n) \/ InWarp(n)
      BY <1>4, <3>1 DEF AtBlock, AtWarp, AtUncle, Idle
    <3>3. CASE InBlock(n)
      <4>1. WindowOK' /\ AtBlock(n + 1)' /\ status'.tag # "Poisoned"
        BY <1>1, <1>2, <1>3, <2>1, <3>3, LogsOfBlock
      <4> QED BY <1>5, <4>1 DEF InStep
    <3>4. CASE InWarp(n)
      <4>1. /\ WindowOK' /\ status'.tag # "Poisoned"
            /\ \E k \in Nat : InWarp(k)' \/ AtBlock(k)'
        BY <1>1, <1>2, <1>3, <2>1, <3>4, LogsOfPage
      <4> QED BY <4>1 DEF InStep
    <3> QED BY <3>2, <3>3, <3>4
  <2>2. CASE /\ LogsNotFound /\ u = Uncle(step.number) /\ Invalidate
             /\ OnBlockInvalidated(recent[LastEmitted].hash)
    <3>1. step.tag = "Block"
      BY <2>2 DEF LogsNotFound
    <3>2. InBlock(n) /\ u = Uncle(n)
      BY <1>4, <2>2, <3>1 DEF AtBlock, AtWarp, AtUncle, InWarp, InBlock, Idle, Warping
    <3>3. WindowOK' /\ AtBlock(n)' /\ status'.tag # "Poisoned"
      BY <1>1, <1>2, <1>3, <2>2, <3>2, BlockInvalidated
    <3> QED BY <3>3 DEF InStep
  <2>3. CASE step = Idle /\ u \in BlockUpdates /\ PopQueue /\ step' = StepFor(u)
    <3>1. u = Head(queue)
      BY <2>3 DEF BlockUpdates, PopQueue
    <3> QED BY <1>1, <1>2, <1>3, <2>3, <3>1, QueuedUpdate
  <2>4. CASE step = Idle /\ u \in BlockUpdates /\ UncleRecent /\ step' = StepFor(u)
    BY <1>1, <1>2, <1>3, <2>4, RecentUncled
  <2>5. CASE step = Idle /\ u \in BlockUpdates /\ TrackBlock /\ step' = StepFor(u)
    BY <1>1, <1>2, <1>3, <2>5, NewBlockUpdate
  <2> QED BY <1>1, <2>1, <2>2, <2>3, <2>4, <2>5 DEF WatcherNext
<1>7. ~ halted'
  <2>1. status' # Poisoned
    BY <1>6 DEF Poisoned
  <2> QED BY <1>1, <2>1, Zenon
<1>8. StartBlock' \in Nat /\ StartBlock' <= Final'
  BY <1>2, NodeStays DEF ServiceOK
<1> QED BY <1>2, <1>6, <1>7, <1>8 DEF ServiceOK

\* ReorgTooDeep: the safe block is on the chain.
LEMMA NeverTooDeep ==
    ASSUME NodeOK, Shallow, ServiceOK, ReorgTooDeep
    PROVE  FALSE
<1>1. WindowOK /\ recent = <<>> /\ pending \in DOMAIN chain /\ Header(pending).parent_hash # safe.hash
  BY DEF ReorgTooDeep, ExceededMaxReorgDepth, ServiceOK, Anchor, BlockReady
<1>2. safe.number \in Nat /\ pending = safe.number + 1 /\ Canonical(safe)
  BY <1>1 DEF WindowOK
<1>3. pending # 0 /\ pending - 1 = safe.number
  BY <1>2
<1>4. Header(pending).parent_hash = chain[safe.number]
  BY <1>3 DEF Header
<1> QED BY <1>1, <1>2, <1>4 DEF Canonical

\* RetryFetch: the warp's page changes, what it is followed by does not.
LEMMA RetryKeeps ==
    ASSUME NodeOK, Shallow, ServiceOK, RetryFetch
    PROVE  ServiceOK'
<1>1. /\ phase = "up" /\ phase' = "up" /\ step.tag = "Warping"
      /\ UNCHANGED <<nodeVars, pending, safe, recent, queue, status, snapshots, halted>>
  BY DEF RetryFetch, FetchFails, machineVars, driverVars
<1>2. WindowOK /\ InStep
  BY <1>1 DEF ServiceOK
<1>3. StartBlock' = StartBlock /\ WindowOK' /\ Final' = Final
  BY <1>1, <1>2, NodeStays, PinnedStays
<1>4. PICK n \in Nat : InWarp(n)
  BY <1>1, <1>2 DEF InStep, AtBlock, AtWarp, AtUncle, InBlock, Idle
<1>5. PICK s \in Nat : s = safe.number /\ n <= s
  BY <1>2, <1>4 DEF InWarp, WindowOK
<1>6. PICK page \in Nat \ {0}, fetched \in (n .. s) \cup {NoBlock} : step = Warping(n, s, page, fetched)
  BY <1>4, <1>5 DEF InWarp
<1>7. PICK end \in n .. s : end = PageEnd
  BY <1>5, <1>6, PageWithin
<1>8. step.from = n /\ step.to = s /\ step.page = page
  BY <1>6 DEF Warping
<1>9. (page + 1) \div 2 \in Nat \ {0}
  OBVIOUS
<1>10. \/ step' = Warping(n, s, (page + 1) \div 2, NoBlock)
       \/ step' = Warping(n, s, page, end)
  BY <1>7, <1>8 DEF RetryFetch, FetchFails
<1>11. \E p \in Nat \ {0}, g \in (n .. s) \cup {NoBlock} : step' = Warping(n, s, p, g)
  BY <1>9, <1>10
<1>12. /\ n \in 0 .. safe'.number /\ safe'.number = s /\ NewsFrom(queue, s + 1)'
       /\ status' = WarpEvents(n, s) /\ WarpBase(n)'
  BY <1>1, <1>3, <1>4, <1>5 DEF InWarp, NewsFrom, WarpBase, Stored
<1>13. InWarp(n)'
  BY <1>11, <1>12 DEF InWarp
<1> QED BY <1>1, <1>3, <1>13 DEF ServiceOK, InStep

-----------------------------------------------------------------------------
(* Crashes                                                                  *)

\* Snapshots from a final block on.
LEMMA TableFrom ==
    ASSUME NEW n \in Nat, SnapshotsUpTo(n)
    PROVE  TableOK(Final)
<1>1. CASE Stored(snapshots) = {}
  BY <1>1 DEF TableOK
<1>2. CASE \E lo \in Nat : lo < n /\ Stored(snapshots) = lo .. n - 1 /\ Pinned(lo)
  <2>1. PICK lo \in Nat : lo < n /\ Stored(snapshots) = lo .. n - 1 /\ lo <= Final
    BY <1>2 DEF Pinned
  <2>2. PICK tip \in Nat : tip = n - 1 /\ lo <= tip /\ Stored(snapshots) = lo .. tip
    BY <2>1
  <2>3. lo \in Stored(snapshots) /\ tip \in Stored(snapshots) /\ Stored(snapshots) \subseteq lo .. tip
    BY <2>2
  <2> QED BY <2>1, <2>2, <2>3 DEF TableOK
<1> QED BY <1>1, <1>2 DEF SnapshotsUpTo

\* At any time, the oldest snapshot is that of a final block.
LEMMA StepTable ==
    ASSUME NodeOK, WindowOK, InStep
    PROVE  TableOK(Final)
<1>1. Final \in Nat /\ safe.number \in Nat /\ safe.number <= Final
  BY FinalIs DEF WindowOK
<1>2. PICK n \in Nat : AtBlock(n) \/ AtWarp(n) \/ AtUncle(n) \/ InBlock(n) \/ InWarp(n)
  BY DEF InStep
<1>3. CASE AtBlock(n) \/ InBlock(n)
  BY <1>3, TableFrom DEF AtBlock, InBlock
<1>4. CASE AtWarp(n) \/ InWarp(n)
  <2>1. WarpBase(n) /\ n <= safe.number
    BY <1>1, <1>4 DEF AtWarp, InWarp
  <2>2. CASE Stored(snapshots) = {}
    BY <2>2 DEF TableOK
  <2>3. CASE n > 0 /\ Stored(snapshots) = {n - 1}
    <3>1. PICK b \in Nat : b = n - 1 /\ b <= Final /\ Stored(snapshots) = {b} /\ {b} \subseteq b .. b
      BY <1>1, <2>1, <2>3
    <3> QED BY <3>1 DEF TableOK
  <2> QED BY <2>1, <2>2, <2>3 DEF WarpBase
<1>5. CASE AtUncle(n)
  <2>1. PICK lo \in Nat : lo = n - 1 /\ lo \in Stored(snapshots) /\ lo <= Final
                          /\ \A m \in Stored(snapshots) : lo <= m
    BY <1>5 DEF AtUncle
  <2>2. PICK tip \in Stored(snapshots) : tip \in Nat /\ Stored(snapshots) \subseteq 0 .. tip
    BY <1>5 DEF AtUncle
  <2>3. Stored(snapshots) \subseteq lo .. tip
    BY <2>1, <2>2
  <2> QED BY <2>1, <2>2, <2>3 DEF TableOK
<1> QED BY <1>2, <1>3, <1>4, <1>5

\* A stopped service is in order when what is stored is.
LEMMA StopKeeps ==
    ASSUME NodeOK, ServiceOK, Stop, TableOK(Final)'
    PROVE  ServiceOK'
<1>1. phase' = "down" /\ ~ halted' /\ UNCHANGED nodeVars
  BY DEF Stop
<1>2. StartBlock' \in Nat /\ StartBlock' <= Final'
  BY <1>1, NodeStays DEF ServiceOK
<1> QED BY <1>1, <1>2 DEF ServiceOK

\* Crash
LEMMA CrashKeeps ==
    ASSUME NodeOK, phase \in {"down", "init", "up"}, Shallow, ServiceOK, Crash
    PROVE  ServiceOK'
<1>1. phase # "down" /\ Stop /\ UNCHANGED <<nodeVars, snapshots>>
  BY DEF Crash, Stop
<1>2. Final' = Final /\ Final \in Nat
  BY <1>1, NodeStays, FinalIs
<1>3. TableOK(Final)
  <2>1. CASE phase = "init"
    <3>1. PICK final \in 0 .. Final : TableOK(final)
      BY <2>1 DEF ServiceOK, ReadOK
    <3> QED BY <1>2, <3>1, TableLater
  <2>2. CASE phase = "up"
    BY <2>2, StepTable DEF ServiceOK
  <2> QED BY <1>1, <2>1, <2>2
<1>4. TableOK(Final)'
  BY <1>1, <1>2, <1>3 DEF TableOK, Stored
<1> QED BY <1>1, <1>4, StopKeeps

\* A rollback without the prune leaves the oldest snapshot.
LEMMA DiscardTable ==
    ASSUME NEW final, TableOK(final), NEW n \in Nat, n - 1 \in Stored(snapshots),
           snapshots' = Discard(snapshots, n)
    PROVE  \E lo, tip \in Stored(snapshots') :
              lo \in Nat /\ tip \in Nat /\ lo <= final /\ Stored(snapshots') \subseteq lo .. tip
<1>1. PICK lo, tip \in Stored(snapshots) :
         lo \in Nat /\ tip \in Nat /\ lo <= final /\ Stored(snapshots) \subseteq lo .. tip
  BY DEF TableOK
<1>2. Stored(snapshots') = {m \in Stored(snapshots) : m < n}
  BY DiscardStores, Zenon
<1>3. PICK p \in Nat : p = n - 1 /\ p \in Stored(snapshots) /\ lo <= p /\ p < n
  BY <1>1
<1>4. lo < n
  BY <1>1, <1>3
<1>5. lo \in Stored(snapshots') /\ p \in Stored(snapshots')
  BY <1>1, <1>2, <1>3, <1>4
<1>6. Stored(snapshots') \subseteq lo .. p
  BY <1>1, <1>2, <1>3
<1> QED BY <1>1, <1>3, <1>5, <1>6

\* CrashInUpdate: a rollback or a commit without the prune.
LEMMA CrashInUpdateKeeps ==
    ASSUME NodeOK, Shallow, ServiceOK, CrashInUpdate
    PROVE  ServiceOK'
<1>1. Stop /\ phase = "up" /\ UNCHANGED nodeVars
  BY DEF CrashInUpdate, Stop
<1>2. WindowOK /\ InStep
  BY <1>1 DEF ServiceOK
<1>3. /\ Final' = Final /\ Final \in Nat /\ safe.number \in Nat /\ safe.number <= Final
      /\ StartBlock <= Final
  BY <1>1, <1>2, NodeStays, FinalIs DEF WindowOK, ServiceOK
<1>4. TableOK(Final)
  BY <1>2, StepTable
<1>5. PICK n \in Nat : AtBlock(n) \/ AtWarp(n) \/ AtUncle(n) \/ InBlock(n) \/ InWarp(n)
  BY <1>2 DEF InStep
<1>6. TableOK(Final)'
  <2>1. ASSUME NEW u \in BlockUpdates, u.tag = "Uncle", CanUncle(u),
               snapshots' = Discard(snapshots, u.number)
        PROVE  TableOK(Final)'
    <3>1. u.number \in Nat
      <4>1. CASE queue = <<>>
        <5>1. recent # <<>> /\ u = Uncle(Last(recent).number)
          BY <2>1, <4>1 DEF BlockUpdates, New
        <5>2. recent[Len(recent)] \in Headers
          BY <1>2, <5>1 DEF WindowOK
        <5> QED BY <5>1, <5>2 DEF Uncle, Last, Headers
      <4>2. CASE queue # <<>>
        <5>1. u = Head(queue)
          BY <2>1, <4>2 DEF BlockUpdates
        <5>2. \A k \in Int : ~ News(queue, k, pending)
          <6>1. pending \in Int
            BY <1>2 DEF WindowOK
          <6>2. ASSUME NEW k \in Int, News(queue, k, pending) PROVE FALSE
            <7>1. Head(queue) \in [tag : {"New"}, number : Nat, hash : Nat]
              BY <4>2, <6>1, <6>2, NewsHead
            <7> QED BY <2>1, <5>1, <7>1
          <6> QED BY <6>2
        <5>3. n + 1 \in Int /\ safe.number + 1 \in Int
          BY <1>3
        <5>4. AtWarp(n) \/ AtUncle(n)
          BY <1>5, <5>2, <5>3 DEF AtBlock, InBlock, InWarp, NewsFrom
        <5>5. Head(queue) = Warp(n, safe.number) \/ Head(queue) = Uncle(n)
          BY <5>4 DEF AtWarp, AtUncle
        <5> QED BY <2>1, <5>1, <5>5 DEF Warp, Uncle
      <4> QED BY <4>1, <4>2
    <3>2. u.number - 1 \in Stored(snapshots)
      BY <2>1 DEF CanUncle
    <3>3. PICK final : final = Final
      OBVIOUS
    <3>4. \E lo, tip \in Stored(snapshots') :
              lo \in Nat /\ tip \in Nat /\ lo <= final /\ Stored(snapshots') \subseteq lo .. tip
      BY <1>4, <2>1, <3>1, <3>2, <3>3, DiscardTable
    <3> QED BY <1>3, <3>3, <3>4 DEF TableOK
  <2>2. ASSUME NEW u \in LogUpdates, NEW x, snapshots' = Commit(snapshots, u.to, x)
        PROVE  TableOK(Final)'
    <3>1. step.tag # "Idle"
      BY DEF LogUpdates
    <3>2. CASE InBlock(n)
      <4>1. u.to = n /\ SnapshotsUpTo(n)
        BY <3>2 DEF InBlock, LogUpdates, Logs
      <4>2. PICK lo \in 0 .. n : Stored(snapshots') = lo .. n /\ Pinned(lo)
        BY <2>2, <4>1, CommitKeeps
      <4>3. lo \in Nat /\ lo <= Final' /\ lo \in lo .. n /\ n \in lo .. n
        BY <1>3, <4>2 DEF Pinned
      <4> QED BY <4>2, <4>3 DEF TableOK
    <3>3. CASE InWarp(n)
      <4>1. PICK s \in Nat : s = safe.number /\ n <= s
        BY <1>3, <3>3 DEF InWarp
      <4>2. PICK page \in Nat \ {0}, fetched \in (n .. s) \cup {NoBlock} : step = Warping(n, s, page, fetched)
        BY <3>3, <4>1 DEF InWarp
      <4>3. PICK to \in n .. s : to = PageEnd
        BY <4>1, <4>2, PageWithin
      <4>4. u.to = to
        BY <4>2, <4>3 DEF LogUpdates, Warping, Logs
      <4>5. Stored(snapshots') = Stored(snapshots) \cup {to}
        BY <2>2, <4>4, CommitStores, Zenon
      <4>6. to \in Nat /\ to <= Final' /\ n <= to
        BY <1>3, <4>1, <4>3
      <4>7. CASE Stored(snapshots) = {}
        <5>1. to \in Stored(snapshots') /\ Stored(snapshots') \subseteq to .. to
          BY <4>5, <4>6, <4>7
        <5> QED BY <4>6, <5>1 DEF TableOK
      <4>8. CASE n > 0 /\ Stored(snapshots) = {n - 1}
        <5>1. PICK b \in Nat : b = n - 1 /\ b <= to
          BY <4>6, <4>8
        <5>2. b \in Stored(snapshots') /\ to \in Stored(snapshots') /\ Stored(snapshots') \subseteq b .. to
              /\ b <= Final'
          BY <1>3, <4>5, <4>6, <4>8, <5>1
        <5> QED BY <4>6, <5>1, <5>2 DEF TableOK
      <4> QED BY <3>3, <4>7, <4>8 DEF InWarp, WarpBase
    <3> QED BY <1>5, <3>1, <3>2, <3>3 DEF AtBlock, AtWarp, AtUncle, Idle
  <2> QED BY <2>1, <2>2 DEF CrashInUpdate
<1> QED BY <1>1, <1>6, StopKeeps

-----------------------------------------------------------------------------
(* The invariant                                                            *)

\* The node is in order whatever the service does, and the phases are the three.
LEMMA NodeKeeps ==
    ASSUME NodeOK, phase \in {"down", "init", "up"}, DriverNext
    PROVE  NodeOK' /\ phase' \in {"down", "init", "up"} /\ setting' = setting
<1>1. CASE Chain
  <2>1. UNCHANGED <<phase, setting>>
    BY <1>1 DEF Chain, Mine, Reorg, watcherVars
  <2>2. NodeOK'
    BY <1>1, MineMoves, ReorgMoves DEF Chain
  <2> QED BY <2>1, <2>2
<1>2. ASSUME UNCHANGED nodeVars PROVE NodeOK' /\ setting' = setting
  BY <1>2, NodeStays DEF nodeVars
<1>3. CASE Boot
  BY <1>2, <1>3 DEF Boot, InitializeLatest
<1>4. CASE BootScan
  BY <1>2, <1>4 DEF BootScan, InitializeScan
<1>5. CASE BootFails
  BY <1>2, <1>5 DEF BootFails, InitializeMissing
<1>6. CASE Update
  BY <1>2, <1>6 DEF Update, WatcherNext
<1>7. CASE ReorgTooDeep
  BY <1>2, <1>7 DEF ReorgTooDeep, indexVars, watcherVars
<1>8. CASE RetryFetch
  BY <1>2, <1>8 DEF RetryFetch, FetchFails
<1>9. CASE ResumeEffect
  BY <1>2, <1>9 DEF ResumeEffect, indexVars, watcherVars
<1>10. CASE EffectFails
  BY <1>2, <1>10 DEF EffectFails, indexVars, watcherVars
<1>11. CASE Crash
  BY <1>2, <1>11 DEF Crash, Stop
<1>12. CASE CrashInUpdate
  BY <1>2, <1>12 DEF CrashInUpdate, Stop
<1> QED BY <1>1, <1>3, <1>4, <1>5, <1>6, <1>7, <1>8, <1>9, <1>10, <1>11, <1>12 DEF DriverNext

\* Every step keeps the invariant.
LEMMA DriverStep ==
    ASSUME DriverInv, [DriverNext]_vars
    PROVE  DriverInv'
<1>1. NodeOK /\ phase \in {"down", "init", "up"} /\ (Shallow => ServiceOK)
  BY DEF DriverInv
<1>2. CASE DriverNext
  <2>1. NodeOK' /\ phase' \in {"down", "init", "up"} /\ setting' = setting
    BY <1>1, <1>2, NodeKeeps
  <2>2. Shallow' <=> Shallow
    BY <2>1 DEF Shallow
  <2>3. ASSUME Shallow PROVE ServiceOK'
    <3>1. ServiceOK
      BY <1>1, <2>3
    <3>2. CASE Chain
      <4>1. NodeOK' /\ ChainMoves
        BY <1>1, <3>2, MineMoves, ReorgMoves DEF Chain
      <4>2. UNCHANGED <<watcherVars, status, snapshots, halted>>
        BY <3>2 DEF Chain, Mine, Reorg, machineVars, driverVars
      <4> QED BY <1>1, <2>3, <3>1, <4>1, <4>2, ServiceMoves
    <3>3. CASE Boot
      BY <1>1, <2>3, <3>1, <3>3, BootKeeps
    <3>4. CASE BootScan
      BY <1>1, <2>3, <3>1, <3>4, BootScanKeeps
    <3>5. CASE BootFails
      BY <1>1, <2>3, <3>1, <3>5, BootFailsKeeps
    <3>6. CASE Update
      BY <1>1, <2>3, <3>1, <3>6, UpdateKeeps
    <3>7. CASE ReorgTooDeep
      BY <1>1, <2>3, <3>1, <3>7, NeverTooDeep
    <3>8. CASE RetryFetch
      BY <1>1, <2>3, <3>1, <3>8, RetryKeeps
    <3>9. CASE ResumeEffect \/ EffectFails
      <4>1. UNCHANGED <<nodeVars, watcherVars, status, snapshots, halted>>
        BY <3>9 DEF ResumeEffect, EffectFails, HandleResume, indexVars, machineVars
      <4>2. NodeOK' /\ ChainMoves
        BY <1>1, <4>1, NodeStays
      <4> QED BY <1>1, <2>3, <3>1, <4>1, <4>2, ServiceMoves
    <3>10. CASE Crash
      BY <1>1, <2>3, <3>1, <3>10, CrashKeeps
    <3>11. CASE CrashInUpdate
      BY <1>1, <2>3, <3>1, <3>11, CrashInUpdateKeeps
    <3> QED BY <1>2, <3>2, <3>3, <3>4, <3>5, <3>6, <3>7, <3>8, <3>9, <3>10, <3>11 DEF DriverNext
  <2> QED BY <2>1, <2>2, <2>3 DEF DriverInv
<1>3. CASE UNCHANGED vars
  <2>1. UNCHANGED <<nodeVars, watcherVars, status, snapshots, halted>> /\ phase' = phase
    BY <1>3 DEF vars, indexVars, machineVars, driverVars, watcherVars
  <2>2. NodeOK' /\ ChainMoves
    BY <1>1, <2>1, NodeStays
  <2>3. Shallow' <=> Shallow
    BY <2>1 DEF Shallow, nodeVars
  <2>4. Shallow => ServiceOK'
    BY <1>1, <2>1, <2>2, ServiceMoves
  <2> QED BY <1>1, <2>1, <2>2, <2>3, <2>4 DEF DriverInv
<1> QED BY <1>2, <1>3

\* The invariant holds: what the watcher returns is always what the state machine
\* awaits, through reorgs, warps, failed fetches, crashes and restarts.
THEOREM DriverInvariant ==
    ASSUME StartsFinal
    PROVE  DriverSpec => []DriverInv
<1>1. DriverInit => DriverInv
  BY DriverStarts
<1>2. DriverInv /\ [DriverNext]_vars => DriverInv'
  BY DriverStep
<1> QED BY <1>1, <1>2, PTL DEF DriverSpec

\* A service that indexes from a final block is never stopped by a reorg within
\* max_reorg_depth, whatever the depth, the page size and the number of crashes: no
\* update is rejected by handle_update, and ExceededMaxReorgDepth is never returned.
THEOREM ServiceNeverStopped ==
    ASSUME StartsFinal
    PROVE  DriverSpec => []SurvivesReorgs
<1>1. DriverInv => SurvivesReorgs
  BY DEF DriverInv, SurvivesReorgs, ServiceOK
<1> QED BY <1>1, DriverInvariant, PTL

\* The oldest snapshot, which a restart rolls back to and trusts by its number alone,
\* is that of a final block.
OldestIsFinal == Shallow /\ Stored(snapshots) # {} => Oldest(snapshots) <= Final

\* OldestIsFinal holds at every moment, also between a crash and the restart: the
\* prune to the watcher's safe block and the rollbacks always leave one.
THEOREM AnchorIsFinal ==
    ASSUME StartsFinal
    PROVE  DriverSpec => []OldestIsFinal
<1>1. ASSUME DriverInv, Shallow, Stored(snapshots) # {} PROVE Oldest(snapshots) <= Final
  <2>1. Final \in Nat
    BY <1>1, FinalIs DEF DriverInv
  <2>2. TableOK(Final)
    <3>1. CASE phase = "down"
      BY <1>1, <3>1 DEF DriverInv, ServiceOK
    <3>2. CASE phase = "init"
      <4>1. PICK final \in 0 .. Final : TableOK(final)
        BY <1>1, <3>2 DEF DriverInv, ServiceOK, ReadOK
      <4> QED BY <2>1, <4>1, TableLater
    <3>3. CASE phase = "up"
      BY <1>1, <3>3, StepTable DEF DriverInv, ServiceOK
    <3> QED BY <1>1, <3>1, <3>2, <3>3 DEF DriverInv
  <2>3. PICK lo, tip \in Stored(snapshots) :
           lo \in Nat /\ tip \in Nat /\ lo <= Final /\ Stored(snapshots) \subseteq lo .. tip
    BY <1>1, <2>2 DEF TableOK
  <2>4. lo \in Int /\ \A m \in Stored(snapshots) : m \in Int /\ lo <= m
    BY <2>3
  <2>5. Oldest(snapshots) = lo
    BY <2>4, OldestIs, Zenon
  <2> QED BY <2>3, <2>5
<1>2. DriverInv => OldestIsFinal
  BY <1>1 DEF OldestIsFinal
<1> QED BY <1>2, DriverInvariant, PTL
=============================================================================
