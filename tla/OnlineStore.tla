---------------------------- MODULE OnlineStore ----------------------------
(***************************************************************************)
(* The online store of the forest (src/src/forest.cpp, OnlineStore and the *)
(* PackedForest operations over it): a base imported once and never        *)
(* rewritten, delta runs sealed over it, compacted into snapshots, and an  *)
(* optional write-ahead log with one record per connected or disconnected  *)
(* block, kept in segments for recovery and for undo.                      *)
(*                                                                         *)
(* A file is what a process sees of it (its records, a torn tail) together *)
(* with what stable storage holds: the number of synchronized records, and *)
(* whether its directory entry, or the removal of it, is durable.  A kill  *)
(* leaves the page cache; a power loss leaves any state between the two.   *)
(* A chain point is the sequence of block labels up to it.                 *)
(* Left out: the flush-undo journal of the older in-place format, which    *)
(* OpenOnline still restores a base from and which nothing writes any more.*)
(***************************************************************************)
EXTENDS NodeArena

CONSTANT
    \* The instances: the labels of blocks, the log modes a start may choose,
    \* the crashes that happen, undo_depth, the records that fit a segment,
    \* delta_compaction_min_runs, max_delta_runs and garbage_percent, and the
    \* bounds on LSNs and crashes.
    Scope

VARIABLES
    scope,     \* the instance
    disk,      \* published, segs, deltas, cache
    ram,       \* the open store: chain, current, durable, gen, arena, ...
    op,        \* the operation in progress, and where it stands
    promised,  \* the chains a start may find: what was acknowledged last, and
               \* what was written since without an acknowledgement
    peak,      \* the greatest height a retention floor was computed from
    crashes    \* those that happened, in order

vars == <<scope, disk, ram, op, promised, peak, crashes>>

Idle == [at |-> "idle"]

Closed == [open |-> FALSE, refused |-> "no"]

NoCache == [gen |-> -1]

Init ==
    /\ scope \in Scope
    /\ disk = [published |-> "no", segs |-> <<>>, deltas |-> {},
               cache |-> NoCache]
    /\ ram = Closed
    /\ op = Idle
    /\ promised = {}
    /\ peak = 0
    /\ crashes = <<>>

\* Chain heights count from the genesis block at zero.
Height(chain) == Len(chain) - 1

At(step) == ram.open /\ op.at = step

-----------------------------------------------------------------------------

(***************************************************************************)
(* The directory.                                                          *)
(***************************************************************************)
Present(file) == file.entry # "gone"

\* SyncDirectory: what was created or removed is so for good.
SyncSegs(segs) ==
    LET kept == SelectSeq(segs, Present)
    IN  [i \in DOMAIN kept |-> [kept[i] EXCEPT !.entry = "durable"]]

SyncDeltas(deltas) == {[d EXCEPT !.entry = "durable"] : d \in {f \in deltas : Present(f)}}

SyncDirectory(d) ==
    [d EXCEPT !.segs = SyncSegs(@), !.deltas = SyncDeltas(@)]

-----------------------------------------------------------------------------

(***************************************************************************)
(* Import: EnableOnline and ImportOnline write the base, its superblock,   *)
(* its chain hashes and a startup cache into a private directory that a    *)
(* rename publishes; then the parent directory is synchronized.            *)
(***************************************************************************)
BaseArena ==
    [runs |-> <<>>, dirty |-> <<>>, next |-> BaseNext,
     live |-> Cardinality({id \in DOMAIN BaseNodes : IsLive(BaseNodes[id])}),
     free |-> {id \in DOMAIN BaseNodes : ~IsLive(BaseNodes[id])}]

\* A startup cache anchored to the delta of generation `gen`, or to the base.
CacheOf(gen, arena) ==
    [gen |-> gen, next |-> arena.next, free |-> arena.free]

Imported(wal) ==
    [open |-> TRUE, refused |-> "no", wal |-> wal, chain |-> BaseChain,
     current |-> 0, durable |-> 0, gen |-> 0,
     arena |-> BaseArena, segment |-> 0]

EnableOnline ==
    /\ disk.published = "no" /\ ~ram.open
    /\ \E wal \in scope.wal : ram' = Imported(wal)
    /\ disk' = [disk EXCEPT !.published = "renamed",
                            !.cache = CacheOf(0, BaseArena)]
    /\ op' = [at |-> "publish"]
    /\ promised' = {BaseChain}
    /\ UNCHANGED <<scope, peak, crashes>>

PublishSyncs ==
    /\ At("publish")
    /\ disk' = [disk EXCEPT !.published = "durable"]
    /\ op' = Idle
    /\ UNCHANGED <<scope, ram, promised, peak, crashes>>

-----------------------------------------------------------------------------

(***************************************************************************)
(* Appending a transaction.  ModifyBlock and RollbackOnlineBlock change    *)
(* the arena, then log; an error ends the process, which is the crash the  *)
(* step may meet.  Without a log the block is only in memory.              *)
(***************************************************************************)
Transaction(kind, chain, changes, next) ==
    [lsn |-> ram.current + 1, kind |-> kind, previous |-> ram.chain,
     point |-> chain, changes |-> changes, before_next |-> ram.arena.next,
     after_next |-> next]

\* The fields Append publishes in memory.
Published(tx, arena) ==
    [ram EXCEPT !.current = tx.lsn, !.chain = tx.point, !.arena = arena]

Begin(tx, arena) ==
    IF ram.wal
    THEN /\ op' = [at |-> "segment", tx |-> tx, arena |-> arena]
         /\ UNCHANGED ram
    ELSE /\ ram' = Published(tx, arena)
         /\ UNCHANGED op

ModifyBlock ==
    /\ At("idle")
    /\ ram.current < scope.maxLsn
    /\ \E label \in scope.labels :
        LET chain == Append(ram.chain, label)
            freed == Deleted(ram.arena, ram.chain, label)
        IN  \E added \in IF Adds(label)
                         THEN {{id} : id \in Allocatable(ram.arena, freed)}
                         ELSE {{}} :
                LET after == AfterImages(ram.arena, chain, freed, added)
                    arena == Modified(ram.arena, after, freed, added)
                IN  Begin(Transaction("CONNECT", chain,
                                      Changes(ram.arena, after), arena.next),
                          arena)
    /\ UNCHANGED <<scope, disk, promised, peak, crashes>>

\* The records a reader of the log finds, oldest first.
LogRecords(segs) ==
    FlattenSeq([i \in DOMAIN SelectSeq(segs, Present) |->
                   SelectSeq(segs, Present)[i].recs])

Connects(segs, chain) ==
    SelectSeq(LogRecords(segs),
              LAMBDA tx : tx.kind = "CONNECT" /\ tx.point = chain)

\* ReadConnectTransaction: the last one wins.
ReadConnectTransaction(segs, chain) == Last(Connects(segs, chain))

\* The images swapped: what the log says of the disconnected block.
Swapped(changes) ==
    [id \in DOMAIN changes |->
        [before |-> changes[id].after, after |-> changes[id].before]]

\* RollbackOnlineBlock undoes the tip.  It is refused without a log, without
\* the tip's record, and when a node is not as the record left it.
RollbackOnlineBlock ==
    /\ At("idle") /\ ram.wal
    /\ ram.current < scope.maxLsn
    /\ Connects(disk.segs, ram.chain) # <<>>
    /\ LET original == ReadConnectTransaction(disk.segs, ram.chain)
       IN  /\ ChangesApply(ram.arena, original.changes)
           /\ Begin(Transaction("DISCONNECT", original.previous,
                                Swapped(original.changes),
                                original.before_next),
                    Undone(ram.arena, original.changes, original.before_next))
    /\ UNCHANGED <<scope, disk, promised, peak, crashes>>

Segment(start) ==
    [start |-> start, recs |-> <<>>, synced |-> 0, torn |-> FALSE,
     entry |-> "new"]

\* The open segment, named after its first LSN, while it is empty or has room.
Room ==
    /\ ram.segment # 0
    /\ \E i \in DOMAIN disk.segs :
        /\ disk.segs[i].start = ram.segment
        /\ Len(disk.segs[i].recs) < scope.segmentRecords

NewSegment(d) ==
    IF \E i \in DOMAIN d.segs : d.segs[i].start = ram.current + 1
    THEN d ELSE [d EXCEPT !.segs = Append(@, Segment(ram.current + 1))]

\* OpenAppendSegment: an empty segment's directory entry is synchronized
\* before anything is written to it.
OpenAppendSegment ==
    /\ At("segment")
    /\ IF Room THEN UNCHANGED <<disk, ram>>
       ELSE /\ disk' = SyncDirectory(NewSegment(disk))
            /\ ram' = [ram EXCEPT !.segment = ram.current + 1]
    /\ op' = [op EXCEPT !.at = "write"]
    /\ UNCHANGED <<scope, promised, peak, crashes>>

OpenIndex == CHOOSE i \in DOMAIN disk.segs : disk.segs[i].start = ram.segment

\* The whole record is in the file, and in the page cache only.
AppendWrites ==
    /\ At("write")
    /\ disk' = [disk EXCEPT !.segs[OpenIndex].recs = Append(@, op.tx)]
    /\ op' = [op EXCEPT !.at = "sync"]
    /\ promised' = promised \cup {op.tx.point}
    /\ UNCHANGED <<scope, ram, peak, crashes>>

Acknowledged ==
    /\ ram' = Published(op.tx, op.arena)
    /\ op' = Idle
    /\ promised' = {op.tx.point}
    /\ UNCHANGED <<scope, peak, crashes>>

\* Acknowledged from the page cache.
AppendWithoutSync == At("sync") /\ Acknowledged /\ UNCHANGED disk

\* The log is synchronized: the block is acknowledged.
AppendSyncs ==
    /\ At("sync")
    /\ disk' = [disk EXCEPT !.segs[OpenIndex].synced =
                                Len(disk.segs[OpenIndex].recs)]
    /\ Acknowledged

-----------------------------------------------------------------------------

(***************************************************************************)
(* FlushOnline.  SealDelta writes the visible overlay as a delta run; a    *)
(* snapshot replaces the runs when they are too many, or too much of them  *)
(* is obsolete; segments outside the undo window are removed; the startup  *)
(* cache may be refreshed.  WriteDeltaRun synchronizes the file under a    *)
(* temporary name, renames it, and synchronizes the directory.             *)
(***************************************************************************)
Delta(snapshot, records) ==
    [snapshot |-> snapshot, gen |-> ram.gen + 1, previous |-> ram.gen,
     previousLsn |-> ram.durable,
     endLsn |-> IF snapshot THEN ram.durable ELSE ram.current,
     chain |-> ram.chain, next |-> ram.arena.next, live |-> ram.arena.live,
     records |-> records]

\* MappedDeltaRun::Parse: the fields are consistent.
Parses(run) == run.live <= run.next /\ run.previousLsn <= run.endLsn

Rename(run) ==
    disk' = [disk EXCEPT !.deltas = @ \cup {[run |-> run, entry |-> "new"]}]

FlushOnline ==
    /\ At("idle")
    /\ ram.arena.dirty # <<>> \/ ram.durable # ram.current
    /\ LET run == Delta(FALSE, Sealed(ram.arena))
       IN  Rename(run) /\ op' = [at |-> "seal", run |-> run]
    /\ promised' = promised \cup {ram.chain}
    /\ UNCHANGED <<scope, ram, peak, crashes>>

RunPressure(arena) == Len(arena.runs) >= scope.maxRuns

GarbagePressure(arena) ==
    /\ Len(arena.runs) >= scope.minRuns
    /\ DeltaRecords(arena.runs) # 0
    /\ ObsoleteRecords(arena) * 100 >= DeltaRecords(arena.runs) * scope.garbagePercent

\* SealDelta once the run is durable: it is opened, it joins the runs, and the
\* overlay is cleared.  A run that does not parse ends the process.
SealSyncs ==
    /\ At("seal")
    /\ disk' = SyncDirectory(disk)
    /\ LET arena == [ram.arena EXCEPT !.runs = Append(@, op.run), !.dirty = <<>>]
       IN  IF Parses(op.run)
           THEN /\ ram' = [ram EXCEPT !.arena = arena, !.gen = op.run.gen,
                                      !.durable = op.run.endLsn]
                /\ op' = IF RunPressure(arena) \/ GarbagePressure(arena)
                         THEN [at |-> "compact"]
                         ELSE [at |-> "prune", removed |-> FALSE]
           ELSE ram' = Closed /\ op' = Idle
    /\ promised' = {op.run.chain}
    /\ UNCHANGED <<scope, peak, crashes>>

\* CompactDeltas: the snapshot is complete relative to the base.
CompactWrites ==
    /\ At("compact")
    /\ LET run == Delta(TRUE, Compacted(ram.arena))
       IN  Rename(run) /\ op' = [at |-> "snapshot", run |-> run]
    /\ UNCHANGED <<scope, ram, promised, peak, crashes>>

Obsolete(runs) == {runs[i].gen : i \in DOMAIN runs}

SnapshotJoins ==
    /\ ram' = [ram EXCEPT !.arena.runs = <<op.run>>, !.gen = op.run.gen]
    /\ op' = [at |-> "unlink", gens |-> Obsolete(ram.arena.runs)]
    /\ UNCHANGED <<scope, promised, peak, crashes>>

\* The snapshot is durable before the runs it replaces are removed.
CompactSyncs ==
    /\ At("snapshot")
    /\ disk' = SyncDirectory(disk)
    /\ SnapshotJoins

\* The runs the snapshot replaces are unlinked, oldest first.
CompactUnlinks ==
    /\ At("unlink") /\ op.gens # {}
    /\ disk' = [disk EXCEPT !.deltas =
                  {IF d.run.gen = Min(op.gens) THEN [d EXCEPT !.entry = "gone"] ELSE d
                     : d \in @}]
    /\ op' = [op EXCEPT !.gens = @ \ {Min(@)}]
    /\ UNCHANGED <<scope, ram, promised, peak, crashes>>

CompactEnds ==
    /\ At("unlink") /\ op.gens = {}
    /\ disk' = SyncDirectory(disk)
    /\ op' = [at |-> "prune", removed |-> FALSE]
    /\ UNCHANGED <<scope, ram, promised, peak, crashes>>

Floor == IF Height(ram.chain) > scope.undoDepth
         THEN Height(ram.chain) - scope.undoDepth ELSE 0

\* The height of the first record, as if a segment held one block.
FirstHeight(seg) == Height(Head(seg.recs).point)

MaxHeight(seg) == Max({Height(seg.recs[i].point) : i \in DOMAIN seg.recs})

\* PruneWal removes a whole segment, never the open one, when no record of it
\* is in the retention window and all are sealed.
Prunable(seg) ==
    /\ Present(seg) /\ seg.start # ram.segment
    /\ seg.recs # <<>> /\ ~seg.torn
    /\ ~ram.wal \/ MaxHeight(seg) < Floor
    /\ Last(seg.recs).lsn <= ram.durable

PruneRemoves ==
    /\ At("prune")
    /\ \E i \in DOMAIN disk.segs :
        /\ Prunable(disk.segs[i])
        /\ disk' = [disk EXCEPT !.segs[i].entry = "gone"]
    /\ op' = [op EXCEPT !.removed = TRUE]
    /\ peak' = Max({peak, Height(ram.chain)})
    /\ UNCHANGED <<scope, ram, promised, crashes>>

PruneEnds ==
    /\ At("prune")
    /\ \A i \in DOMAIN disk.segs : ~Prunable(disk.segs[i])
    /\ disk' = IF op.removed THEN SyncDirectory(disk) ELSE disk
    /\ op' = [at |-> "cache"]
    /\ peak' = Max({peak, Height(ram.chain)})
    /\ UNCHANGED <<scope, ram, promised, crashes>>

\* WriteValidatedStartupCache refuses bookkeeping that does not add up.
Cacheable(arena) == arena.live + Cardinality(arena.free) = arena.next

\* The end of FlushOnline.  The cache is rewritten when the leaf index has grown
\* (any time: the index is abstracted), and after a compaction when it is not
\* anchored to the base.  A failure to write it is ignored.
RefreshCache ==
    /\ At("cache")
    /\ \/ UNCHANGED disk
       \/ /\ Cacheable(ram.arena)
          /\ disk' = [disk EXCEPT !.cache = CacheOf(ram.gen, ram.arena)]
    /\ op' = Idle
    /\ UNCHANGED <<scope, ram, promised, peak, crashes>>

-----------------------------------------------------------------------------

(***************************************************************************)
(* Crashes.                                                                *)
(***************************************************************************)
Crash == ram.open /\ Len(crashes) < scope.maxCrashes

\* What a process that dies while it writes leaves at the end of its segment.
MayTear(segs) ==
    IF op.at = "write"
    THEN {segs, [segs EXCEPT ![OpenIndex].torn = TRUE]} ELSE {segs}

\* The process is killed, or exits on an error: files keep what was written.
Kill ==
    /\ Crash /\ "kill" \in scope.crashes
    /\ \E segs \in MayTear(disk.segs) : disk' = [disk EXCEPT !.segs = segs]
    /\ ram' = Closed /\ op' = Idle
    /\ crashes' = Append(crashes, "kill")
    /\ UNCHANGED <<scope, promised, peak>>

\* What stable storage may hold of a segment: at least its synchronized
\* records, then any of the others, the next one perhaps torn.
Survivors(seg) ==
    {[seg EXCEPT !.recs = SubSeq(@, 1, n), !.synced = n, !.torn = torn,
                 !.entry = "durable"] :
        <<n, torn>> \in {<<k, t>> \in (seg.synced .. Len(seg.recs)) \X BOOLEAN :
                            t => seg.torn \/ k < Len(seg.recs)}}

\* An entry that was not synchronized may be there or not.
Unsettled(file) == file.entry # "durable"

PowerLoss ==
    /\ Crash /\ "power" \in scope.crashes
    /\ \E lost \in SUBSET {i \in DOMAIN disk.segs : Unsettled(disk.segs[i])},
          gone \in SUBSET {d \in disk.deltas : Unsettled(d)},
          published \in IF disk.published = "renamed" THEN {"no", "durable"}
                        ELSE {disk.published} :
        LET kept == SetToSortSeq(DOMAIN disk.segs \ lost, <)
        IN  \E segs \in {f \in [DOMAIN kept ->
                                  UNION {Survivors(disk.segs[kept[i]]) : i \in DOMAIN kept}] :
                            \A i \in DOMAIN kept : f[i] \in Survivors(disk.segs[kept[i]])} :
                disk' = [disk EXCEPT !.segs = segs,
                                     !.deltas = {[d EXCEPT !.entry = "durable"] :
                                                    d \in @ \ gone},
                                     !.published = published]
    /\ ram' = Closed /\ op' = Idle
    /\ crashes' = Append(crashes, "power")
    /\ UNCHANGED <<scope, promised, peak>>

-----------------------------------------------------------------------------

(***************************************************************************)
(* OpenOnline, of a directory without a flush-undo journal.  Recovery      *)
(* writes nothing but the cut of torn tails and the startup cache, so it   *)
(* is one step; a start that is refused changes nothing and may be tried   *)
(* again.                                                                  *)
(***************************************************************************)
DeltaRuns(deltas) ==
    SetToSortSeq({d.run : d \in {f \in deltas : Present(f)}},
                 LAMBDA x, y : x.gen < y.gen)

Snapshots(runs) == {i \in DOMAIN runs : runs[i].snapshot}

\* From the first run, snapshots or not.
EarliestStart(runs) == 1

\* Recovery starts at the latest snapshot: its predecessors may be gone.
RecoveryStart(runs) == Max(Snapshots(runs) \cup {1})

\* Every file opens, and the runs from the start are contiguous.
DeltasConnect(runs) ==
    /\ \A i \in DOMAIN runs : Parses(runs[i])
    /\ \A i \in RecoveryStart(runs) .. Len(runs) :
        LET first == i = RecoveryStart(runs)
            previous == IF first THEN [gen |-> 0, endLsn |-> 0] ELSE runs[i - 1]
        IN  /\ IsPrefix(BaseChain, runs[i].chain)
            /\ \/ first /\ runs[i].snapshot
               \/ /\ ~runs[i].snapshot
                  /\ runs[i].previous = previous.gen
                  /\ runs[i].gen = previous.gen + 1
                  /\ runs[i].previousLsn = previous.endLsn

\* RecoverDeltas: the state of the last run.
RecoverDeltas(runs) ==
    IF runs = <<>>
    THEN [ok |-> TRUE, gen |-> 0, lsn |-> 0, chain |-> BaseChain,
          live |-> BaseArena.live, next |-> BaseNext, dirty |-> <<>>, runs |-> <<>>]
    ELSE LET tip == Last(runs)
         IN  [ok |-> DeltasConnect(runs), gen |-> tip.gen, lsn |-> tip.endLsn,
              chain |-> tip.chain, live |-> tip.live, next |-> tip.next,
              dirty |-> <<>>,
              runs |-> SubSeq(runs, RecoveryStart(runs), Len(runs))]

\* A record extends the recovered chain, or takes its tip back.
ExtendsChain(tx, chain) ==
    /\ tx.previous = chain
    /\ IF tx.kind = "CONNECT" THEN Len(tx.point) = Len(chain) + 1
       ELSE tx.point = Front(chain)

\* RecoverSegment, for one record: sealed ones are skipped, the others follow
\* each other without a gap.
Replay(durable, state, tx) ==
    IF ~state.ok \/ tx.lsn <= durable THEN state
    ELSE IF tx.lsn # state.lsn + 1 \/ ~ExtendsChain(tx, state.chain)
         THEN [state EXCEPT !.ok = FALSE]
         ELSE [state EXCEPT !.lsn = tx.lsn, !.chain = tx.point,
                            !.next = tx.after_next,
                            !.dirty = Images(tx.changes, "after") @@ @]

Recover(deltas, segs) ==
    FoldLeft(LAMBDA state, tx : Replay(deltas.lsn, state, tx), deltas,
             LogRecords(segs))

\* A torn tail is cut off and the file synchronized; a whole segment is left
\* as it is.
CutTail(seg) ==
    IF seg.torn THEN [seg EXCEPT !.torn = FALSE, !.synced = Len(seg.recs)] ELSE seg

RecoveredSegs(segs) ==
    [i \in DOMAIN segs |-> IF Present(segs[i]) THEN CutTail(segs[i]) ELSE segs[i]]

\* LoadValidatedStartupCache: the runs the cache's anchor covers; it is the
\* base or a run that is still there.
Anchored(cache, runs) ==
    IF cache.gen = 0 THEN {0} ELSE {i \in DOMAIN runs : runs[i].gen = cache.gen}

\* The cached free nodes, patched with the newest records of later runs and
\* with the replayed log.
PatchedFree(cache, arena, covered) ==
    LET patch == Sealed(arena) @@ LatestDelta(arena, covered + 1)
        old == {id \in cache.free : id < arena.next} \cup (cache.next .. arena.next - 1)
    IN  (old \ DOMAIN patch) \cup {id \in DOMAIN patch : ~IsLive(patch[id])}

Booked(arena, free) ==
    [arena EXCEPT !.free = free, !.live = arena.next - Cardinality(free)]

\* The bookkeeping a cache gives, unless it contradicts the sealed count of a
\* store without newer records.
CacheHits(cache, arena, sealed, count) ==
    {a \in {Booked(arena, PatchedFree(cache, arena, i)) :
               i \in Anchored(cache, arena.runs)} :
        sealed => a.live = count}

\* RebuildIndexAndValidate: a full scan.
Scanned(arena) == Booked(arena, FreeNodes(arena))

Refuse(why) ==
    /\ ram' = [open |-> FALSE, refused |-> why]
    /\ UNCHANGED disk

OpenOnline ==
    /\ ~ram.open /\ disk.published # "no"
    /\ LET deltas == RecoverDeltas(DeltaRuns(disk.deltas))
           state == Recover(deltas, disk.segs)
           sealed == state.lsn = deltas.lsn
           scan == [runs |-> state.runs, dirty |-> state.dirty,
                    next |-> state.next, live |-> 0, free |-> {}]
           hits == CacheHits(disk.cache, scan, sealed, deltas.live)
           arena == IF hits # {} THEN CHOOSE a \in hits : TRUE ELSE Scanned(scan)
       IN  IF ~deltas.ok THEN Refuse("delta")
           ELSE IF ~state.ok THEN Refuse("log")
           ELSE IF sealed /\ arena.live # deltas.live THEN Refuse("count")
           ELSE /\ \E wal \in scope.wal :
                    ram' = [open |-> TRUE, refused |-> "no", wal |-> wal,
                            chain |-> state.chain, current |-> state.lsn,
                            durable |-> deltas.lsn, gen |-> deltas.gen, arena |-> arena, segment |-> 0]
                /\ \E cache \in {disk.cache} \cup
                        IF hits = {} /\ sealed THEN {CacheOf(deltas.gen, arena)} ELSE {} :
                     disk' = [disk EXCEPT !.segs = RecoveredSegs(@), !.cache = cache]
    /\ UNCHANGED <<scope, op, promised, peak, crashes>>

-----------------------------------------------------------------------------

\* Between two calls an open store waits for its caller; nothing else may stop.
CallerIdles == ram.open /\ op.at = "idle" /\ UNCHANGED vars

Next ==
    \/ EnableOnline \/ PublishSyncs
    \/ ModifyBlock \/ RollbackOnlineBlock
    \/ OpenAppendSegment \/ AppendWrites \/ AppendSyncs
    \/ FlushOnline \/ SealSyncs
    \/ CompactWrites \/ CompactSyncs \/ CompactUnlinks \/ CompactEnds
    \/ PruneRemoves \/ PruneEnds \/ RefreshCache
    \/ Kill \/ PowerLoss \/ OpenOnline \/ CallerIdles

Spec == Init /\ [][Next]_vars

-----------------------------------------------------------------------------

\* Whatever mixture of base, runs, overlay, replayed log and cached bookkeeping
\* it is read from, the forest of an open store is that of its chain: one live
\* node for every leaf, and a free list of exactly the other nodes.
ForestIsOfChain ==
    At("idle") =>
        /\ {Read(ram.arena, id).hash : id \in LiveNodes(ram.arena)}
              = ToSet(Leaves(ram.chain))
        /\ Cardinality(LiveNodes(ram.arena)) = Len(Leaves(ram.chain))
        /\ ram.arena.free = FreeNodes(ram.arena)

\* A start finds the block acknowledged last (the run sealed last, without a
\* log), or one whose write a crash interrupted: nothing acknowledged is lost
\* and nothing else is found.
OpensAtPromised ==
    [][~ram.open /\ disk.published # "no" /\ ram'.open =>
         ram'.chain \in promised]_vars

\* A power loss after a kill: the start in between has read records from the page
\* cache that it did not synchronize, and the power loss may take them.
PowerAfterKill ==
    \E i, j \in DOMAIN crashes : i < j /\ crashes[i] = "kill" /\ crashes[j] = "power"

\* A run was sealed after a rollback (it counts more LSNs than blocks) with a live
\* count that is not that of its chain: a node above `next` had kept its record.
CountDrifted ==
    \E d \in disk.deltas :
        /\ d.run.live # Len(Leaves(d.run.chain))
        /\ d.run.endLsn > Height(d.run.chain) - Height(BaseChain)

\* No crash between two steps of an append, a seal, a compaction, a removal or
\* a recovery leaves runs or log segments that recovery refuses, but for two cases:
\* the log has a gap after a power loss that follows a kill (forest.cpp:3986), and
\* a live count that drifted after a rollback was sealed (forest.cpp:5228, or the run
\* does not parse).
Reopens ==
    \/ ram.refused = "no"
    \/ ram.refused = "log" /\ PowerAfterKill
    \/ ram.refused \in {"count", "delta"} /\ CountDrifted

\* Every block within undo_depth of the greatest height a removal of segments
\* was computed from keeps the before-images that undo it, through sealing,
\* removal of segments, reorganizations and crashes (include/utreexo/forest.h:
\* "Retain before-images for at least this many connected blocks"), until a power
\* loss follows a kill.
UndoRetained ==
    ram.open /\ scope.wal = {TRUE} /\ ~PowerAfterKill =>
        \A h \in Len(BaseChain) + 1 .. Len(ram.chain) :
            h - 1 > peak - scope.undoDepth =>
                LET block == SubSeq(ram.chain, 1, h)
                IN  /\ Connects(disk.segs, block) # <<>>
                    /\ ReadConnectTransaction(disk.segs, block).previous = Front(block)

\* The tip's retained images match the nodes they undo, so that the tip can be
\* rolled back (README.md: "Automatic shallow-reorg rollback when the optional
\* WAL is enabled").
TipCanBeUndone ==
    At("idle") /\ Connects(disk.segs, ram.chain) # <<>> =>
        ChangesApply(ram.arena,
                     ReadConnectTransaction(disk.segs, ram.chain).changes)

=============================================================================
