--------------------------------- MODULE Bridge ---------------------------------
(***************************************************************************)
(* BridgeMain (src/main.cpp): one thread that loads a forest, aligns it     *)
(* with the proof archive, catches up with Bitcoin Core and follows it.     *)
(* The forest and the archive are two durable states; every pair of durable *)
(* steps can be separated by a crash, and Core may reorganize between any   *)
(* two RPC calls.  The archive is what ProofArchive promises (a tip and a   *)
(* confirmed part of it), the online forest what its WAL or its last sealed *)
(* delta promises.                                                          *)
(***************************************************************************)
EXTENDS SequentialSync, Checkpoint

CONSTANT Scope      \* the configurations and bounds of an instance

VARIABLES
    scope,          \* the chosen one
    main,           \* the main thread
    forest,         \* the forest in memory: point, the number of blocks that can be
                    \* rolled back, online or RAM
    disk,           \* the online directory: NONE, or what reopening it yields
    archive,        \* base, enqueued tip, durable tip, and a record that is wrong
    signal,         \* RequestedShutdownSignal() # 0
    spent           \* bounds: crashes and reorganizations used

vars == <<active, prefetch, chk, temp, scope, main, forest, disk, archive, signal, spent>>
stores == <<forest, disk, archive>>

point == forest.point
Height == Len(forest.point)

At(l) == main.pc = l
Goto(l) == main' = [main EXCEPT !.pc = l]
InLoop == At("loop")

Down == [pc |-> "down", phase |-> "sync", goal |-> NONE, target |-> 0, block |-> NONE,
         generate |-> FALSE, moved |-> FALSE, next |-> "down", then |-> "down"]

\* return from BridgeMain, without or with an error: the destructors leave the
\* durable states as they are, and what the archive had not committed is lost.
Ends ==
    /\ main' = Down
    /\ forest' = NONE
    /\ prefetch' = NONE
    /\ signal' = FALSE
    /\ UNCHANGED <<active, scope, spent>>

Lost == [archive EXCEPT !.tip = archive.durable]

Exit ==
    /\ Ends
    /\ KillCheckpoint
    /\ archive' = Lost
    /\ UNCHANGED disk

-----------------------------------------------------------------------------
(* The durable operations on the two stores.                                   *)

\* PackedForest::RollbackOnlineBlock needs the block's record in the WAL, and the
\* nodes as the record left them (ApplyPhysicalChanges).
CanRollback ==
    forest.online /\ scope.wal /\ forest.undo > 0 /\ point # <<>>

RollbackOnlineBlock ==
    /\ CanRollback
    /\ forest' = [forest EXCEPT !.point = Front(@), !.undo = @ - 1]
    /\ disk' = [point |-> Front(point), undo |-> forest.undo - 1]

\* PackedForest::ModifyBlock; with the WAL the block is durable when it returns.
ModifyBlock(b) ==
    LET kept == IF forest.online /\ scope.wal THEN forest.undo + 1 ELSE 0
    IN  /\ forest' = [forest EXCEPT !.point = b, !.undo = kept]
        /\ disk' = IF forest.online /\ scope.wal THEN [point |-> b, undo |-> kept] ELSE disk

\* FlushOnline seals a delta at the current point.  PruneWal may then drop WAL
\* segments, but keeps the records of the last undo_depth blocks.  Where it compacts
\* the runs, free nodes may come to differ from what a record left, and rollback is
\* refused from that record on.
FlushOnline ==
    \E kept \in {forest.undo, Min({forest.undo, scope.undo})}
                  \cup IF scope.compacts THEN 0..forest.undo ELSE {} :
       /\ forest' = [forest EXCEPT !.undo = kept]
       /\ disk' = [point |-> point, undo |-> kept]

\* ProofStore::Truncate waits for the pipeline and cuts the archive at p.
Truncate(p) ==
    /\ archive.tip = archive.durable
    /\ archive' = [archive EXCEPT !.tip = p, !.durable = p,
                      !.flaw = IF @ # NONE /\ Len(@.point) > Len(p) THEN NONE ELSE @]

\* WaitDurable(height) can return.
DurableTo(h) == h <= Len(archive.durable)

\* The archive's writer commits a group.
ArchiveCommits ==
    /\ archive.base # NONE
    /\ \E h \in (Len(archive.durable) + 1)..Len(archive.tip) :
          archive' = [archive EXCEPT !.durable = Prefix(archive.tip, h)]
    /\ UNCHANGED <<active, prefetch, chk, temp, scope, main, forest, disk, signal, spent>>

-----------------------------------------------------------------------------
(* Start: the online directory, else the recovery checkpoint, else the         *)
(* bootstrap.                                                                   *)

\* Without fast sync the checkpoint becomes an online directory, published once
\* Core has confirmed its point.
Import(p) ==
    /\ forest' = [point |-> p, undo |-> 0, online |-> ~scope.fast]
    /\ disk' = IF scope.fast THEN disk ELSE [point |-> p, undo |-> 0]
    /\ Goto(IF scope.fast THEN "open" ELSE "reconcile")

LoadOnline ==
    /\ At("down") /\ disk # NONE
    /\ forest' = [point |-> disk.point, undo |-> disk.undo, online |-> TRUE]
    /\ Goto("reconcile")
    /\ UNCHANGED <<active, prefetch, chk, temp, scope, disk, archive, signal, spent>>

RecoveryAccepted == Loads /\ Active(chk.now.point)

LoadRecovery ==
    /\ At("down") /\ disk = NONE
    /\ RecoveryAccepted
    /\ Import(chk.now.point)
    /\ UNCHANGED <<active, prefetch, chk, temp, scope, archive, signal, spent>>

\* use_automatic_bootstrap_fallback; a recovery checkpoint named by the operator
\* is refused instead.
LoadBootstrap ==
    /\ At("down") /\ disk = NONE
    /\ chk.now = NOFILE \/ (~RecoveryAccepted /\ scope.automatic)
    /\ Import(<<>>)
    /\ UNCHANGED <<active, prefetch, chk, temp, scope, archive, signal, spent>>

LoadRefused ==
    /\ At("down") /\ disk = NONE
    /\ chk.now # NOFILE /\ ~RecoveryAccepted /\ ~scope.automatic
    /\ UNCHANGED vars

-----------------------------------------------------------------------------
(* ReconcileCurrentPoint, at the start and in every round of the follow loop.  *)

ReconcileRollback ==
    /\ At("reconcile") /\ ~Active(point)
    /\ RollbackOnlineBlock
    /\ main' = [main EXCEPT !.moved = TRUE]
    /\ UNCHANGED <<active, prefetch, chk, temp, scope, archive, signal, spent>>

ReconcileFails ==
    /\ At("reconcile") /\ ~Active(point)
    /\ ~CanRollback
    /\ Exit

Reconciled ==
    /\ At("reconcile") /\ Active(point)
    /\ main' = [main EXCEPT !.moved = FALSE,
                   !.pc = CASE main.phase = "sync" -> "open"
                            [] main.phase = "follow" /\ main.moved -> "truncate"
                            [] OTHER -> "poll"]
    /\ UNCHANGED <<active, prefetch, chk, temp, scope, stores, signal, spent>>

-----------------------------------------------------------------------------
(* Opening the archive and aligning it with the forest.                        *)

\* ProofStore::Open; a new archive begins at the forest's point.
OpenArchive ==
    /\ At("open")
    /\ archive' = IF archive.base # NONE THEN archive
                  ELSE [base |-> point, tip |-> point, durable |-> point, flaw |-> NONE]
    /\ Goto("align")
    /\ UNCHANGED <<active, prefetch, chk, temp, scope, forest, disk, signal, spent>>

Common == CommonPrefix(point, archive.durable)
Overlap == Min({Height, Len(archive.durable)})
Mismatch == Len(Common) < Overlap

\* The forest is below the archive's base, or has the archive's tip, or it is a RAM
\* forest that will replay archived blocks.
AlignNothing ==
    /\ At("align")
    /\ \/ Height < Len(archive.base)
       \/ ~Mismatch /\ Height = Len(archive.durable)
       \/ ~Mismatch /\ Height < Len(archive.durable) /\ ~forest.online
    /\ Goto("aligned")
    /\ UNCHANGED <<active, prefetch, chk, temp, scope, stores, signal, spent>>

\* The chains differ within the overlap, or the forest is ahead: the forest is
\* rolled back to the last common block.  The errors are
\* archive_base_not_in_forest_chain, ram_checkpoint_cannot_rollback and
\* checkpoint_ahead_of_durable_proofs.
AlignForest ==
    /\ At("align")
    /\ Height >= Len(archive.base)
    /\ Mismatch \/ Height > Len(archive.durable)
    /\ IF Len(Common) >= Len(archive.base) /\ forest.online
       THEN /\ main' = [main EXCEPT !.pc = "rollback", !.goal = Common]
            /\ UNCHANGED <<active, prefetch, chk, temp, scope, stores, signal, spent>>
       ELSE Exit

\* One round of RollbackTo(common) or RollbackTo(archive_tip).
AlignRollback ==
    /\ At("rollback") /\ point # main.goal
    /\ IF CanRollback
       THEN /\ RollbackOnlineBlock
            /\ UNCHANGED <<active, prefetch, chk, temp, scope, main, archive, signal, spent>>
       ELSE Exit

\* Only then is the archive cut at the common block; when the forest was just
\* ahead there is nothing to cut.
AlignArchive ==
    /\ At("rollback") /\ point = main.goal
    /\ Truncate(main.goal)
    /\ main' = [main EXCEPT !.pc = "aligned", !.goal = NONE]
    /\ UNCHANGED <<active, prefetch, chk, temp, scope, forest, disk, signal, spent>>

\* The archive is ahead: TipHeight, then FindHighestActiveArchivePoint downwards
\* from the archive's tip.
ScanBegins ==
    /\ At("align")
    /\ Height >= Len(archive.base) /\ ~Mismatch
    /\ Height < Len(archive.durable) /\ forest.online
    /\ IF Len(archive.durable) > Len(active)
       THEN Exit
       ELSE /\ main' = [main EXCEPT !.pc = "scan", !.goal = archive.durable]
            /\ UNCHANGED <<active, prefetch, chk, temp, scope, stores, signal, spent>>

\* The hash of one candidate height.  The lower bound is the forest's point.
ScanStep ==
    /\ At("scan")
    /\ \/ /\ Active(main.goal)
          /\ Goto("confirm")
          /\ UNCHANGED <<active, prefetch, chk, temp, scope, stores, signal, spent>>
       \/ /\ ~Active(main.goal) /\ Len(main.goal) > Height
          /\ main' = [main EXCEPT !.goal = Front(@)]
          /\ UNCHANGED <<active, prefetch, chk, temp, scope, stores, signal, spent>>
       \/ /\ ~Active(main.goal) /\ Len(main.goal) = Height
          /\ Exit

\* The candidate is asked for again, and the stale suffix is cut.
ScanConfirm ==
    /\ At("confirm")
    /\ IF Active(main.goal)
       THEN /\ Truncate(main.goal)
            /\ main' = [main EXCEPT !.pc = "aligned", !.goal = NONE]
            /\ UNCHANGED <<active, prefetch, chk, temp, scope, forest, disk, signal, spent>>
       ELSE Exit

FlawAt(p, kind) == archive.flaw # NONE /\ archive.flaw = [point |-> p, kind |-> kind]

\* The archived state at the forest's point is compared with the forest; then
\* Core's tip must cover the archive.
CheckTip ==
    /\ At("aligned")
    /\ IF \/ FlawAt(point, "state")
          \/ Len(archive.durable) > Len(active)
       THEN Exit
       ELSE /\ main' = [main EXCEPT !.pc = "launch", !.target = Len(active)]
            /\ UNCHANGED <<active, prefetch, chk, temp, scope, stores, signal, spent>>

\* The archive's base must be active; the prefetch thread is started.
Launch ==
    /\ At("launch")
    /\ IF ~Active(archive.base)
       THEN Exit
       ELSE /\ Goto("loop")
            /\ IF signal THEN UNCHANGED prefetch ELSE StartPrefetch(point, main.target)
            /\ UNCHANGED <<active, chk, temp, scope, stores, signal, spent>>

-----------------------------------------------------------------------------
(* The block loop, of the initial synchronization and of a follow batch.       *)

Continues == Height < main.target /\ ~signal

SealEarly ==
    /\ InLoop /\ Continues
    /\ forest.online
    /\ FlushOnline
    /\ UNCHANGED <<active, prefetch, chk, temp, scope, main, archive, signal, spent>>

\* seal_online_delta, when a cache or WAL limit is reached: the archive first.
SealDelta ==
    /\ InLoop /\ Continues
    /\ forest.online
    /\ DurableTo(Height)
    /\ FlushOnline
    /\ UNCHANGED <<active, prefetch, chk, temp, scope, main, archive, signal, spent>>

\* What the proof-generation policy answers for a block: NONE for an error, else
\* whether a proof is to be generated and whether the archive is cut before it.
TrustArchive(b) ==
    [generate |-> Len(b) > Len(archive.durable), cut |-> FALSE]

\* Forest::Roots lacks a root: every leaf of one of the trees has been spent.  The
\* blocks up to a point decide it.
MissingRoot == point \in scope.emptied

ProofPolicy(b) ==
    LET archived == Prefix(archive.durable, Len(b))
    IN  IF Len(b) < Len(archive.base) THEN [generate |-> FALSE, cut |-> FALSE]
        ELSE IF Len(b) = Len(archive.base)
        THEN IF b = archive.base THEN [generate |-> FALSE, cut |-> FALSE] ELSE NONE
        ELSE IF Len(b) > Len(archive.durable) THEN [generate |-> TRUE, cut |-> FALSE]
        ELSE IF b = archived /\ MissingRoot THEN NONE
        ELSE LET wrong == b # archived \/ FlawAt(b, "proof")
             IN  [generate |-> wrong, cut |-> wrong]

\* ProcessNext up to the answer of the policy.
TakeBlock ==
    /\ InLoop /\ Continues
    /\ prefetch.queue # <<>>
    /\ LET b == Head(prefetch.queue)
           policy == ProofPolicy(b)
       IN  /\ Connects(point, b)
           /\ policy # NONE
           /\ IF policy.cut THEN Truncate(point) ELSE UNCHANGED archive
           /\ main' = [main EXCEPT !.pc = "modify", !.block = b,
                                   !.generate = policy.generate]
    /\ NextFetchedBlock
    /\ UNCHANGED <<active, chk, temp, scope, forest, disk, signal, spent>>

\* The prefetch thread ended early, the block does not connect, or the policy
\* fails.
TakeFails ==
    /\ InLoop /\ Continues
    /\ \/ PrefetchEnded
       \/ /\ prefetch.queue # <<>>
          /\ LET b == Head(prefetch.queue)
             IN  Connects(point, b) => ProofPolicy(b) = NONE
    /\ Exit

\* The proof, if one is wanted, is generated and verified against the roots; then
\* ModifyBlock, and the chain-hash index with it.
Modify ==
    /\ At("modify")
    /\ ~(main.generate /\ MissingRoot)
    /\ ModifyBlock(main.block)
    /\ main' = [main EXCEPT !.pc = "store", !.block = NONE]
    /\ UNCHANGED <<active, prefetch, chk, temp, scope, archive, signal, spent>>

\* "pre-block forest contains a missing root".
ProveFails ==
    /\ At("modify")
    /\ main.generate /\ MissingRoot
    /\ Exit

\* Enqueue; the archive refuses a block that does not extend its tip.
EnqueueProof ==
    /\ At("store") /\ main.generate
    /\ IF Front(point) = archive.tip
       THEN /\ archive' = [archive EXCEPT !.tip = point]
            /\ Goto(IF main.phase = "follow" THEN "commit" ELSE "window")
            /\ UNCHANGED <<active, prefetch, chk, temp, scope, forest, disk, signal, spent>>
       ELSE Exit

\* A reused record whose post-block state is not the forest's: the forest goes
\* back one block (a RAM forest is dropped with the process), then the archive.
ReuseProof ==
    /\ At("store") /\ ~main.generate
    /\ IF main.phase = "follow" THEN Exit
       ELSE /\ main' = IF FlawAt(point, "state")
                       THEN [main EXCEPT !.pc = "mismatch", !.goal = Front(point)]
                       ELSE [main EXCEPT !.pc = "stored"]
            /\ UNCHANGED <<active, prefetch, chk, temp, scope, stores, signal, spent>>

MismatchRollback ==
    /\ At("mismatch") /\ forest.online /\ point # main.goal
    /\ IF CanRollback
       THEN /\ RollbackOnlineBlock
            /\ UNCHANGED <<active, prefetch, chk, temp, scope, main, archive, signal, spent>>
       ELSE Exit

MismatchTruncate ==
    /\ At("mismatch") /\ (point = main.goal \/ ~forest.online)
    /\ archive.tip = archive.durable
    /\ Ends
    /\ KillCheckpoint
    /\ archive' = [archive EXCEPT !.tip = main.goal, !.durable = main.goal, !.flaw = NONE]
    /\ UNCHANGED disk

\* EnforceRecoveryWindow, with the lag it allows.
LagAllowed == Height - Len(archive.durable) < scope.undo

RecoveryWindow ==
    /\ At("window")
    /\ forest.online => LagAllowed \/ DurableTo(Height)
    /\ Goto("stored")
    /\ UNCHANGED <<active, prefetch, chk, temp, scope, stores, signal, spent>>

\* In the follow loop the proof is durable before the block is published.
CommitProof ==
    /\ At("commit")
    /\ DurableTo(Height)
    /\ Goto("loop")
    /\ UNCHANGED <<active, prefetch, chk, temp, scope, stores, signal, spent>>

\* A RAM forest may be saved at an interval.
BlockStored ==
    /\ At("stored")
    /\ \/ Goto("loop")
       \/ ~forest.online /\ main' = [main EXCEPT !.pc = "save", !.then = "loop"]
    /\ UNCHANGED <<active, prefetch, chk, temp, scope, stores, signal, spent>>

\* The memory guard or an allocation failure of ProcessNext: a RAM forest is
\* saved before the process ends.  Counted as a crash.
MemoryExhausted ==
    /\ InLoop /\ Continues
    /\ ~forest.online /\ spent.crashes < scope.crashes
    /\ RequestStop
    /\ main' = [main EXCEPT !.pc = "join", !.next = "save", !.then = "exit"]
    /\ spent' = [spent EXCEPT !.crashes = @ + 1]
    /\ UNCHANGED <<active, chk, temp, scope, stores, signal>>

LoopEnds ==
    /\ InLoop /\ ~Continues
    /\ RequestStop
    /\ main' = [main EXCEPT !.pc = "join",
                   !.next = CASE main.phase = "sync" -> "drain"
                              [] main.phase = "follow" /\ signal -> "shutdown"
                              [] OTHER -> "validate"]
    /\ UNCHANGED <<active, chk, temp, scope, stores, signal, spent>>

Join ==
    /\ At("join")
    /\ Joined
    /\ main' = [main EXCEPT !.pc = main.next, !.next = "down"]
    /\ UNCHANGED <<active, chk, temp, scope, stores, signal, spent>>

\* Drain, before anything depends on the archive.
Drain ==
    /\ At("drain")
    /\ archive.tip = archive.durable
    /\ Goto("validate")
    /\ UNCHANGED <<active, prefetch, chk, temp, scope, stores, signal, spent>>

\* ValidateCurrentPoint.  After the initial synchronization a reorganization is an
\* error; after a follow batch the next round reconciles.
FollowNext == IF signal THEN "shutdown" ELSE "reconcile"

Validate ==
    /\ At("validate")
    /\ IF main.phase = "sync" /\ ~signal /\ ~Active(point)
       THEN Exit
       ELSE /\ Goto(CASE main.phase = "sync" -> "switch"
                      [] main.phase = "follow" /\ Active(point) -> "idle"
                      [] OTHER -> FollowNext)
            /\ UNCHANGED <<active, prefetch, chk, temp, scope, stores, signal, spent>>

\* EnableOnline turns the RAM forest into an online directory; then the follow
\* loop begins, unless a shutdown was requested.
Switch ==
    /\ At("switch")
    /\ IF signal \/ forest.online THEN UNCHANGED <<forest, disk>>
       ELSE /\ forest' = [forest EXCEPT !.online = TRUE]
            /\ disk' = [point |-> point, undo |-> 0]
    /\ main' = [main EXCEPT !.pc = FollowNext,
                            !.phase = "follow"]
    /\ UNCHANGED <<active, prefetch, chk, temp, scope, archive, signal, spent>>

-----------------------------------------------------------------------------
(* The follow loop: reconcile, cut the archive, poll, process a batch, idle.   *)

LeaveArchive ==
    /\ At("truncate")
    /\ Goto("poll")
    /\ UNCHANGED <<active, prefetch, chk, temp, scope, stores, signal, spent>>

TruncateArchive ==
    /\ At("truncate")
    /\ Truncate(point)
    /\ Goto("poll")
    /\ UNCHANGED <<active, prefetch, chk, temp, scope, forest, disk, signal, spent>>

Poll ==
    /\ At("poll")
    /\ IF Height < Len(active)
       THEN /\ StartPrefetch(point, Len(active))
            /\ main' = [main EXCEPT !.pc = "loop", !.target = Len(active)]
       ELSE Goto("idle") /\ UNCHANGED prefetch
    /\ UNCHANGED <<active, chk, temp, scope, stores, signal, spent>>

\* The timed seal, and the next round.
Idle ==
    /\ At("idle")
    /\ \/ DurableTo(Height) /\ FlushOnline
       \/ UNCHANGED <<forest, disk>>
    /\ Goto(FollowNext)
    /\ UNCHANGED <<active, prefetch, chk, temp, scope, archive, signal, spent>>

-----------------------------------------------------------------------------
(* Saving a checkpoint, and the shutdown.                                      *)

\* save_checkpoint drains the archive, then SaveCheckpoint.
SaveUndrained ==
    /\ At("save")
    /\ SaveWrite(point)
    /\ Goto("save_sync")
    /\ UNCHANGED <<active, prefetch, scope, stores, signal, spent>>

SaveBegins ==
    /\ At("save")
    /\ archive.tip = archive.durable
    /\ SaveWrite(point)
    /\ Goto("save_sync")
    /\ UNCHANGED <<active, prefetch, scope, stores, signal, spent>>

SaveContinues ==
    /\ \/ At("save_sync") /\ SaveSync /\ Goto("save_rename")
       \/ At("save_rename") /\ SaveRename /\ Goto("save_directory")
       \/ At("save_directory") /\ SaveSyncDirectory
             /\ main' = [main EXCEPT !.pc = main.then, !.then = "down"]
    /\ UNCHANGED <<active, prefetch, scope, stores, signal, spent>>

ExitSaved == At("exit") /\ Exit

\* Clean shutdown: drain, then seal an online forest or save a RAM forest.
ShutdownSeals ==
    /\ At("shutdown") /\ forest.online
    /\ archive.tip = archive.durable
    /\ FlushOnline
    /\ Goto("exit")
    /\ UNCHANGED <<active, prefetch, chk, temp, scope, archive, signal, spent>>

ShutdownSaves ==
    /\ At("shutdown") /\ ~forest.online
    /\ main' = [main EXCEPT !.pc = "save", !.then = "exit"]
    /\ UNCHANGED <<active, prefetch, chk, temp, scope, stores, signal, spent>>

-----------------------------------------------------------------------------
(* The environment.                                                            *)

CoreMoves ==
    /\ \/ CoreExtend(scope.height) /\ UNCHANGED spent
       \/ /\ spent.reorgs < scope.reorgs
          /\ CoreReorganize(scope.height, scope.depth)
          /\ spent' = [spent EXCEPT !.reorgs = @ + 1]
    /\ UNCHANGED <<prefetch, chk, temp, scope, main, stores, signal>>

PrefetchStep ==
    /\ PrefetchBlock \/ PrefetchDone
    /\ UNCHANGED <<chk, temp, scope, main, stores, signal, spent>>

\* SIGINT or SIGTERM.
Signal ==
    /\ ~At("down") /\ ~signal /\ spent.signals < scope.signals
    /\ signal' = TRUE
    /\ spent' = [spent EXCEPT !.signals = @ + 1]
    /\ UNCHANGED <<active, prefetch, chk, temp, scope, main, stores>>

\* The process is gone, and what is durable stays.
Dies ==
    /\ ~At("down") /\ spent.crashes < scope.crashes
    /\ main' = Down
    /\ forest' = NONE
    /\ prefetch' = NONE
    /\ signal' = FALSE
    /\ archive' = Lost
    /\ spent' = [spent EXCEPT !.crashes = @ + 1]
    /\ UNCHANGED <<active, scope, disk>>

\* Prove, VerifyProof or ModifyBlock fails for want of memory or for an I/O error:
\* the forest is as before the block, and main.cpp returns.  Counted as a crash.
TransitionFails ==
    /\ At("modify")
    /\ Dies
    /\ KillCheckpoint

\* The process dies anywhere; of the checkpoint's directory entry either version may
\* be left.
Crash ==
    /\ Dies
    /\ KillCheckpoint \/ PowerLossCheckpoint

-----------------------------------------------------------------------------
NoArchive == [base |-> NONE, tip |-> NONE, durable |-> NONE, flaw |-> NONE]

\* An archive made elsewhere: it begins at the root block, is durable, and at most
\* one of its records is wrong, in its proof or in its state.
TakenOver(a) ==
    /\ a = [base |-> <<>>, tip |-> a.durable, durable |-> a.durable, flaw |-> a.flaw]
    /\ a.durable \in Seq(Label)
    /\ a.flaw # NONE =>
         /\ a.flaw \in [point : Seq(Label) \ {<<>>}, kind : {"proof", "state"}]
         /\ IsPrefix(a.flaw.point, a.durable)

ASSUME ScopeConfig ==
    \A s \in Scope :
       /\ s.undo \in Nat /\ s.depth \in Nat /\ s.active \in Seq(Label)
       /\ \A a \in s.archives : a = NoArchive \/ TakenOver(a)

\* An absent optional, a missing file and a damaged one are none of the values.
ASSUME NoValues ==
    /\ NONE \notin Seq(Label) /\ TORN \notin Seq(Label)
    /\ NONE \notin [height : Nat, target : Nat, queue : Seq(Seq(Label)),
                    stop : BOOLEAN, done : BOOLEAN]
    /\ NONE \notin [point : Seq(Label), undo : Nat]
    /\ NOFILE \notin [point : Seq(Label), synced : BOOLEAN]

Init ==
    /\ scope \in Scope
    /\ active = scope.active
    /\ archive \in scope.archives
    /\ prefetch = NONE
    /\ CheckpointInit
    /\ main = Down
    /\ forest = NONE
    /\ disk = NONE
    /\ signal = FALSE
    /\ spent = [crashes |-> 0, reorgs |-> 0, signals |-> 0]

Start == LoadOnline \/ LoadRecovery \/ LoadBootstrap \/ LoadRefused
Reconcile == ReconcileRollback \/ ReconcileFails \/ Reconciled
Align ==
    \/ OpenArchive \/ AlignNothing \/ AlignForest \/ AlignRollback \/ AlignArchive
    \/ ScanBegins \/ ScanStep \/ ScanConfirm \/ CheckTip \/ Launch
Process ==
    \/ TakeBlock \/ TakeFails \/ Modify \/ ProveFails \/ EnqueueProof \/ ReuseProof
    \/ MismatchRollback \/ MismatchTruncate \/ RecoveryWindow \/ CommitProof
    \/ BlockStored \/ LoopEnds \/ Join
Finish ==
    \/ Drain \/ Validate \/ Switch \/ TruncateArchive \/ Poll \/ Idle
    \/ SaveBegins \/ SaveContinues \/ ExitSaved \/ ShutdownSeals \/ ShutdownSaves

MainStep == Start \/ Reconcile \/ Align \/ Process \/ Finish

Next ==
    \/ MainStep \/ SealDelta \/ MemoryExhausted \/ TransitionFails
    \/ ArchiveCommits \/ PrefetchStep
    \/ CoreMoves \/ Signal \/ Crash

Spec == Init /\ [][Next]_vars

\* The operating system runs the main thread, the prefetch thread and the
\* archive's writer; whoever supervises the process starts it again.
FairSpec ==
    /\ Spec
    /\ WF_vars(MainStep)
    /\ WF_vars(PrefetchStep)
    /\ WF_vars(ArchiveCommits)

-----------------------------------------------------------------------------
Running == main.pc \notin {"down", "reconcile", "open", "align", "rollback", "scan", "confirm"}
              \/ main.phase = "follow"

\* A restart can always join the two durable states again.  Unless the forest is
\* still below the archive's base, the online directory is at most as many blocks
\* above its last block in common with the archive as it has undo records for, so
\* the alignment of main.cpp never ends with a forest it cannot roll back, wherever
\* the process died.
RestartAligns ==
    disk # NONE /\ archive.base # NONE /\ Len(disk.point) >= Len(archive.base) =>
       Len(disk.point) - Len(CommonPrefix(disk.point, archive.durable))
          <= IF scope.wal THEN disk.undo ELSE 0

\* From the end of the alignment on, forest and archive are on one branch: what the
\* archive holds for a block of the forest is that block's record, whatever Core
\* reorganized in between.  This is what lets the policy reuse archived proofs and
\* Enqueue extend the tip.
OneBranch ==
    Running /\ archive.base # NONE =>
       IsPrefix(point, archive.tip) \/ IsPrefix(archive.tip, point)

\* A record that the forest has passed has been verified against it: a wrong record
\* of an archive taken over from elsewhere is cut off before the forest goes on, and
\* never left below it.
PassedIsVerified ==
    /\ Running /\ main.pc \notin {"aligned", "modify", "store", "mismatch"}
    /\ archive.flaw # NONE
    => Len(archive.flaw.point) > Height

\* In the follow loop the archive ends at the forest's block and is durable up to it
\* whenever the loop polls, takes a block or idles: what is served as the tip is the
\* forest's tip, a reorganization leaves no record of the old branch behind, and every
\* block comes with a new proof (no missing_generated_proof).
FollowsTogether ==
    main.phase = "follow" /\ main.pc \in {"poll", "loop", "validate", "idle"} =>
       archive.tip = point /\ archive.durable = point

\* The recovery checkpoint is a whole file, and as long as Core has not reorganized,
\* its point is covered by the archive: a restart from it does not stop with
\* checkpoint_ahead_of_durable_proofs.
CheckpointUsable ==
    /\ chk.now # NOFILE => chk.now.point # TORN
    /\ chk.now # NOFILE /\ spent.reorgs = 0 =>
          IsPrefix(chk.now.point, archive.durable)

\* The cases in which the code stops at every start.
\* Core has left more blocks of the online forest than RollbackOnlineBlock takes back
\* (README.md:37 promises the rollback of a shallow reorganization; a compaction can
\* prevent it).
CannotRollback ==
    disk # NONE /\ Len(disk.point) - Len(CommonPrefix(disk.point, active)) > disk.undo

\* Core's chain goes on after a block that leaves a tree without a leaf.
CannotProve == \E h \in 0..(Len(active) - 1) : Prefix(active, h) \in scope.emptied

\* The archive's state after a block is wrong, and the online forest has reached that
\* block: the process died before they were compared (main.cpp:1873 then fails closed),
\* or there is no WAL to go back with (main.cpp:2481).  README.md:459 says such a record
\* is truncated and regenerated.
CannotCut ==
    /\ disk # NONE /\ archive.flaw # NONE /\ archive.flaw.kind = "state"
    /\ \/ spent.crashes > 0 /\ disk.point = archive.flaw.point
       \/ ~scope.wal

\* Core has left the point of a recovery checkpoint named by the operator, or has come
\* back to a checkpoint whose blocks the archive has replaced.
CannotLoad ==
    /\ disk = NONE /\ chk.now # NOFILE
    /\ IF RecoveryAccepted THEN ~IsPrefix(chk.now.point, archive.durable)
                           ELSE ~scope.automatic


=============================================================================
