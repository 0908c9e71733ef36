------------------------------- MODULE BridgeInv -------------------------------
(***************************************************************************)
(* The inductive invariant of Bridge: how the forest in memory, the online *)
(* directory, the archive, the checkpoint and Core's chain lie to each     *)
(* other at every step of the main thread, and after it has died.          *)
(***************************************************************************)
EXTENDS Bridge

Point == Seq(Label)
Flaw == [point : Point \ {<<>>}, kind : {"proof", "state"}]
ArchiveState ==
    [base : {<<>>}, tip : Point, durable : Point, flaw : Flaw \cup {NONE}]
ForestState == [point : Point, undo : Nat, online : BOOLEAN]
DiskState == [point : Point, undo : Nat]
PrefetchState ==
    [height : Nat \ {0}, target : Nat, queue : Seq(Point), stop : BOOLEAN, done : BOOLEAN]
File == [point : Point, synced : BOOLEAN]

Saving == {"save", "save_sync", "save_rename", "save_directory"}
Starting == {"reconcile", "open", "align", "rollback", "scan", "confirm"}
SyncPc ==
    {"down", "aligned", "launch", "loop", "modify", "store", "mismatch", "window", "stored",
     "join", "drain", "validate", "switch", "exit"} \cup Starting \cup Saving
FollowPc ==
    {"reconcile", "truncate", "poll", "loop", "modify", "store", "commit", "join",
     "validate", "idle", "shutdown", "exit"} \cup Saving
MainState ==
    [pc : SyncPc \cup FollowPc, phase : {"sync", "follow"}, goal : Point \cup {NONE},
     target : Nat, block : Point \cup {NONE}, generate : BOOLEAN, moved : BOOLEAN,
     next : SyncPc \cup FollowPc, then : SyncPc \cup FollowPc]

Alive == main.pc # "down"
Following == main.phase = "follow"
Opened == Running \/ main.pc \in {"align", "rollback", "scan", "confirm"}

\* The phases, and who saves a checkpoint.
ControlInv ==
    /\ main \in MainState
    /\ main.pc \in IF Following THEN FollowPc ELSE SyncPc
    /\ ~ Alive => ~ main.moved
    /\ main.pc = "join" => main.next \in IF Following THEN {"shutdown", "validate"}
                                                      ELSE {"drain", "save"}
    /\ main.pc \in Saving \/ (main.pc = "join" /\ main.next = "save") =>
         ~ forest.online /\ main.then \in {"loop", "exit"}
    /\ main.pc \in Saving /\ main.then = "loop" => ~ Following
    /\ main.pc = "join" /\ main.next = "save" => main.then = "exit"
    /\ Following /\ main.pc \notin Saving \cup {"shutdown", "exit"} => forest.online

\* Core and the prefetch thread.
InBatch ==
    \/ main.pc \in {"loop", "modify", "store", "window", "stored", "commit"}
    \/ main.pc \in Saving /\ main.then = "loop"
FetchInv ==
    /\ scope \in Scope /\ active \in Point /\ signal \in BOOLEAN
    /\ main.target <= Len(active)
    /\ prefetch # NONE => prefetch \in PrefetchState /\ prefetch.target <= Len(active)
    /\ InBatch => prefetch # NONE \/ signal \/ Len(point) >= main.target

\* The forest and its directory.
ForestInv ==
    /\ disk # NONE => disk \in DiskState
    /\ Alive =>
         /\ forest \in ForestState
         /\ forest.online /\ scope.wal => disk = [point |-> point, undo |-> forest.undo]
         /\ forest.online /\ ~ scope.wal => disk \in DiskState /\ IsPrefix(disk.point, point)
         /\ ~ forest.online => disk = NONE /\ forest.undo = 0 /\ scope.fast

\* A block that forest directory and archive have in common can be rolled back to.
JoinInv ==
    disk # NONE /\ archive.base # NONE =>
       \E h \in 0 .. Len(disk.point) :
          /\ IsPrefix(Prefix(disk.point, h), archive.durable)
          /\ Len(disk.point) <= h + IF scope.wal THEN disk.undo ELSE 0

\* The archive, and the record in it that is wrong: the forest does not go past it.
Clean(p) == archive.flaw # NONE => ~ IsPrefix(archive.flaw.point, p)
Exposed(p) == ~ Clean(p) => p = archive.flaw.point /\ archive.flaw.kind = "state"
ArchiveInv ==
    /\ archive = NoArchive \/ archive \in ArchiveState
    /\ Opened => archive.base # NONE
    /\ archive.base = NONE => /\ disk # NONE => disk.point = <<>>
                              /\ Alive => point = <<>>
    /\ archive.base # NONE =>
         /\ IsPrefix(archive.durable, archive.tip)
         /\ archive.flaw # NONE => IsPrefix(archive.flaw.point, archive.durable)
FlawInv ==
    /\ disk # NONE => Exposed(disk.point)
    /\ Alive => Exposed(point)
    /\ Running /\ main.pc \notin {"aligned", "store", "mismatch"} => Clean(point)
    /\ main.pc = "modify" => Exposed(main.block)

\* Where the tip of the archive is when the main thread is at main.pc.
Drained == archive.tip = archive.durable
TipInv ==
    /\ ~ Following /\ main.pc \in {"down", "aligned", "launch"} \cup Starting => Drained
    /\ Running /\ main.pc # "store" => IsPrefix(point, archive.tip)
    /\ main.pc = "rollback" =>
         /\ forest.online /\ main.goal \in Point
         /\ IsPrefix(main.goal, point) /\ IsPrefix(main.goal, archive.durable)
    /\ main.pc \in {"scan", "confirm"} =>
         /\ forest.online /\ main.goal \in Point
         /\ IsPrefix(point, main.goal) /\ IsPrefix(main.goal, archive.durable)
    /\ main.pc = "modify" =>
         /\ main.block \in Point \ {<<>>} /\ Front(main.block) = point
         /\ IF main.generate THEN archive.tip = point
            ELSE Drained /\ IsPrefix(main.block, archive.tip)
    /\ main.pc = "store" =>
         /\ point # <<>>
         /\ IF main.generate THEN archive.tip = Front(point)
            ELSE Drained /\ IsPrefix(point, archive.tip)
    /\ main.pc = "mismatch" =>
         /\ Drained /\ main.goal \in Point /\ IsPrefix(main.goal, archive.durable)
         /\ point = main.goal \/ (point # <<>> /\ Front(point) = main.goal)

\* The initial synchronization ends at the archive's tip or is shut down.
SyncEnd == main.pc \in {"drain", "validate", "switch"} \/ (main.pc = "join" /\ main.next = "drain")
SyncInv ==
    ~ Following =>
       /\ main.pc \in {"loop", "window", "stored", "join", "drain", "validate", "switch", "exit"}
            \cup Saving => Drained \/ archive.tip = point
       /\ Running /\ main.pc # "aligned" => Len(archive.tip) <= main.target
       /\ main.pc = "modify" => Len(main.block) <= main.target
       /\ main.pc = "store" => Len(point) <= main.target
       /\ SyncEnd => signal \/ point = archive.tip
       /\ main.pc \in {"validate", "switch"} => Drained

\* In the follow loop the archive is at the forest's block, but for the block in
\* progress and a reorganization that is being reconciled.
FollowInv ==
    Following =>
       /\ main.pc \in {"reconcile", "truncate", "poll", "loop", "modify", "store", "join",
                       "validate", "idle"} => Drained
       /\ main.pc \in {"poll", "loop", "join", "validate", "idle"} => point = archive.tip
       /\ main.pc = "reconcile" /\ ~ main.moved => point = archive.tip
       /\ main.pc \in {"modify", "store"} => main.generate
       /\ main.pc = "commit" => archive.tip = point

\* The checkpoint files.
Saved == {f \in {chk.now, chk.stable} : f # NOFILE}
FilesInv ==
    /\ chk \in [now : File \cup {NOFILE}, stable : File \cup {NOFILE}]
    /\ chk.now = NOFILE => chk.stable = NOFILE
    /\ \A f \in Saved : f.synced /\ Clean(f.point) /\ archive.base # NONE /\ scope.fast
    /\ main.pc \in {"save_sync", "save_rename", "save_directory"} => Drained
    /\ main.pc \in {"save_sync", "save_rename"} => temp \in File /\ temp.point = point
    /\ main.pc = "save_rename" => temp.synced

\* As long as Core has not reorganized, all points lie on its chain, and no cut of the
\* archive goes below a checkpoint.
Unforked == spent.reorgs = 0
ChainInv ==
    Unforked =>
       /\ disk # NONE => Active(disk.point)
       /\ Alive => Active(point)
       /\ main.pc = "modify" => Active(main.block)
       /\ prefetch # NONE => \A i \in 1 .. Len(prefetch.queue) : Active(prefetch.queue[i])
CoverInv ==
    Unforked =>
       /\ \A f \in Saved :
            /\ Active(f.point) /\ IsPrefix(f.point, archive.durable)
            /\ disk # NONE => IsPrefix(f.point, disk.point)
            /\ Alive => IsPrefix(f.point, point)
            /\ main.pc \in {"rollback", "mismatch"} => IsPrefix(f.point, main.goal)
            /\ main.pc = "store" => f.point # point
       /\ chk.stable # NOFILE => IsPrefix(chk.stable.point, chk.now.point)

(* The invariant.                                                           *)
BridgeInv ==
    /\ ControlInv /\ FetchInv /\ ForestInv /\ JoinInv /\ ArchiveInv /\ FlawInv /\ TipInv
    /\ SyncInv /\ FollowInv /\ FilesInv /\ ChainInv /\ CoverInv /\ spent.reorgs \in Nat
=============================================================================
