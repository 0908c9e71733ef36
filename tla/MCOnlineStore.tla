--------------------------- MODULE MCOnlineStore ---------------------------
(***************************************************************************)
(* Instances of the online store: a base of one leaf at the genesis point. *)
(***************************************************************************)
EXTENDS OnlineStore

MCBaseChain == <<"genesis">>

MCBaseNodes == 0 :> Leaf(MCBaseChain)

Instance ==
    [labels |-> {"add", "spend"}, wal |-> {TRUE}, crashes |-> {},
     undoDepth |-> 1, segmentRecords |-> 2, minRuns |-> 2, maxRuns |-> 3,
     garbagePercent |-> 50, maxLsn |-> 3, maxCrashes |-> 1]

MCScope ==
    {[Instance EXCEPT !.crashes = {"kill", "power"}, !.maxCrashes = 2],
     [Instance EXCEPT !.crashes = {"kill", "power"}, !.maxLsn = 4],
     [Instance EXCEPT !.crashes = {"power"}, !.wal = {TRUE, FALSE}],
     [Instance EXCEPT !.crashes = {"power"}, !.wal = {FALSE}, !.maxLsn = 4],
     [Instance EXCEPT !.crashes = {"power"}, !.labels = {"spend", "swap"},
                      !.maxLsn = 4, !.segmentRecords = 3]}

\* No crash at all: undoing what was compacted.
UndoScope == {[Instance EXCEPT !.maxCrashes = 0]}

=============================================================================
