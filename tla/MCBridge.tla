------------------------------- MODULE MCBridge -------------------------------
(* Instances of Bridge for TLC. *)
EXTENDS BridgeInv, TLC

CONSTANTS lab1, lab2

MCLabel == {lab1, lab2}

Archive(p, flaw) == [base |-> <<>>, tip |-> p, durable |-> p, flaw |-> flaw]

Taken(p) ==
    {Archive(p, [point |-> q, kind |-> k]) :
        q \in {<<lab1>>, <<lab1, lab1>>}, k \in {"proof", "state"}}

\* A forest online from the start, with a WAL, whose records stay usable.
Instance ==
    [wal |-> TRUE, fast |-> FALSE, automatic |-> TRUE, compacts |-> FALSE, emptied |-> {},
     undo |-> 2, depth |-> 2, height |-> 3, reorgs |-> 1, crashes |-> 1, signals |-> 0,
     active |-> <<lab1>>, archives |-> {NoArchive}]

\* With a WAL; without; with compactions that spoil its records; with a block that spends
\* a whole tree; a RAM bootstrap, three times; an archive from elsewhere, with and
\* without a WAL.
MCScope == {
    [Instance EXCEPT !.active = <<lab1, lab1>>, !.height = 4],
    [Instance EXCEPT !.wal = FALSE, !.signals = 1],
    [Instance EXCEPT !.compacts = TRUE],
    [Instance EXCEPT !.emptied = {<<lab1>>}, !.active = <<lab1, lab1>>,
                     !.archives = {NoArchive} \cup Taken(<<lab1, lab1>>)],
    [Instance EXCEPT !.fast = TRUE, !.depth = 1, !.crashes = 2, !.signals = 1],
    [Instance EXCEPT !.fast = TRUE, !.undo = 1, !.reorgs = 2, !.crashes = 2],
    [Instance EXCEPT !.fast = TRUE, !.automatic = FALSE, !.undo = 1, !.depth = 1,
                     !.height = 2, !.crashes = 2],
    [Instance EXCEPT !.depth = 1, !.active = <<lab1, lab1>>,
                     !.archives = Taken(<<lab1, lab1>>)],
    [Instance EXCEPT !.depth = 1, !.wal = FALSE, !.active = <<lab1, lab1>>,
                     !.archives = Taken(<<lab1, lab1>>)]}
=============================================================================
