----------------------------- MODULE NodeArena -----------------------------
(***************************************************************************)
(* The node arena of a mapped forest (src/src/forest.cpp, NodeArena): a    *)
(* read-only base, immutable delta runs over it, and the overlay of dirty  *)
(* nodes over both.  A block frees the nodes of the leaves it spends and   *)
(* allocates nodes for the leaves it adds; its transaction keeps the       *)
(* images of every node it touches, before and after.                      *)
(*                                                                         *)
(* A node is a leaf or free.  Branches are allocated, freed, logged and    *)
(* sealed exactly as leaves are, so they are left out, and with them the   *)
(* roots and the leaf count, which the chain determines.                   *)
(***************************************************************************)
EXTENDS Integers, FiniteSets, SequencesExt

CONSTANTS
    BaseChain,   \* the chain point of the imported base: a sequence of labels
    BaseNodes    \* its nodes: a function from 0 .. (next - 1) to records

Leaf(hash) == [type |-> "LEAF", hash |-> hash]

\* Free keeps the hash of the node it frees.
Free(record) == [record EXCEPT !.type = "FREE"]

\* A record that was never written: the zero hash.
EmptyRecord == [type |-> "FREE", hash |-> <<>>]

BaseNext == Cardinality(DOMAIN BaseNodes)

ReadPhysicalBase(id) == IF id < BaseNext THEN BaseNodes[id] ELSE EmptyRecord

\* The runs that hold a record of the node.
Holding(runs, id) == {i \in DOMAIN runs : id \in DOMAIN runs[i].records}

\* The oldest run instead of the newest.
FindOldest(runs, id) == runs[Min(Holding(runs, id))].records[id]

\* The newest run wins.
FindDeltaRecord(runs, id) == runs[Max(Holding(runs, id))].records[id]

\* The record of a node: the overlay, else the newest run, else the base.  The
\* lookup does not ask whether the node is below m_next.
Read(arena, id) ==
    IF id \in DOMAIN arena.dirty THEN arena.dirty[id]
    ELSE IF Holding(arena.runs, id) # {} THEN FindDeltaRecord(arena.runs, id)
    ELSE ReadPhysicalBase(id)

Visible(arena) == 0 .. arena.next - 1

IsLive(record) == record.type # "FREE"

LiveNodes(arena) == {id \in Visible(arena) : IsLive(Read(arena, id))}

\* What a scan of the arena finds: the bookkeeping RebuildIndexAndValidate loads.
FreeNodes(arena) == Visible(arena) \ LiveNodes(arena)

\* ForEachLatestDeltaRecordFrom: the newest record of every visible node that
\* some run from `first` on holds.
LatestDelta(arena, first) ==
    LET runs == SubSeq(arena.runs, first, Len(arena.runs))
    IN  [id \in {n \in Visible(arena) : Holding(runs, n) # {}} |->
            FindDeltaRecord(runs, id)]

\* EqualsPhysicalBase: two free records are equal whatever their hashes.
EqualsPhysicalBase(id, record) ==
    LET base == ReadPhysicalBase(id)
    IN  (~IsLive(record) /\ ~IsLive(base)) \/ record = base

\* The records of a compacted snapshot: the newest ones the base does not hold.
Compacted(arena) ==
    LET latest == LatestDelta(arena, 1)
    IN  Restrict(latest,
                 {id \in DOMAIN latest : ~EqualsPhysicalBase(id, latest[id])})

\* The records of a sealed run: SortedVisibleDirtyIds, so a dirty node at or
\* above m_next is dropped.
Sealed(arena) == Restrict(arena.dirty, DOMAIN arena.dirty \cap Visible(arena))

DeltaRecords(runs) ==
    FoldLeft(LAMBDA n, run : n + Cardinality(DOMAIN run.records), 0, runs)

ObsoleteRecords(arena) ==
    DeltaRecords(arena.runs) - Cardinality(DOMAIN LatestDelta(arena, 1))

-----------------------------------------------------------------------------

(***************************************************************************)
(* Blocks.  A block spends the newest leaf, adds one, or does both; which, *)
(* its label says.  Leaves is the reference: the leaves of a chain, oldest *)
(* first, each named after the block that added it.                        *)
(***************************************************************************)
Spends(label) == label \in {"spend", "swap"}

Adds(label) == label # "spend"

BaseLeaves == SetToSeq({BaseNodes[id].hash : id \in {n \in DOMAIN BaseNodes :
                                                      IsLive(BaseNodes[n])}})

Leaves(chain) ==
    LET after[h \in Len(BaseChain) .. Len(chain)] ==
            IF h = Len(BaseChain) THEN BaseLeaves
            ELSE LET label == chain[h]
                     kept == IF Spends(label) /\ after[h - 1] # <<>>
                             THEN Front(after[h - 1]) ELSE after[h - 1]
                 IN  IF Adds(label) THEN Append(kept, SubSeq(chain, 1, h))
                     ELSE kept
    IN  after[Len(chain)]

NodesOf(arena, hash) ==
    {id \in LiveNodes(arena) : Read(arena, id).hash = hash}

\* The nodes a block frees: that of the newest leaf.
Deleted(arena, chain, label) ==
    IF Spends(label) /\ Leaves(chain) # <<>>
    THEN NodesOf(arena, Last(Leaves(chain))) ELSE {}

\* Allocate: a node of the free stack (any: its order is abstracted), else the
\* next one.  The deletions of the block come first.
Allocatable(arena, freed) ==
    IF arena.free \cup freed # {} THEN arena.free \cup freed ELSE {arena.next}

\* The after-images of the block that ends `chain`, when it frees `freed` and
\* allocates `added`.
AfterImages(arena, chain, freed, added) ==
    [id \in freed \cup added |->
        IF id \in added THEN Leaf(chain) ELSE Free(Read(arena, id))]

\* TransactionChanges: both images of every touched node.
Changes(arena, after) ==
    [id \in DOMAIN after |-> [before |-> Read(arena, id), after |-> after[id]]]

Images(changes, side) == [id \in DOMAIN changes |-> changes[id][side]]

\* The arena after Modify.
Modified(arena, after, freed, added) ==
    LET next == Max({arena.next} \cup {id + 1 : id \in added})
    IN  [arena EXCEPT !.dirty = after @@ @,
                      !.next = next,
                      !.live = @ + Cardinality(added) - Cardinality(freed),
                      !.free = (@ \cup freed) \ added]

\* ApplyPhysicalChanges asks that every touched node still is as the block
\* left it: the whole record, the hash of a free node included.
ChangesApply(arena, changes) ==
    \A id \in DOMAIN changes : Read(arena, id) = changes[id].after

\* ApplyRuntime for every change, then SetRuntimeNext.  The live count moves
\* with the difference between the two records.
Undone(arena, changes, next) ==
    LET freed == {id \in DOMAIN changes :
                    IsLive(changes[id].after) /\ ~IsLive(changes[id].before)}
        revived == {id \in DOMAIN changes :
                      ~IsLive(changes[id].after) /\ IsLive(changes[id].before)}
    IN  [arena EXCEPT !.dirty = Images(changes, "before") @@ @,
                      !.next = next,
                      !.live = @ + Cardinality(revived) - Cardinality(freed),
                      !.free = {id \in (@ \cup freed) \ revived : id < next}]

=============================================================================
