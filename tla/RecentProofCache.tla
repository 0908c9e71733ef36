--------------------------- MODULE RecentProofCache ---------------------------
(***************************************************************************)
(* RecentProofCache (src/p2p.cpp): the proofs of the latest blocks, by     *)
(* block hash, and the threads that wait for a block to appear.  Each      *)
(* operation is a critical section under `mutex` with the notify after it. *)
(*                                                                         *)
(* A chain point is the sequence of labels of its blocks from the base (a  *)
(* block hash commits to all ancestors).  An entry is the point it is for: *)
(* Publish stores the pre-block leaf count with it.                        *)
(***************************************************************************)
EXTENDS Lists, FiniteSets, Functions

CONSTANTS
    Label,          \* what tells two blocks with one parent apart
    ProofBytes,     \* [Label -> Nat]: the accounted size of a block's proof
    MaxBlocks,      \* max_blocks
    MaxCacheBytes   \* max_bytes

ASSUME CacheLimits ==
    /\ MaxBlocks \in Nat \ {0} /\ MaxCacheBytes \in Nat \ {0}
    /\ ProofBytes \in [Label -> Nat]

VARIABLES order, entries, bytes, tip_height, waiting

proofs == <<order, entries, bytes, tip_height>>

Block == Seq(Label) \ {<<>>}
Height(b) == Len(b)
Bytes == [b \in Block |-> ProofBytes[b[Len(b)]]]

CacheInit == order = <<>> /\ entries = {} /\ bytes = 0 /\ tip_height = 0 /\ waiting = {}

\* A block that is published again moves to the end and is counted once.
Requeued(b) == Append(Kept(order, Range(order) \ {b}), b)
Recounted(b) == (IF b \in entries THEN bytes - Bytes[b] ELSE bytes) + Bytes[b]

\* What the eviction loop has when it has popped the k oldest, and when it stops.
Popped(ord, es, total, k) ==
    [order |-> SubSeq(ord, k + 1, Len(ord)), entries |-> es \ Range(SubSeq(ord, 1, k)),
     bytes |-> total - Weight(SubSeq(ord, 1, k), Bytes)]
Fits(c) == c.order = <<>> \/ (Cardinality(c.entries) <= MaxBlocks /\ c.bytes <= MaxCacheBytes)

\* Oldest first, until both limits hold.
Trim(ord, es, total) ==
    \E k \in 0 .. Len(ord) :
        LET left == Popped(ord, es, total, k) IN
        /\ Fits(left) /\ \A j \in 0 .. k - 1 : ~ Fits(Popped(ord, es, total, j))
        /\ order' = left.order /\ entries' = left.entries /\ bytes' = left.bytes

Publish(b) ==
    /\ IF Bytes[b] > MaxCacheBytes THEN UNCHANGED <<order, entries, bytes>>
       ELSE Trim(Requeued(b), entries \cup {b}, Recounted(b))
    /\ tip_height' = Height(b)
    /\ waiting' = {}

\* Those of the list that are among `late` are erased, each with its bytes.
Erase(late) ==
    /\ entries' = entries \ late
    /\ order' = Kept(order, Range(order) \ late)
    /\ bytes' = bytes - Weight(Kept(order, late), Bytes)

DiscardOne(height) ==
    /\ Erase({b \in entries : Height(b) = height + 1})
    /\ tip_height' = height
    /\ UNCHANGED waiting

DiscardAfter(height) ==
    /\ Erase({b \in entries : Height(b) > height})
    /\ tip_height' = height
    /\ UNCHANGED waiting

NotifyWaiters == waiting' = {} /\ UNCHANGED proofs
=============================================================================
