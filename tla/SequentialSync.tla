----------------------------- MODULE SequentialSync -----------------------------
(***************************************************************************)
(* SequentialSync (src/sync.cpp) and the Bitcoin Core it reads from.  A     *)
(* chain point is the sequence of block labels above a root block that Core *)
(* never reorganizes (the genesis block or the trusted checkpoint): a block *)
(* hash commits to its ancestors, so the parent is the sequence without its *)
(* last label and the height is its length.  One background thread fetches  *)
(* blocks ahead into a queue of two; the main thread takes them in order.   *)
(***************************************************************************)
EXTENDS Lists, FiniteSetsExt

CONSTANTS
    Label,          \* labels of blocks: two blocks of one height differ by label
    NONE            \* an absent optional

VARIABLES
    active,         \* Core's active chain
    prefetch        \* m_prefetch: NONE or the shared state of the thread

syncVars == <<active, prefetch>>

CommonPrefix(p, q) ==
    LET agree == {h \in 0..Min({Len(p), Len(q)}) : Prefix(p, h) = Prefix(q, h)}
    IN  Prefix(p, Max(agree))

\* BlockHash(height) answers with the point's hash.
Active(p) == IsPrefix(p, active)

-----------------------------------------------------------------------------
(* Bitcoin Core.  Its tip moves on, or to a branch one block longer; the tip   *)
(* height never decreases.                                                     *)

CoreExtend(maxHeight) ==
    /\ Len(active) < maxHeight
    /\ \E l \in Label : active' = Append(active, l)

CoreReorganize(maxHeight, depth) ==
    /\ Len(active) < maxHeight
    /\ \E k \in 1..Min({depth, Len(active)}), l \in Label :
          LET fork == Len(active) - k
          IN  /\ active[fork + 1] # l
              /\ active' = Prefix(active, fork) \o [i \in 1..(k + 1) |-> l]

-----------------------------------------------------------------------------
(* The prefetch thread.                                                        *)

\* StartPrefetch: nothing is started when the chain is already beyond the target.
StartPrefetch(point, targetHeight) ==
    prefetch' = IF Len(point) > targetHeight THEN NONE
                ELSE [height |-> Len(point) + 1, target |-> targetHeight,
                      queue |-> <<>>, stop |-> FALSE, done |-> FALSE]

\* One round of the thread's loop.  getblock returns a block that has been
\* reorganized away since getblockhash named it, so what matters is the active
\* chain at the time of getblockhash.
PrefetchBlock ==
    /\ prefetch # NONE
    /\ ~prefetch.done /\ ~prefetch.stop
    /\ prefetch.height <= prefetch.target
    /\ Len(prefetch.queue) < 2
    /\ prefetch' = [prefetch EXCEPT !.height = @ + 1,
                                    !.queue = Append(@, Prefix(active, prefetch.height))]
    /\ UNCHANGED active


\* The loop ends at the target, or when it finds the stop flag.
PrefetchDone ==
    /\ prefetch # NONE
    /\ ~prefetch.done
    /\ prefetch.stop \/ prefetch.height > prefetch.target
    /\ prefetch' = [prefetch EXCEPT !.done = TRUE]
    /\ UNCHANGED active

\* StopPrefetch up to the join, and the join.
RequestStop ==
    prefetch' = IF prefetch = NONE THEN NONE ELSE [prefetch EXCEPT !.stop = TRUE]

Joined ==
    /\ prefetch # NONE => prefetch.done
    /\ prefetch' = NONE

\* NextFetchedBlock takes the head of the queue, or finds that there will be none.
NextFetchedBlock ==
    /\ prefetch.queue # <<>>
    /\ prefetch' = [prefetch EXCEPT !.queue = Tail(@)]

PrefetchEnded == prefetch.queue = <<>> /\ prefetch.done

AnyParent(point, b) == Len(b) = Len(point) + 1

\* ProcessNext accepts b: the requested height, and the parent is the tip of
\* m_chain_hashes.
Connects(point, b) == Len(b) = Len(point) + 1 /\ Front(b) = point

=============================================================================
