------------------------------- MODULE Forest -------------------------------
(***************************************************************************)
(* The accumulator (PackedForest in src/src/forest.cpp): a linked forest   *)
(* of perfect trees in which a deleted leaf's sibling takes its parent's   *)
(* place, the positions and proofs computed from the links, and the        *)
(* verification of those proofs from the roots alone.                      *)
(*                                                                         *)
(* A leaf is called by its place in the history, <<0, k>>, and a branch by *)
(* the perfect subtree it was made for, <<row, index>>: the arena's choice *)
(* of slots is the subject of NodeArena.  A hash is a term: leaf k's is    *)
(* <<k + 1>>, and a branch's is its children's behind a 0, so that two     *)
(* hashes are equal only when the same leaves were hashed in the same way. *)
(***************************************************************************)
EXTENDS Position

CONSTANTS MaxLeaves,     \* leaves ever added
          MinAdditions,  \* leaves a block adds, at least and at most
          MaxAdditions

\* Up to 2^62 leaves in the code: from there on RootPosition would shift a
\* word by its width.
ASSUME LeavesFit == MaxLeaves <= 2^(Width - 2)

VARIABLES forest,   \* nodes, roots (by row), num_leaves
          live      \* history: the leaves added and not yet deleted

vars == <<forest, live>>

NO_NODE == <<>>
LEAF(k) == <<0, k>>

LeafHash(k) == <<k + 1>>
ParentHash(left, right) == <<0>> \o left \o right

Hash(f, id) == f.nodes[id].hash

Init ==
    /\ forest = [nodes |-> <<>>, roots |-> [row \in 0 .. Width |-> NO_NODE],
                 num_leaves |-> 0]
    /\ live = {}

-----------------------------------------------------------------------------

\* A root of Add's carry is joined with the node on its right; over a deleted
\* tree the node is carried up alone.
Carry(state, row) ==
    LET left == state.f.roots[row]
        branch == <<row + 1, state.f.num_leaves \div 2^(row + 1)>>
        joined == [hash |-> ParentHash(Hash(state.f, left), Hash(state.f, state.node)),
                   parent |-> NO_NODE, left |-> left, right |-> state.node]
    IN  IF left = NO_NODE THEN state
        ELSE [f |-> [state.f EXCEPT !.roots[row] = NO_NODE,
                                    !.nodes = branch :> joined @@
                                        [@ EXCEPT ![left].parent = branch,
                                                  ![state.node].parent = branch]],
              node |-> branch]

\* The trees the loop carries through.
TrailingOnes(leaves) == Min({k \in 0 .. Width : Bit(leaves, k) = 0})

Add(f) ==
    LET leaf == LEAF(f.num_leaves)
        made == [hash |-> LeafHash(f.num_leaves), parent |-> NO_NODE,
                 left |-> NO_NODE, right |-> NO_NODE]
        row == TrailingOnes(f.num_leaves)
        carried == Iterate(LAMBDA state, i : Carry(state, i - 1),
                           [f |-> [f EXCEPT !.nodes = leaf :> made @@ @], node |-> leaf], row)
    IN  [carried.f EXCEPT !.roots[row] = carried.node, !.num_leaves = @ + 1]

Ancestors(f, id) ==
    Iterate(LAMBDA path, i : IF f.nodes[Last(path)].parent = NO_NODE
                             THEN path ELSE Append(path, f.nodes[Last(path)].parent),
            <<id>>, Width)

Rehash(f, id) ==
    [f EXCEPT !.nodes[id].hash = ParentHash(Hash(f, f.nodes[id].left),
                                            Hash(f, f.nodes[id].right))]

\* Only the node itself is hashed again.
RecomputeOne(f, id) == Rehash(f, id)

Recompute(f, id) == FoldLeft(Rehash, f, Ancestors(f, id))

Free(f, ids) == [f EXCEPT !.nodes = [id \in DOMAIN @ \ ids |-> @[id]]]

ReplaceRoot(f, old, new) ==
    [f EXCEPT !.roots = [row \in DOMAIN @ |-> IF @[row] = old THEN new ELSE @[row]]]

DeleteId(f, leaf) ==
    LET parent == f.nodes[leaf].parent
        sibling == IF f.nodes[parent].left = leaf THEN f.nodes[parent].right
                   ELSE f.nodes[parent].left
        above == f.nodes[parent].parent
        lifted == [f EXCEPT !.nodes[sibling].parent = above]
        relinked == IF lifted.nodes[above].left = parent
                    THEN [lifted EXCEPT !.nodes[above].left = sibling]
                    ELSE [lifted EXCEPT !.nodes[above].right = sibling]
    IN  IF parent = NO_NODE THEN Free(ReplaceRoot(f, leaf, NO_NODE), {leaf})
        ELSE IF above = NO_NODE
        THEN Free(ReplaceRoot(lifted, parent, sibling), {leaf, parent})
        ELSE Free(Recompute(relinked, above), {leaf, parent})

-----------------------------------------------------------------------------

\* From the leaf up to its root, and down again from the root's position.
PositionOf(f, leaf) ==
    LET path == Ancestors(f, leaf)
        rows == TreeRows(f.num_leaves)
        row == CHOOSE r \in 0 .. rows : Bit(f.num_leaves, r) = 1 /\ f.roots[r] = Last(path)
        Down(pos, i) == IF f.nodes[path[Len(path) - i + 1]].right = path[Len(path) - i]
                        THEN RightChild(pos, rows) ELSE LeftChild(pos, rows)
    IN  Iterate(Down, RootPosition(f.num_leaves, row, rows), Len(path) - 1)

\* The rows of the trees, the largest first.
TreeRowsOf(leaves) ==
    Reverse(Sorted({r \in 0 .. TreeRows(leaves) : Bit(leaves, r) = 1}))

\* The node at a position, or NO_NODE for the code's errors.
NodeAt(f, pos) ==
    LET offset == DetectOffset(pos, f.num_leaves)
        trees == TreeRowsOf(f.num_leaves)
        root == IF offset.tree_index < Len(trees)
                THEN f.roots[trees[offset.tree_index + 1]] ELSE NO_NODE
        Down(id, i) ==
            IF id = NO_NODE THEN NO_NODE
            ELSE IF Bit(offset.path_bits, offset.branch_length - i) = 0
            THEN f.nodes[id].right ELSE f.nodes[id].left
    IN  Iterate(Down, root, offset.branch_length)

Roots(f) ==
    LET trees == TreeRowsOf(f.num_leaves)
    IN  [i \in DOMAIN trees |->
            IF f.roots[trees[i]] = NO_NODE THEN <<>> ELSE Hash(f, f.roots[trees[i]])]

\* Each deletion is found and its position computed before the first is made.
Modify(f, deletions, additions) ==
    LET at == [leaf \in deletions |-> PositionOf(f, leaf)]
        ordered == Sorted({at[leaf] : leaf \in deletions})
        Delete(g, i) == DeleteId(g, CHOOSE leaf \in deletions : at[leaf] = ordered[i])
    IN  Iterate(LAMBDA g, i : Add(g), Iterate(Delete, f, Len(ordered)), additions)

ModifyBlock ==
    \E deletions \in SUBSET live, additions \in MinAdditions .. MaxAdditions :
        /\ forest.num_leaves + additions <= MaxLeaves
        /\ forest' = Modify(forest, {LEAF(k) : k \in deletions}, additions)
        /\ live' = (live \ deletions)
                      \cup forest.num_leaves .. forest.num_leaves + additions - 1

Next == ModifyBlock

Spec == Init /\ [][Next]_vars

-----------------------------------------------------------------------------

Prove(f, leaves) ==
    LET targets == [i \in DOMAIN leaves |-> PositionOf(f, leaves[i])]
        needed == ProofPositions(targets, f.num_leaves, TreeRows(f.num_leaves))
        HashAt(id) == IF id = NO_NODE THEN <<>> ELSE Hash(f, id)
    IN  [targets |-> targets,
         hashes |-> [i \in DOMAIN needed |-> HashAt(NodeAt(f, needed[i]))]]

\* The two queues of VerifyProof: the node of the smaller position is next.
FromComputed(v) ==
    v.computed # <<>>
        /\ (v.provided # <<>> => Head(v.computed).pos < Head(v.provided).pos)

Exhausted(v) == v.computed = <<>> /\ v.provided = <<>>

Foremost(v) == IF FromComputed(v) THEN Head(v.computed) ELSE Head(v.provided)

Pop(v) ==
    IF FromComputed(v) THEN [v EXCEPT !.computed = Tail(@)]
    ELSE [v EXCEPT !.provided = Tail(@)]

\* One turn of the loop: a root is compared, a left node joined with its right
\* sibling.  It leaves one node less.
HashUp(v, expected, leaves) ==
    LET rows == TreeRows(leaves)
        node == Foremost(v)
        rest == Pop(v)
        joined == [pos |-> Parent(node.pos, rows),
                   hash |-> ParentHash(node.hash, Foremost(rest).hash)]
    IN  IF v.result # "unknown" THEN v
        ELSE IF Exhausted(v) THEN [v EXCEPT !.result = "true"]
        ELSE IF IsRootPosition(node.pos, leaves, rows)
        THEN IF expected[node.pos] = node.hash THEN rest
             ELSE [v EXCEPT !.result = "false"]
        ELSE IF node.pos % 2 = 1 \/ Exhausted(rest) \/ Foremost(rest).pos # node.pos + 1
        THEN [v EXCEPT !.result = "error"]
        ELSE [Pop(rest) EXCEPT !.computed = Append(@, joined)]

ExpectedRoots(roots, leaves) ==
    LET trees == TreeRowsOf(leaves)
        rows == TreeRows(leaves)
        index(pos) == CHOOSE i \in DOMAIN trees : RootPosition(leaves, trees[i], rows) = pos
    IN  [pos \in {RootPosition(leaves, trees[i], rows) : i \in DOMAIN trees} |->
            roots[index(pos)]]

\* "true", "false" or "error".
VerifyProof(proof, hashes, roots, leaves) ==
    LET needed == ProofPositions(proof.targets, leaves, TreeRows(leaves))
        nodes == {[pos |-> proof.targets[i], hash |-> hashes[i]] : i \in DOMAIN hashes}
                    \cup {[pos |-> needed[i], hash |-> proof.hashes[i]] : i \in DOMAIN needed}
        ordered == Sorted({n.pos : n \in nodes})
        provided == [i \in DOMAIN ordered |-> CHOOSE n \in nodes : n.pos = ordered[i]]
        distinct == Len(ordered) = Len(proof.targets) + Len(needed)
        expected == ExpectedRoots(roots, leaves)
        start == [provided |-> provided, computed |-> <<>>, result |-> "unknown"]
    IN  IF hashes = <<>> THEN "true"
        ELSE IF Len(needed) # Len(proof.hashes) \/ ~distinct THEN "error"
        ELSE Iterate(LAMBDA v, i : HashUp(v, expected, leaves), start,
                     Len(provided) + 1).result

\* The proof of a block's deletions in SequentialSync, before they are made.
BlockProof(f, leaves) ==
    IF <<>> \in ToSet(Roots(f)) THEN "missing root"
    ELSE VerifyProof(Prove(f, leaves), [i \in DOMAIN leaves |-> Hash(f, leaves[i])],
                     Roots(f), f.num_leaves)

-----------------------------------------------------------------------------

(***************************************************************************)
(* The reference: a perfect tree over the history, an empty half of which  *)
(* leaves the other half in its parent's place.                            *)
(***************************************************************************)
Below(row, index) == index * 2^row .. (index + 1) * 2^row - 1

Collapsed(leaves) ==
    LET hash[row \in 0 .. Width, index \in 0 .. 2^Width] ==
            IF row = 0 THEN IF index \in leaves THEN LeafHash(index) ELSE <<>>
            ELSE LET left == hash[row - 1, 2 * index]
                     right == hash[row - 1, 2 * index + 1]
                 IN  IF left = <<>> THEN right
                     ELSE IF right = <<>> THEN left ELSE ParentHash(left, right)
    IN  hash

\* The first leaf of each tree is the number of leaves in the trees before it.
RootsOf(count, leaves) ==
    LET trees == TreeRowsOf(count)
        hash == Collapsed(leaves)
    IN  [i \in DOMAIN trees |-> hash[trees[i], (count \div 2^(trees[i] + 1)) * 2]]

\* The row of the tree that holds leaf k.
TreeOf(k, count) ==
    CHOOSE r \in 0 .. Width : Bit(count, r) = 1 /\ k \div 2^(r + 1) = count \div 2^(r + 1)
                                 /\ k \div 2^r # count \div 2^r

\* A step down is taken only where the other half is not empty.
PlaceOf(k, count, leaves, rows) ==
    LET top == TreeOf(k, count)
        Step(place, i) ==
            LET level == top - i IN
            IF Below(level, Sibling(k \div 2^level)) \cap leaves = {} THEN place
            ELSE [row |-> place.row - 1, index |-> 2 * place.index + Bit(k, level)]
        place == Iterate(Step, [row |-> top, index |-> k \div 2^top], top)
    IN  2^(rows + 1) - 2^(rows + 1 - place.row) + place.index

-----------------------------------------------------------------------------

Rows == TreeRows(forest.num_leaves)

\* A set of leaves as the inputs of a block or a transaction: their order is
\* not that of their positions.
Inputs(leaves) ==
    LET order == Reverse(Sorted(leaves)) IN [i \in DOMAIN order |-> LEAF(order[i])]

\* After any blocks, within LeavesFit and in whatever order their deletions
\* promoted siblings (DeleteId) and their additions carried over deleted trees
\* (Add), the roots are those of the history with empty halves collapsed, and
\* each leaf is at its place: PositionOf goes up the links to it and NodeAt
\* comes down to it.
ForestOfHistory ==
    /\ Roots(forest) = RootsOf(forest.num_leaves, live)
    /\ \A k \in live :
        LET pos == PositionOf(forest, LEAF(k))
        IN  pos = PlaceOf(k, forest.num_leaves, live, Rows) /\ NodeAt(forest, pos) = LEAF(k)

\* Where no tree is empty, the proof of any leaves together (Prove) verifies
\* against the roots (VerifyProof), and does not once any one of its target
\* or proof hashes is another, in any forest up to LeavesFit.
ProofsVerify ==
    LET roots == Roots(forest)
        other == LeafHash(MaxLeaves)
        Verify(p, h) == VerifyProof(p, h, roots, forest.num_leaves)
        Sound(p, h) ==
            /\ Verify(p, h) = "true"
            /\ \A i \in DOMAIN h : Verify(p, [h EXCEPT ![i] = other]) = "false"
            /\ \A i \in DOMAIN p.hashes :
                Verify([p EXCEPT !.hashes[i] = other], h) = "false"
    IN  <<>> \notin ToSet(roots) =>
        \A leaves \in SUBSET live \ {{}} :
            LET inputs == Inputs(leaves)
            IN  \A proof \in {Prove(forest, inputs)} :
                    Sound(proof, [i \in DOMAIN inputs |-> Hash(forest, inputs[i])])

\* The second derivation of the proof positions (NativeProofPositions) accepts
\* every proof and names the nodes of its hashes in their order, so that
\* lower_bound on the wire positions (Measure, Serialize) finds the hash that
\* belongs to a requested node; and a wire position is the node's place in a
\* forest of the full height, of whatever height up to one row less the
\* forest is (position.cpp:42 shifts by 64 in a forest of the full height).
WireMatches ==
    \A leaves \in SUBSET live \ {{}} :
        LET inputs == Inputs(leaves)
            targets == [i \in DOMAIN inputs |-> PositionOf(forest, inputs[i])]
            needed == NativeProofPositions(targets, forest.num_leaves, Rows)
            wire == [i \in DOMAIN needed |-> WirePosition(needed[i], Rows)]
        IN  /\ Accepts(targets, forest.num_leaves, Rows)
            /\ needed = ProofPositions(targets, forest.num_leaves, Rows)
            /\ \A i \in DOMAIN wire \ {1} : wire[i - 1] < wire[i]
            /\ \A i \in DOMAIN inputs :
                WirePosition(targets[i], Rows)
                    = PlaceOf(inputs[i][2], forest.num_leaves, live, Width - 1)

\* "Generate and verify deletion proofs against each block's pre-mutation
\* forest" (sync.h): the deletions of the next block can be proved, whatever
\* blocks came before it.
EachBlockProved ==
    \A leaves \in SUBSET live : BlockProof(forest, Inputs(leaves)) = "true"

=============================================================================
