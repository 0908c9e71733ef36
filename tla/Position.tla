------------------------------ MODULE Position ------------------------------
(***************************************************************************)
(* The arithmetic of node positions (src/src/position.cpp, and its second  *)
(* implementation for the wire in src/src/transaction_wire.cpp).           *)
(*                                                                         *)
(* A forest of `rows` rows numbers its nodes row by row from the leaves    *)
(* up.  A position is a word of Width bits (64 in the code).  A mask of    *)
(* low bits is written as a remainder; the operands of every `|` have no   *)
(* bit in common, so that it is a sum.                                     *)
(***************************************************************************)
EXTENDS Integers, FiniteSetsExt, SequencesExt

CONSTANT Width

ASSUME WidthAssumption == Width \in Nat \ {0}

Word(x) == x % 2^Width

Low(x, bits) == x % 2^bits

Bit(x, k) == (x \div 2^k) % 2

\* The bit width of leaves - 1.
TreeRows(leaves) ==
    CHOOSE r \in 0 .. Width : leaves <= 2^r /\ (r > 0 => leaves > 2^(r - 1))

\* The ones from bit `rows` down.
DetectRow(pos, rows) ==
    CHOOSE r \in 0 .. rows + 1 :
        /\ r = rows + 1 \/ Bit(pos, rows - r) = 0
        /\ \A j \in 0 .. r - 1 : Bit(pos, rows - j) = 1

LeftChild(pos, rows) == Low(Word(2 * pos), rows + 1)

RightChild(pos, rows) == LeftChild(pos, rows) + 1

Parent(pos, rows) == pos \div 2 + 2^rows

\* Both masks are shifted by at most rows + 1, which has to be less than Width:
\* at rows = Width - 1 the code's shifts by 64 are undefined, and no forest of
\* the models has that many rows.
RootPosition(leaves, row, rows) ==
    LET mask == Word(Word(2 * 2^rows) - 1)
        before == leaves - Low(leaves, row + 1)
    IN  Low(before \div 2^row + Word(mask * 2^(rows + 1 - row)), rows + 1)

IsRootPosition(pos, leaves, rows) ==
    LET row == DetectRow(pos, rows)
    IN  Bit(leaves, row) = 1 /\ RootPosition(leaves, row, rows) = pos

\* A loop of `count` turns: Turn(state, i) is turn i.  (It is applied to the
\* member of a singleton so that TLC evaluates one turn at a time.)
Iterate(Turn(_, _), start, count) ==
    LET after[i \in 0 .. count] ==
            IF i = 0 THEN start
            ELSE CHOOSE next \in {Turn(state, i) : state \in {after[i - 1]}} : TRUE
    IN  after[count]

\* A set of positions in order (SetToSortSeq tries every arrangement of it).
Sorted(S) ==
    LET rank == [x \in S |-> Cardinality({y \in S : y <= x})]
    IN  [i \in 1 .. Cardinality(S) |-> CHOOSE x \in S : rank[x] = i]

Sibling(pos) == IF pos % 2 = 0 THEN pos + 1 ELSE pos - 1

-----------------------------------------------------------------------------

TreeSize(leaves, row) == Bit(leaves, row) * 2^row

\* The boundary leaf counted to the tree on its left.
PassesLeft(offset, size) == offset > size

\* Whether the descent goes past a tree: a tree that is not there has size 0.
Passes(offset, size) == offset >= size

\* Which tree a position is in, how far below its root, and the path to it.
\* `walk` is the loop when it has come down to a row: the marker, less the
\* trees passed, and their number.
DetectOffset(pos, leaves) ==
    LET rows == TreeRows(leaves)
        node_row == DetectRow(pos, rows)
        walk[t \in node_row .. rows] ==
            IF t = rows THEN [marker |-> pos, passed |-> 0]
            ELSE [marker |-> Word(walk[t + 1].marker - TreeSize(leaves, t + 1)),
                  passed |-> walk[t + 1].passed + Bit(leaves, t + 1)]
        stop == Max({t \in node_row .. rows :
                        \/ t = node_row
                        \/ ~Passes(Low(Word(walk[t].marker * 2^node_row), t + 1),
                                   TreeSize(leaves, t))})
    IN  [tree_index |-> walk[stop].passed, branch_length |-> stop - node_row,
         path_bits |-> 2^Width - 1 - walk[stop].marker]

\* One position of ProofPositions' work list.
Visit(state, i, leaves, rows) ==
    IF i > Len(state.computed) \/ IsRootPosition(state.computed[i], leaves, rows)
    THEN state
    ELSE LET pos == state.computed[i]
             parent == Parent(pos, rows)
             known == ToSet(state.computed)
         IN  [computed |-> IF parent \in known THEN state.computed
                           ELSE Append(state.computed, parent),
              proof |-> IF Sibling(pos) \in known THEN state.proof \ {pos}
                        ELSE state.proof \cup {Sibling(pos)}]

\* Each target has at most one new ancestor per row, and all are nodes.
ProofPositions(targets, leaves, rows) ==
    Sorted(Iterate(LAMBDA state, i : Visit(state, i, leaves, rows),
                   [computed |-> targets, proof |-> {}],
                   Min({Len(targets) * (rows + 1), 2 * leaves})).proof)

-----------------------------------------------------------------------------

(***************************************************************************)
(* The wire: positions of a forest of Width - 1 rows, whatever its size.   *)
(***************************************************************************)
RowStart(row, rows) ==
    LET mask == 2^(rows + 1) - 1 IN mask - mask \div 2^row

Row(pos, rows) ==
    Max({k \in 0 .. rows + 1 : \A j \in 0 .. k - 1 : Bit(pos, rows - j) = 1})

WirePosition(pos, rows) ==
    LET row == Row(pos, rows)
    IN  RowStart(row, Width - 1) + (pos - RowStart(row, rows))

\* The leaves below a position.
Interval(pos, rows) ==
    LET row == Row(pos, rows)
        start == (pos - RowStart(row, rows)) * 2^row
    IN  start .. start + 2^row - 1

\* Every target is a node of the populated forest, and none is below another.
Accepts(targets, leaves, rows) ==
    /\ \A i \in DOMAIN targets :
        /\ targets[i] < 2^(rows + 1) - 1
        /\ targets[i] - RowStart(Row(targets[i], rows), rows)
              < leaves \div 2^Row(targets[i], rows)
    /\ \A i, j \in DOMAIN targets :
        i # j => Interval(targets[i], rows) \cap Interval(targets[j], rows) = {}

\* The last node of a row, whatever its length.
IsRowEnd(pos, row, leaves, rows) == pos - RowStart(row, rows) = leaves \div 2^row - 1

\* The last node of a row of odd length.
IsLastOfRow(pos, row, leaves, rows) ==
    LET on_row == leaves \div 2^row
    IN  on_row % 2 = 1 /\ pos - RowStart(row, rows) = on_row - 1

\* One row: the nodes that are not roots are paired with their siblings, and
\* replaced by their parents.
MergeRow(state, row, leaves, rows) ==
    LET here == {p \in state.pending : Row(p, rows) = row}
        inner == {p \in here : ~IsLastOfRow(p, row, leaves, rows)}
        single == {p \in inner : Sibling(p) \notin state.pending}
    IN  [pending |-> (state.pending \ here) \cup {Parent(p, rows) : p \in inner},
         needed |-> state.needed \o Sorted({Sibling(p) : p \in single})]

NativeProofPositions(targets, leaves, rows) ==
    Iterate(LAMBDA state, i : MergeRow(state, i - 1, leaves, rows),
            [pending |-> ToSet(targets), needed |-> <<>>], rows + 1).needed

=============================================================================
