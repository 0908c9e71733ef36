--------------------------------- MODULE Lists ---------------------------------
(***************************************************************************)
(* The lists and queues of the program, written without the RECURSIVE      *)
(* operators and the higher-order folds of SequencesExt, so that the       *)
(* proofs can use the definitions.                                         *)
(***************************************************************************)
EXTENDS Integers, Sequences

\* A chain of blocks: a block's parent, the chain up to a height, and being an ancestor
\* (Front and IsPrefix are those of SequencesExt).
Front(p) == SubSeq(p, 1, Len(p) - 1)
Prefix(p, h) == SubSeq(p, 1, h)
IsPrefix(p, q) == Len(p) <= Len(q) /\ SubSeq(p, 1, Len(p)) = SubSeq(q, 1, Len(p))

\* What is left of a list when the elements outside S are erased.
Kept(s, S) ==
    LET keep[n \in 0 .. Len(s)] == IF n = 0 THEN <<>>
                                  ELSE IF s[n] \in S THEN Append(keep[n - 1], s[n])
                                  ELSE keep[n - 1]
    IN keep[Len(s)]

\* The sum of W over a list: what its elements weigh in a byte count.
Weight(s, W) ==
    LET sum[n \in 0 .. Len(s)] == IF n = 0 THEN 0 ELSE sum[n - 1] + W[s[n]]
    IN sum[Len(s)]
=============================================================================
