----------------------------- MODULE MCProofStore -----------------------------
(* ProofStore for TLC: two labels, so that a truncated height can be filled *)
(* by another branch; the proof of a block labelled b is the larger one.    *)
EXTENDS ProofStoreInv, TLC

CONSTANTS a, b, s1, s2

MCLabel == {a, b}
MCOneSerializer == {s1}
MCTwoSerializers == {s1, s2}
MCAccountedBytes == a :> 1 @@ b :> 4
MCSymmetry == Permutations({s1, s2})
=============================================================================
