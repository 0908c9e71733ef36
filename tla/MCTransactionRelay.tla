-------------------------- MODULE MCTransactionRelay --------------------------
(* TransactionRelay for TLC: the second transaction is the larger one.      *)
EXTENDS TransactionRelayInv, TLC

CONSTANTS t1, t2

MCTxid == {t1, t2}
MCEntryBytes == t1 :> 1 @@ t2 :> 2
\* Nothing tells two peers or two tips apart.
MCSymmetry == Permutations(Waiter) \cup Permutations(Tip)
=============================================================================
