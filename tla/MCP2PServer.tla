------------------------------ MODULE MCP2PServer ------------------------------
(* Instances of P2PServer for TLC. *)
EXTENDS P2PServer, TLC

CONSTANTS lab1, lab2, i1, i2, t1, t2, t3

MCLabel == {lab1, lab2}
\* Of two blocks (MaxBlocks) at most three bytes: two proofs of a lab1 block fit, with
\* that of a lab2 block no other does, and a third block evicts by number.
MCProofBytes == lab1 :> 1 @@ lab2 :> 3

\* Of two transactions (MaxQueued) at most three bytes: t1 and t2 together fill the
\* queue by number, t3 fits only into an empty one.
MCTx == {t1, t2, t3}
MCTxBytes == t1 :> 1 @@ t2 :> 1 @@ t3 :> 3

MCWorkers == {1, 2}
MCAddresses == {i1, i2}

\* One peer asking for proofs or states over two reorganizations, and over three blocks;
\* two peers that ask; two peers and a third connection; a peer and the gossip thread; a
\* peer and the Core connection.
MCScope == {
    [workers |-> {1}, fds |-> {1}, addresses |-> {i1}, requests |-> {"getuproof", "getcfilters"},
     labels |-> {lab1, lab2}, height |-> 2, reorgs |-> 2, connections |-> 1, gossip |-> FALSE, core |-> FALSE],
    [workers |-> {1}, fds |-> {1}, addresses |-> {i1}, requests |-> {"getuproof"},
     labels |-> {lab1}, height |-> 3, reorgs |-> 0, connections |-> 1, gossip |-> FALSE, core |-> FALSE],
    [workers |-> {1, 2}, fds |-> {1, 2}, addresses |-> {i1, i2}, requests |-> {"getuproof"},
     labels |-> {lab1}, height |-> 1, reorgs |-> 0, connections |-> 2, gossip |-> FALSE, core |-> FALSE],
    [workers |-> {1, 2}, fds |-> {1, 2, 3}, addresses |-> {i1, i2}, requests |-> {},
     labels |-> {}, height |-> 0, reorgs |-> 0, connections |-> 4, gossip |-> FALSE, core |-> FALSE],
    [workers |-> {1}, fds |-> {1, 2}, addresses |-> {i1}, requests |-> {"getuproof"},
     labels |-> {lab1}, height |-> 1, reorgs |-> 0, connections |-> 2, gossip |-> TRUE, core |-> FALSE],
    [workers |-> {1}, fds |-> {1, 2}, addresses |-> {i1}, requests |-> {},
     labels |-> {}, height |-> 0, reorgs |-> 0, connections |-> 1, gossip |-> FALSE, core |-> TRUE]}
=============================================================================
