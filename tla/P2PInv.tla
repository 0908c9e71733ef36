-------------------------------- MODULE P2PInv --------------------------------
(***************************************************************************)
(* Inductive invariants of P2PServer, one per group of variables: the      *)
(* client threads with the descriptors and the counters of the server, the *)
(* cache of recent proofs, and the queue of transactions from Core.        *)
(***************************************************************************)
EXTENDS P2PServer

\* The fields of a client thread, of the acceptor, of the gossip thread and of the
\* thread of the Core connection.
Client == {"pc", "fd", "ip", "hand", "slot", "block", "proof", "start", "hashes", "states"}
Guard == {"pc", "fd", "ip"}
Outbound == {"pc", "fd"}
Inbound == {"pc", "fd", "ready", "pending"}
Fields(r, names) == DOMAIN r = names /\ r = [f \in names |-> r[f]]

\* Where a client thread is: serving its connection, with a proof-work slot or
\* without, or removing itself.
Working == {"hashes", "states", "send_states", "read", "again", "pair", "send"}
Serving == {"loop", "receive", "find", "wait", "remove"} \cup Working
Leaving == {"close", "uncount", "done", "ended"}

\* The proof of a thread that looks for the parent's state, and of one about to send.
Answers(r) ==
    /\ r.pc = "pair" => r.proof = ProofOf(r.block, NONE)
    /\ r.pc = "send" => r.proof = ProofOf(r.block, NONE) \/ r.proof = ProofOf(r.block, Parent(r.block))

WorkerType ==
    /\ worker = [w \in Worker |-> worker[w]]
    /\ \A w \in Worker :
        /\ Fields(worker[w], Client)
        /\ worker[w].pc \in {"none"} \cup Serving \cup Leaving
        /\ worker[w].slot \in BOOLEAN /\ (worker[w].slot <=> worker[w].pc \in Working)
        /\ worker[w].pc # "none" => worker[w].ip \in Address
        /\ Answers(worker[w])
    /\ waiting \subseteq {w \in Worker : worker[w].pc = "wait"}
    /\ client_workers = {w \in Worker : worker[w].pc # "none"}

\* Which threads have a descriptor, are in the table, and are counted.
HoldsFd(r) == r.pc \in Serving \cup {"close"}
InTable(r) == r.pc \in Serving
IsCounted(r) == r.pc \in Serving \cup {"close", "uncount"}
Holders == {w \in Worker : HoldsFd(worker[w])}
Tabled == {w \in Worker : InTable(worker[w])}
TabledAt(i) == {w \in Worker : InTable(worker[w]) /\ worker[w].ip = i}
Counted == {w \in Worker : IsCounted(worker[w])}
Slotted == {w \in Worker : worker[w].slot}

CountInv ==
    /\ active_peers_by_ip \in [Address -> Nat]
    /\ \A i \in Address : active_peers_by_ip[i] = Cardinality(TabledAt(i))
                          /\ active_peers_by_ip[i] <= MaxPeersPerIp
    /\ active_peers = Cardinality(Counted) /\ active_peers <= MaxPeers
    /\ active_proof_requests = Cardinality(Slotted) /\ active_proof_requests <= MaxProofRequests

\* The threads that hold at most one descriptor of their own, and what they have made
\* known of it.
AcceptorInv ==
    /\ Fields(acceptor, Guard)
    /\ acceptor.pc \in {"top", "accept", "lock", "reap", "decide", "thrown", "ended"}
    /\ acceptor.fd # 0 <=> acceptor.pc \in {"lock", "reap", "decide"}
    /\ acceptor.fd # 0 => acceptor.ip \in Address
GossipInv ==
    /\ Fields(gossip, Outbound)
    /\ gossip.fd # 0 => gossip.pc \in {"store", "check", "exchange", "close"}
    /\ gossip_asleep => gossip.pc = "pause"
    /\ gossip_socket = IF gossip.pc \in {"check", "exchange", "close"} THEN gossip.fd ELSE 0
CoreSocketInv ==
    /\ Fields(core, Inbound)
    /\ core.fd # 0 => core.pc \in {"store", "connect", "loop", "receive", "close"}
    /\ socket_fd = IF core.pc \in {"connect", "loop", "receive", "close"} THEN core.fd ELSE 0

\* The descriptors the process can have.
Fd == UNION {s.fds : s \in Scope}

\* Every descriptor has one owner: a client thread, one of those in `held`, or the
\* acceptor (a), the gossip thread (g) or the thread of the Core connection (c).
Own(fd) == {fd} \ {0}
OneOwner(fds, held, a, g, c) ==
    /\ fds = held \cup Own(a) \cup Own(g) \cup Own(c) /\ fds \subseteq Fd /\ 0 \notin fds
    /\ held \cap (Own(a) \cup Own(g) \cup Own(c)) = {}
    /\ Own(a) \cap (Own(g) \cup Own(c)) = {} /\ Own(g) \cap Own(c) = {}
HeldFds == {worker[w].fd : w \in Holders}
FdInv ==
    /\ OneOwner(open, HeldFds, acceptor.fd, gossip.fd, core.fd)
    /\ \A w, x \in Holders : worker[w].fd = worker[x].fd => w = x

\* The table has the descriptors of the threads in it.
TableInv ==
    /\ client_sockets \in Seq(Fd) /\ IsInjective(client_sockets)
    /\ Range(client_sockets) = {worker[w].fd : w \in Tabled}

ServerInv ==
    /\ scope \in Scope /\ WorkerType /\ CountInv /\ AcceptorInv /\ GossipInv /\ CoreSocketInv
    /\ FdInv /\ TableInv

\* The cache: below the archive's tip it has only blocks of the archive's chain, and
\* above it something only while a rollback has not withdrawn it yet.
CacheInv ==
    /\ scope \in Scope /\ chain \in Seq(Label)
    /\ main = "publish" => chain # <<>>
    /\ order \in Seq(Block) /\ IsInjective(order) /\ entries = Range(order)
    /\ bytes = Weight(order, Bytes) /\ bytes <= MaxCacheBytes /\ Len(order) <= MaxBlocks
    /\ \A b \in entries : /\ Len(b) <= Len(chain) => IsPrefix(b, chain)
                          /\ main # "discard" => Len(b) <= Len(chain)

\* The queue of transactions.
QueueInv ==
    /\ Fields(core, Inbound)
    /\ queue \in Seq(Tx) /\ IsInjective(queue) /\ queued = Range(queue)
    /\ queue_bytes = Weight(queue, TxBytes) /\ queue_bytes <= MaxQueueBytes /\ Len(queue) <= MaxQueued
    /\ core.pending \subseteq Tx /\ IsFiniteSet(core.pending) /\ Cardinality(core.pending) <= MaxInflight
    /\ "main" \in core_asleep => ~ changed
=============================================================================
