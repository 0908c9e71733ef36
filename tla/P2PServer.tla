------------------------------- MODULE P2PServer -------------------------------
(***************************************************************************)
(* P2PServer::Impl (src/p2p.cpp): the acceptor, one thread per connection, *)
(* the gossip thread, and the main thread that publishes and withdraws     *)
(* blocks and finally destroys the server.  Connections ask for block      *)
(* proofs (getuproof) and accumulator states (getcfilters) while the main  *)
(* thread extends and truncates the archive (ProofStore, here its durable  *)
(* chain; ProofStore::Read and StateAt are modelled lock by lock).         *)
(*                                                                         *)
(* Simplifications.  A message is its effect: one that is answered without *)
(* shared state, one that advances the handshake, a request, or one that   *)
(* ends the connection (malformed, over a rate limit, oversized).  Egress  *)
(* tokens and sizes only decide whether a request is refused, which is a   *)
(* choice.  Every block spends something, so its proof needs the leaf      *)
(* count before it.  Log output and statistics are left out.  Requests for *)
(* transactions are in TransactionRelay.                                   *)
(***************************************************************************)
EXTENDS RecentProofCache, CoreTransactionPeer

CONSTANTS
    Worker,             \* identities of client threads, numbers
    Address,            \* peer addresses
    MaxPeers, MaxPeersPerIp, MaxProofRequests,   \* config limits
    Scope,              \* the instances considered, one is chosen at the start: the client
                        \* threads, descriptors, peer addresses, requests, labels, bounds on
                        \* connections, height and reorganizations, and whether addresses are gossiped
    NONE

\* What ValidateP2PServerConfig demands of the limits that are modelled.
ValidLimits == \A n \in {MaxPeers, MaxPeersPerIp, MaxProofRequests} : n \in 1 .. 1024

ASSUME ServerConfig == ValidLimits

\* The instances are of these threads, addresses and labels; 0 stands for no descriptor.
ASSUME ScopeConfig ==
    /\ IsFiniteSet(Worker)
    /\ \A s \in Scope : /\ s.workers \subseteq Worker /\ s.addresses \subseteq Address
                        /\ s.labels \subseteq Label /\ 0 \notin s.fds

VARIABLES
    scope,
    chain, reorgs,          \* the archive's durable chain; used reorganizations
    main,                   \* the main thread
    stopping, listening,
    acceptor, clients_mutex,
    accepted,               \* connections so far
    client_sockets, active_peers_by_ip, active_peers, client_workers,
    worker,                 \* the client threads
    active_proof_requests,
    gossip, gossip_socket, gossip_asleep

chainv == <<chain, reorgs>>
table == <<client_sockets, active_peers_by_ip, active_peers, client_workers>>
gossipv == <<gossip, gossip_socket, gossip_asleep>>
vars == <<proofs, waiting, scope, chainv, main, stopping, listening, kernel, acceptor, accepted, clients_mutex,
          table, worker, active_proof_requests, gossipv, corev>>

Idle == [pc |-> "none", fd |-> 0, ip |-> NONE, hand |-> "new", slot |-> FALSE, block |-> <<>>,
         proof |-> NONE, start |-> 0, hashes |-> <<>>, states |-> <<>>]

Init ==
    /\ CacheInit
    /\ scope \in Scope
    /\ CoreInit(scope.core)
    /\ chain = <<>> /\ reorgs = 0 /\ main = "run"
    /\ stopping = FALSE /\ listening = TRUE
    /\ open = {} /\ shut = {}
    /\ acceptor = [pc |-> "top", fd |-> 0, ip |-> NONE] /\ clients_mutex = NONE /\ accepted = 0
    /\ client_sockets = <<>> /\ active_peers_by_ip = [i \in Address |-> 0]
    /\ active_peers = 0 /\ client_workers = {}
    /\ worker = [w \in Worker |-> Idle]
    /\ active_proof_requests = 0
    /\ gossip = IF scope.gossip THEN [pc |-> "top", fd |-> 0] ELSE [pc |-> "ended", fd |-> 0]
    /\ gossip_socket = 0 /\ gossip_asleep = FALSE

(***************************************************************************)
(* The main thread: a block is durable before it is published; a rollback  *)
(* truncates the archive before it withdraws the cache.                    *)
(***************************************************************************)
ServerQuiet == UNCHANGED <<proofs, waiting, scope, chainv, stopping, listening, acceptor, accepted,
                           clients_mutex, table, worker, active_proof_requests, gossipv>>
MainQuiet == UNCHANGED <<scope, stopping, listening, kernel, acceptor, accepted, clients_mutex, table, worker,
                         active_proof_requests, gossipv, corev>>

Connect ==
    /\ main = "run" /\ Len(chain) < scope.height
    /\ \E l \in scope.labels : chain' = Append(chain, l)
    /\ main' = "publish"
    /\ UNCHANGED <<proofs, waiting, reorgs>> /\ MainQuiet

PublishBlock ==
    /\ main = "publish" /\ Publish(chain)
    /\ main' = "run"
    /\ UNCHANGED chainv /\ MainQuiet

Reorganize ==
    /\ main = "run" /\ reorgs < scope.reorgs /\ reorgs' = reorgs + 1
    /\ \E h \in 0 .. (Len(chain) - 1) : chain' = SubSeq(chain, 1, h)
    /\ main' = "discard"
    /\ UNCHANGED <<proofs, waiting>> /\ MainQuiet

Discard ==
    /\ main = "discard" /\ DiscardAfter(Len(chain))
    /\ main' = "run"
    /\ UNCHANGED chainv /\ MainQuiet

\* The relay polls with what Core has sent and waits for news.
TakeFromCore ==
    /\ main = "run" /\ scope.core /\ Take /\ main' = "relay"
    /\ UNCHANGED kernel /\ ServerQuiet

WaitForCore ==
    /\ main = "relay"
    /\ \/ WaitSleeps /\ UNCHANGED main
       \/ (WaitReturns \/ WaitExpires) /\ main' = "run"
    /\ UNCHANGED kernel /\ ServerQuiet

(***************************************************************************)
(* RequestStop, by the destructor or by a failing acceptor: the flag under *)
(* gossip_wait_mutex, then the caches' waiters, then the gossip thread.    *)
(***************************************************************************)
SetStopping == stopping' = TRUE
WakeGossipOnly == UNCHANGED waiting /\ gossip_asleep' = FALSE
WakeAll == waiting' = {} /\ gossip_asleep' = FALSE

StopBegins ==
    /\ main = "run"
    /\ SetStopping /\ main' = "wake"
    /\ UNCHANGED <<proofs, waiting, scope, chainv, listening, kernel, acceptor, accepted, clients_mutex, table, worker,
                   active_proof_requests, gossipv, corev>>

StopWakes ==
    /\ main = "wake"
    /\ WakeAll /\ main' = "interrupt"
    /\ UNCHANGED <<proofs, scope, chainv, stopping, listening, kernel, acceptor, accepted, clients_mutex, table, worker,
                   active_proof_requests, gossip, gossip_socket, corev>>

\* InterruptCurrentGossipSocket, then the listener.
StopInterrupts ==
    /\ main = "interrupt"
    /\ shut' = shut \cup ({gossip_socket} \ {0})
    /\ listening' = FALSE
    /\ main' = "join_threads"
    /\ UNCHANGED <<proofs, waiting, scope, chainv, stopping, open, acceptor, accepted, clients_mutex, table, worker,
                   active_proof_requests, gossipv, corev>>

StopJoinsThreads ==
    /\ main = "join_threads" /\ acceptor.pc = "ended" /\ gossip.pc = "ended"
    /\ main' = "shutdown"
    /\ UNCHANGED <<proofs, waiting, chainv>> /\ MainQuiet

StopShutsDown ==
    /\ main = "shutdown" /\ clients_mutex = NONE
    /\ shut' = shut \cup Range(client_sockets)
    /\ main' = "join_workers"
    /\ UNCHANGED <<proofs, waiting, scope, chainv, stopping, listening, open, acceptor, accepted, clients_mutex, table,
                   worker, active_proof_requests, gossipv, corev>>

StopJoinsWorkers ==
    /\ main = "join_workers" /\ \A w \in client_workers : worker[w].pc = "ended"
    /\ main' = "core_stop"
    /\ open' = open \ Range(client_sockets) /\ client_sockets' = <<>>
    /\ active_peers_by_ip' = [i \in Address |-> 0] /\ active_peers' = 0
    /\ UNCHANGED <<proofs, waiting, scope, chainv, stopping, listening, shut, acceptor, accepted, clients_mutex,
                   client_workers, worker, active_proof_requests, gossipv, corev>>

\* The Core connection is destroyed after the server.
StopsCore ==
    /\ \/ main = "core_stop" /\ main' = "core_interrupt" /\ CoreSetStopping /\ UNCHANGED kernel
       \/ main = "core_interrupt" /\ main' = "core_notify" /\ CoreInterrupts /\ UNCHANGED open
       \/ main = "core_notify" /\ main' = "core_join" /\ CoreNotifies /\ UNCHANGED kernel
       \/ main = "core_join" /\ core.pc = "ended" /\ main' = "stopped" /\ UNCHANGED <<corev, kernel>>
    /\ ServerQuiet

Stopped == main = "stopped" /\ UNCHANGED vars


MainStops ==
    \/ StopWakes \/ StopInterrupts \/ StopJoinsThreads \/ StopShutsDown \/ StopJoinsWorkers \/ StopsCore
MainStep ==
    \/ Connect \/ PublishBlock \/ Reorganize \/ Discard \/ TakeFromCore \/ WaitForCore \/ StopBegins \/ MainStops \/ Stopped

(***************************************************************************)
(* AcceptLoop.  Finished threads are joined under clients_mutex.           *)
(***************************************************************************)
AcceptQuiet == UNCHANGED <<proofs, scope, chainv, main, listening, gossip, gossip_socket, corev>>
Accepting(pc) == acceptor' = [acceptor EXCEPT !.pc = pc]
AcceptIdle == acceptor' = [pc |-> "top", fd |-> 0, ip |-> NONE]

AcceptTop ==
    /\ acceptor.pc = "top"
    /\ Accepting(IF stopping THEN "ended" ELSE "accept")
    /\ AcceptQuiet /\ UNCHANGED accepted
    /\ UNCHANGED <<waiting, stopping, kernel, clients_mutex, table, worker, active_proof_requests,
                   gossip_asleep>>

\* accept() fails because the destructor has shut the listener down.
AcceptEnds ==
    /\ acceptor.pc = "accept" /\ ~listening
    /\ Accepting("ended")
    /\ AcceptQuiet /\ UNCHANGED accepted
    /\ UNCHANGED <<waiting, stopping, kernel, clients_mutex, table, worker, active_proof_requests,
                   gossip_asleep>>

\* A connection; the new descriptor belongs to the socket guard.
Accept ==
    /\ acceptor.pc = "accept" /\ listening
    /\ accepted < scope.connections /\ accepted' = accepted + 1
    /\ \E f \in scope.fds \ open, i \in scope.addresses : FreshFd(f, scope.fds) /\ acceptor' = [pc |-> "lock", fd |-> f, ip |-> i]
    /\ AcceptQuiet
    /\ UNCHANGED <<waiting, stopping, clients_mutex, table, worker, active_proof_requests, gossip_asleep>>

AcceptLocks ==
    /\ acceptor.pc = "lock" /\ clients_mutex = NONE
    /\ clients_mutex' = "acceptor" /\ Accepting("reap")
    /\ AcceptQuiet /\ UNCHANGED accepted
    /\ UNCHANGED <<waiting, stopping, kernel, table, worker, active_proof_requests, gossip_asleep>>

\* ReapFinishedClients: all threads that have set `done`.
ReapFinishedClients ==
    /\ acceptor.pc = "reap"
    /\ LET done == {w \in client_workers : worker[w].pc = "ended"} IN
       /\ client_workers' = client_workers \ done
       /\ worker' = [w \in Worker |-> IF w \in done THEN Idle ELSE worker[w]]
    /\ Accepting("decide")
    /\ AcceptQuiet /\ UNCHANGED accepted
    /\ UNCHANGED <<waiting, stopping, kernel, clients_mutex, client_sockets, active_peers_by_ip, active_peers,
                   active_proof_requests, gossip_asleep>>

Admitted == active_peers < MaxPeers /\ active_peers_by_ip[acceptor.ip] < MaxPeersPerIp

Reject ==
    /\ acceptor.pc = "decide" /\ ~Admitted
    /\ clients_mutex' = NONE /\ CloseFd(acceptor.fd) /\ AcceptIdle
    /\ AcceptQuiet /\ UNCHANGED accepted
    /\ UNCHANGED <<waiting, stopping, table, worker, active_proof_requests, gossip_asleep>>

Register ==
    /\ acceptor.pc = "decide" /\ Admitted
    /\ \E w \in scope.workers \ client_workers :
        /\ w = Min(scope.workers \ client_workers)
        /\ client_workers' = client_workers \cup {w}
        /\ worker' = [worker EXCEPT ![w] = [Idle EXCEPT !.pc = "loop", !.fd = acceptor.fd, !.ip = acceptor.ip]]
    /\ active_peers_by_ip' = [active_peers_by_ip EXCEPT ![acceptor.ip] = @ + 1]
    /\ client_sockets' = Append(client_sockets, acceptor.fd)
    /\ active_peers' = active_peers + 1
    /\ clients_mutex' = NONE /\ AcceptIdle
    /\ AcceptQuiet /\ UNCHANGED accepted
    /\ UNCHANGED <<waiting, stopping, kernel, active_proof_requests, gossip_asleep>>

\* An allocation or the thread's creation fails: every step is rolled back.
RegisterFailsCounted ==
    /\ acceptor.pc = "decide" /\ Admitted
    /\ active_peers_by_ip' = [active_peers_by_ip EXCEPT ![acceptor.ip] = @ + 1]
    /\ clients_mutex' = NONE /\ CloseFd(acceptor.fd) /\ AcceptIdle
    /\ AcceptQuiet /\ UNCHANGED accepted
    /\ UNCHANGED <<waiting, stopping, client_sockets, active_peers, client_workers, worker,
                   active_proof_requests, gossip_asleep>>

RegisterFails ==
    /\ acceptor.pc = "decide" /\ Admitted
    /\ clients_mutex' = NONE /\ CloseFd(acceptor.fd) /\ AcceptIdle
    /\ AcceptQuiet /\ UNCHANGED accepted
    /\ UNCHANGED <<waiting, stopping, table, worker, active_proof_requests, gossip_asleep>>

\* The loop itself fails before it registers anything: Start's handler requests a stop.
AcceptThrows ==
    /\ acceptor.pc = "lock"
    /\ SetStopping /\ CloseFd(acceptor.fd)
    /\ acceptor' = [pc |-> "thrown", fd |-> 0, ip |-> NONE]
    /\ AcceptQuiet /\ UNCHANGED accepted
    /\ UNCHANGED <<waiting, clients_mutex, table, worker, active_proof_requests, gossip_asleep>>

AcceptStops ==
    /\ acceptor.pc = "thrown"
    /\ WakeAll /\ Accepting("ended")
    /\ AcceptQuiet /\ UNCHANGED accepted
    /\ UNCHANGED <<stopping, kernel, clients_mutex, table, worker, active_proof_requests>>

AcceptorRuns ==
    \/ AcceptTop \/ AcceptEnds \/ AcceptLocks \/ ReapFinishedClients \/ Reject \/ Register \/ RegisterFails
    \/ AcceptStops
AcceptorStep == AcceptorRuns \/ Accept \/ AcceptThrows

(***************************************************************************)
(* ClientLoop.                                                             *)
(***************************************************************************)
ClientQuiet == UNCHANGED <<proofs, scope, chainv, main, stopping, listening, acceptor, accepted, clients_mutex, gossipv,
                         corev>>
ClientLocal == ClientQuiet /\ UNCHANGED <<kernel, table>>

Becomes(w, rec) == worker' = [worker EXCEPT ![w] = rec]

\* ProofWorkGuard: taken by compare-and-swap, released when it goes out of scope.
SlotFree == active_proof_requests < MaxProofRequests
Acquires == active_proof_requests' = active_proof_requests + 1
Releases(w) == active_proof_requests' = active_proof_requests - (IF worker[w].slot THEN 1 ELSE 0)

\* The request is over: every guard is released.
Cleared(w, pc) ==
    [Idle EXCEPT !.pc = pc, !.fd = worker[w].fd, !.ip = worker[w].ip, !.hand = worker[w].hand]
Disconnects(w) == Becomes(w, Cleared(w, "remove")) /\ Releases(w)
Answered(w) == Becomes(w, Cleared(w, "loop")) /\ Releases(w)

Loop(w) ==
    /\ worker[w].pc = "loop"
    /\ IF stopping THEN Disconnects(w)
       ELSE Becomes(w, [worker[w] EXCEPT !.pc = "receive"]) /\ UNCHANGED active_proof_requests
    /\ ClientLocal /\ UNCHANGED waiting

\* The read ends because the socket was shut down.
ReadInterrupted(w) ==
    /\ worker[w].pc = "receive" /\ worker[w].fd \in shut
    /\ Disconnects(w)
    /\ ClientLocal /\ UNCHANGED waiting

\* ReadMessageUntil has a message (or, in ClientFails, an error).
Received(w) == worker[w].pc = "receive"

\* version, verack, and the messages answered without shared state (in an instance
\* without requests the peers are silent).
Handshake(w) ==
    /\ Received(w) /\ scope.requests # {}
    /\ Becomes(w, [worker[w] EXCEPT !.pc = "loop",
                                    !.hand = IF @ = "new" THEN "version" ELSE "ready"])
    /\ ClientLocal /\ UNCHANGED <<waiting, active_proof_requests>>

\* A parsed request names a block by its hash.
RequestedBlocks == UNION {[1 .. n -> scope.labels] : n \in 1 .. scope.height}

GetUProof(w) ==
    /\ Received(w) /\ worker[w].hand = "ready" /\ "getuproof" \in scope.requests
    /\ \E b \in RequestedBlocks :
        Becomes(w, [worker[w] EXCEPT !.pc = "find", !.block = b])
    /\ ClientLocal /\ UNCHANGED <<waiting, active_proof_requests>>

GetCFilters(w) ==
    /\ Received(w) /\ worker[w].hand = "ready" /\ "getcfilters" \in scope.requests
    /\ IF ~SlotFree THEN Disconnects(w)
       ELSE /\ Acquires
            /\ \E b \in RequestedBlocks, h \in 1 .. scope.height :
                Becomes(w, [worker[w] EXCEPT !.pc = "hashes", !.slot = TRUE, !.block = b, !.start = h])
    /\ ClientLocal /\ UNCHANGED waiting

\* Whatever ends a connection: bad input, a limit, a timeout, an I/O error, an exception.
ClientFails(w) ==
    /\ worker[w].pc \in {"receive", "hashes", "states", "send_states", "read", "again", "send"}
    /\ Disconnects(w)
    /\ ClientLocal /\ UNCHANGED waiting

(***************************************************************************)
(* getuproof.  A record of the archive is never overwritten, so what the    *)
(* index said stays readable after a truncation; the state of              *)
(* the parent is looked up a second time and compared with the index.      *)
(***************************************************************************)
Archived(b) == b # <<>> /\ IsPrefix(b, chain)
Parent(b) == Front(b)
ProofOf(b, before) == [point |-> b, before |-> before]

Find(w) ==
    /\ worker[w].pc = "find"
    /\ IF ~SlotFree THEN Disconnects(w)
       ELSE /\ Acquires
            /\ LET b == worker[w].block IN
               Becomes(w, IF b \in entries
                          THEN [worker[w] EXCEPT !.pc = "send", !.slot = TRUE, !.proof = ProofOf(b, Parent(b))]
                          ELSE [worker[w] EXCEPT !.pc = "read", !.slot = TRUE])
    /\ ClientLocal /\ UNCHANGED waiting

\* Read, first lock: hash_to_height, the entry and its parent's hash.
ReadIndex(w) ==
    /\ worker[w].pc \in {"read", "again"}
    /\ IF Archived(worker[w].block)
       THEN /\ Becomes(w, [worker[w] EXCEPT !.pc = "pair", !.proof = ProofOf(worker[w].block, NONE)])
            /\ UNCHANGED active_proof_requests
       ELSE IF worker[w].pc = "again" THEN Disconnects(w)
       ELSE Becomes(w, [worker[w] EXCEPT !.pc = "wait", !.slot = FALSE]) /\ Releases(w)
    /\ ClientLocal /\ UNCHANGED waiting

\* StateAt(height - 1) and the comparison with expected_previous.
PairAnyState(w) ==
    /\ worker[w].pc = "pair"
    /\ LET h == Height(worker[w].block) - 1 IN
       IF h > Len(chain)
       THEN Becomes(w, [worker[w] EXCEPT !.pc = "send"]) /\ UNCHANGED active_proof_requests
       ELSE /\ Becomes(w, [worker[w] EXCEPT !.pc = "send", !.proof.before = SubSeq(chain, 1, h)])
            /\ UNCHANGED active_proof_requests
    /\ ClientLocal /\ UNCHANGED waiting

PairState(w) ==
    /\ worker[w].pc = "pair"
    /\ LET h == Height(worker[w].block) - 1
           state == SubSeq(chain, 1, h) IN
       IF h > Len(chain)
       THEN Becomes(w, [worker[w] EXCEPT !.pc = "send"]) /\ UNCHANGED active_proof_requests
       ELSE IF state # Parent(worker[w].block) THEN Disconnects(w)
       ELSE /\ Becomes(w, [worker[w] EXCEPT !.pc = "send", !.proof.before = state])
            /\ UNCHANGED active_proof_requests
    /\ ClientLocal /\ UNCHANGED waiting

\* WaitFor: the predicate under the cache's mutex, then the result.
WaitFor(w) ==
    /\ worker[w].pc = "wait" /\ w \notin waiting
    /\ IF stopping THEN Disconnects(w) /\ UNCHANGED waiting
       ELSE IF worker[w].block \notin entries
       THEN waiting' = waiting \cup {w} /\ UNCHANGED <<worker, active_proof_requests>>
       ELSE /\ UNCHANGED waiting
            /\ IF ~SlotFree THEN Disconnects(w)
               ELSE /\ Acquires
                    /\ Becomes(w, [worker[w] EXCEPT !.pc = "send", !.slot = TRUE,
                                       !.proof = ProofOf(worker[w].block, Parent(worker[w].block))])
    /\ ClientLocal

\* proof_wait_seconds have passed: the archive is tried once more.
WaitTimesOut(w) ==
    /\ w \in waiting
    /\ waiting' = waiting \ {w}
    /\ IF stopping \/ ~SlotFree THEN Disconnects(w)
       ELSE Acquires /\ Becomes(w, [worker[w] EXCEPT !.pc = "again", !.slot = TRUE])
    /\ ClientLocal

\* Encoding, the egress reservation and the write; refusals are in ClientFails.
Send(w) ==
    /\ worker[w].pc = "send"
    /\ IF worker[w].proof.before = NONE THEN Disconnects(w) ELSE Answered(w)
    /\ ClientLocal /\ UNCHANGED waiting

(***************************************************************************)
(* getcfilters: first the hashes up to the stop hash, one lock each, then  *)
(* the states, each compared with its hash.                                *)
(***************************************************************************)
ReadHash(w) ==
    /\ worker[w].pc = "hashes"
    /\ LET h == worker[w].start + Len(worker[w].hashes) IN
       IF h > Len(chain) THEN Disconnects(w)
       ELSE LET b == SubSeq(chain, 1, h) IN
            /\ Becomes(w, [worker[w] EXCEPT !.pc = IF b = worker[w].block THEN "states" ELSE @,
                                            !.hashes = Append(@, b)])
            /\ UNCHANGED active_proof_requests
    /\ ClientLocal /\ UNCHANGED waiting

ReadAnyState(w) ==
    /\ worker[w].pc = "states"
    /\ LET n == Len(worker[w].states) + 1
           h == worker[w].start + n - 1 IN
       IF h > Len(chain) THEN Disconnects(w)
       ELSE /\ Becomes(w, [worker[w] EXCEPT !.states = Append(@, SubSeq(chain, 1, h)),
                               !.pc = IF n = Len(worker[w].hashes) THEN "send_states" ELSE @])
            /\ UNCHANGED active_proof_requests
    /\ ClientLocal /\ UNCHANGED waiting

ReadState(w) ==
    /\ worker[w].pc = "states"
    /\ LET n == Len(worker[w].states) + 1
           h == worker[w].start + n - 1 IN
       IF h > Len(chain) \/ SubSeq(chain, 1, h) # worker[w].hashes[n] THEN Disconnects(w)
       ELSE /\ Becomes(w, [worker[w] EXCEPT !.states = Append(@, SubSeq(chain, 1, h)),
                               !.pc = IF n = Len(worker[w].hashes) THEN "send_states" ELSE @])
            /\ UNCHANGED active_proof_requests
    /\ ClientLocal /\ UNCHANGED waiting

SendStates(w) ==
    /\ worker[w].pc = "send_states"
    /\ Answered(w)
    /\ ClientLocal /\ UNCHANGED waiting

(***************************************************************************)
(* RemoveClient, then `done`.                                              *)
(***************************************************************************)
Unlisted(w) ==
    /\ client_sockets' = Kept(client_sockets, Range(client_sockets) \ {worker[w].fd})
    /\ active_peers_by_ip' = [active_peers_by_ip EXCEPT ![worker[w].ip] = @ - 1]
    /\ UNCHANGED <<active_peers, client_workers>>

\* The descriptor is closed while it is still listed.
RemoveClosesFirst(w) ==
    /\ worker[w].pc = "remove"
    /\ CloseFd(worker[w].fd)
    /\ Becomes(w, [worker[w] EXCEPT !.pc = "unlist"])
    /\ ClientQuiet /\ UNCHANGED <<waiting, table, active_proof_requests>>

Unlist(w) ==
    /\ worker[w].pc = "remove" /\ clients_mutex = NONE
    /\ Unlisted(w)
    /\ Becomes(w, [worker[w] EXCEPT !.pc = "close"])
    /\ ClientQuiet /\ UNCHANGED <<waiting, kernel, active_proof_requests>>

RemoveCloses(w) ==
    /\ worker[w].pc = "close"
    /\ CloseFd(worker[w].fd)
    /\ Becomes(w, [worker[w] EXCEPT !.pc = "uncount"])
    /\ ClientQuiet /\ UNCHANGED <<waiting, table, active_proof_requests>>

Uncount(w) ==
    /\ worker[w].pc = "uncount"
    /\ active_peers' = active_peers - 1
    /\ Becomes(w, [worker[w] EXCEPT !.pc = "done"])
    /\ ClientQuiet
    /\ UNCHANGED <<waiting, kernel, client_sockets, active_peers_by_ip, client_workers, active_proof_requests>>

ClientEnds(w) ==
    /\ worker[w].pc = "done"
    /\ Becomes(w, [worker[w] EXCEPT !.pc = "ended"])
    /\ ClientLocal /\ UNCHANGED <<waiting, active_proof_requests>>

ClientRuns(w) ==
    \/ Loop(w) \/ ReadInterrupted(w) \/ Find(w) \/ ReadIndex(w) \/ PairState(w) \/ WaitFor(w) \/ Send(w)
    \/ ReadHash(w) \/ ReadState(w) \/ SendStates(w)
    \/ Unlist(w) \/ RemoveCloses(w) \/ Uncount(w) \/ ClientEnds(w)
ClientStep(w) ==
    ClientRuns(w) \/ Handshake(w) \/ GetUProof(w) \/ GetCFilters(w) \/ ClientFails(w) \/ WaitTimesOut(w)

(***************************************************************************)
(* GossipLoop: one seed.  gossip_socket is set and cleared under its mutex.*)
(***************************************************************************)
GossipQuiet == UNCHANGED <<proofs, waiting, scope, chainv, main, stopping, listening, acceptor, accepted, clients_mutex,
                           table, worker, active_proof_requests, corev>>

GossipTop ==
    /\ gossip.pc = "top"
    /\ gossip' = [gossip EXCEPT !.pc = IF stopping THEN "ended" ELSE "socket"]
    /\ GossipQuiet /\ UNCHANGED <<kernel, gossip_socket, gossip_asleep>>

\* ConnectGossipSeed: a socket is made, then made known.
GossipSocket ==
    /\ gossip.pc = "socket"
    /\ \E f \in scope.fds \ open : FreshFd(f, scope.fds) /\ gossip' = [pc |-> "store", fd |-> f]
    /\ GossipQuiet /\ UNCHANGED <<gossip_socket, gossip_asleep>>

\* No descriptor, or the socket cannot be configured.
GossipNoSocket ==
    /\ gossip.pc = "socket"
    /\ gossip' = [pc |-> "pause", fd |-> 0]
    /\ GossipQuiet /\ UNCHANGED <<kernel, gossip_socket, gossip_asleep>>

GossipStores ==
    /\ gossip.pc = "store"
    /\ gossip_socket' = gossip.fd
    /\ gossip' = [gossip EXCEPT !.pc = "check"]
    /\ GossipQuiet /\ UNCHANGED <<kernel, gossip_asleep>>

GossipChecks ==
    /\ gossip.pc = "check"
    /\ gossip' = [gossip EXCEPT !.pc = IF stopping THEN "close" ELSE "exchange"]
    /\ GossipQuiet /\ UNCHANGED <<kernel, gossip_socket, gossip_asleep>>

\* Connecting and AnnounceToSeed block until the seed acts, a deadline passes ...
GossipExchanged ==
    /\ gossip.pc = "exchange"
    /\ gossip' = [gossip EXCEPT !.pc = "close"]
    /\ GossipQuiet /\ UNCHANGED <<kernel, gossip_socket, gossip_asleep>>

\* ... or the socket is shut down.
GossipInterrupted ==
    /\ gossip.pc = "exchange" /\ gossip.fd \in shut
    /\ gossip' = [gossip EXCEPT !.pc = "close"]
    /\ GossipQuiet /\ UNCHANGED <<kernel, gossip_socket, gossip_asleep>>

GossipCloses ==
    /\ gossip.pc = "close"
    /\ gossip_socket' = 0 /\ CloseFd(gossip.fd)
    /\ gossip' = [pc |-> "pause", fd |-> 0]
    /\ GossipQuiet /\ UNCHANGED gossip_asleep

GossipPauses ==
    /\ gossip.pc = "pause" /\ ~gossip_asleep
    /\ IF stopping THEN gossip' = [gossip EXCEPT !.pc = "top"] /\ UNCHANGED gossip_asleep
       ELSE gossip_asleep' = TRUE /\ UNCHANGED gossip
    /\ GossipQuiet /\ UNCHANGED <<kernel, gossip_socket>>

GossipRetries ==
    /\ gossip_asleep
    /\ gossip_asleep' = FALSE /\ gossip' = [gossip EXCEPT !.pc = "top"]
    /\ GossipQuiet /\ UNCHANGED <<kernel, gossip_socket>>

GossipRuns ==
    \/ GossipTop \/ GossipSocket \/ GossipNoSocket \/ GossipStores \/ GossipChecks \/ GossipInterrupted
    \/ GossipCloses \/ GossipPauses
GossipStep == GossipRuns \/ GossipExchanged \/ GossipRetries

CoreThread(step) == step /\ ServerQuiet /\ UNCHANGED main

Next ==
    \/ MainStep \/ AcceptorStep \/ (\E w \in Worker : ClientStep(w)) \/ GossipStep
    \/ CoreThread(CoreStep(scope.fds))

Spec == Init /\ [][Next]_vars

\* The scheduler runs every runnable thread.  No peer ever has to answer, and no
\* timer to expire but the reconnect pause of the Core connection, whose destructor
\* notifies without the mutex and may miss the sleeper.
FairSpec ==
    /\ Spec
    /\ WF_vars(MainStops)
    /\ WF_vars(AcceptorRuns)
    /\ \A w \in Worker : WF_vars(ClientRuns(w))
    /\ WF_vars(GossipRuns)
    /\ WF_vars(CoreThread(CoreRuns(scope.fds)))
    /\ WF_vars(CoreThread(CoreRetries))

-----------------------------------------------------------------------------
\* The descriptor a client thread holds, and whether it is listed.
Holds(w) == worker[w].pc \notin {"none", "uncount", "done", "ended"}
Listed(w) == Holds(w) /\ worker[w].pc # "close"

\* Descriptors have one owner: the kernel reuses numbers, so a closed descriptor
\* that is still in client_sockets or gossip_socket would let the destructor shut
\* down, or RemoveClient unlist, somebody else's connection.  client_sockets is
\* exactly the descriptors of the threads that have not unlisted themselves
\* (RemoveClient erases before it closes; the guards of AcceptLoop close what was
\* not handed over).
SocketsOwned ==
    LET held == {worker[w].fd : w \in {x \in Worker : Holds(x)}}
        pending == {acceptor.fd} \ {0}
        outbound(fd) == {fd} \ {0} IN
    /\ open = held \cup pending \cup outbound(gossip.fd) \cup outbound(core.fd)
    /\ Cardinality(open) = Cardinality({w \in Worker : Holds(w)}) + Cardinality(pending)
                             + Cardinality(outbound(gossip.fd)) + Cardinality(outbound(core.fd))
    /\ Range(client_sockets) = {worker[w].fd : w \in {x \in Worker : Listed(x)}}
    /\ Len(client_sockets) = Cardinality({w \in Worker : Listed(w)})
    /\ gossip_socket \in {0, gossip.fd} /\ socket_fd \in {0, core.fd}

\* Admission is exact: the per-address counts are the listed connections of that
\* address and never above max_peers_per_ip, active_peers counts every thread that
\* has not finished removing itself and never passes max_peers, and a proof-work
\* slot is taken exactly by the requests that hold one.  A failed registration, a
\* refused connection or an abandoned request leaves nothing behind.
AdmissionExact ==
    /\ \A i \in Address :
        /\ active_peers_by_ip[i] = Cardinality({w \in Worker : Listed(w) /\ worker[w].ip = i})
        /\ active_peers_by_ip[i] <= MaxPeersPerIp
    /\ active_peers = Cardinality({w \in Worker : worker[w].pc \notin {"none", "done", "ended"}})
    /\ active_peers <= MaxPeers
    /\ active_proof_requests = Cardinality({w \in Worker : worker[w].slot})
    /\ active_proof_requests <= MaxProofRequests

\* A proof that is about to be encoded is the requested block's, and the leaf count
\* it is encoded with is that of the block's parent, whatever the main thread did to
\* the archive between the two lookups (ProofStore::Read compares the state it finds
\* with the parent its index named).
AnswersMatch ==
    \A w \in Worker : worker[w].pc = "send" =>
        /\ worker[w].proof.point = worker[w].block
        /\ worker[w].proof.before \in {NONE, Parent(worker[w].block)}

\* The states about to be sent for a getcfilters request lie on one chain that ends
\* at the stop hash, with the archive reorganized meanwhile (the hashes are read one
\* lock at a time, and each state is compared with the hash read for its height).
\* Holds for fewer than three reorganizations within one request.
StatesOneChain ==
    \A w \in Worker : worker[w].pc = "send_states" =>
        \A n \in 1 .. Len(worker[w].states) :
            worker[w].states[n] = SubSeq(worker[w].block, 1, worker[w].start + n - 1)

\* Outside a rollback every cached proof is of a block of the archive's chain, so a
\* withdrawn branch is no longer offered, the queue and the map agree, and both
\* limits hold (DiscardAfter, Publish).
CacheOnChain ==
    /\ main # "discard" => \A b \in entries : IsPrefix(b, chain)
    /\ Range(order) = entries /\ Len(order) = Cardinality(entries)
    /\ Cardinality(entries) <= MaxBlocks
    /\ bytes = Weight(order, Bytes) /\ bytes <= MaxCacheBytes

\* Once it has begun, shutdown of the server and then of the Core connection
\* completes although no peer says another word: the flag and the notifications reach every wait, the interrupts
\* every blocking read, and no thread is joined that waits for the joiner.
StopReturns == (main = "wake") ~> (main = "stopped")
=============================================================================
