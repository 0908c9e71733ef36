------------------------------- MODULE P2PProofs -------------------------------
(***************************************************************************)
(* Proofs about P2PServer: the queue of transactions from Core, the cache  *)
(* of recent proofs, the answer a client thread is about to send, and the  *)
(* server's descriptors and admission counters.  The inductive invariants  *)
(* are in P2PInv; the lemmas about lists in ListProofs.                    *)
(***************************************************************************)
EXTENDS P2PInv, ListProofs

\* The configured limits are natural numbers: ValidateP2PServerConfig bounds them.
LEMMA Limits ==
    /\ MaxPeers \in Nat /\ MaxPeersPerIp \in Nat /\ MaxProofRequests \in Nat
    /\ 0 <= MaxPeers /\ 0 <= MaxPeersPerIp
BY ServerConfig, SMTT(30) DEF ValidLimits

(***************************************************************************)
(* The thread of the Core connection.                                      *)
(***************************************************************************)
\* A step that leaves the queue alone and asks for nothing new.
QueueRests ==
    /\ UNCHANGED core_queue /\ Fields(core', Inbound) /\ core'.pending \subseteq core.pending
    /\ "main" \in core_asleep' => ~ changed'

\* What the records At(pc) and the updates of `core` are.
LEMMA CoreRecords ==
    ASSUME NEW p
    PROVE  /\ LET r == At(p) IN
              Fields(r, Inbound) /\ r.pc = p /\ r.fd = 0 /\ r.pending = {}
           /\ \A f : LET r == [At(p) EXCEPT !.fd = f] IN
              Fields(r, Inbound) /\ r.pc = p /\ r.fd = f /\ r.pending = {}
           /\ Fields(core, Inbound) => LET r == [core EXCEPT !.pc = p] IN
              Fields(r, Inbound) /\ r.pc = p /\ r.fd = core.fd /\ r.pending = core.pending
<1>1. LET r == At(p) IN Fields(r, Inbound) /\ r.pc = p /\ r.fd = 0 /\ r.pending = {}
  BY Zenon DEF At, Off, Fields, Inbound
<1>2. ASSUME NEW f
      PROVE  LET r == [At(p) EXCEPT !.fd = f] IN
             Fields(r, Inbound) /\ r.pc = p /\ r.fd = f /\ r.pending = {}
  BY Zenon DEF At, Off, Fields, Inbound
<1>3. ASSUME Fields(core, Inbound)
      PROVE  LET r == [core EXCEPT !.pc = p] IN
             Fields(r, Inbound) /\ r.pc = p /\ r.fd = core.fd /\ r.pending = core.pending
  BY <1>3, Zenon DEF Fields, Inbound
<1> QED
  BY <1>1, <1>2, <1>3, Zenon

\* A step of an unconnected thread, which has no descriptor before and after, and one
\* of a connected thread, which keeps its own.
CoreIdles ==
    /\ core.pc \in {"top", "socket", "pause", "block", "asleep"}
    /\ core'.fd \in {0, core.fd} /\ UNCHANGED <<kernel, socket_fd>>
CoreTalks ==
    /\ core.pc \in {"connect", "loop", "receive"} /\ core'.pc \in {"loop", "receive", "close"}
    /\ core'.fd = core.fd /\ UNCHANGED <<kernel, socket_fd>>

\* The steps of the thread by what they do to the queue and to its descriptor.
LEMMA CoreCases ==
    ASSUME Fields(core, Inbound), "main" \in core_asleep => ~ changed,
           NEW fds, CoreStep(fds)
    PROVE  /\ QueueRests \/ \E t \in Tx : CoreInv(t) \/ CoreTx(t)
           /\ Fields(core', Inbound)
           /\ CoreSocket(fds) \/ CoreStores \/ CoreCloses \/ CoreIdles \/ CoreTalks
<1>1. CASE CoreTop
  <2>1. \E p : core' = At(p) /\ core.pc = "top"
    BY <1>1, Zenon DEF CoreTop
  <2> QED
    BY <1>1, <2>1, CoreRecords, Zenon DEF CoreTop, QueueRests, CoreIdles, core_queue
<1>2. CASE CoreSocket(fds)
  <2>1. PICK f : core' = [At("store") EXCEPT !.fd = f]
    BY <1>2, Zenon DEF CoreSocket
  <2>2. Fields(core', Inbound) /\ core'.pending = {}
    BY <2>1, CoreRecords, Zenon
  <2> QED
    BY <1>2, <2>2, Zenon DEF CoreSocket, QueueRests, core_queue
<1>3. CASE CoreNoSocket
  BY <1>3, CoreRecords, Zenon DEF CoreNoSocket, QueueRests, CoreIdles, core_queue
<1>4. CASE CoreStores
  BY <1>4, CoreRecords, Zenon DEF CoreStores, QueueRests, core_queue
<1>5. CASE CoreConnects \/ CoreConnectStops \/ CoreFails \/ CoreLoop \/ CoreReadInterrupted
  <2>1. PICK p \in {"loop", "receive", "close"} : core' = [core EXCEPT !.pc = p]
    BY <1>5, Zenon DEF CoreConnects, CoreConnectStops, CoreFails, CoreLoop, CoreReadInterrupted
  <2>2. Fields(core', Inbound) /\ core'.pc = p /\ core'.fd = core.fd /\ core'.pending = core.pending
    BY <2>1, CoreRecords, Zenon
  <2>3. /\ core.pc \in {"connect", "loop", "receive"}
        /\ UNCHANGED <<kernel, socket_fd, changed, core_queue, core_asleep>>
    BY <1>5, Zenon DEF CoreConnects, CoreConnectStops, CoreFails, CoreLoop, CoreReadInterrupted
  <2> QED
    BY <2>2, <2>3, Zenon DEF QueueRests, CoreTalks, core_queue
<1>6. CASE CoreReady
  <2>1. Fields(core', Inbound) /\ core'.pc = "loop" /\ core'.fd = core.fd /\ core'.pending = core.pending
    BY <1>6, Zenon DEF CoreReady, Fields, Inbound
  <2> QED
    BY <1>6, <2>1, Zenon DEF CoreReady, Notify, QueueRests, CoreTalks, core_queue
<1>7. ASSUME NEW t \in Tx, CoreInv(t) \/ CoreTx(t)
      PROVE  Fields(core', Inbound) /\ CoreTalks
  <2>1. Fields(core', Inbound) /\ core'.pc = "loop" /\ core'.fd = core.fd
    BY <1>7, Zenon DEF CoreInv, CoreTx, Fields, Inbound
  <2> QED
    BY <1>7, <2>1, Zenon DEF CoreInv, CoreTx, CoreTalks
<1>8. CASE CoreNotFound
  <2>1. Fields(core', Inbound) /\ core'.pc = "loop" /\ core'.fd = core.fd /\ core'.pending = {}
    BY <1>8, Zenon DEF CoreNotFound, Fields, Inbound
  <2> QED
    BY <1>8, <2>1, Zenon DEF CoreNotFound, QueueRests, CoreTalks, core_queue
<1>9. CASE CoreCloses
  BY <1>9, CoreRecords, Zenon DEF CoreCloses, QueueRests, core_queue
<1>10. CASE CorePauses \/ CoreBlocks \/ CoreWakes \/ CoreRetries
  <2>1. /\ UNCHANGED core \/ \E p : core' = At(p)
        /\ core.pc \in {"pause", "block", "asleep"}
        /\ UNCHANGED <<kernel, socket_fd, core_queue>>
        /\ core_asleep' = {} \/ (core_asleep' \subseteq core_asleep \cup {"worker"} /\ UNCHANGED changed)
    BY <1>10, Zenon DEF CorePauses, CoreBlocks, CoreWakes, CoreRetries, Notify
  <2>2. "main" \in core_asleep' => ~ changed'
    BY <2>1, Zenon
  <2>3. Fields(core', Inbound) /\ core'.fd \in {0, core.fd} /\ core'.pending \subseteq core.pending
    <3>1. CASE UNCHANGED core
      BY <3>1, Zenon
    <3>2. CASE \E p : core' = At(p)
      <4>1. PICK p : core' = At(p)
        BY <3>2, Zenon
      <4>2. Fields(core', Inbound) /\ core'.fd = 0 /\ core'.pending = {}
        BY <4>1, CoreRecords, Zenon
      <4> QED
        BY <4>2, Zenon
    <3> QED
      BY <2>1, <3>1, <3>2, Zenon
  <2> QED
    BY <2>1, <2>2, <2>3, Zenon DEF QueueRests, CoreIdles, core_queue
<1> QED
  BY <1>1, <1>2, <1>3, <1>4, <1>5, <1>6, <1>7, <1>8, <1>9, <1>10, Zenon DEF CoreStep, CoreRuns

(***************************************************************************)
(* The queue of transactions from Core.                                    *)
(***************************************************************************)
LEMMA QueueRest ==
    ASSUME QueueInv, QueueRests
    PROVE  QueueInv'
<1>1. core'.pending \in SUBSET core.pending /\ IsFiniteSet(core.pending) /\ MaxInflight \in Nat
  BY PeerConfig, Zenon DEF QueueInv, QueueRests
<1>2. /\ IsFiniteSet(core'.pending) /\ Cardinality(core'.pending) <= Cardinality(core.pending)
      /\ Cardinality(core.pending) \in Nat /\ Cardinality(core'.pending) \in Nat
  BY <1>1, FS_Subset, FS_CardinalityType, Zenon
<1> QED
  BY <1>1, <1>2 DEF QueueInv, QueueRests, core_queue

\* An announced transaction is asked for only while fewer than MaxInflight are in
\* flight (Connection, "inv").
LEMMA QueueInvStep ==
    ASSUME QueueInv, NEW t \in Tx, CoreInv(t)
    PROVE  QueueInv'
<1>1. PICK fresh \in SUBSET core.pending :
        core' = [core EXCEPT !.pc = "loop",
                             !.pending = IF Wants(t, fresh) THEN fresh \cup {t} ELSE fresh]
  BY Zenon DEF CoreInv
<1>2. Fields(core', Inbound) /\ core'.pending = IF Wants(t, fresh) THEN fresh \cup {t} ELSE fresh
  BY <1>1, Zenon DEF QueueInv, Fields, Inbound
<1>3. /\ IsFiniteSet(fresh) /\ Cardinality(fresh) <= Cardinality(core.pending)
      /\ Cardinality(core.pending) \in Nat /\ Cardinality(fresh) \in Nat
  BY FS_Subset, FS_CardinalityType, Zenon DEF QueueInv
<1>4. /\ IsFiniteSet(fresh \cup {t})
      /\ Cardinality(fresh \cup {t}) <= Cardinality(fresh) + 1
  BY <1>3, FS_AddElement, SMTT(30)
<1>5. IsFiniteSet(core'.pending) /\ Cardinality(core'.pending) <= MaxInflight
  BY <1>2, <1>3, <1>4, FS_CardinalityType, PeerConfig DEF Wants, QueueInv
<1> QED
  BY <1>2, <1>5, Zenon DEF QueueInv, CoreInv, Notify, core_queue

\* Transactions have a size.
LEMMA TxWeigh == Weighs(TxBytes, Tx)
  BY PeerConfig, Zenon DEF Weighs

\* A transaction is queued only when its bytes still fit (Connection, "tx").
LEMMA QueueTxStep ==
    ASSUME QueueInv, NEW t \in Tx, CoreTx(t)
    PROVE  QueueInv'
<1>1. Fields(core', Inbound) /\ core'.pending = core.pending \ {t}
  <2>1. core' = [core EXCEPT !.pc = "loop", !.pending = core.pending \ {t}]
    BY Zenon DEF CoreTx, QueueInv
  <2> QED
    BY <2>1, Zenon DEF QueueInv, Fields, Inbound
<1>2. CASE UNCHANGED <<core_queue, changed, core_asleep>>
  <2>1. QueueRests
    BY <1>1, <1>2, Zenon DEF QueueRests, QueueInv
  <2> QED
    BY <2>1, QueueRest, Zenon
<1>3. CASE t \in core.pending /\ Room(t) /\ t \notin queued /\ Enqueue(t) /\ Notify
  <2>1. queue \in Seq(Tx) /\ IsInjective(queue) /\ t \notin Range(queue)
    BY <1>3, Zenon DEF QueueInv
  <2>2. /\ queue' \in Seq(Tx) /\ IsInjective(queue') /\ Range(queue') = Range(queue) \cup {t}
    BY <1>3, <2>1, AppendList DEF Enqueue
  <2>3. /\ Weight(queue', TxBytes) = Weight(queue, TxBytes) + TxBytes[t]
        /\ Weight(queue, TxBytes) \in Nat /\ TxBytes[t] \in Nat
    BY <1>3, <2>1, TxWeigh, WeightAppend, Zenon DEF Enqueue
  <2>4. Len(queue') = Len(queue) + 1 /\ Len(queue) \in Nat
    BY <1>3, <2>1 DEF Enqueue
  <2>5. queue_bytes' <= MaxQueueBytes /\ Len(queue') <= MaxQueued
    BY <1>3, <2>3, <2>4, PeerConfig DEF Enqueue, Room, QueueInv
  <2>6. IsFiniteSet(core'.pending) /\ Cardinality(core'.pending) <= MaxInflight /\ core'.pending \subseteq Tx
    <3>1. core'.pending \in SUBSET core.pending
      BY <1>1, Zenon
    <3> QED
      BY <3>1, FS_Subset, FS_CardinalityType, PeerConfig DEF QueueInv
  <2> QED
    BY <1>1, <1>3, <2>2, <2>3, <2>5, <2>6, Zenon DEF QueueInv, Enqueue, Notify
<1> QED
  BY <1>2, <1>3, Zenon DEF CoreTx

\* Take moves what it returns out of the queue with its bytes.
LEMMA QueueTake ==
    ASSUME QueueInv, Take
    PROVE  QueueInv'
<1> DEFINE n == IF Len(queue) < TakeLimit THEN Len(queue) ELSE TakeLimit
           taken == SubSeq(queue, 1, n)
<1>1. queue \in Seq(Tx) /\ IsInjective(queue) /\ Len(queue) \in Nat
  BY DEF QueueInv
<1>2. n \in 0 .. Len(queue)
  BY <1>1, PeerConfig
<1>3. /\ queue' = SubSeq(queue, n + 1, Len(queue)) /\ queued' = queued \ Range(taken)
      /\ queue_bytes' = queue_bytes - Weight(taken, TxBytes)
      /\ UNCHANGED <<core, changed, core_asleep>>
  BY Zenon DEF Take, Dequeue
<1> HIDE DEF n
<1>4. /\ queue' \in Seq(Tx) /\ IsInjective(queue') /\ Range(queue') = Range(queue) \ Range(taken)
      /\ Len(queue') = Len(queue) - n /\ taken \in Seq(Tx)
  BY <1>1, <1>2, <1>3, RestList
<1>5. /\ Weight(queue, TxBytes) = Weight(taken, TxBytes) + Weight(queue', TxBytes)
      /\ Weight(taken, TxBytes) \in Nat /\ Weight(queue', TxBytes) \in Nat
  BY <1>1, <1>2, <1>3, <1>4, TxWeigh, WeightSplit, WeightNat, Zenon
<1>6. queue_bytes' = Weight(queue', TxBytes) /\ queue_bytes' <= MaxQueueBytes /\ Len(queue') <= MaxQueued
  BY <1>1, <1>2, <1>3, <1>4, <1>5, PeerConfig, SMTT(30) DEF QueueInv
<1> QED
  BY <1>3, <1>4, <1>6, Zenon DEF QueueInv

(***************************************************************************)
(* What the steps of a thread leave alone.                                 *)
(***************************************************************************)
LEMMA AcceptorFrame ==
    ASSUME AcceptorStep
    PROVE  AcceptQuiet
  BY Zenon DEF AcceptorStep, AcceptorRuns, AcceptTop, AcceptEnds, Accept, AcceptLocks, ReapFinishedClients,
               Reject, Register, RegisterFails, AcceptThrows, AcceptStops

\* A client thread leaves the archive, the acceptor, the gossip thread and Core alone.
LEMMA ClientFrame ==
    ASSUME NEW w, ClientStep(w)
    PROVE  ClientQuiet
  BY Zenon DEF ClientStep, ClientRuns, Loop, ReadInterrupted, Handshake, GetUProof, GetCFilters, ClientFails,
               Find, ReadIndex, PairState, WaitFor, WaitTimesOut, Send, ReadHash, ReadState, SendStates,
               Unlist, RemoveCloses, Uncount, ClientEnds, ClientLocal

\* The gossip thread leaves everything but its socket alone.
LEMMA GossipFrame ==
    ASSUME GossipStep
    PROVE  GossipQuiet
  BY Zenon DEF GossipStep, GossipRuns, GossipTop, GossipSocket, GossipNoSocket, GossipStores, GossipChecks,
               GossipExchanged, GossipInterrupted, GossipCloses, GossipPauses, GossipRetries

\* Which steps there are, for an invariant of the Core connection.
LEMMA CoreUntouched ==
    ASSUME Next
    PROVE  \/ UNCHANGED corev \/ CoreThread(CoreStep(scope.fds)) \/ TakeFromCore \/ WaitForCore \/ StopsCore
<1>1. CASE AcceptorStep
  BY <1>1, AcceptorFrame, Zenon DEF AcceptQuiet
<1>2. CASE \E w \in Worker : ClientStep(w)
  BY <1>2, ClientFrame, Zenon DEF ClientQuiet
<1>3. CASE GossipStep
  BY <1>3, GossipFrame, Zenon DEF GossipQuiet
<1>4. CASE MainStep
  BY <1>4, Zenon DEF MainStep, MainStops, Connect, PublishBlock, Reorganize, Discard, StopBegins, StopWakes,
                     StopInterrupts, StopJoinsThreads, StopShutsDown, StopJoinsWorkers, Stopped, MainQuiet, vars
<1> QED
  BY <1>1, <1>2, <1>3, <1>4, Zenon DEF Next

\* Every step of the program preserves the invariant of the queue from Core.
LEMMA QueueStep ==
    ASSUME QueueInv, [Next]_vars
    PROVE  QueueInv'
<1>1. ASSUME UNCHANGED <<core, changed, core_queue, core_asleep>> PROVE QueueInv'
  BY <1>1, Zenon DEF QueueInv, core_queue
<1>2. CASE UNCHANGED corev \/ UNCHANGED vars
  BY <1>1, <1>2, Zenon DEF corev, vars
<1>3. CASE CoreThread(CoreStep(scope.fds))
  <2>1. CoreStep(scope.fds)
    BY <1>3, Zenon DEF CoreThread
  <2>2. QueueRests \/ \E t \in Tx : CoreInv(t) \/ CoreTx(t)
    BY <2>1, CoreCases, Zenon DEF QueueInv
  <2> QED
    BY <2>2, QueueRest, QueueInvStep, QueueTxStep, Zenon
<1>4. CASE TakeFromCore
  BY <1>4, QueueTake, Zenon DEF TakeFromCore
<1>5. CASE WaitForCore \/ StopsCore
  <2>1. /\ UNCHANGED core_queue /\ UNCHANGED core
        /\ "main" \in core_asleep' => ~ changed'
    BY <1>5, <1>1 DEF WaitForCore, WaitSleeps, WaitReturns, WaitExpires, StopsCore, CoreSetStopping,
                 CoreInterrupts, CoreNotifies, corev, QueueInv
  <2> QED
    BY <2>1, Zenon DEF QueueInv, core_queue
<1> QED
  BY <1>2, <1>3, <1>4, <1>5, CoreUntouched, Zenon

\* The queue from Core starts empty.
LEMMA QueueInit ==
    ASSUME Init
    PROVE  QueueInv
<1>1. Fields(core, Inbound) /\ core.pending = {}
  BY CoreRecords, Zenon DEF Init, CoreInit
<1>2. /\ queue = <<>> /\ queued = {} /\ queue_bytes = 0 /\ core_asleep = {}
  BY Zenon DEF Init, CoreInit
<1>3. /\ queue \in Seq(Tx) /\ Len(queue) = 0 /\ IsInjective(queue) /\ Range(queue) = {}
  BY <1>2 DEF IsInjective, Range
<1>4. Weight(queue, TxBytes) = 0
  BY <1>3, TxWeigh, WeightNat, Zenon
<1> QED
  BY <1>1, <1>2, <1>3, <1>4, FS_EmptySet, PeerConfig DEF QueueInv

\* The queue between the Core connection and the relay is consistent, for any limits
\* and sizes: the set of queued ids and the byte count are those of the queue, both
\* limits and the limit on requests in flight hold, and Wait sleeps only when nothing
\* has changed (Connection, Take, Wait).
THEOREM CoreQueueIsExact == Spec => []CoreQueueExact
<1>1. Init => QueueInv
  BY QueueInit, Zenon
<1>2. QueueInv /\ [Next]_vars => QueueInv'
  BY QueueStep, Zenon
<1>3. QueueInv => CoreQueueExact
  BY ListCount, Zenon DEF QueueInv, CoreQueueExact
<1> QED
  BY <1>1, <1>2, <1>3, PTL DEF Spec

(***************************************************************************)
(* The cache of recent proofs.                                             *)
(***************************************************************************)
LEMMA ProofsWeigh == Weighs(Bytes, Block)
<1>1. ASSUME NEW b \in Block PROVE Bytes[b] \in Nat
  <2>1. Len(b) \in 1 .. Len(b) /\ b[Len(b)] \in Label
    BY DEF Block
  <2> QED
    BY <2>1, CacheLimits, Zenon DEF Bytes
<1> QED
  BY <1>1, Zenon DEF Weighs

\* An ancestor of the tip stays one when the chain grows, and when it is cut above it.
LEMMA PrefixGrows ==
    ASSUME NEW p \in Seq(Label), NEW q \in Seq(Label), NEW l \in Label, IsPrefix(p, q)
    PROVE  IsPrefix(p, Append(q, l))
  BY DEF IsPrefix
\* A rollback keeps the ancestors that are not above the new tip.
LEMMA PrefixCut ==
    ASSUME NEW p \in Seq(Label), NEW q \in Seq(Label), NEW h \in 0 .. Len(q), IsPrefix(p, q), Len(p) <= h
    PROVE  IsPrefix(p, SubSeq(q, 1, h))
  BY DEF IsPrefix

\* What is erased from the list when a block is published again weighs what the cache
\* subtracts: that block's proof, once.
LEMMA PublishedWeight ==
    ASSUME CacheInv, NEW b \in Block
    PROVE  LET ord == Requeued(b) IN
           /\ ord \in Seq(Block) /\ IsInjective(ord) /\ Range(ord) = entries \cup {b}
           /\ Recounted(b) = Weight(ord, Bytes)
<1> DEFINE T == {b} \cap Range(order)
           K == Kept(order, T)
           rest == Kept(order, Range(order) \ {b})
           ord == Requeued(b)
<1>1. /\ order \in Seq(Block) /\ IsInjective(order) /\ entries = Range(order)
      /\ bytes = Weight(order, Bytes)
  BY Zenon DEF CacheInv
<1>2. rest \in Seq(Block) /\ IsInjective(rest) /\ Range(rest) = Range(order) \ {b}
  BY <1>1, EraseList, Zenon
<1>3. K \in Seq(Block) /\ IsInjective(K) /\ Range(K) = T
  BY <1>1, EraseList, Zenon
<1>4. ord = Append(rest, b)
  BY Zenon DEF Requeued
<1>5. ord \in Seq(Block) /\ IsInjective(ord) /\ Range(ord) = entries \cup {b}
  <2> HIDE DEF rest, ord
  <2>1. b \notin Range(rest) /\ Range(rest) \cup {b} = entries \cup {b}
    BY <1>1, <1>2, Zenon
  <2> QED
    BY <1>2, <1>4, <2>1, AppendList
<1>6. Weight(ord, Bytes) = Weight(rest, Bytes) + Bytes[b] /\ Weight(rest, Bytes) \in Nat /\ Bytes[b] \in Nat
  <2> HIDE DEF rest, ord
  <2> QED
    BY <1>2, <1>4, ProofsWeigh, WeightAppend
<1>7. Weight(order, Bytes) = Weight(rest, Bytes) + Weight(K, Bytes)
  <2>1. \A x \in Range(order) : x \in T <=> x \notin Range(order) \ {b}
    BY Zenon
  <2> HIDE DEF T
  <2> QED
    BY <1>1, <2>1, ProofsWeigh, KeptWeight, Zenon
<1>8. Weight(K, Bytes) = IF b \in entries THEN Bytes[b] ELSE 0
  <2>1. Cardinality(T) = Len(K)
    BY <1>3, ListCount, Zenon
  <2>2. CASE b \in entries
    <3>0. T = {b} /\ Cardinality({b}) = 1
      BY <1>1, <2>2, FS_Singleton, Zenon
    <3>1. T = {b} /\ Len(K) = 1
      <4> HIDE DEF T, K
      <4> QED
        BY <2>1, <3>0, Zenon
    <3>2. K[1] = b
      <4> HIDE DEF T, K
      <4> QED
        BY <1>3, <3>1 DEF Range
    <3>3. Weight(K, Bytes) = SumOf(K, Bytes)[1] /\ SumsUp(SumOf(K, Bytes), K, Bytes)
      BY <1>3, <3>1, ProofsWeigh, WeightSteps, Zenon
    <3>4. Weight(K, Bytes) = Bytes[b]
      <4> HIDE DEF K
      <4> QED
        BY <1>6, <3>1, <3>2, <3>3 DEF SumsUp
    <3> QED
      BY <2>2, <3>4, Zenon
  <2>3. CASE b \notin entries
    <3>1. T = {} /\ Len(K) = 0
      BY <1>1, <2>1, <2>3, FS_EmptySet, Zenon
    <3> QED
      BY <1>3, <2>3, <3>1, ProofsWeigh, WeightNat, Zenon
  <2> QED
    BY <2>2, <2>3, Zenon
<1>9. Recounted(b) = Weight(ord, Bytes)
  <2> HIDE DEF rest, ord, K
  <2> QED
    BY <1>1, <1>6, <1>7, <1>8 DEF Recounted
<1> QED
  BY <1>5, <1>9, Zenon

\* Publish keeps the newest proofs that fit into both limits.
LEMMA CachePublish ==
    ASSUME CacheInv, PublishBlock
    PROVE  CacheInv'
<1>1. /\ chain \in Block /\ chain \in Seq(Label) /\ main = "publish" /\ main' = "run"
      /\ chain' = chain /\ scope' = scope /\ scope \in Scope
      /\ \A b \in entries : IsPrefix(b, chain) /\ Len(b) <= Len(chain)
  BY Zenon DEF PublishBlock, chainv, MainQuiet, CacheInv, Block
<1>2. CASE UNCHANGED <<order, entries, bytes>>
  BY <1>1, <1>2, Zenon DEF CacheInv
<1>3. CASE Trim(Requeued(chain), entries \cup {chain}, Recounted(chain))
  <2> DEFINE ord == Requeued(chain)
  <2>1. /\ ord \in Seq(Block) /\ IsInjective(ord) /\ Range(ord) = entries \cup {chain}
        /\ Recounted(chain) = Weight(ord, Bytes)
    BY <1>1, PublishedWeight, Zenon
  <2> HIDE DEF ord
  <2>2. PICK k \in 0 .. Len(ord) :
          LET left == Popped(ord, Range(ord), Weight(ord, Bytes), k) IN
          Fits(left) /\ order' = left.order /\ entries' = left.entries /\ bytes' = left.bytes
    BY <1>3, <2>1, Zenon DEF Trim, ord
  <2> DEFINE p == SubSeq(ord, 1, k)
  <2>3. /\ order' = SubSeq(ord, k + 1, Len(ord)) /\ entries' = Range(ord) \ Range(p)
        /\ bytes' = Weight(ord, Bytes) - Weight(p, Bytes)
    BY <2>2, Zenon DEF Popped
  <2>4. /\ p \in Seq(Block) /\ order' \in Seq(Block) /\ IsInjective(order')
        /\ Range(order') = Range(ord) \ Range(p)
    BY <2>1, <2>3, RestList
  <2>5. /\ Weight(ord, Bytes) = Weight(p, Bytes) + Weight(order', Bytes)
        /\ Weight(p, Bytes) \in Nat /\ Weight(order', Bytes) \in Nat
    BY <2>1, <2>3, <2>4, ProofsWeigh, WeightSplit, WeightNat, Zenon
  <2>6. bytes' = Weight(order', Bytes) /\ bytes' \in Nat
    <3> HIDE DEF p
    <3> QED
      BY <2>3, <2>5
  <2>7. bytes' <= MaxCacheBytes /\ Len(order') <= MaxBlocks
    <3>1. CASE order' = <<>>
      <4>1. Len(order') = 0 /\ Weight(order', Bytes) = 0
        BY <2>4, <3>1, ProofsWeigh, WeightNat, Zenon
      <4> QED
        BY <2>6, <4>1, CacheLimits
    <3>2. CASE Cardinality(entries') <= MaxBlocks /\ bytes' <= MaxCacheBytes
      <4>1. Cardinality(entries') = Len(order')
        BY <2>3, <2>4, ListCount, Zenon
      <4> QED
        BY <3>2, <4>1, Zenon
    <3> QED
      BY <2>2, <3>1, <3>2, Zenon DEF Fits
  <2>8. \A b \in entries' : IsPrefix(b, chain) /\ Len(b) <= Len(chain)
    <3>1. IsPrefix(chain, chain) /\ Len(chain) <= Len(chain)
      BY <1>1 DEF IsPrefix
    <3> QED
      BY <1>1, <2>1, <2>3, <3>1, Zenon
  <2> QED
    BY <1>1, <2>3, <2>4, <2>6, <2>7, <2>8, Zenon DEF CacheInv
<1> QED
  BY <1>2, <1>3, Zenon DEF PublishBlock, Publish

\* DiscardAfter withdraws what is above the archive's tip, and subtracts its bytes.
LEMMA CacheDiscard ==
    ASSUME CacheInv, Discard
    PROVE  CacheInv'
<1> DEFINE late == {b \in entries : Height(b) > Len(chain)}
           rest == Range(order) \ late
<1>1. /\ order \in Seq(Block) /\ IsInjective(order) /\ entries = Range(order)
      /\ bytes = Weight(order, Bytes) /\ bytes <= MaxCacheBytes /\ Len(order) <= MaxBlocks
      /\ scope \in Scope /\ chain \in Seq(Label)
  BY Zenon DEF CacheInv
<1>2. /\ entries' = entries \ late /\ order' = Kept(order, rest)
      /\ bytes' = bytes - Weight(Kept(order, late), Bytes)
      /\ main' = "run" /\ chain' = chain /\ scope' = scope
  BY Zenon DEF Discard, DiscardAfter, Erase, chainv, MainQuiet
<1>3. \A b \in entries \ late : Len(b) <= Len(chain) /\ IsPrefix(b, chain)
  <2>1. ASSUME NEW b \in entries \ late PROVE Len(b) <= Len(chain)
    <3>1. Len(b) \in Nat /\ Len(chain) \in Nat /\ ~(Len(b) > Len(chain))
      BY <1>1 DEF Range, Block, Height
    <3> QED
      BY <3>1
  <2> QED
    BY <2>1, Zenon DEF CacheInv
<1>4. late \subseteq Range(order) /\ rest \subseteq Range(order)
      /\ (\A x \in Range(order) : x \in late <=> x \notin rest)
  BY <1>1, Zenon
<1> HIDE DEF late
<1>5. /\ order' \in Seq(Block) /\ IsInjective(order') /\ Range(order') = rest
      /\ Kept(order, late) \in Seq(Block)
  BY <1>1, <1>2, <1>4, EraseList, Zenon
<1>6. Len(order') <= Len(order) /\ Len(order') \in Nat /\ Len(order) \in Nat
  BY <1>1, <1>2, <1>5, KeptEmbeds
<1>7. Weight(order, Bytes) = Weight(order', Bytes) + Weight(Kept(order, late), Bytes)
  BY <1>1, <1>2, <1>4, ProofsWeigh, KeptWeight, Zenon
<1>8. Weight(order', Bytes) \in Nat /\ Weight(Kept(order, late), Bytes) \in Nat
  BY <1>5, ProofsWeigh, WeightNat, Zenon
<1>9. bytes' = Weight(order', Bytes) /\ bytes' <= MaxCacheBytes /\ Len(order') <= MaxBlocks
  <2> HIDE DEF rest
  <2> QED
    BY <1>1, <1>2, <1>6, <1>7, <1>8, CacheLimits, SMTT(30)
<1>10. entries' = Range(order')
  BY <1>1, <1>2, <1>5, Zenon
<1> QED
  BY <1>1, <1>2, <1>3, <1>5, <1>9, <1>10, Zenon DEF CacheInv

\* The archive grows, or is truncated, before the cache follows.
LEMMA CacheWaits ==
    ASSUME CacheInv, Connect \/ Reorganize
    PROVE  CacheInv'
<1>1. /\ order \in Seq(Block) /\ entries = Range(order) /\ chain \in Seq(Label)
      /\ main = "run" /\ \A b \in entries : Len(b) <= Len(chain) /\ IsPrefix(b, chain)
      /\ UNCHANGED <<order, entries, bytes, scope>>
  BY Zenon DEF CacheInv, Connect, Reorganize, MainQuiet, proofs
<1>2. \A b \in entries : b \in Seq(Label) /\ Len(b) \in Nat
  BY <1>1 DEF Block, Range
<1>3. CASE Connect
  <2>1. PICK l \in Label : chain' = Append(chain, l)
    BY <1>3, ScopeConfig, Zenon DEF Connect, CacheInv
  <2>2. \A b \in entries : Len(b) <= Len(chain') /\ IsPrefix(b, chain')
    <3>1. Len(chain') = Len(chain) + 1 /\ Len(chain) \in Nat
      BY <1>1, <2>1
    <3>2. \A b \in entries : IsPrefix(b, chain')
      BY <1>1, <1>2, <2>1, PrefixGrows, Zenon
    <3> QED
      BY <1>1, <1>2, <3>1, <3>2
  <2>3. chain' \in Seq(Label) /\ chain' # <<>>
    BY <1>1, <2>1
  <2> QED
    BY <1>1, <2>2, <2>3, Zenon DEF CacheInv
<1>4. CASE Reorganize
  <2>1. PICK h \in 0 .. Len(chain) - 1 : chain' = SubSeq(chain, 1, h)
    BY <1>4, Zenon DEF Reorganize
  <2>2. chain' \in Seq(Label) /\ Len(chain') = h /\ main' = "discard" /\ h \in 0 .. Len(chain)
    BY <1>1, <1>4, <2>1 DEF Reorganize
  <2>3. \A b \in entries : Len(b) <= h => IsPrefix(b, chain')
    BY <1>1, <1>2, <2>1, <2>2, PrefixCut, Zenon
  <2> QED
    BY <1>1, <2>2, <2>3, Zenon DEF CacheInv
<1> QED
  BY <1>3, <1>4, Zenon

\* Every step of the program preserves the invariant of the cache.
LEMMA CacheStep ==
    ASSUME CacheInv, [Next]_vars
    PROVE  CacheInv'
<1>1. ASSUME UNCHANGED <<order, entries, bytes, scope, chain>>, main' = main \/ main' \notin {"publish", "discard"},
             main # "discard" \/ main' = "discard"
      PROVE  CacheInv'
  BY <1>1, Zenon DEF CacheInv
<1>2. CASE UNCHANGED <<proofs, scope, chainv, main>> \/ UNCHANGED vars
  BY <1>1, <1>2, Zenon DEF proofs, chainv, vars
<1>3. CASE AcceptorStep
  BY <1>2, <1>3, AcceptorFrame, Zenon DEF AcceptQuiet
<1>4. CASE \E w \in Worker : ClientStep(w)
  BY <1>2, <1>4, ClientFrame, Zenon DEF ClientQuiet
<1>5. CASE GossipStep
  BY <1>2, <1>5, GossipFrame, Zenon DEF GossipQuiet
<1>6. CASE CoreThread(CoreStep(scope.fds))
  BY <1>2, <1>6, Zenon DEF CoreThread, ServerQuiet
<1>7. CASE Connect \/ Reorganize \/ PublishBlock \/ Discard
  BY <1>7, CacheWaits, CachePublish, CacheDiscard, Zenon
<1>8. CASE TakeFromCore \/ WaitForCore \/ StopBegins \/ MainStops \/ Stopped
  <2>1. UNCHANGED <<proofs, scope, chainv>>
    BY <1>8, Zenon DEF TakeFromCore, WaitForCore, ServerQuiet, StopBegins, MainStops, Stopped, StopWakes,
                       StopInterrupts, StopJoinsThreads, StopShutsDown, StopJoinsWorkers, StopsCore, MainQuiet, vars
  <2>2. main' = main \/ (main # "discard" /\ main' \notin {"publish", "discard"})
    BY <1>8, Zenon DEF TakeFromCore, WaitForCore, ServerQuiet, StopBegins, MainStops, Stopped, StopWakes,
                StopInterrupts, StopJoinsThreads, StopShutsDown, StopJoinsWorkers, StopsCore, vars
  <2> QED
    BY <1>1, <2>1, <2>2, Zenon DEF proofs, chainv
<1> QED
  BY <1>2, <1>3, <1>4, <1>5, <1>6, <1>7, <1>8, Zenon DEF Next, MainStep

\* The cache starts empty.
LEMMA CacheInitial ==
    ASSUME Init
    PROVE  CacheInv
<1>1. /\ order = <<>> /\ entries = {} /\ bytes = 0 /\ scope \in Scope /\ chain = <<>> /\ main = "run"
  BY Zenon DEF Init, CacheInit
<1>2. order \in Seq(Block) /\ Len(order) = 0 /\ IsInjective(order) /\ Range(order) = {} /\ chain \in Seq(Label)
  BY <1>1 DEF IsInjective, Range
<1>3. Weight(order, Bytes) = 0
  BY <1>2, ProofsWeigh, WeightNat, Zenon
<1> QED
  BY <1>1, <1>2, <1>3, CacheLimits, SMTT(30) DEF CacheInv

\* The cache never offers a withdrawn branch: outside a rollback every cached proof is
\* of a block of the archive's chain; the order list, the map and the byte count agree,
\* and both limits hold (Publish, DiscardAfter).
THEOREM CacheIsOnChain == Spec => []CacheOnChain
<1>1. Init => CacheInv
  BY CacheInitial, Zenon
<1>2. CacheInv /\ [Next]_vars => CacheInv'
  BY CacheStep, Zenon
<1>3. CacheInv => CacheOnChain
  BY ListCount, Zenon DEF CacheInv, CacheOnChain
<1> QED
  BY <1>1, <1>2, <1>3, PTL DEF Spec

(***************************************************************************)
(* The client threads while they serve their connection.                   *)
(***************************************************************************)
Slot(r) == IF r.slot THEN 1 ELSE 0

\* The thread of a connection goes on serving it as q, and takes or gives back a
\* proof-work slot as q says.
ServesOn(r, q) ==
    /\ Fields(q, Client) /\ q.fd = r.fd /\ q.ip = r.ip
    /\ q.pc \in Serving /\ q.slot \in BOOLEAN /\ (q.slot <=> q.pc \in Working)
    /\ Answers(q)
Serves(w, q) ==
    /\ worker[w].pc \in Serving /\ Becomes(w, q) /\ ServesOn(worker[w], q)
    /\ active_proof_requests' = active_proof_requests + Slot(q) - Slot(worker[w])
    /\ Slot(q) > Slot(worker[w]) => SlotFree
    /\ waiting' \subseteq waiting \ {w} /\ ClientLocal

\* A request that is over, and a connection that is given up, release the slot.
LEMMA RequestOver ==
    ASSUME WorkerType, active_proof_requests \in Int, NEW w \in Worker, NEW pc \in {"remove", "loop"},
           worker[w].pc \in Serving, Becomes(w, Cleared(w, pc)), Releases(w),
           waiting' \subseteq waiting \ {w}, ClientLocal
    PROVE  \E q : Serves(w, q)
<1> DEFINE q == Cleared(w, pc)
<1>1. Fields(q, Client) /\ q.pc = pc /\ q.fd = worker[w].fd /\ q.ip = worker[w].ip /\ q.slot = FALSE
  BY Zenon DEF Cleared, Idle, Fields, Client
<1> HIDE DEF q
<1>2. ServesOn(worker[w], q)
  BY <1>1, Zenon DEF ServesOn, Serving, Working, Answers
<1>3. active_proof_requests' = active_proof_requests + Slot(q) - Slot(worker[w]) /\ ~(Slot(q) > Slot(worker[w]))
  BY <1>1 DEF Releases, Slot
<1>4. Serves(w, q)
  BY <1>2, <1>3, Zenon DEF Serves, q
<1> QED
  BY <1>4, Zenon

\* A step to another point of the loop without touching the slot.
LEMMA PointMoves ==
    ASSUME WorkerType, active_proof_requests \in Int, NEW w \in Worker, NEW q,
           worker[w].pc \in Serving, Becomes(w, q), Fields(q, Client),
           q.fd = worker[w].fd, q.ip = worker[w].ip, q.slot = worker[w].slot, q.pc \in Serving,
           q.pc \in Working <=> worker[w].pc \in Working, Answers(q),
           UNCHANGED active_proof_requests, waiting' \subseteq waiting \ {w}, ClientLocal
    PROVE  Serves(w, q)
<1>1. q.slot \in BOOLEAN /\ (q.slot <=> q.pc \in Working)
  BY Zenon DEF WorkerType
<1>2. Slot(q) = Slot(worker[w]) /\ Slot(q) \in Int
  BY DEF Slot
<1>3. active_proof_requests' = active_proof_requests + Slot(q) - Slot(worker[w]) /\ ~(Slot(q) > Slot(worker[w]))
  BY <1>2
<1> QED
  BY <1>1, <1>3, Zenon DEF Serves, ServesOn

\* A step that takes a slot.
LEMMA SlotTaken ==
    ASSUME WorkerType, active_proof_requests \in Int, NEW w \in Worker, NEW q,
           worker[w].pc \in Serving \ Working, Becomes(w, q), Fields(q, Client),
           q.fd = worker[w].fd, q.ip = worker[w].ip, q.slot = TRUE, q.pc \in Working, Answers(q),
           SlotFree, Acquires, waiting' \subseteq waiting \ {w}, ClientLocal
    PROVE  Serves(w, q)
<1>1. worker[w].slot = FALSE /\ worker[w].pc \in Serving
  BY Zenon DEF WorkerType
<1>2. active_proof_requests' = active_proof_requests + Slot(q) - Slot(worker[w])
  BY <1>1 DEF Slot, Acquires
<1>3. q.pc \in Serving /\ q.slot \in BOOLEAN
  BY Zenon DEF Serving
<1> QED
  BY <1>1, <1>2, <1>3, Zenon DEF Serves, ServesOn

\* Every step of ClientLoop between the start of the thread and RemoveClient, with
\* every early return, is one of these; the answer it prepares is the requested
\* block's, with the parent's state only if the archive still has it.
LEMMA ServingSteps ==
    ASSUME WorkerType, active_proof_requests \in Int, NEW w \in Worker,
           \/ Loop(w) \/ ReadInterrupted(w) \/ Find(w) \/ ReadIndex(w) \/ PairState(w) \/ Send(w)
           \/ ReadHash(w) \/ ReadState(w) \/ SendStates(w) \/ Handshake(w) \/ GetUProof(w)
           \/ GetCFilters(w) \/ ClientFails(w)
    PROVE  \E q : Serves(w, q)
<1> DEFINE r == worker[w]
<1>1. /\ Fields(r, Client) /\ Answers(r) /\ ClientLocal
      /\ r.pc \in (Serving \ {"wait", "remove"})
  BY Zenon DEF WorkerType, Loop, ReadInterrupted, Find, ReadIndex, PairState, Send, ReadHash, ReadState, SendStates,
         Handshake, GetUProof, GetCFilters, ClientFails, Received, Serving, Working
<1>2. waiting' \subseteq waiting \ {w} /\ r.pc \in Serving
  <2>1. UNCHANGED waiting
    BY Zenon DEF Loop, ReadInterrupted, Find, ReadIndex, PairState, Send, ReadHash, ReadState, SendStates,
                 Handshake, GetUProof, GetCFilters, ClientFails
  <2> QED
    BY <1>1, <2>1, Zenon DEF WorkerType
<1>3. ASSUME Disconnects(w) \/ Answered(w) PROVE \E q : Serves(w, q)
  BY <1>1, <1>2, <1>3, RequestOver, Zenon DEF Disconnects, Answered
<1>4. ASSUME NEW q, Becomes(w, q), UNCHANGED active_proof_requests, Fields(q, Client),
             q.fd = r.fd, q.ip = r.ip, q.slot = r.slot, q.pc \in Serving,
             q.pc \in Working <=> r.pc \in Working, Answers(q)
      PROVE  \E x : Serves(w, x)
  BY <1>1, <1>2, <1>4, PointMoves, Zenon
<1>5. ASSUME NEW q, Becomes(w, q), Acquires, SlotFree, Fields(q, Client), q.fd = r.fd, q.ip = r.ip,
             q.slot = TRUE, r.pc \in Serving \ Working, q.pc \in Working, Answers(q)
      PROVE  \E x : Serves(w, x)
  BY <1>1, <1>2, <1>5, SlotTaken, Zenon
<1>6. CASE Loop(w)
  <2> DEFINE q == [r EXCEPT !.pc = "receive"]
  <2>1. CASE Becomes(w, q) /\ UNCHANGED active_proof_requests /\ r.pc = "loop"
    <3>1. Fields(q, Client) /\ q.fd = r.fd /\ q.ip = r.ip /\ q.slot = r.slot /\ q.pc = "receive"
      BY <1>1, Zenon DEF Fields, Client
    <3> HIDE DEF q
    <3> QED
      BY <1>4, <2>1, <3>1, Zenon DEF Serving, Working, Answers
  <2> QED
    BY <1>3, <1>6, <2>1, Zenon DEF Loop
<1>7. CASE ReadInterrupted(w) \/ ClientFails(w) \/ Send(w) \/ SendStates(w)
  BY <1>3, <1>7, Zenon DEF ReadInterrupted, ClientFails, Send, SendStates
<1>8. CASE Handshake(w)
  <2> DEFINE q == [r EXCEPT !.pc = "loop", !.hand = IF @ = "new" THEN "version" ELSE "ready"]
  <2>1. Fields(q, Client) /\ q.fd = r.fd /\ q.ip = r.ip /\ q.slot = r.slot /\ q.pc = "loop"
    BY <1>1, Zenon DEF Fields, Client
  <2>2. Becomes(w, q) /\ UNCHANGED active_proof_requests /\ r.pc = "receive"
    BY <1>8, Zenon DEF Handshake, Received
  <2> HIDE DEF q
  <2> QED
    BY <1>4, <2>1, <2>2, Zenon DEF Serving, Working, Answers
<1>9. CASE GetUProof(w)
  <2>1. PICK b : Becomes(w, [r EXCEPT !.pc = "find", !.block = b])
    BY <1>9, Zenon DEF GetUProof
  <2> DEFINE q == [r EXCEPT !.pc = "find", !.block = b]
  <2>2. Fields(q, Client) /\ q.fd = r.fd /\ q.ip = r.ip /\ q.slot = r.slot /\ q.pc = "find"
    BY <1>1, Zenon DEF Fields, Client
  <2>3. Becomes(w, q) /\ UNCHANGED active_proof_requests /\ r.pc = "receive"
    BY <1>9, <2>1, Zenon DEF GetUProof, Received
  <2> HIDE DEF q
  <2> QED
    BY <1>4, <2>2, <2>3, Zenon DEF Serving, Working, Answers
<1>10. CASE GetCFilters(w)
  <2>1. CASE SlotFree
    <3>1. PICK b, h : Becomes(w, [r EXCEPT !.pc = "hashes", !.slot = TRUE, !.block = b, !.start = h])
      BY <1>10, <2>1, Zenon DEF GetCFilters
    <3> DEFINE q == [r EXCEPT !.pc = "hashes", !.slot = TRUE, !.block = b, !.start = h]
    <3>2. Fields(q, Client) /\ q.fd = r.fd /\ q.ip = r.ip /\ q.slot = TRUE /\ q.pc = "hashes"
      BY <1>1, Zenon DEF Fields, Client
    <3>3. Becomes(w, q) /\ Acquires /\ r.pc = "receive"
      BY <1>10, <2>1, <3>1, Zenon DEF GetCFilters, Received
    <3> HIDE DEF q
    <3> QED
      BY <1>5, <2>1, <3>2, <3>3, Zenon DEF Serving, Working, Answers
  <2> QED
    BY <1>3, <1>10, <2>1, Zenon DEF GetCFilters
<1>11. CASE Find(w)
  <2> DEFINE b == r.block
             hit == [r EXCEPT !.pc = "send", !.slot = TRUE, !.proof = ProofOf(b, Parent(b))]
             miss == [r EXCEPT !.pc = "read", !.slot = TRUE]
  <2>1. /\ Fields(hit, Client) /\ hit.fd = r.fd /\ hit.ip = r.ip /\ hit.slot = TRUE /\ hit.pc = "send"
        /\ hit.proof = ProofOf(b, Parent(b)) /\ hit.block = b
    BY <1>1, Zenon DEF Fields, Client
  <2>2. Fields(miss, Client) /\ miss.fd = r.fd /\ miss.ip = r.ip /\ miss.slot = TRUE /\ miss.pc = "read"
    BY <1>1, Zenon DEF Fields, Client
  <2>3. /\ r.pc = "find"
        /\ Disconnects(w) \/ (SlotFree /\ Acquires /\ (Becomes(w, hit) \/ Becomes(w, miss)))
    BY <1>11, Zenon DEF Find
  <2> HIDE DEF hit, miss
  <2>4. Answers(hit) /\ Answers(miss)
    BY <2>1, <2>2, Zenon DEF Answers
  <2> QED
    BY <1>3, <1>5, <2>1, <2>2, <2>3, <2>4, Zenon DEF Serving, Working
<1>12. CASE ReadIndex(w)
  <2> DEFINE b == r.block
             found == [r EXCEPT !.pc = "pair", !.proof = ProofOf(b, NONE)]
             not == [r EXCEPT !.pc = "wait", !.slot = FALSE]
  <2>1. /\ Fields(found, Client) /\ found.fd = r.fd /\ found.ip = r.ip /\ found.slot = r.slot
        /\ found.pc = "pair" /\ found.proof = ProofOf(b, NONE) /\ found.block = b
    BY <1>1, Zenon DEF Fields, Client
  <2>2. Fields(not, Client) /\ not.fd = r.fd /\ not.ip = r.ip /\ not.slot = FALSE /\ not.pc = "wait"
    BY <1>1, Zenon DEF Fields, Client
  <2>3. /\ r.pc \in {"read", "again"}
        /\ \/ Disconnects(w) \/ (Becomes(w, found) /\ UNCHANGED active_proof_requests)
           \/ (Becomes(w, not) /\ Releases(w))
    BY <1>12, Zenon DEF ReadIndex
  <2> HIDE DEF found, not
  <2>4. Answers(found) /\ Answers(not)
    BY <2>1, <2>2, Zenon DEF Answers
  <2>5. CASE Becomes(w, found) /\ UNCHANGED active_proof_requests
    BY <1>4, <2>1, <2>3, <2>4, <2>5, Zenon DEF Serving, Working
  <2>6. CASE Becomes(w, not) /\ Releases(w)
    <3>1. active_proof_requests' = active_proof_requests + Slot(not) - Slot(r) /\ ~(Slot(not) > Slot(r))
      BY <2>2, <2>6, SMTT(30) DEF Releases, Slot
    <3>2. ServesOn(r, not)
      BY <2>2, <2>4, Zenon DEF ServesOn, Serving, Working
    <3> QED
      BY <1>1, <1>2, <2>6, <3>1, <3>2, Zenon DEF Serves
  <2> QED
    BY <1>3, <2>3, <2>5, <2>6, Zenon
<1>13. CASE PairState(w)
  <2> DEFINE b == r.block
             bare == [r EXCEPT !.pc = "send"]
             full == [r EXCEPT !.pc = "send", !.proof.before = Parent(b)]
  <2>0. r.pc = "pair" /\ r.proof = ProofOf(b, NONE)
    BY <1>1, <1>13, Zenon DEF PairState, Answers
  <2>1. /\ Fields(bare, Client) /\ bare.fd = r.fd /\ bare.ip = r.ip /\ bare.slot = r.slot /\ bare.pc = "send"
        /\ bare.proof = r.proof /\ bare.block = b
    BY <1>1, Zenon DEF Fields, Client
  <2>2. /\ Fields(full, Client) /\ full.fd = r.fd /\ full.ip = r.ip /\ full.slot = r.slot /\ full.pc = "send"
        /\ full.proof = [r.proof EXCEPT !.before = Parent(b)] /\ full.block = b
    BY <1>1, Zenon DEF Fields, Client
  <2>3. full.proof = ProofOf(b, Parent(b))
    <3>1. [ProofOf(b, NONE) EXCEPT !.before = Parent(b)] = ProofOf(b, Parent(b))
      BY DEF ProofOf
    <3> QED
      BY <2>0, <2>2, <3>1, Zenon
  <2>4. Disconnects(w) \/ ((Becomes(w, bare) \/ Becomes(w, full)) /\ UNCHANGED active_proof_requests)
    BY <1>13, Zenon DEF PairState
  <2> HIDE DEF bare, full
  <2>5. Answers(bare) /\ Answers(full)
    BY <2>0, <2>1, <2>2, <2>3, Zenon DEF Answers
  <2>6. bare.pc \in Serving /\ full.pc \in Serving /\ (bare.pc \in Working <=> r.pc \in Working)
        /\ (full.pc \in Working <=> r.pc \in Working)
    BY <2>0, <2>1, <2>2, Zenon DEF Serving, Working
  <2> QED
    BY <1>3, <1>4, <2>1, <2>2, <2>4, <2>5, <2>6, Zenon
<1>14. CASE ReadHash(w)
  <2> DEFINE next(p, l) == [r EXCEPT !.pc = p, !.hashes = l]
  <2>1. ASSUME NEW p, NEW l
        PROVE  LET q == next(p, l) IN
               Fields(q, Client) /\ q.fd = r.fd /\ q.ip = r.ip /\ q.slot = r.slot /\ q.pc = p
    BY <1>1, Zenon DEF Fields, Client
  <2>2. CASE Disconnects(w)
    BY <1>3, <2>2, Zenon
  <2>3. CASE ~Disconnects(w)
    <3>1. PICK p, l : Becomes(w, next(p, l)) /\ p \in {"states", "hashes"}
      BY <1>14, <2>3, Zenon DEF ReadHash
    <3>2. UNCHANGED active_proof_requests /\ r.pc = "hashes"
      BY <1>14, <2>3, Zenon DEF ReadHash
    <3> HIDE DEF next
    <3> QED
      BY <1>4, <2>1, <3>1, <3>2, Zenon DEF Serving, Working, Answers
  <2> QED
    BY <2>2, <2>3, Zenon
<1>15. CASE ReadState(w)
  <2> DEFINE next(p, l) == [r EXCEPT !.states = l, !.pc = p]
  <2>1. ASSUME NEW p, NEW l
        PROVE  LET q == next(p, l) IN
               Fields(q, Client) /\ q.fd = r.fd /\ q.ip = r.ip /\ q.slot = r.slot /\ q.pc = p
    BY <1>1, Zenon DEF Fields, Client
  <2>2. CASE Disconnects(w)
    BY <1>3, <2>2, Zenon
  <2>3. CASE ~Disconnects(w)
    <3>1. PICK p, l : Becomes(w, next(p, l)) /\ p \in {"states", "send_states"}
      BY <1>15, <2>3, Zenon DEF ReadState
    <3>2. UNCHANGED active_proof_requests /\ r.pc = "states"
      BY <1>15, <2>3, Zenon DEF ReadState
    <3> HIDE DEF next
    <3> QED
      BY <1>4, <2>1, <3>1, <3>2, Zenon DEF Serving, Working, Answers
  <2> QED
    BY <2>2, <2>3, Zenon
<1> QED
  BY <1>6, <1>7, <1>8, <1>9, <1>10, <1>11, <1>12, <1>13, <1>14, <1>15, Zenon

\* WaitFor returns with the block, with a refused slot or at shutdown, or goes on
\* waiting; when it times out the archive is tried once more.
LEMMA WaitingSteps ==
    ASSUME WorkerType, active_proof_requests \in Int, NEW w \in Worker, WaitFor(w) \/ WaitTimesOut(w)
    PROVE  \/ \E q : Serves(w, q)
           \/ /\ UNCHANGED <<worker, active_proof_requests>> /\ ClientLocal
              /\ worker[w].pc = "wait" /\ waiting' = waiting \cup {w}
<1> DEFINE r == worker[w]
           b == r.block
           hit == [r EXCEPT !.pc = "send", !.slot = TRUE, !.proof = ProofOf(b, Parent(b))]
           retry == [r EXCEPT !.pc = "again", !.slot = TRUE]
<1>1. Fields(r, Client) /\ ClientLocal /\ r.pc = "wait"
  BY Zenon DEF WorkerType, WaitFor, WaitTimesOut
<1>2. /\ Fields(hit, Client) /\ hit.fd = r.fd /\ hit.ip = r.ip /\ hit.slot = TRUE /\ hit.pc = "send"
      /\ hit.proof = ProofOf(b, Parent(b)) /\ hit.block = b
  BY <1>1, Zenon DEF Fields, Client
<1>3. Fields(retry, Client) /\ retry.fd = r.fd /\ retry.ip = r.ip /\ retry.slot = TRUE /\ retry.pc = "again"
  BY <1>1, Zenon DEF Fields, Client
<1>4. \/ waiting' = waiting \cup {w} /\ UNCHANGED <<worker, active_proof_requests>>
      \/ /\ waiting' \subseteq waiting \ {w}
         /\ Disconnects(w) \/ (SlotFree /\ Acquires /\ (Becomes(w, hit) \/ Becomes(w, retry)))
  <2>1. CASE WaitFor(w)
    BY <2>1, Zenon DEF WaitFor
  <2>2. CASE WaitTimesOut(w)
    BY <2>2, Zenon DEF WaitTimesOut
  <2> QED
    BY <2>1, <2>2, Zenon
<1> HIDE DEF hit, retry
<1>5. Answers(hit) /\ Answers(retry)
  BY <1>2, <1>3, Zenon DEF Answers
<1>6. r.pc \in Serving /\ r.pc \in Serving \ Working /\ hit.pc \in Working /\ retry.pc \in Working
  BY <1>1, <1>2, <1>3, Zenon DEF Serving, Working
<1>7. CASE waiting' \subseteq waiting \ {w} /\ Disconnects(w)
  BY <1>1, <1>6, <1>7, RequestOver, Zenon DEF Disconnects
<1>8. CASE waiting' \subseteq waiting \ {w} /\ SlotFree /\ Acquires /\ Becomes(w, hit)
  BY <1>1, <1>2, <1>5, <1>6, <1>8, SlotTaken, Zenon
<1>9. CASE waiting' \subseteq waiting \ {w} /\ SlotFree /\ Acquires /\ Becomes(w, retry)
  BY <1>1, <1>3, <1>5, <1>6, <1>9, SlotTaken, Zenon
<1> QED
  BY <1>1, <1>4, <1>7, <1>8, <1>9, Zenon

(***************************************************************************)
(* Which threads hold a descriptor, are listed, are counted, have a slot.  *)
(***************************************************************************)
Altered(w, q) ==
    /\ worker' = [x \in Worker |-> worker'[x]] /\ worker'[w] = q
    /\ \A x \in Worker : x # w => worker'[x] = worker[x]
    /\ Holders' = IF HoldsFd(q) THEN Holders \cup {w} ELSE Holders \ {w}
    /\ Tabled' = IF InTable(q) THEN Tabled \cup {w} ELSE Tabled \ {w}
    /\ Counted' = IF IsCounted(q) THEN Counted \cup {w} ELSE Counted \ {w}
    /\ Slotted' = IF q.slot THEN Slotted \cup {w} ELSE Slotted \ {w}
    /\ \A i : TabledAt(i)' = IF InTable(q) /\ q.ip = i THEN TabledAt(i) \cup {w} ELSE TabledAt(i) \ {w}

\* What becomes of those sets when the thread w becomes q.
LEMMA AlteredSets ==
    ASSUME NEW w \in Worker, worker = [x \in Worker |-> worker[x]], NEW q, Becomes(w, q)
    PROVE  Altered(w, q)
<1>1. /\ worker' = [x \in Worker |-> worker'[x]] /\ worker'[w] = q
      /\ \A x \in Worker : x # w => worker'[x] = worker[x]
  BY Zenon DEF Becomes
<1>2. Holders' = IF HoldsFd(q) THEN Holders \cup {w} ELSE Holders \ {w}
  BY <1>1, Zenon DEF Holders
<1>3. Tabled' = IF InTable(q) THEN Tabled \cup {w} ELSE Tabled \ {w}
  BY <1>1, Zenon DEF Tabled
<1>4. Counted' = IF IsCounted(q) THEN Counted \cup {w} ELSE Counted \ {w}
  BY <1>1, Zenon DEF Counted
<1>5. Slotted' = IF q.slot THEN Slotted \cup {w} ELSE Slotted \ {w}
  BY <1>1, Zenon DEF Slotted
<1>6. ASSUME NEW i
      PROVE  TabledAt(i)' = IF InTable(q) /\ q.ip = i THEN TabledAt(i) \cup {w} ELSE TabledAt(i) \ {w}
  BY <1>1, Zenon DEF TabledAt
<1> QED
  BY <1>1, <1>2, <1>3, <1>4, <1>5, <1>6, Zenon DEF Altered

\* These sets are finite, and one more or one fewer counts.
LEMMA Counts ==
    ASSUME NEW S, S \subseteq Worker
    PROVE  /\ IsFiniteSet(S) /\ Cardinality(S) \in Nat
           /\ \A w : Cardinality(S \cup {w}) = IF w \in S THEN Cardinality(S) ELSE Cardinality(S) + 1
           /\ \A w : Cardinality(S \ {w}) = IF w \in S THEN Cardinality(S) - 1 ELSE Cardinality(S)
<1>1. IsFiniteSet(S)
  BY ScopeConfig, FS_Subset, Zenon
<1> QED
  BY <1>1, FS_CardinalityType, FS_AddElement, FS_RemoveElement, Zenon

(***************************************************************************)
(* Descriptors change hands.                                               *)
(***************************************************************************)
LEMMA OwnSwap ==
    ASSUME NEW fds, NEW held, NEW a, NEW g, NEW c, OneOwner(fds, held, a, g, c)
    PROVE  OneOwner(fds, held, g, a, c) /\ OneOwner(fds, held, c, g, a)
  BY Zenon DEF OneOwner

\* A thread without a descriptor takes a free one.
LEMMA OwnTake ==
    ASSUME NEW fds, NEW held, NEW g, NEW c, OneOwner(fds, held, 0, g, c), NEW f \in Fd \ fds, f # 0
    PROVE  OneOwner(fds \cup {f}, held, f, g, c)
  BY Zenon DEF OneOwner, Own

\* A thread closes its descriptor.
LEMMA OwnDrop ==
    ASSUME NEW fds, NEW held, NEW a, NEW g, NEW c, OneOwner(fds, held, a, g, c)
    PROVE  OneOwner(fds \ {a}, held, 0, g, c)
  BY Zenon DEF OneOwner, Own

\* The acceptor hands its descriptor over to a client thread.
LEMMA OwnHand ==
    ASSUME NEW fds, NEW held, NEW a, NEW g, NEW c, OneOwner(fds, held, a, g, c), a # 0
    PROVE  OneOwner(fds, held \cup {a}, 0, g, c) /\ a \notin held /\ a \in Fd
  BY DEF OneOwner, Own

\* A client thread closes its descriptor.
LEMMA OwnClose ==
    ASSUME NEW fds, NEW held, NEW a, NEW g, NEW c, OneOwner(fds, held, a, g, c), NEW f \in held
    PROVE  OneOwner(fds \ {f}, held \ {f}, a, g, c)
  BY Zenon DEF OneOwner, Own

\* The descriptors the kernel gives out are numbers other than 0.
LEMMA FdsOfScope ==
    ASSUME scope \in Scope, NEW f \in scope.fds
    PROVE  f \in Fd /\ f # 0
  BY ScopeConfig, Zenon DEF Fd

(***************************************************************************)
(* The parts of ServerInv, when only some of its variables change.         *)
(***************************************************************************)
OneHolder == \A w, x \in Holders : worker[w].fd = worker[x].fd => w = x

\* Threads go to sleep in WaitFor, and are woken, without a change to the table.
LEMMA SleepersFrame ==
    ASSUME ServerInv, UNCHANGED <<table, worker, active_proof_requests>>,
           waiting' \subseteq waiting \cup {w \in Worker : worker[w].pc = "wait"}
    PROVE  /\ WorkerType' /\ CountInv' /\ TableInv' /\ OneHolder' /\ HeldFds' = HeldFds
<1>1. UNCHANGED <<client_sockets, active_peers_by_ip, active_peers, client_workers>>
  BY Zenon DEF table
<1>2. /\ HeldFds' = HeldFds /\ Holders' = Holders /\ Tabled' = Tabled /\ Counted' = Counted
      /\ Slotted' = Slotted
      /\ \A i : TabledAt(i)' = TabledAt(i)
  BY Zenon DEF HeldFds, Holders, Tabled, Counted, Slotted, TabledAt
<1>3. WorkerType'
  BY <1>1, Zenon DEF ServerInv, WorkerType
<1>4. CountInv'
  BY <1>1, <1>2, Zenon DEF ServerInv, CountInv
<1>5. TableInv'
  BY <1>1, <1>2, Zenon DEF ServerInv, TableInv
<1>6. OneHolder'
  BY <1>2, Zenon DEF ServerInv, FdInv, OneHolder
<1> QED
  BY <1>2, <1>3, <1>4, <1>5, <1>6, Zenon

\* The same when threads are only woken.
LEMMA WorkersFrame ==
    ASSUME ServerInv, UNCHANGED <<table, worker, active_proof_requests>>, waiting' \subseteq waiting
    PROVE  /\ WorkerType' /\ CountInv' /\ TableInv' /\ OneHolder' /\ HeldFds' = HeldFds
<1>1. waiting' \subseteq waiting \cup {w \in Worker : worker[w].pc = "wait"}
  BY Zenon
<1> QED
  BY <1>1, SleepersFrame, Zenon

\* A step of a client thread or of the main thread leaves the other threads alone.
LEMMA OutsideFrame ==
    ASSUME ServerInv, UNCHANGED <<acceptor, gossip, gossip_socket, core, socket_fd>>,
           gossip_asleep' => gossip_asleep
    PROVE  AcceptorInv' /\ GossipInv' /\ CoreSocketInv'
  BY Zenon DEF ServerInv, AcceptorInv, GossipInv, CoreSocketInv

\* ServerInv is the conjunction of these parts.
LEMMA AllParts ==
    ASSUME scope' \in Scope, WorkerType', CountInv', TableInv', AcceptorInv', GossipInv', CoreSocketInv',
           OneHolder', OneOwner(open', HeldFds', acceptor'.fd, gossip'.fd, core'.fd)
    PROVE  ServerInv'
  BY Zenon DEF ServerInv, FdInv, OneHolder

\* A step that changes none of those variables but wakes sleepers preserves ServerInv.
LEMMA ServerFrame ==
    ASSUME ServerInv, UNCHANGED <<table, worker, active_proof_requests, acceptor, gossip, gossip_socket, core,
                                  socket_fd, open, scope>>,
           waiting' \subseteq waiting, gossip_asleep' => gossip_asleep
    PROVE  ServerInv'
<1>1. OneOwner(open', HeldFds', acceptor'.fd, gossip'.fd, core'.fd)
  BY WorkersFrame, Zenon DEF ServerInv, FdInv
<1>2. scope' \in Scope
  BY Zenon DEF ServerInv
<1> QED
  BY <1>1, <1>2, WorkersFrame, OutsideFrame, AllParts, Zenon

\* A client thread becomes q.
LEMMA WorkerBecomes ==
    ASSUME WorkerType, NEW w \in Worker, NEW q, Becomes(w, q), Fields(q, Client),
           q.pc \in Serving \cup Leaving, q.slot \in BOOLEAN, q.slot <=> q.pc \in Working,
           q.ip \in Address, Answers(q), waiting' \subseteq waiting \ {w},
           client_workers' = client_workers \cup {w}
    PROVE  WorkerType'
<1>1. /\ worker' = [x \in Worker |-> worker'[x]] /\ worker'[w] = q
      /\ \A x \in Worker : x # w => worker'[x] = worker[x]
  BY AlteredSets, Zenon DEF WorkerType, Altered
<1>2. q.pc # "none"
  BY Zenon DEF Serving, Leaving, Working
<1>3. client_workers' = {x \in Worker : worker'[x].pc # "none"}
  BY <1>1, <1>2, Zenon DEF WorkerType
<1>4. waiting' \subseteq {x \in Worker : worker'[x].pc = "wait"}
  BY <1>1, Zenon DEF WorkerType
<1>5. ASSUME NEW x \in Worker
      PROVE  /\ Fields(worker'[x], Client)
             /\ worker'[x].pc \in {"none"} \cup Serving \cup Leaving
             /\ worker'[x].slot \in BOOLEAN /\ (worker'[x].slot <=> worker'[x].pc \in Working)
             /\ worker'[x].pc # "none" => worker'[x].ip \in Address
             /\ Answers(worker'[x])
  <2>1. CASE x = w
    BY <1>1, <2>1, Zenon
  <2>2. CASE x # w
    BY <1>1, <2>2, Zenon DEF WorkerType
  <2> QED
    BY <2>1, <2>2, Zenon
<1> QED
  BY <1>1, <1>3, <1>4, <1>5, Zenon DEF WorkerType, Answers

(***************************************************************************)
(* The steps of a client thread.                                           *)
(***************************************************************************)
\* What the invariant says of the thread w.
LEMMA ThreadFacts ==
    ASSUME ServerInv, NEW w \in Worker
    PROVE  /\ worker = [x \in Worker |-> worker[x]] /\ Fields(worker[w], Client)
           /\ worker[w].slot \in BOOLEAN /\ (worker[w].slot <=> worker[w].pc \in Working)
           /\ worker[w].pc # "none" => worker[w].ip \in Address /\ w \in client_workers
           /\ worker[w].pc # "wait" => w \notin waiting
           /\ active_proof_requests \in Int
<1>1. Slotted \subseteq Worker
  BY Zenon DEF Slotted
<1>2. active_proof_requests \in Int
  BY <1>1, Counts DEF ServerInv, CountInv
<1> QED
  BY <1>2, Zenon DEF ServerInv, WorkerType

\* ProofWorkGuard: the number of requests with a slot follows the counter.
LEMMA SlotCount ==
    ASSUME ServerInv, NEW w \in Worker, NEW q, Becomes(w, q), q.slot \in BOOLEAN,
           active_proof_requests' = active_proof_requests + Slot(q) - Slot(worker[w]),
           Slot(q) > Slot(worker[w]) => SlotFree
    PROVE  active_proof_requests' = Cardinality(Slotted') /\ active_proof_requests' <= MaxProofRequests
<1>1. Slotted' = IF q.slot THEN Slotted \cup {w} ELSE Slotted \ {w}
  BY AlteredSets, ThreadFacts, Zenon DEF Altered
<1>2. Slotted \subseteq Worker /\ (w \in Slotted <=> worker[w].slot)
  BY Zenon DEF Slotted
<1>3. /\ Cardinality(Slotted) \in Nat
      /\ Cardinality(Slotted \cup {w}) = IF worker[w].slot THEN Cardinality(Slotted) ELSE Cardinality(Slotted) + 1
      /\ Cardinality(Slotted \ {w}) = IF worker[w].slot THEN Cardinality(Slotted) - 1 ELSE Cardinality(Slotted)
  BY <1>2, Counts, Zenon
<1>4. active_proof_requests = Cardinality(Slotted) /\ active_proof_requests <= MaxProofRequests /\ MaxProofRequests \in Nat
  BY Limits, Zenon DEF ServerInv, CountInv
<1>5. CASE q.slot
  <2>1. Slot(q) = 1 /\ Slotted' = Slotted \cup {w}
    BY <1>1, <1>5, Zenon DEF Slot
  <2>2. CASE worker[w].slot
    BY <1>3, <1>4, <2>1, <2>2, SMTT(30) DEF Slot
  <2>3. CASE ~ worker[w].slot
    BY <1>3, <1>4, <2>1, <2>3 DEF Slot, SlotFree
  <2> QED
    BY <2>2, <2>3, Zenon
<1>6. CASE ~ q.slot
  <2>1. Slot(q) = 0 /\ Slotted' = Slotted \ {w}
    BY <1>1, <1>6, Zenon DEF Slot
  <2>2. CASE worker[w].slot
    BY <1>3, <1>4, <2>1, <2>2, SMTT(30) DEF Slot
  <2>3. CASE ~ worker[w].slot
    BY <1>3, <1>4, <2>1, <2>3 DEF Slot
  <2> QED
    BY <2>2, <2>3, Zenon
<1> QED
  BY <1>5, <1>6, Zenon

\* What a thread that keeps its descriptor leaves of the descriptors' owners.
LEMMA SameHolders ==
    ASSUME ServerInv, Holders' = Holders, \A x \in Holders : worker'[x].fd = worker[x].fd
    PROVE  HeldFds' = HeldFds /\ OneHolder'
<1>1. HeldFds' = {worker'[x].fd : x \in Holders}
  BY Zenon DEF HeldFds
<1>2. HeldFds' = HeldFds
  BY <1>1, Zenon DEF HeldFds
<1>3. OneHolder'
  BY DEF ServerInv, FdInv, OneHolder
<1> QED
  BY <1>2, <1>3, Zenon

\* A thread that goes on serving its connection, with a slot or without.
LEMMA ServesStep ==
    ASSUME ServerInv, NEW w \in Worker, NEW q, Serves(w, q)
    PROVE  ServerInv'
<1> DEFINE r == worker[w]
<1>1. /\ r.pc \in Serving /\ Becomes(w, q) /\ Fields(q, Client) /\ q.fd = r.fd /\ q.ip = r.ip
      /\ q.pc \in Serving /\ q.slot \in BOOLEAN /\ (q.slot <=> q.pc \in Working) /\ Answers(q)
      /\ waiting' \subseteq waiting \ {w} /\ ClientLocal
  BY Zenon DEF Serves, ServesOn
<1>2. /\ HoldsFd(q) /\ InTable(q) /\ IsCounted(q) /\ HoldsFd(r) /\ InTable(r) /\ IsCounted(r) /\ r.pc # "none"
  BY <1>1, Zenon DEF HoldsFd, InTable, IsCounted, Serving, Working
<1>3. /\ w \in Holders /\ w \in Tabled /\ w \in Counted /\ \A i : w \in TabledAt(i) <=> q.ip = i
  BY <1>1, <1>2, Zenon DEF Holders, Tabled, Counted, TabledAt
<1>4. /\ worker'[w] = q /\ (\A x \in Worker : x # w => worker'[x] = worker[x])
      /\ Holders' = Holders \cup {w} /\ Tabled' = Tabled \cup {w} /\ Counted' = Counted \cup {w}
      /\ \A i : TabledAt(i)' = IF q.ip = i THEN TabledAt(i) \cup {w} ELSE TabledAt(i) \ {w}
  <2>1. Altered(w, q)
    BY <1>1, AlteredSets, ThreadFacts, Zenon
  <2> QED
    BY <1>2, <2>1, Zenon DEF Altered
<1>5. Holders' = Holders /\ Tabled' = Tabled /\ Counted' = Counted /\ \A i : TabledAt(i)' = TabledAt(i)
  <2>1. Holders' = Holders /\ Tabled' = Tabled /\ Counted' = Counted
    BY <1>3, <1>4, Zenon
  <2>2. ASSUME NEW i PROVE TabledAt(i)' = TabledAt(i)
    <3> DEFINE S == TabledAt(i)
    <3>1. (w \in S <=> q.ip = i) /\ S' = IF q.ip = i THEN S \cup {w} ELSE S \ {w}
      BY <1>3, <1>4, Zenon
    <3> HIDE DEF S
    <3>2. S' = S
      BY <3>1, Zenon
    <3> QED
      BY <3>2, Zenon DEF S
  <2> QED
    BY <2>1, <2>2, Zenon
<1>6. \A x \in Worker : worker'[x].fd = worker[x].fd
  BY <1>1, <1>4, Zenon
<1>7. /\ UNCHANGED <<client_sockets, active_peers_by_ip, active_peers, client_workers, acceptor, gossip,
                     gossip_socket, gossip_asleep, core, socket_fd, open, scope>>
  BY <1>1, Zenon DEF ClientLocal, ClientQuiet, table, gossipv, corev, kernel
<1>8. WorkerType'
  <2>1. client_workers' = client_workers \cup {w} /\ q.ip \in Address
    BY <1>1, <1>2, <1>7, ThreadFacts, Zenon
  <2> QED
    BY <1>1, <2>1, WorkerBecomes, Zenon DEF ServerInv
<1>9. CountInv'
  <2>1. active_proof_requests' = Cardinality(Slotted') /\ active_proof_requests' <= MaxProofRequests
    BY <1>1, SlotCount, Zenon DEF Serves
  <2> QED
    BY <1>5, <1>7, <2>1, Zenon DEF ServerInv, CountInv
<1>10. TableInv'
  <2>1. {worker'[x].fd : x \in Tabled'} = {worker[x].fd : x \in Tabled}
    BY <1>5, <1>6, Zenon DEF Tabled
  <2> QED
    BY <1>7, <2>1, Zenon DEF ServerInv, TableInv
<1>11. HeldFds' = HeldFds /\ OneHolder'
  BY <1>5, <1>6, SameHolders, Zenon DEF Holders
<1>12. OneOwner(open', HeldFds', acceptor'.fd, gossip'.fd, core'.fd) /\ scope' \in Scope
  BY <1>7, <1>11, Zenon DEF ServerInv, FdInv
<1> QED
  BY <1>7, <1>8, <1>9, <1>10, <1>11, <1>12, OutsideFrame, AllParts, Zenon

\* RemoveClient and the end of the thread move only its program counter.
LEMMA LeavingFacts ==
    ASSUME ServerInv, NEW w \in Worker, worker[w].pc \in {"remove", "close", "uncount", "done"},
           NEW p \in Leaving, Becomes(w, [worker[w] EXCEPT !.pc = p]),
           UNCHANGED <<waiting, client_workers, active_proof_requests>>
    PROVE  \E q : /\ Altered(w, q) /\ q.pc = p /\ q.fd = worker[w].fd /\ q.ip = worker[w].ip
                  /\ WorkerType' /\ worker[w].ip \in Address
                  /\ active_proof_requests' = Cardinality(Slotted')
                  /\ active_proof_requests' <= MaxProofRequests
<1> DEFINE r == worker[w]
           q == [worker[w] EXCEPT !.pc = p]
<1>1. Fields(q, Client) /\ q.pc = p /\ q.fd = r.fd /\ q.ip = r.ip /\ q.slot = r.slot
  BY ThreadFacts, Zenon DEF Fields, Client
<1>2. Becomes(w, q)
  BY Zenon
<1> HIDE DEF q
<1>3. /\ r.pc # "none" /\ r.pc # "wait" /\ r.pc \notin Working /\ p \notin Working /\ p # "pair" /\ p # "send"
      /\ p \in Serving \cup Leaving
  BY Zenon DEF Working, Leaving
<1>4. q.slot = FALSE /\ r.slot = FALSE /\ Answers(q) /\ r.ip \in Address
  BY <1>1, <1>3, ThreadFacts, Zenon DEF Answers
<1>5. waiting' \subseteq waiting \ {w} /\ client_workers' = client_workers \cup {w}
  BY <1>3, ThreadFacts, Zenon
<1>6. WorkerType'
  BY <1>1, <1>2, <1>3, <1>4, <1>5, WorkerBecomes, Zenon DEF ServerInv
<1>7. Slot(q) = 0 /\ Slot(r) = 0 /\ active_proof_requests' = active_proof_requests + Slot(q) - Slot(r)
  BY <1>4, ThreadFacts DEF Slot
<1>8. active_proof_requests' = Cardinality(Slotted') /\ active_proof_requests' <= MaxProofRequests
  <2>1. ~(Slot(q) > Slot(r))
    BY <1>7
  <2>2. q.slot \in BOOLEAN
    BY <1>4, Zenon
  <2> QED
    BY <1>2, <1>7, <2>1, <2>2, SlotCount, Zenon
<1>9. Altered(w, q)
  BY <1>2, AlteredSets, ThreadFacts, Zenon
<1> QED
  BY <1>1, <1>4, <1>6, <1>8, <1>9, Zenon

\* A thread that gives nothing of its table entry or its descriptor back.
LEMMA ClientEndsStep ==
    ASSUME ServerInv, NEW w \in Worker, ClientEnds(w) \/ Uncount(w)
    PROVE  ServerInv'
<1>1. /\ worker[w].pc \in {"uncount", "done"} /\ UNCHANGED <<waiting, client_workers, active_proof_requests>>
      /\ \E p \in {"done", "ended"} : Becomes(w, [worker[w] EXCEPT !.pc = p])
      /\ ClientQuiet /\ UNCHANGED <<open, client_sockets, active_peers_by_ip>>
  BY Zenon DEF ClientEnds, Uncount, ClientLocal, table, kernel
<1>2. PICK q : /\ Altered(w, q) /\ q.pc \in {"done", "ended"}
               /\ WorkerType' /\ active_proof_requests' = Cardinality(Slotted')
               /\ active_proof_requests' <= MaxProofRequests
  <2>1. PICK p \in {"done", "ended"} : Becomes(w, [worker[w] EXCEPT !.pc = p])
    BY <1>1, Zenon
  <2>2. p \in Leaving /\ worker[w].pc \in {"remove", "close", "uncount", "done"}
    BY <1>1, Zenon DEF Leaving
  <2> QED
    BY <1>1, <2>1, <2>2, LeavingFacts, Zenon
<1>3. /\ ~ HoldsFd(q) /\ ~ InTable(q) /\ ~ IsCounted(q)
      /\ ~ HoldsFd(worker[w]) /\ ~ InTable(worker[w]) /\ (IsCounted(worker[w]) <=> worker[w].pc = "uncount")
  BY <1>1, <1>2, Zenon DEF HoldsFd, InTable, IsCounted, Serving, Working
<1>4. w \notin Holders /\ w \notin Tabled /\ (\A i : w \notin TabledAt(i)) /\ (w \in Counted <=> worker[w].pc = "uncount")
  BY <1>3, Zenon DEF Holders, Tabled, TabledAt, Counted
<1>5. /\ Holders' = Holders \ {w} /\ Tabled' = Tabled \ {w} /\ Counted' = Counted \ {w}
      /\ \A i : TabledAt(i)' = TabledAt(i) \ {w}
      /\ \A x \in Worker : x # w => worker'[x] = worker[x]
  BY <1>2, <1>3, Zenon DEF Altered
<1>6. Holders' = Holders /\ Tabled' = Tabled /\ \A i : TabledAt(i)' = TabledAt(i)
  BY <1>4, <1>5, Zenon
<1>7. active_peers' = Cardinality(Counted') /\ active_peers' <= MaxPeers
  <2>1. Counted \subseteq Worker /\ active_peers = Cardinality(Counted) /\ active_peers <= MaxPeers /\ MaxPeers \in Nat
    BY Limits, Zenon DEF Counted, ServerInv, CountInv
  <2>2. CASE worker[w].pc = "uncount"
    <3>1. Cardinality(Counted') = Cardinality(Counted) - 1 /\ Cardinality(Counted) \in Nat
      BY <1>4, <1>5, <2>1, <2>2, Counts, Zenon
    <3>2. active_peers' = active_peers - 1
      BY <2>2, Zenon DEF ClientEnds, Uncount
    <3> QED
      BY <2>1, <3>1, <3>2, SMTT(30)
  <2>3. CASE worker[w].pc # "uncount"
    <3>1. Counted' = Counted
      BY <1>4, <1>5, <2>3, Zenon
    <3>2. active_peers' = active_peers
      BY <2>3, Zenon DEF ClientEnds, Uncount, ClientLocal, table
    <3> QED
      BY <2>1, <3>1, <3>2, Zenon
  <2> QED
    BY <2>2, <2>3, Zenon
<1>8. CountInv'
  BY <1>1, <1>2, <1>6, <1>7, Zenon DEF ServerInv, CountInv
<1>9. TableInv'
  <2>1. {worker'[x].fd : x \in Tabled'} = {worker[x].fd : x \in Tabled}
    BY <1>4, <1>5, <1>6, Zenon DEF Tabled
  <2> QED
    BY <1>1, <2>1, Zenon DEF ServerInv, TableInv
<1>10. HeldFds' = HeldFds /\ OneHolder'
  <2>1. \A x \in Holders : worker'[x].fd = worker[x].fd
    BY <1>4, <1>5, Zenon DEF Holders
  <2> QED
    BY <1>6, <2>1, SameHolders, Zenon
<1>11. UNCHANGED <<acceptor, gossip, gossip_socket, gossip_asleep, core, socket_fd, open, scope>>
  BY <1>1, Zenon DEF ClientQuiet, gossipv, corev
<1>12. OneOwner(open', HeldFds', acceptor'.fd, gossip'.fd, core'.fd) /\ scope' \in Scope
  BY <1>10, <1>11, Zenon DEF ServerInv, FdInv
<1> QED
  BY <1>2, <1>8, <1>9, <1>10, <1>11, <1>12, OutsideFrame, AllParts, Zenon

\* RemoveClient closes the descriptor after it has left the table.
LEMMA RemoveClosesStep ==
    ASSUME ServerInv, NEW w \in Worker, RemoveCloses(w)
    PROVE  ServerInv'
<1> DEFINE fd == worker[w].fd
<1>1. /\ worker[w].pc = "close" /\ UNCHANGED <<waiting, client_workers, active_proof_requests>>
      /\ Becomes(w, [worker[w] EXCEPT !.pc = "uncount"]) /\ open' = open \ {fd}
      /\ ClientQuiet /\ UNCHANGED <<client_sockets, active_peers_by_ip, active_peers>>
  BY Zenon DEF RemoveCloses, CloseFd, table
<1>2. PICK q : /\ Altered(w, q) /\ q.pc = "uncount"
               /\ WorkerType' /\ active_proof_requests' = Cardinality(Slotted')
               /\ active_proof_requests' <= MaxProofRequests
  <2>1. "uncount" \in Leaving /\ worker[w].pc \in {"remove", "close", "uncount", "done"}
    BY <1>1, Zenon DEF Leaving
  <2> QED
    BY <1>1, <2>1, LeavingFacts, Zenon
<1>3. /\ ~ HoldsFd(q) /\ ~ InTable(q) /\ IsCounted(q)
      /\ HoldsFd(worker[w]) /\ ~ InTable(worker[w]) /\ IsCounted(worker[w])
  BY <1>1, <1>2, Zenon DEF HoldsFd, InTable, IsCounted, Serving, Working
<1>4. w \in Holders /\ w \notin Tabled /\ (\A i : w \notin TabledAt(i)) /\ w \in Counted
  BY <1>3, Zenon DEF Holders, Tabled, TabledAt, Counted
<1>5. /\ Holders' = Holders \ {w} /\ Tabled' = Tabled \ {w} /\ Counted' = Counted \cup {w}
      /\ \A i : TabledAt(i)' = TabledAt(i) \ {w}
      /\ \A x \in Worker : x # w => worker'[x] = worker[x]
  BY <1>2, <1>3, Zenon DEF Altered
<1>6. Counted' = Counted /\ Tabled' = Tabled /\ \A i : TabledAt(i)' = TabledAt(i)
  BY <1>4, <1>5, Zenon
<1>7. CountInv'
  BY <1>1, <1>2, <1>6, Zenon DEF ServerInv, CountInv
<1>8. TableInv'
  <2>1. {worker'[x].fd : x \in Tabled'} = {worker[x].fd : x \in Tabled}
    BY <1>4, <1>5, <1>6, Zenon DEF Tabled
  <2> QED
    BY <1>1, <2>1, Zenon DEF ServerInv, TableInv
<1>9. OneHolder /\ OneHolder' /\ HeldFds' = HeldFds \ {fd} /\ fd \in HeldFds
  <2>1. OneHolder
    BY Zenon DEF ServerInv, FdInv, OneHolder
  <2>2. \A x \in Holders \ {w} : worker'[x].fd = worker[x].fd /\ worker[x].fd # fd
    BY <1>4, <1>5, <2>1, Zenon DEF Holders, OneHolder
  <2>3. HeldFds' = {worker'[x].fd : x \in Holders \ {w}}
    BY <1>5, Zenon DEF HeldFds
  <2>4. HeldFds' = HeldFds \ {fd} /\ fd \in HeldFds
    BY <1>4, <2>2, <2>3, SMTT(30) DEF HeldFds
  <2>5. OneHolder'
    BY <1>5, <2>1, <2>2 DEF OneHolder
  <2> QED
    BY <2>1, <2>4, <2>5, Zenon
<1>10. UNCHANGED <<acceptor, gossip, gossip_socket, gossip_asleep, core, socket_fd, scope>>
  BY <1>1, Zenon DEF ClientQuiet, gossipv, corev
<1>11. OneOwner(open', HeldFds', acceptor'.fd, gossip'.fd, core'.fd) /\ scope' \in Scope
  BY <1>1, <1>9, <1>10, OwnClose, Zenon DEF ServerInv, FdInv
<1> QED
  BY <1>2, <1>7, <1>8, <1>9, <1>10, <1>11, OutsideFrame, AllParts, Zenon

\* RemoveClient takes the connection out of the table and its address' count.
LEMMA UnlistStep ==
    ASSUME ServerInv, NEW w \in Worker, Unlist(w)
    PROVE  ServerInv'
<1> DEFINE fd == worker[w].fd
           ip == worker[w].ip
<1>1. /\ worker[w].pc = "remove" /\ UNCHANGED <<waiting, client_workers, active_peers, active_proof_requests>>
      /\ Becomes(w, [worker[w] EXCEPT !.pc = "close"]) /\ ClientQuiet /\ UNCHANGED open
      /\ client_sockets' = Kept(client_sockets, Range(client_sockets) \ {fd})
      /\ active_peers_by_ip' = [active_peers_by_ip EXCEPT ![ip] = @ - 1]
  BY Zenon DEF Unlist, Unlisted, kernel
<1>2. PICK q : /\ Altered(w, q) /\ q.pc = "close" /\ q.fd = fd /\ ip \in Address
               /\ WorkerType' /\ active_proof_requests' = Cardinality(Slotted')
               /\ active_proof_requests' <= MaxProofRequests
  <2>1. "close" \in Leaving /\ worker[w].pc \in {"remove", "close", "uncount", "done"}
    BY <1>1, Zenon DEF Leaving
  <2> QED
    BY <1>1, <2>1, LeavingFacts, Zenon
<1>3. /\ HoldsFd(q) /\ ~ InTable(q) /\ IsCounted(q)
      /\ HoldsFd(worker[w]) /\ InTable(worker[w]) /\ IsCounted(worker[w])
  BY <1>1, <1>2, Zenon DEF HoldsFd, InTable, IsCounted, Serving, Working
<1>4. w \in Holders /\ w \in Tabled /\ (\A i : w \in TabledAt(i) <=> ip = i) /\ w \in Counted
  BY <1>3, Zenon DEF Holders, Tabled, TabledAt, Counted
<1>5. /\ Holders' = Holders \cup {w} /\ Tabled' = Tabled \ {w} /\ Counted' = Counted \cup {w}
      /\ \A i : TabledAt(i)' = TabledAt(i) \ {w}
      /\ worker'[w] = q /\ \A x \in Worker : x # w => worker'[x] = worker[x]
  BY <1>2, <1>3, Zenon DEF Altered
<1>6. Holders' = Holders /\ Counted' = Counted /\ \A x \in Worker : worker'[x].fd = worker[x].fd
  BY <1>2, <1>4, <1>5, Zenon
<1>7. CountInv'
  <2>1. active_peers_by_ip \in [Address -> Nat] /\ MaxPeersPerIp \in Nat
    BY Limits, Zenon DEF ServerInv, CountInv
  <2>2. ASSUME NEW i \in Address
        PROVE  /\ active_peers_by_ip'[i] = Cardinality(TabledAt(i)') /\ active_peers_by_ip'[i] <= MaxPeersPerIp
               /\ active_peers_by_ip'[i] \in Nat
    <3>1. TabledAt(i) \subseteq Worker
      BY Zenon DEF TabledAt
    <3>2. /\ Cardinality(TabledAt(i)') = IF ip = i THEN Cardinality(TabledAt(i)) - 1 ELSE Cardinality(TabledAt(i))
          /\ Cardinality(TabledAt(i)') \in Nat
      <4>1. TabledAt(i) \ {w} \subseteq Worker /\ TabledAt(i)' = TabledAt(i) \ {w} /\ (w \in TabledAt(i) <=> ip = i)
        BY <1>4, <1>5, <3>1, Zenon
      <4> QED
        BY <3>1, <4>1, Counts, SMTT(30)
    <3>3. active_peers_by_ip'[i] = IF ip = i THEN active_peers_by_ip[i] - 1 ELSE active_peers_by_ip[i]
      BY <1>1, <2>1, Zenon
    <3>4. active_peers_by_ip[i] = Cardinality(TabledAt(i)) /\ active_peers_by_ip[i] <= MaxPeersPerIp
      BY Zenon DEF ServerInv, CountInv
    <3> QED
      BY <2>1, <3>2, <3>3, <3>4, SMTT(30)
  <2>3. active_peers_by_ip' \in [Address -> Nat]
    <3>1. active_peers_by_ip' = [i \in Address |-> active_peers_by_ip'[i]]
      BY <1>1, <2>1, Zenon
    <3> QED
      BY <2>2, <3>1, Zenon
  <2> QED
    BY <1>1, <1>2, <1>6, <2>2, <2>3, Zenon DEF ServerInv, CountInv
<1>8. TableInv'
  <2>1. /\ client_sockets \in Seq(Fd) /\ IsInjective(client_sockets)
        /\ Range(client_sockets) = {worker[x].fd : x \in Tabled}
    BY Zenon DEF ServerInv, TableInv
  <2>2. /\ client_sockets' \in Seq(Fd) /\ IsInjective(client_sockets')
        /\ Range(client_sockets') = Range(client_sockets) \ {fd}
    BY <1>1, <2>1, EraseList, Zenon
  <2>3. \A x \in Tabled \ {w} : worker'[x].fd = worker[x].fd /\ worker[x].fd # fd
    <3>1. Tabled \subseteq Holders /\ Holders \subseteq Worker
      BY Zenon DEF Tabled, Holders, InTable, HoldsFd
    <3>2. OneHolder
      BY Zenon DEF ServerInv, FdInv, OneHolder
    <3> QED
      BY <1>4, <1>6, <3>1, <3>2, Zenon DEF OneHolder
  <2>4. {worker'[x].fd : x \in Tabled'} = Range(client_sockets) \ {fd}
    BY <1>4, <1>5, <2>1, <2>3, SMTT(30)
  <2> QED
    BY <2>2, <2>4, Zenon DEF TableInv
<1>9. HeldFds' = HeldFds /\ OneHolder'
  BY <1>6, SameHolders, Zenon DEF Holders
<1>10. UNCHANGED <<acceptor, gossip, gossip_socket, gossip_asleep, core, socket_fd, scope>>
  BY <1>1, Zenon DEF ClientQuiet, gossipv, corev
<1>11. OneOwner(open', HeldFds', acceptor'.fd, gossip'.fd, core'.fd) /\ scope' \in Scope
  BY <1>1, <1>9, <1>10, Zenon DEF ServerInv, FdInv
<1> QED
  BY <1>2, <1>7, <1>8, <1>9, <1>10, <1>11, OutsideFrame, AllParts, Zenon

(***************************************************************************)
(* The steps of the acceptor.                                              *)
(***************************************************************************)
\* Whatever the acceptor does with the table untouched, only its own descriptor is at
\* stake.
LEMMA AcceptorAlone ==
    ASSUME ServerInv, UNCHANGED <<table, worker, active_proof_requests, scope, gossip, gossip_socket, core, socket_fd>>,
           waiting' \subseteq waiting, gossip_asleep' => gossip_asleep, AcceptorInv',
           OneOwner(open', HeldFds, acceptor'.fd, gossip.fd, core.fd)
    PROVE  ServerInv'
<1>1. GossipInv' /\ CoreSocketInv' /\ scope' \in Scope
  BY Zenon DEF ServerInv, GossipInv, CoreSocketInv
<1>2. OneOwner(open', HeldFds', acceptor'.fd, gossip'.fd, core'.fd)
  BY WorkersFrame, Zenon
<1> QED
  BY <1>1, <1>2, WorkersFrame, AllParts, Zenon

\* AcceptLoop: a connection gets the lowest free descriptor; it is closed again when
\* the peer is rejected, when it cannot be registered, and when the loop fails.
LEMMA AcceptorSteps ==
    ASSUME ServerInv,
           \/ AcceptTop \/ AcceptEnds \/ AcceptLocks \/ AcceptStops \/ Accept \/ Reject \/ RegisterFails \/ AcceptThrows
    PROVE  ServerInv'
<1> DEFINE a == acceptor
<1>1. /\ UNCHANGED <<table, worker, active_proof_requests, scope, gossip, gossip_socket, core, socket_fd>>
      /\ waiting' \subseteq waiting /\ (gossip_asleep' => gossip_asleep)
  <2>1. AcceptQuiet /\ UNCHANGED <<table, worker, active_proof_requests>>
    BY Zenon DEF AcceptTop, AcceptEnds, AcceptLocks, AcceptStops, Accept, Reject, RegisterFails, AcceptThrows
  <2>2. waiting' \subseteq waiting /\ (gossip_asleep' => gossip_asleep)
    <3>1. UNCHANGED <<waiting, gossip_asleep>> \/ WakeAll
      BY Zenon DEF AcceptTop, AcceptEnds, AcceptLocks, AcceptStops, Accept, Reject, RegisterFails, AcceptThrows
    <3> QED
      BY <3>1 DEF WakeAll
  <2>3. UNCHANGED <<scope, gossip, gossip_socket, corev>>
    BY <2>1, Zenon DEF AcceptQuiet
  <2> QED
    BY <2>1, <2>2, <2>3, Zenon DEF corev
<1>2. OneOwner(open, HeldFds, a.fd, gossip.fd, core.fd) /\ AcceptorInv /\ Fields(a, Guard)
  BY Zenon DEF ServerInv, FdInv, AcceptorInv
<1>3. CASE AcceptTop \/ AcceptEnds \/ AcceptLocks \/ AcceptStops
  <2>1. PICK p : /\ acceptor' = [a EXCEPT !.pc = p]
                 /\ \/ a.pc \in {"top", "accept", "thrown"} /\ p \in {"accept", "ended"}
                    \/ a.pc = "lock" /\ p = "reap"
    BY <1>3, Zenon DEF AcceptTop, AcceptEnds, AcceptLocks, AcceptStops, Accepting
  <2>2. Fields(acceptor', Guard) /\ acceptor'.pc = p /\ acceptor'.fd = a.fd /\ acceptor'.ip = a.ip
    BY <1>2, <2>1, Zenon DEF Fields, Guard
  <2>3. AcceptorInv'
    BY <1>2, <2>1, <2>2, Zenon DEF AcceptorInv
  <2>4. open' = open
    BY <1>3, Zenon DEF AcceptTop, AcceptEnds, AcceptLocks, AcceptStops, kernel
  <2>5. OneOwner(open', HeldFds, acceptor'.fd, gossip.fd, core.fd)
    BY <1>2, <2>2, <2>4, Zenon
  <2> QED
    BY <1>1, <2>3, <2>5, AcceptorAlone, Zenon
<1>4. CASE Accept
  <2>1. PICK f \in scope.fds \ open, i \in scope.addresses :
          open' = open \cup {f} /\ acceptor' = [pc |-> "lock", fd |-> f, ip |-> i]
    BY <1>4, Zenon DEF Accept, FreshFd
  <2>2. f \in Fd \ open /\ f # 0 /\ i \in Address
    BY <2>1, FdsOfScope, ScopeConfig, Zenon DEF ServerInv
  <2>3. Fields(acceptor', Guard) /\ acceptor'.pc = "lock" /\ acceptor'.fd = f /\ acceptor'.ip = i
    BY <2>1, Zenon DEF Fields, Guard
  <2>4. AcceptorInv'
    BY <2>2, <2>3, Zenon DEF AcceptorInv
  <2>5. a.fd = 0
    BY <1>2, <1>4, Zenon DEF AcceptorInv, Accept
  <2>6. OneOwner(open', HeldFds, acceptor'.fd, gossip.fd, core.fd)
    BY <1>2, <2>1, <2>2, <2>3, <2>5, OwnTake, Zenon
  <2> QED
    BY <1>1, <2>4, <2>6, AcceptorAlone, Zenon
<1>5. CASE Reject \/ RegisterFails \/ AcceptThrows
  <2>1. PICK p \in {"top", "thrown"} :
          open' = open \ {a.fd} /\ acceptor' = [pc |-> p, fd |-> 0, ip |-> NONE]
    BY <1>5, Zenon DEF Reject, RegisterFails, AcceptThrows, CloseFd, AcceptIdle
  <2>2. Fields(acceptor', Guard) /\ acceptor'.pc = p /\ acceptor'.fd = 0
    BY <2>1, Zenon DEF Fields, Guard
  <2>3. AcceptorInv'
    BY <2>2, Zenon DEF AcceptorInv
  <2>4. OneOwner(open', HeldFds, acceptor'.fd, gossip.fd, core.fd)
    BY <1>2, <2>1, <2>2, OwnDrop, Zenon
  <2> QED
    BY <1>1, <2>3, <2>4, AcceptorAlone, Zenon
<1> QED
  BY <1>3, <1>4, <1>5, Zenon

\* A thread that does not exist holds nothing.
LEMMA IdleFacts ==
    /\ Fields(Idle, Client) /\ Idle.pc = "none" /\ Idle.slot = FALSE
    /\ ~ HoldsFd(Idle) /\ ~ InTable(Idle) /\ ~ IsCounted(Idle) /\ Answers(Idle) /\ "none" \notin Working
<1>1. Fields(Idle, Client) /\ Idle.pc = "none" /\ Idle.slot = FALSE
  BY Zenon DEF Idle, Fields, Client
<1>2. /\ ~ HoldsFd(Idle) /\ ~ InTable(Idle) /\ ~ IsCounted(Idle) /\ Answers(Idle) /\ "none" \notin Working
  BY <1>1, Zenon DEF HoldsFd, InTable, IsCounted, Serving, Working, Answers
<1> QED
  BY <1>1, <1>2, Zenon

\* ReapFinishedClients joins threads that have given everything back.
LEMMA ReapStep ==
    ASSUME ServerInv, ReapFinishedClients
    PROVE  ServerInv'
<1> DEFINE done == {w \in client_workers : worker[w].pc = "ended"}
<1>1. /\ acceptor.pc = "reap" /\ acceptor' = [acceptor EXCEPT !.pc = "decide"]
      /\ client_workers' = client_workers \ done
      /\ worker' = [w \in Worker |-> IF w \in done THEN Idle ELSE worker[w]]
      /\ UNCHANGED <<client_sockets, active_peers_by_ip, active_peers, active_proof_requests, waiting, open, scope,
                     gossip, gossip_socket, gossip_asleep, core, socket_fd>>
  BY Zenon DEF ReapFinishedClients, Accepting, AcceptQuiet, corev, kernel
<1>2. ASSUME NEW w \in done PROVE w \in Worker /\ worker'[w] = Idle /\ worker[w].pc = "ended"
  BY <1>1, Zenon DEF ServerInv, WorkerType
<1>3. ASSUME NEW w \in Worker, w \notin done PROVE worker'[w] = worker[w]
  BY <1>1, <1>3, Zenon
<1> HIDE DEF done
<1>4. ASSUME NEW w \in Worker
      PROVE  /\ HoldsFd(worker'[w]) <=> HoldsFd(worker[w])
             /\ InTable(worker'[w]) <=> InTable(worker[w])
             /\ IsCounted(worker'[w]) <=> IsCounted(worker[w])
             /\ worker'[w].slot <=> worker[w].slot
             /\ HoldsFd(worker[w]) => worker'[w] = worker[w]
  <2>1. CASE w \in done
    <3>1. worker[w].pc = "ended" /\ worker'[w] = Idle
      BY <1>2, <2>1, Zenon
    <3>2. ~ HoldsFd(worker[w]) /\ ~ InTable(worker[w]) /\ ~ IsCounted(worker[w]) /\ worker[w].pc \notin Working
      BY <3>1, Zenon DEF HoldsFd, InTable, IsCounted, Serving, Working
    <3>3. ~ worker[w].slot
      BY <3>2, ThreadFacts, Zenon
    <3> QED
      BY <3>1, <3>2, <3>3, IdleFacts, Zenon
  <2>2. CASE w \notin done
    BY <1>3, <2>2, Zenon
  <2> QED
    BY <2>1, <2>2, Zenon
<1>5. \A w \in Worker : InTable(worker[w]) => HoldsFd(worker[w])
  BY Zenon DEF InTable, HoldsFd
<1>6. Holders' = Holders /\ Tabled' = Tabled /\ Counted' = Counted /\ Slotted' = Slotted
  BY <1>4, Zenon DEF Holders, Tabled, Counted, Slotted
<1>7. \A i : TabledAt(i)' = TabledAt(i)
  BY <1>4, <1>5, Zenon DEF TabledAt
<1>8. WorkerType'
  <2>1. /\ \A w \in Worker : /\ Fields(worker'[w], Client)
                             /\ worker'[w].pc \in {"none"} \cup Serving \cup Leaving
                             /\ worker'[w].slot \in BOOLEAN /\ (worker'[w].slot <=> worker'[w].pc \in Working)
                             /\ worker'[w].pc # "none" => worker'[w].ip \in Address
                             /\ Answers(worker'[w])
    BY <1>2, <1>3, IdleFacts, Zenon DEF ServerInv, WorkerType
  <2>2. worker' = [w \in Worker |-> worker'[w]]
    BY <1>1, Zenon
  <2>3. client_workers' = {w \in Worker : worker'[w].pc # "none"}
    BY <1>1, <1>2, <1>3, IdleFacts, Zenon DEF ServerInv, WorkerType
  <2>4. waiting' \subseteq {w \in Worker : worker'[w].pc = "wait"}
    BY <1>1, <1>2, <1>3, Zenon DEF ServerInv, WorkerType
  <2> QED
    BY <2>1, <2>2, <2>3, <2>4, Zenon DEF WorkerType, Answers
<1>9. CountInv'
  BY <1>1, <1>6, <1>7, Zenon DEF ServerInv, CountInv
<1>10. TableInv'
  <2>1. {worker'[x].fd : x \in Tabled'} = {worker[x].fd : x \in Tabled}
    BY <1>4, <1>5, <1>6, Zenon DEF Tabled
  <2> QED
    BY <1>1, <2>1, Zenon DEF ServerInv, TableInv
<1>11. HeldFds' = HeldFds /\ OneHolder'
  <2>1. \A x \in Holders : worker'[x].fd = worker[x].fd
    BY <1>4, Zenon DEF Holders
  <2> QED
    BY <1>6, <2>1, SameHolders, Zenon
<1>12. Fields(acceptor', Guard) /\ acceptor'.pc = "decide" /\ acceptor'.fd = acceptor.fd /\ acceptor'.ip = acceptor.ip
  BY <1>1, Zenon DEF Fields, Guard, ServerInv, AcceptorInv
<1>13. AcceptorInv' /\ GossipInv' /\ CoreSocketInv' /\ scope' \in Scope
  BY <1>1, <1>12, Zenon DEF ServerInv, AcceptorInv, GossipInv, CoreSocketInv
<1>14. OneOwner(open', HeldFds', acceptor'.fd, gossip'.fd, core'.fd)
  BY <1>1, <1>11, <1>12, Zenon DEF ServerInv, FdInv
<1> QED
  BY <1>8, <1>9, <1>10, <1>11, <1>13, <1>14, AllParts, Zenon

\* An admitted connection: its thread takes over the descriptor, the table entry and
\* the counts in one critical section.
LEMMA RegisterStep ==
    ASSUME ServerInv, Register
    PROVE  ServerInv'
<1> DEFINE a == acceptor.fd
           ip == acceptor.ip
<1>1. PICK w \in scope.workers \ client_workers :
        /\ client_workers' = client_workers \cup {w}
        /\ worker' = [worker EXCEPT ![w] = [Idle EXCEPT !.pc = "loop", !.fd = a, !.ip = ip]]
  BY Zenon DEF Register
<1> DEFINE q == [Idle EXCEPT !.pc = "loop", !.fd = a, !.ip = ip]
<1>2. /\ acceptor.pc = "decide" /\ active_peers < MaxPeers /\ active_peers_by_ip[ip] < MaxPeersPerIp
      /\ active_peers_by_ip' = [active_peers_by_ip EXCEPT ![ip] = @ + 1]
      /\ client_sockets' = Append(client_sockets, a) /\ active_peers' = active_peers + 1
      /\ acceptor' = [pc |-> "top", fd |-> 0, ip |-> NONE]
      /\ UNCHANGED <<active_proof_requests, waiting, open, scope, gossip, gossip_socket, gossip_asleep, core, socket_fd>>
  BY Zenon DEF Register, Admitted, AcceptIdle, AcceptQuiet, corev, kernel
<1>3. Fields(q, Client) /\ q.pc = "loop" /\ q.fd = a /\ q.ip = ip /\ q.slot = FALSE
  BY Zenon DEF Idle, Fields, Client
<1>4. Becomes(w, q)
  BY <1>1, Zenon DEF Becomes
<1> HIDE DEF q
<1>5. w \in Worker /\ worker[w].pc = "none" /\ a # 0 /\ ip \in Address
  BY <1>1, <1>2, ScopeConfig, Zenon DEF ServerInv, WorkerType, AcceptorInv
<1>6. /\ HoldsFd(q) /\ InTable(q) /\ IsCounted(q) /\ q.pc \in Serving \cup Leaving /\ q.pc \notin Working
      /\ Answers(q)
      /\ ~ HoldsFd(worker[w]) /\ ~ InTable(worker[w]) /\ ~ IsCounted(worker[w]) /\ worker[w].pc \notin Working
  BY <1>3, <1>5, Zenon DEF HoldsFd, InTable, IsCounted, Serving, Leaving, Working, Answers
<1>7. /\ ~ worker[w].slot /\ w \notin waiting /\ w \notin Holders /\ w \notin Tabled /\ w \notin Counted
      /\ w \notin Slotted /\ \A i : w \notin TabledAt(i)
  <2>1. ~ worker[w].slot /\ w \notin waiting
    BY <1>5, <1>6, ThreadFacts, Zenon
  <2> QED
    BY <1>6, <2>1, Zenon DEF Holders, Tabled, Counted, Slotted, TabledAt
<1>8. /\ worker'[w] = q /\ (\A x \in Worker : x # w => worker'[x] = worker[x])
      /\ Holders' = Holders \cup {w} /\ Tabled' = Tabled \cup {w} /\ Counted' = Counted \cup {w}
      /\ Slotted' = Slotted \ {w}
      /\ \A i : TabledAt(i)' = IF ip = i THEN TabledAt(i) \cup {w} ELSE TabledAt(i) \ {w}
  <2>1. Altered(w, q)
    BY <1>4, <1>5, AlteredSets, ThreadFacts, Zenon
  <2> QED
    BY <1>3, <1>6, <2>1, Zenon DEF Altered
<1>9. WorkerType'
  <2>1. waiting' \subseteq waiting \ {w}
    BY <1>2, <1>7, Zenon
  <2>2. q.slot \in BOOLEAN /\ (q.slot <=> q.pc \in Working) /\ q.ip \in Address
    BY <1>3, <1>5, <1>6, Zenon
  <2> QED
    BY <1>1, <1>3, <1>4, <1>5, <1>6, <2>1, <2>2, WorkerBecomes, Zenon DEF ServerInv
<1>10. CountInv'
  <2>0. MaxPeersPerIp \in Nat /\ MaxPeers \in Nat
    BY Limits, Zenon
  <2>1. /\ active_peers_by_ip \in [Address -> Nat] /\ active_peers = Cardinality(Counted)
        /\ active_proof_requests = Cardinality(Slotted) /\ active_proof_requests <= MaxProofRequests
    BY Zenon DEF ServerInv, CountInv
  <2>2. ASSUME NEW i \in Address
        PROVE  /\ active_peers_by_ip'[i] = Cardinality(TabledAt(i)') /\ active_peers_by_ip'[i] <= MaxPeersPerIp
               /\ active_peers_by_ip'[i] \in Nat
    <3>1. TabledAt(i) \subseteq Worker
      BY Zenon DEF TabledAt
    <3>2. Cardinality(TabledAt(i)') = IF ip = i THEN Cardinality(TabledAt(i)) + 1 ELSE Cardinality(TabledAt(i))
      <4>1. w \notin TabledAt(i) /\ TabledAt(i)' = IF ip = i THEN TabledAt(i) \cup {w} ELSE TabledAt(i) \ {w}
        BY <1>7, <1>8, Zenon
      <4> QED
        BY <3>1, <4>1, Counts
    <3>3. active_peers_by_ip'[i] = IF ip = i THEN active_peers_by_ip[i] + 1 ELSE active_peers_by_ip[i]
      BY <1>2, <2>1, Zenon
    <3>4. active_peers_by_ip[i] = Cardinality(TabledAt(i)) /\ active_peers_by_ip[i] <= MaxPeersPerIp
      BY Zenon DEF ServerInv, CountInv
    <3> QED
      BY <1>2, <2>0, <2>1, <3>2, <3>3, <3>4, SMTT(30)
  <2>3. active_peers_by_ip' \in [Address -> Nat]
    <3>1. active_peers_by_ip' = [i \in Address |-> active_peers_by_ip'[i]]
      BY <1>2, <2>1, Zenon
    <3> QED
      BY <2>2, <3>1, Zenon
  <2>4. active_peers' = Cardinality(Counted') /\ active_peers' <= MaxPeers
    <3>1. Counted \subseteq Worker
      BY Zenon DEF Counted
    <3>2. Cardinality(Counted') = Cardinality(Counted) + 1 /\ Cardinality(Counted) \in Nat
      BY <1>7, <1>8, <3>1, Counts, Zenon
    <3> QED
      BY <1>2, <2>0, <2>1, <3>2
  <2>5. Slotted' = Slotted
    BY <1>7, <1>8, Zenon
  <2> QED
    BY <1>2, <2>1, <2>2, <2>3, <2>4, <2>5, Zenon DEF CountInv
<1>11. /\ OneOwner(open, HeldFds \cup {a}, 0, gossip.fd, core.fd) /\ a \notin HeldFds /\ a \in Fd
  BY <1>5, OwnHand, Zenon DEF ServerInv, FdInv
<1>12. HeldFds' = HeldFds \cup {a} /\ OneHolder'
  <2>1. \A x \in Holders : x \in Worker /\ x # w /\ worker'[x].fd = worker[x].fd /\ worker[x].fd # a
    BY <1>7, <1>8, <1>11, Zenon DEF Holders, HeldFds
  <2>2. worker'[w].fd = a /\ Holders' = Holders \cup {w}
    BY <1>3, <1>8, Zenon
  <2>3. HeldFds' = {worker'[x].fd : x \in Holders \cup {w}}
    BY <2>2, Zenon DEF HeldFds
  <2>4. HeldFds' = HeldFds \cup {a}
    BY <2>1, <2>2, <2>3, Zenon DEF HeldFds
  <2>5. OneHolder'
    BY <2>1, <2>2, SMTT(30) DEF OneHolder, ServerInv, FdInv
  <2> QED
    BY <2>4, <2>5, Zenon
<1>13. TableInv'
  <2>1. /\ client_sockets \in Seq(Fd) /\ IsInjective(client_sockets)
        /\ Range(client_sockets) = {worker[x].fd : x \in Tabled}
    BY Zenon DEF ServerInv, TableInv
  <2>2. Tabled \subseteq Holders /\ Holders \subseteq Worker
    BY Zenon DEF Tabled, Holders, InTable, HoldsFd
  <2>3. a \notin Range(client_sockets)
    BY <1>11, <2>1, <2>2, Zenon DEF HeldFds
  <2>4. /\ client_sockets' \in Seq(Fd) /\ IsInjective(client_sockets')
        /\ Range(client_sockets') = Range(client_sockets) \cup {a}
    <3>1. client_sockets' = Append(client_sockets, a)
      BY <1>2, Zenon
    <3> QED
      BY <1>11, <2>1, <2>3, <3>1, AppendList, Zenon
  <2>5. \A x \in Tabled : x # w /\ worker'[x].fd = worker[x].fd
    <3> SUFFICES ASSUME NEW x \in Tabled PROVE x # w /\ worker'[x].fd = worker[x].fd
      BY Zenon
    <3>1. x # w /\ x \in Worker
      BY <1>7, <2>2, Zenon
    <3> QED
      BY <1>8, <3>1, Zenon
  <2>6. {worker'[x].fd : x \in Tabled'} = Range(client_sockets) \cup {a}
    BY <1>3, <1>8, <2>1, <2>5, Zenon
  <2> QED
    BY <2>4, <2>6, Zenon DEF TableInv
<1>14. Fields(acceptor', Guard) /\ acceptor'.pc = "top" /\ acceptor'.fd = 0
  BY <1>2, Zenon DEF Fields, Guard
<1>15. AcceptorInv' /\ GossipInv' /\ CoreSocketInv' /\ scope' \in Scope
  BY <1>2, <1>14, Zenon DEF ServerInv, AcceptorInv, GossipInv, CoreSocketInv
<1>16. OneOwner(open', HeldFds', acceptor'.fd, gossip'.fd, core'.fd)
  BY <1>2, <1>11, <1>12, <1>14, Zenon
<1> QED
  BY <1>9, <1>10, <1>12, <1>13, <1>15, <1>16, AllParts, Zenon

(***************************************************************************)
(* The steps of the gossip thread and of the Core connection.              *)
(***************************************************************************)
\* Whatever the gossip thread does, only its own descriptor is at stake.
LEMMA GossipAlone ==
    ASSUME ServerInv, GossipQuiet, GossipInv', OneOwner(open', HeldFds, acceptor.fd, gossip'.fd, core.fd)
    PROVE  ServerInv'
<1>1. UNCHANGED <<table, worker, active_proof_requests, waiting, scope, acceptor, core, socket_fd>>
  BY Zenon DEF GossipQuiet, corev
<1>2. AcceptorInv' /\ CoreSocketInv' /\ scope' \in Scope
  BY <1>1, Zenon DEF ServerInv, AcceptorInv, CoreSocketInv
<1>3. waiting' \subseteq waiting
  BY <1>1, Zenon
<1>4. OneOwner(open', HeldFds', acceptor'.fd, gossip'.fd, core'.fd)
  BY <1>1, <1>3, WorkersFrame, Zenon
<1> QED
  BY <1>1, <1>2, <1>3, <1>4, WorkersFrame, AllParts, Zenon

\* GossipLoop: the socket is made known after it is made, and forgotten in the same
\* critical section that closes it.
LEMMA GossipSteps ==
    ASSUME ServerInv, GossipStep
    PROVE  ServerInv'
<1> DEFINE g == gossip
           own == OneOwner(open', HeldFds, acceptor.fd, gossip'.fd, core.fd)
<1>1. OneOwner(open, HeldFds, g.fd, acceptor.fd, core.fd) /\ GossipInv /\ Fields(g, Outbound)
  BY OwnSwap, Zenon DEF ServerInv, FdInv, GossipInv
<1>2. GossipQuiet
  BY GossipFrame, Zenon
<1>3. SUFFICES GossipInv' /\ own
  BY <1>2, GossipAlone, Zenon
<1>4. ASSUME gossip'.fd = g.fd, open' = open PROVE own
  BY <1>1, <1>4, OwnSwap, Zenon
<1>5. ASSUME NEW p, gossip' = [g EXCEPT !.pc = p]
      PROVE  Fields(gossip', Outbound) /\ gossip'.pc = p /\ gossip'.fd = g.fd
  BY <1>1, <1>5, Zenon DEF Fields, Outbound
<1>6. ASSUME NEW p, NEW f, gossip' = [pc |-> p, fd |-> f]
      PROVE  Fields(gossip', Outbound) /\ gossip'.pc = p /\ gossip'.fd = f
  BY <1>6, Zenon DEF Fields, Outbound
<1>7. CASE GossipTop \/ GossipChecks \/ GossipExchanged \/ GossipInterrupted
  <2>1. PICK p : /\ gossip' = [g EXCEPT !.pc = p]
                 /\ \/ g.pc = "top" /\ p \in {"ended", "socket"}
                    \/ g.pc \in {"check", "exchange"} /\ p \in {"close", "exchange"}
    BY <1>7, Zenon DEF GossipTop, GossipChecks, GossipExchanged, GossipInterrupted
  <2>2. Fields(gossip', Outbound) /\ gossip'.pc = p /\ gossip'.fd = g.fd
    BY <1>5, <2>1, Zenon
  <2>3. UNCHANGED <<open, gossip_socket, gossip_asleep>>
    BY <1>7, Zenon DEF GossipTop, GossipChecks, GossipExchanged, GossipInterrupted, kernel
  <2>4. GossipInv'
    BY <1>1, <2>1, <2>2, <2>3, Zenon DEF GossipInv
  <2> QED
    BY <1>4, <2>2, <2>3, <2>4, Zenon
<1>8. CASE GossipSocket
  <2>1. PICK f \in scope.fds \ open : open' = open \cup {f} /\ gossip' = [pc |-> "store", fd |-> f]
    BY <1>8, Zenon DEF GossipSocket, FreshFd
  <2>2. f \in Fd \ open /\ f # 0
    BY <2>1, FdsOfScope, Zenon DEF ServerInv
  <2>3. Fields(gossip', Outbound) /\ gossip'.pc = "store" /\ gossip'.fd = f
    BY <1>6, <2>1, Zenon
  <2>4. g.pc = "socket" /\ UNCHANGED <<gossip_socket, gossip_asleep>>
    BY <1>8, Zenon DEF GossipSocket
  <2>5. GossipInv' /\ g.fd = 0
    BY <1>1, <2>3, <2>4, Zenon DEF GossipInv
  <2>6. OneOwner(open', HeldFds, gossip'.fd, acceptor.fd, core.fd)
    BY <1>1, <2>1, <2>2, <2>3, <2>5, OwnTake, Zenon
  <2> QED
    BY <2>5, <2>6, OwnSwap, Zenon
<1>9. CASE GossipNoSocket
  <2>1. gossip' = [pc |-> "pause", fd |-> 0] /\ g.pc = "socket" /\ UNCHANGED <<open, gossip_socket, gossip_asleep>>
    BY <1>9, Zenon DEF GossipNoSocket, kernel
  <2>2. Fields(gossip', Outbound) /\ gossip'.pc = "pause" /\ gossip'.fd = 0
    BY <1>6, <2>1, Zenon
  <2>3. GossipInv' /\ g.fd = 0
    BY <1>1, <2>1, <2>2, Zenon DEF GossipInv
  <2> QED
    BY <1>4, <2>1, <2>2, <2>3, Zenon
<1>10. CASE GossipStores
  <2>1. /\ gossip' = [g EXCEPT !.pc = "check"] /\ g.pc = "store" /\ gossip_socket' = g.fd
        /\ UNCHANGED <<open, gossip_asleep>>
    BY <1>10, Zenon DEF GossipStores, kernel
  <2>2. Fields(gossip', Outbound) /\ gossip'.pc = "check" /\ gossip'.fd = g.fd
    BY <1>5, <2>1, Zenon
  <2>3. GossipInv'
    BY <1>1, <2>1, <2>2, Zenon DEF GossipInv
  <2> QED
    BY <1>4, <2>1, <2>2, <2>3, Zenon
<1>11. CASE GossipCloses
  <2>1. /\ gossip' = [pc |-> "pause", fd |-> 0] /\ g.pc = "close" /\ gossip_socket' = 0
        /\ open' = open \ {g.fd} /\ UNCHANGED gossip_asleep
    BY <1>11, Zenon DEF GossipCloses, CloseFd
  <2>2. Fields(gossip', Outbound) /\ gossip'.pc = "pause" /\ gossip'.fd = 0
    BY <1>6, <2>1, Zenon
  <2>3. GossipInv'
    BY <1>1, <2>1, <2>2, Zenon DEF GossipInv
  <2>4. OneOwner(open', HeldFds, gossip'.fd, acceptor.fd, core.fd)
    BY <1>1, <2>1, <2>2, OwnDrop, Zenon
  <2> QED
    BY <2>3, <2>4, OwnSwap, Zenon
<1>12. CASE GossipPauses \/ GossipRetries
  <2>1. /\ g.pc = "pause" /\ UNCHANGED <<open, gossip_socket>>
        /\ \/ gossip' = [g EXCEPT !.pc = "top"] /\ gossip_asleep' = FALSE
           \/ gossip' = g
    <3>1. CASE GossipPauses
      BY <3>1 DEF GossipPauses, kernel
    <3>2. CASE GossipRetries
      BY <1>1, <3>2, Zenon DEF GossipRetries, GossipInv, kernel
    <3> QED
      BY <1>12, <3>1, <3>2, Zenon
  <2>2. CASE gossip' = [g EXCEPT !.pc = "top"] /\ gossip_asleep' = FALSE
    <3>1. Fields(gossip', Outbound) /\ gossip'.pc = "top" /\ gossip'.fd = g.fd
      BY <1>5, <2>2, Zenon
    <3>2. GossipInv'
      BY <1>1, <2>1, <2>2, <3>1, Zenon DEF GossipInv
    <3> QED
      BY <1>4, <2>1, <3>1, <3>2, Zenon
  <2>3. CASE gossip' = g
    <3>1. GossipInv'
      BY <1>1, <2>1, <2>3, Zenon DEF GossipInv
    <3> QED
      BY <1>4, <2>1, <2>3, <3>1, Zenon
  <2> QED
    BY <2>1, <2>2, <2>3, Zenon
<1> QED
  BY <1>7, <1>8, <1>9, <1>10, <1>11, <1>12, Zenon DEF GossipStep, GossipRuns

\* Whatever the thread of the Core connection does, only its own descriptor is at stake.
LEMMA CoreAlone ==
    ASSUME ServerInv, ServerQuiet, CoreSocketInv', OneOwner(open', HeldFds, acceptor.fd, gossip.fd, core'.fd)
    PROVE  ServerInv'
<1>1. UNCHANGED <<table, worker, active_proof_requests, waiting, scope, acceptor, gossip, gossip_socket, gossip_asleep>>
  BY Zenon DEF ServerQuiet, gossipv
<1>2. AcceptorInv' /\ GossipInv' /\ scope' \in Scope
  BY <1>1, Zenon DEF ServerInv, AcceptorInv, GossipInv
<1>3. waiting' \subseteq waiting
  BY <1>1, Zenon
<1>4. OneOwner(open', HeldFds', acceptor'.fd, gossip'.fd, core'.fd)
  BY <1>1, <1>3, WorkersFrame, Zenon
<1> QED
  BY <1>1, <1>2, <1>3, <1>4, WorkersFrame, AllParts, Zenon

\* The socket to Core is made known after it is made, and closed by the thread that
\* made it (Run, Connect).
LEMMA CoreSteps ==
    ASSUME ServerInv, QueueInv, CoreThread(CoreStep(scope.fds))
    PROVE  ServerInv'
<1> DEFINE own == OneOwner(open', HeldFds, acceptor.fd, gossip.fd, core'.fd)
<1>1. OneOwner(open, HeldFds, core.fd, gossip.fd, acceptor.fd) /\ CoreSocketInv /\ Fields(core, Inbound)
  BY OwnSwap, Zenon DEF ServerInv, FdInv, CoreSocketInv
<1>2. ServerQuiet /\ CoreStep(scope.fds)
  BY Zenon DEF CoreThread
<1>3. SUFFICES CoreSocketInv' /\ own
  BY <1>2, CoreAlone, Zenon
<1>4. ASSUME core'.fd = core.fd, open' = open PROVE own
  BY <1>1, <1>4, OwnSwap, Zenon
<1>5. /\ Fields(core', Inbound)
      /\ CoreSocket(scope.fds) \/ CoreStores \/ CoreCloses \/ CoreIdles \/ CoreTalks
  BY <1>1, <1>2, CoreCases, Zenon DEF QueueInv
<1>6. CASE CoreSocket(scope.fds)
  <2>1. PICK f \in scope.fds \ open : open' = open \cup {f} /\ core' = [At("store") EXCEPT !.fd = f]
    BY <1>6, Zenon DEF CoreSocket, FreshFd
  <2>2. f \in Fd \ open /\ f # 0
    BY <2>1, FdsOfScope, Zenon DEF ServerInv
  <2>3. core'.pc = "store" /\ core'.fd = f
    BY <2>1, Zenon DEF At, Off
  <2>4. core.pc = "socket" /\ UNCHANGED socket_fd
    BY <1>6, Zenon DEF CoreSocket
  <2>5. CoreSocketInv' /\ core.fd = 0
    BY <1>1, <1>5, <2>3, <2>4, Zenon DEF CoreSocketInv
  <2>6. OneOwner(open', HeldFds, core'.fd, gossip.fd, acceptor.fd)
    BY <1>1, <2>1, <2>2, <2>3, <2>5, OwnTake, Zenon
  <2> QED
    BY <2>5, <2>6, OwnSwap, Zenon
<1>7. CASE CoreStores
  <2>1. core' = [core EXCEPT !.pc = "connect"] /\ core.pc = "store" /\ socket_fd' = core.fd /\ UNCHANGED open
    BY <1>7, Zenon DEF CoreStores, kernel
  <2>2. core'.pc = "connect" /\ core'.fd = core.fd
    BY <1>1, <2>1, CoreRecords, Zenon
  <2>3. CoreSocketInv'
    BY <1>1, <1>5, <2>1, <2>2, Zenon DEF CoreSocketInv
  <2> QED
    BY <1>4, <2>1, <2>2, <2>3, Zenon
<1>8. CASE CoreCloses
  <2>1. core' = At("pause") /\ core.pc = "close" /\ socket_fd' = 0
    BY <1>8, Zenon DEF CoreCloses
  <2>2. core'.pc = "pause" /\ core'.fd = 0
    BY <2>1, CoreRecords, Zenon
  <2>3. CoreSocketInv' /\ socket_fd = core.fd
    BY <1>1, <1>5, <2>1, <2>2, Zenon DEF CoreSocketInv
  <2>4. open' = open \ {core.fd}
    BY <1>1, <1>8, <2>3, Zenon DEF CoreCloses, CloseFd, OneOwner, kernel
  <2>5. OneOwner(open', HeldFds, core'.fd, gossip.fd, acceptor.fd)
    BY <1>1, <2>2, <2>4, OwnDrop, Zenon
  <2> QED
    BY <2>3, <2>5, OwnSwap, Zenon
<1>9. CASE CoreIdles \/ CoreTalks
  <2>1. UNCHANGED <<open, socket_fd>> /\ core'.fd = core.fd
    BY <1>1, <1>9, Zenon DEF CoreIdles, CoreTalks, CoreSocketInv, kernel
  <2>2. CoreSocketInv'
    BY <1>1, <1>5, <1>9, <2>1, Zenon DEF CoreIdles, CoreTalks, CoreSocketInv
  <2> QED
    BY <1>4, <2>1, <2>2, Zenon
<1> QED
  BY <1>5, <1>6, <1>7, <1>8, <1>9, Zenon

(***************************************************************************)
(* The steps of the main thread.                                           *)
(***************************************************************************)
\* When every thread has ended, nothing is left for the destructor to close.
LEMMA JoinStep ==
    ASSUME ServerInv, StopJoinsWorkers
    PROVE  ServerInv'
<1>1. /\ \A w \in client_workers : worker[w].pc = "ended"
      /\ open' = open \ Range(client_sockets) /\ client_sockets' = <<>>
      /\ active_peers_by_ip' = [i \in Address |-> 0] /\ active_peers' = 0
      /\ UNCHANGED <<client_workers, worker, active_proof_requests, waiting, scope, acceptor, gossip, gossip_socket,
                     gossip_asleep, core, socket_fd>>
  BY Zenon DEF StopJoinsWorkers, gossipv, corev
<1>2. ASSUME NEW w \in Worker PROVE worker[w].pc \in {"none", "ended"}
  BY <1>1, Zenon DEF ServerInv, WorkerType
<1>3. ASSUME NEW w \in Worker
      PROVE  ~ HoldsFd(worker[w]) /\ ~ InTable(worker[w]) /\ ~ IsCounted(worker[w])
  BY <1>2, Zenon DEF HoldsFd, InTable, IsCounted, Serving, Working
<1>4. Holders = {} /\ Tabled = {} /\ Counted = {} /\ \A i : TabledAt(i) = {}
  BY <1>3, Zenon DEF Holders, Tabled, Counted, TabledAt
<1>5. Holders' = {} /\ Tabled' = {} /\ Counted' = {} /\ Slotted' = Slotted /\ \A i : TabledAt(i)' = {}
  BY <1>1, <1>3, Zenon DEF Holders, Tabled, Counted, TabledAt, Slotted
<1>6. WorkerType'
  BY <1>1, Zenon DEF ServerInv, WorkerType
<1>7. CountInv'
  <2>1. Cardinality({}) = 0 /\ 0 <= MaxPeersPerIp /\ 0 <= MaxPeers
    BY FS_EmptySet, Limits, Zenon
  <2>2. active_peers_by_ip' \in [Address -> Nat] /\ \A i \in Address : active_peers_by_ip'[i] = 0
    BY <1>1, Zenon
  <2>3. \A i \in Address : /\ active_peers_by_ip'[i] = Cardinality(TabledAt(i)')
                          /\ active_peers_by_ip'[i] <= MaxPeersPerIp
    BY <1>5, <2>1, <2>2, Zenon
  <2>4. active_peers' = Cardinality(Counted') /\ active_peers' <= MaxPeers
    BY <1>1, <1>5, <2>1, Zenon
  <2>5. active_proof_requests' = Cardinality(Slotted') /\ active_proof_requests' <= MaxProofRequests
    BY <1>1, <1>5, Zenon DEF ServerInv, CountInv
  <2> QED
    BY <2>2, <2>3, <2>4, <2>5, Zenon DEF CountInv
<1>8. Range(client_sockets) = {}
  BY <1>4, Zenon DEF ServerInv, TableInv
<1>9. TableInv'
  <2>1. client_sockets' \in Seq(Fd) /\ IsInjective(client_sockets') /\ Range(client_sockets') = {}
    BY <1>1, SMTT(30) DEF IsInjective, Range
  <2> QED
    BY <1>5, <2>1, Zenon DEF TableInv
<1>10. HeldFds' = HeldFds /\ OneHolder' /\ open' = open
  BY <1>1, <1>4, <1>5, <1>8, Zenon DEF HeldFds, OneHolder
<1>11. OneOwner(open', HeldFds', acceptor'.fd, gossip'.fd, core'.fd) /\ scope' \in Scope
  BY <1>1, <1>10, Zenon DEF ServerInv, FdInv
<1>12. gossip_asleep' => gossip_asleep
  BY <1>1, Zenon
<1> QED
  BY <1>1, <1>6, <1>7, <1>9, <1>10, <1>11, <1>12, OutsideFrame, AllParts, Zenon

\* The other steps of the main thread touch neither the table nor a descriptor.
LEMMA MainSteps ==
    ASSUME ServerInv, MainStep \/ UNCHANGED vars
    PROVE  ServerInv'
<1>1. CASE StopJoinsWorkers
  BY <1>1, JoinStep, Zenon
<1>2. CASE Connect \/ PublishBlock \/ Reorganize \/ Discard \/ StopJoinsThreads
  <2>1. MainQuiet /\ waiting' \subseteq waiting
    BY <1>2, Zenon DEF Connect, PublishBlock, Publish, Reorganize, Discard, DiscardAfter, StopJoinsThreads
  <2>2. /\ UNCHANGED <<table, worker, active_proof_requests, acceptor, gossip, gossip_socket, core, socket_fd, open, scope>>
        /\ gossip_asleep' => gossip_asleep
    BY <2>1, Zenon DEF MainQuiet, gossipv, corev, kernel
  <2> QED
    BY <2>1, <2>2, ServerFrame, Zenon
<1>3. CASE StopBegins \/ StopWakes \/ StopInterrupts \/ StopShutsDown \/ UNCHANGED vars
  <2>1. UNCHANGED <<table, worker, active_proof_requests, acceptor, gossip, gossip_socket, core, socket_fd, open, scope>>
    BY <1>3, Zenon DEF StopBegins, StopWakes, StopInterrupts, StopShutsDown, vars, gossipv, corev, kernel
  <2>2. waiting' \subseteq waiting /\ (gossip_asleep' => gossip_asleep)
    BY <1>3, SMTT(30) DEF StopBegins, StopWakes, WakeAll, StopInterrupts, StopShutsDown, vars, gossipv
  <2> QED
    BY <2>1, <2>2, ServerFrame, Zenon
<1>4. CASE TakeFromCore \/ WaitForCore \/ StopsCore
  <2>1. ServerQuiet /\ UNCHANGED <<open, core, socket_fd>>
    BY <1>4, Zenon DEF TakeFromCore, Take, WaitForCore, WaitSleeps, WaitReturns, WaitExpires, StopsCore, CoreSetStopping,
                CoreInterrupts, CoreNotifies, corev, kernel
  <2>2. CoreSocketInv'
    BY <2>1, Zenon DEF ServerInv, CoreSocketInv
  <2>3. OneOwner(open', HeldFds, acceptor.fd, gossip.fd, core'.fd)
    BY <2>1, Zenon DEF ServerInv, FdInv
  <2> QED
    BY <2>1, <2>2, <2>3, CoreAlone, Zenon
<1> QED
  BY <1>1, <1>2, <1>3, <1>4, Zenon DEF MainStep, MainStops, Stopped

(***************************************************************************)
(* ServerInv is inductive.                                                 *)
(***************************************************************************)
LEMMA ClientSteps ==
    ASSUME ServerInv, NEW w \in Worker, ClientStep(w)
    PROVE  ServerInv'
<1>1. WorkerType /\ active_proof_requests \in Int
  BY ThreadFacts, Zenon DEF ServerInv
<1>2. CASE \E q : Serves(w, q)
  BY <1>2, ServesStep, Zenon
<1>3. CASE /\ UNCHANGED <<worker, active_proof_requests>> /\ ClientLocal
           /\ worker[w].pc = "wait" /\ waiting' = waiting \cup {w}
  <2>1. /\ UNCHANGED <<table, open, scope, acceptor, gossip, gossip_socket, core, socket_fd>>
        /\ gossip_asleep' => gossip_asleep
    BY <1>3, Zenon DEF ClientLocal, ClientQuiet, gossipv, corev, kernel
  <2>2. waiting' \subseteq waiting \cup {x \in Worker : worker[x].pc = "wait"}
    BY <1>3, Zenon
  <2>3. /\ WorkerType' /\ CountInv' /\ TableInv' /\ OneHolder' /\ HeldFds' = HeldFds
    BY <1>3, <2>1, <2>2, SleepersFrame, Zenon
  <2>4. OneOwner(open', HeldFds', acceptor'.fd, gossip'.fd, core'.fd) /\ scope' \in Scope
    BY <2>1, <2>3, Zenon DEF ServerInv, FdInv
  <2> QED
    BY <2>1, <2>3, <2>4, OutsideFrame, AllParts, Zenon
<1>4. CASE WaitFor(w) \/ WaitTimesOut(w)
  BY <1>1, <1>2, <1>3, <1>4, WaitingSteps, Zenon
<1>5. CASE \/ Loop(w) \/ ReadInterrupted(w) \/ Find(w) \/ ReadIndex(w) \/ PairState(w) \/ Send(w)
           \/ ReadHash(w) \/ ReadState(w) \/ SendStates(w) \/ Handshake(w) \/ GetUProof(w)
           \/ GetCFilters(w) \/ ClientFails(w)
  BY <1>1, <1>2, <1>5, ServingSteps, Zenon
<1>6. CASE Unlist(w) \/ RemoveCloses(w) \/ Uncount(w) \/ ClientEnds(w)
  BY <1>6, UnlistStep, RemoveClosesStep, ClientEndsStep, Zenon
<1> QED
  BY <1>4, <1>5, <1>6, Zenon DEF ClientStep, ClientRuns

\* Every step of the program preserves ServerInv.
LEMMA ServerStep ==
    ASSUME ServerInv, QueueInv, [Next]_vars
    PROVE  ServerInv'
<1>1. CASE MainStep \/ UNCHANGED vars
  BY <1>1, MainSteps, Zenon
<1>2. CASE AcceptorStep
  BY <1>2, AcceptorSteps, ReapStep, RegisterStep, Zenon DEF AcceptorStep, AcceptorRuns
<1>3. CASE \E w \in Worker : ClientStep(w)
  BY <1>3, ClientSteps, Zenon
<1>4. CASE GossipStep
  BY <1>4, GossipSteps, Zenon
<1>5. CASE CoreThread(CoreStep(scope.fds))
  BY <1>5, CoreSteps, Zenon
<1> QED
  BY <1>1, <1>2, <1>3, <1>4, <1>5, Zenon DEF Next

\* The server starts with no connection and no descriptor.
LEMMA ServerInit ==
    ASSUME Init
    PROVE  ServerInv
<1>1. /\ scope \in Scope /\ open = {} /\ acceptor = [pc |-> "top", fd |-> 0, ip |-> NONE]
      /\ client_sockets = <<>> /\ active_peers_by_ip = [i \in Address |-> 0] /\ active_peers = 0
      /\ client_workers = {} /\ active_proof_requests = 0 /\ gossip_socket = 0 /\ gossip_asleep = FALSE
      /\ waiting = {} /\ socket_fd = 0 /\ worker = [w \in Worker |-> Idle]
  BY Zenon DEF Init, CacheInit, CoreInit
<1>2. /\ worker = [w \in Worker |-> worker[w]] /\ \A w \in Worker : worker[w] = Idle
  BY <1>1, Zenon
<1>3. WorkerType
  <2>1. client_workers = {w \in Worker : worker[w].pc # "none"} /\ waiting \subseteq {w \in Worker : worker[w].pc = "wait"}
    BY <1>1, <1>2, IdleFacts, Zenon
  <2> QED
    BY <1>2, <2>1, IdleFacts, Zenon DEF WorkerType
<1>4. Holders = {} /\ Tabled = {} /\ Counted = {} /\ Slotted = {} /\ \A i : TabledAt(i) = {}
  BY <1>2, IdleFacts, Zenon DEF Holders, Tabled, Counted, Slotted, TabledAt
<1>5. CountInv
  <2>1. Cardinality({}) = 0 /\ MaxPeersPerIp \in Nat /\ MaxPeers \in Nat /\ MaxProofRequests \in Nat
    BY FS_EmptySet, Limits, Zenon
  <2>2. active_peers_by_ip \in [Address -> Nat] /\ \A i \in Address : active_peers_by_ip[i] = 0
    BY <1>1, Zenon
  <2>3. \A i \in Address : active_peers_by_ip[i] = Cardinality(TabledAt(i)) /\ active_peers_by_ip[i] <= MaxPeersPerIp
    BY <1>4, <2>1, <2>2
  <2>4. active_peers = 0 /\ active_proof_requests = 0
    BY <1>1, Zenon
  <2>5. /\ active_peers = Cardinality(Counted) /\ active_peers <= MaxPeers
        /\ active_proof_requests = Cardinality(Slotted) /\ active_proof_requests <= MaxProofRequests
    BY <1>4, <2>1, <2>4
  <2> QED
    BY <2>2, <2>3, <2>5, Zenon DEF CountInv
<1>6. Fields(acceptor, Guard) /\ acceptor.pc = "top" /\ acceptor.fd = 0
  BY <1>1, Zenon DEF Fields, Guard
<1>7. Fields(gossip, Outbound) /\ gossip.pc \in {"top", "ended"} /\ gossip.fd = 0
  <2>1. PICK p \in {"top", "ended"} : gossip = [pc |-> p, fd |-> 0]
    BY Zenon DEF Init
  <2>2. Fields(gossip, Outbound) /\ gossip.pc = p /\ gossip.fd = 0
    BY <2>1, Zenon DEF Fields, Outbound
  <2> QED
    BY <2>2, Zenon
<1>8. Fields(core, Inbound) /\ core.fd = 0
  BY CoreRecords, Zenon DEF Init, CoreInit
<1>9. AcceptorInv /\ GossipInv /\ CoreSocketInv
  BY <1>1, <1>6, <1>7, <1>8, Zenon DEF AcceptorInv, GossipInv, CoreSocketInv
<1>10. FdInv
  <2>1. HeldFds = {}
    BY <1>4, Zenon DEF HeldFds
  <2> QED
    BY <1>1, <1>4, <1>6, <1>7, <1>8, <2>1, Zenon DEF FdInv, OneOwner, Own
<1>11. TableInv
  <2>1. client_sockets \in Seq(Fd) /\ IsInjective(client_sockets) /\ Range(client_sockets) = {}
    BY <1>1 DEF IsInjective, Range
  <2> QED
    BY <1>4, <2>1, Zenon DEF TableInv
<1> QED
  BY <1>1, <1>3, <1>5, <1>9, <1>10, <1>11, Zenon DEF ServerInv

\* The strengthened invariant of the server, with that of the queue from Core.
THEOREM ServerInvariant == Spec => [](ServerInv /\ QueueInv)
<1>1. Init => ServerInv /\ QueueInv
  BY ServerInit, QueueInit, Zenon
<1>2. ServerInv /\ QueueInv /\ [Next]_vars => (ServerInv /\ QueueInv)'
  BY ServerStep, QueueStep, Zenon
<1> QED
  BY <1>1, <1>2, PTL DEF Spec

(***************************************************************************)
(* What the invariant says of the descriptors and of the counters.         *)
(***************************************************************************)
\* Threads with different descriptors are as many as their descriptors.
LEMMA FdCount ==
    ASSUME NEW S, S \subseteq Worker, \A w, x \in S : worker[w].fd = worker[x].fd => w = x
    PROVE  /\ IsFiniteSet({worker[w].fd : w \in S})
           /\ Cardinality({worker[w].fd : w \in S}) = Cardinality(S)
<1> DEFINE T == {worker[w].fd : w \in S}
           f == [w \in S |-> worker[w].fd]
<1>1. IsFiniteSet(S)
  BY Counts, Zenon
<1>2. f \in Bijection(S, T)
  BY Zenon DEF Bijection, Injection, Surjection, IsInjective
<1> HIDE DEF T, f
<1>3. IsFiniteSet(T) /\ Cardinality(S) = Cardinality(T)
  BY <1>1, <1>2, FS_Bijection, Zenon DEF ExistsBijection
<1> QED
  BY <1>3, Zenon DEF T

\* A descriptor of its own counts once.
LEMMA OwnAdds ==
    ASSUME NEW S, IsFiniteSet(S), NEW f, S \cap Own(f) = {}
    PROVE  /\ IsFiniteSet(S \cup Own(f))
           /\ Cardinality(S \cup Own(f)) = Cardinality(S) + Cardinality(Own(f))
<1>1. CASE f = 0
  <2>1. Own(f) = {} /\ S \cup Own(f) = S
    BY <1>1, Zenon DEF Own
  <2> QED
    BY <2>1, FS_EmptySet, FS_CardinalityType
<1>2. CASE f # 0
  <2>1. Own(f) = {f} /\ f \notin S
    BY <1>2, Zenon DEF Own
  <2> QED
    BY <2>1, FS_AddElement, FS_Singleton, Zenon
<1> QED
  BY <1>1, <1>2, Zenon

\* The program counters of the client threads, as the properties name them.
LEMMA WorkerStates ==
    ASSUME ServerInv
    PROVE  /\ {w \in Worker : Holds(w)} = Holders /\ {w \in Worker : Listed(w)} = Tabled
           /\ \A i : {w \in Worker : Listed(w) /\ worker[w].ip = i} = TabledAt(i)
           /\ {w \in Worker : worker[w].pc \notin {"none", "done", "ended"}} = Counted
           /\ {w \in Worker : worker[w].slot} = Slotted
<1>1. ASSUME NEW w \in Worker
      PROVE  /\ Holds(w) <=> HoldsFd(worker[w])
             /\ Listed(w) <=> InTable(worker[w])
             /\ worker[w].pc \notin {"none", "done", "ended"} <=> IsCounted(worker[w])
  <2>1. worker[w].pc \in {"none"} \cup Serving \cup Leaving
    BY Zenon DEF ServerInv, WorkerType
  <2> QED
    BY <2>1, Zenon DEF Holds, Listed, HoldsFd, InTable, IsCounted, Serving, Working, Leaving
<1> QED
  BY <1>1, Zenon DEF Holders, Tabled, TabledAt, Counted, Slotted

\* A server that runs for ever never mixes up descriptors, whatever the threads, the
\* descriptors and the addresses: every open one has one owner, the table lists those
\* of the threads that have not removed themselves, and an interrupt can only hit the
\* descriptor of the thread it is meant for (AcceptLoop, RemoveClient, GossipLoop, Run).
THEOREM SocketsAreOwned == Spec => []SocketsOwned
<1>1. ASSUME ServerInv PROVE SocketsOwned
  <2> DEFINE a == acceptor.fd
             g == gossip.fd
             c == core.fd
  <2>1. OneOwner(open, HeldFds, a, g, c) /\ OneHolder
    BY <1>1, Zenon DEF ServerInv, FdInv, OneHolder
  <2>2. Holders \subseteq Worker /\ Tabled \subseteq Holders
    BY Zenon DEF Holders, Tabled, HoldsFd, InTable
  <2>3. IsFiniteSet(HeldFds) /\ Cardinality(HeldFds) = Cardinality(Holders)
    BY <2>1, <2>2, FdCount, Zenon DEF HeldFds, OneHolder
  <2>4. /\ IsFiniteSet(HeldFds \cup Own(a))
        /\ Cardinality(HeldFds \cup Own(a)) = Cardinality(Holders) + Cardinality(Own(a))
    BY <2>1, <2>3, OwnAdds, Zenon DEF OneOwner
  <2>5. /\ IsFiniteSet((HeldFds \cup Own(a)) \cup Own(g))
        /\ Cardinality((HeldFds \cup Own(a)) \cup Own(g))
             = Cardinality(Holders) + Cardinality(Own(a)) + Cardinality(Own(g))
    <3>1. (HeldFds \cup Own(a)) \cap Own(g) = {}
      BY <2>1, Zenon DEF OneOwner
    <3> QED
      BY <2>4, <3>1, OwnAdds, Zenon
  <2>6. /\ open = ((HeldFds \cup Own(a)) \cup Own(g)) \cup Own(c)
        /\ Cardinality(open) = Cardinality(Holders) + Cardinality(Own(a)) + Cardinality(Own(g)) + Cardinality(Own(c))
    <3>1. ((HeldFds \cup Own(a)) \cup Own(g)) \cap Own(c) = {} /\ open = ((HeldFds \cup Own(a)) \cup Own(g)) \cup Own(c)
      BY <2>1, Zenon DEF OneOwner
    <3> QED
      BY <2>5, <3>1, OwnAdds, Zenon
  <2>7. Range(client_sockets) = {worker[w].fd : w \in Tabled} /\ Len(client_sockets) = Cardinality(Tabled)
    <3>1. Cardinality({worker[w].fd : w \in Tabled}) = Cardinality(Tabled)
      BY <2>1, <2>2, FdCount, Zenon DEF OneHolder
    <3> QED
      BY <1>1, <3>1, ListCount, Zenon DEF ServerInv, TableInv
  <2>8. gossip_socket \in {0, g} /\ socket_fd \in {0, c}
    BY <1>1, Zenon DEF ServerInv, GossipInv, CoreSocketInv
  <2>9. {w \in Worker : Holds(w)} = Holders /\ {w \in Worker : Listed(w)} = Tabled
    BY <1>1, WorkerStates, Zenon
  <2> QED
    BY <2>6, <2>7, <2>8, <2>9, Zenon DEF SocketsOwned, HeldFds, Own
<1> QED
  BY <1>1, ServerInvariant, PTL

\* Admission is exact for any limits and any number of connections: the counts are
\* those of the connections and requests they stand for, and stay within the limits
\* (AcceptLoop, RemoveClient, ProofWorkGuard).
THEOREM AdmissionIsExact == Spec => []AdmissionExact
<1>1. ASSUME ServerInv PROVE AdmissionExact
  BY <1>1, WorkerStates, Zenon DEF ServerInv, CountInv, AdmissionExact
<1> QED
  BY <1>1, ServerInvariant, PTL

\* A proof about to be sent is the requested block's and is encoded with the leaf count
\* of its parent, however often the archive was reorganized between the lookups (Find,
\* ProofStore::Read, WaitFor).
THEOREM AnswersDoMatch == Spec => []AnswersMatch
<1>1. ASSUME ServerInv PROVE AnswersMatch
  <2>1. SUFFICES ASSUME NEW w \in Worker, worker[w].pc = "send"
                 PROVE  /\ worker[w].proof.point = worker[w].block
                        /\ worker[w].proof.before \in {NONE, Parent(worker[w].block)}
    BY Zenon DEF AnswersMatch
  <2>2. PICK x \in {NONE, Parent(worker[w].block)} : worker[w].proof = ProofOf(worker[w].block, x)
    BY <1>1, <2>1, Zenon DEF ServerInv, WorkerType, Answers
  <2> QED
    BY <2>2 DEF ProofOf
<1> QED
  BY <1>1, ServerInvariant, PTL
=============================================================================
