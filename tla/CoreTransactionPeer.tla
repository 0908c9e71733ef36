-------------------------- MODULE CoreTransactionPeer --------------------------
(***************************************************************************)
(* CoreTransactionPeer (src/p2p.cpp): the thread that keeps a P2P          *)
(* connection to Bitcoin Core, asks for announced transactions and queues  *)
(* them for the relay; Take and Wait are called by the main thread.        *)
(*                                                                         *)
(* An inventory is one of a single transaction; a longer one repeats it.   *)
(* Any part of `pending` may be older than 30 seconds.  The two threads    *)
(* that sleep on `wakeup` are in core_asleep.  The worker checks its       *)
(* predicate and blocks in two steps, holding `mutex`, because the         *)
(* destructor notifies without it.                                         *)
(***************************************************************************)
EXTENDS Sockets, Lists, FiniteSets, Functions

CONSTANTS
    Tx, TxBytes,        \* transactions; their accounted size
    MaxQueued, MaxQueueBytes, MaxInflight, TakeLimit

\* What Start demands of its configuration (Take is called with a limit of its own).
ASSUME PeerConfig ==
    /\ {MaxQueued, MaxQueueBytes, MaxInflight} \subseteq Nat \ {0} /\ TakeLimit \in Nat
    /\ TxBytes \in [Tx -> Nat]

VARIABLES
    core,               \* [pc, fd, ready, pending] of the worker
    core_stopping, socket_fd, changed, queue, queued, queue_bytes, core_asleep

core_queue == <<queue, queued, queue_bytes>>
corev == <<core, core_stopping, socket_fd, changed, core_queue, core_asleep>>

Off == [pc |-> "ended", fd |-> 0, ready |-> FALSE, pending |-> {}]
At(pc) == [Off EXCEPT !.pc = pc]

CoreInit(on) ==
    /\ core = At(IF on THEN "top" ELSE "ended")
    /\ core_stopping = FALSE /\ socket_fd = 0 /\ changed = FALSE
    /\ queue = <<>> /\ queued = {} /\ queue_bytes = 0 /\ core_asleep = {}

Enqueue(t) ==
    queue' = Append(queue, t) /\ queued' = queued \cup {t} /\ queue_bytes' = queue_bytes + TxBytes[t]
Dequeue(n) ==
    LET taken == SubSeq(queue, 1, n) IN
    /\ queue' = SubSeq(queue, n + 1, Len(queue)) /\ queued' = queued \ Range(taken)
    /\ queue_bytes' = queue_bytes - Weight(taken, TxBytes)

\* `mutex` is held by the worker between its predicate and the wait.
Unlocked == core.pc # "block"
Notify == changed' = TRUE /\ core_asleep' = {}

(***************************************************************************)
(* Run and Connect.                                                        *)
(***************************************************************************)
CoreTop ==
    /\ core.pc = "top"
    /\ core' = At(IF core_stopping THEN "ended" ELSE "socket")
    /\ UNCHANGED <<kernel, core_stopping, socket_fd, changed, core_queue, core_asleep>>

CoreSocket(fds) ==
    /\ core.pc = "socket"
    /\ \E f \in fds \ open : FreshFd(f, fds) /\ core' = [At("store") EXCEPT !.fd = f]
    /\ UNCHANGED <<core_stopping, socket_fd, changed, core_queue, core_asleep>>

CoreNoSocket ==
    /\ core.pc = "socket"
    /\ core' = At("close")
    /\ UNCHANGED <<kernel, core_stopping, socket_fd, changed, core_queue, core_asleep>>

CoreStores ==
    /\ core.pc = "store"
    /\ socket_fd' = core.fd /\ core' = [core EXCEPT !.pc = "connect"]
    /\ UNCHANGED <<kernel, core_stopping, changed, core_queue, core_asleep>>

\* Core accepts within the timeout; the loop looks at the flag every 100 ms.
CoreConnects ==
    /\ core.pc = "connect" /\ ~core_stopping
    /\ core' = [core EXCEPT !.pc = "loop"]
    /\ UNCHANGED <<kernel, core_stopping, socket_fd, changed, core_queue, core_asleep>>

CoreConnectStops ==
    /\ core.pc = "connect" /\ core_stopping
    /\ core' = [core EXCEPT !.pc = "close"]
    /\ UNCHANGED <<kernel, core_stopping, socket_fd, changed, core_queue, core_asleep>>

\* A timeout, a refusal, a bad message, a lost connection or an exception.
CoreFails ==
    /\ core.pc \in {"connect", "receive"}
    /\ core' = [core EXCEPT !.pc = "close"]
    /\ UNCHANGED <<kernel, core_stopping, socket_fd, changed, core_queue, core_asleep>>

(***************************************************************************)
(* Connection: the message loop.                                           *)
(***************************************************************************)
CoreLoop ==
    /\ core.pc = "loop"
    /\ core' = [core EXCEPT !.pc = IF core_stopping THEN "close" ELSE "receive"]
    /\ UNCHANGED <<kernel, core_stopping, socket_fd, changed, core_queue, core_asleep>>

CoreReadInterrupted ==
    /\ core.pc = "receive" /\ core.fd \in shut
    /\ core' = [core EXCEPT !.pc = "close"]
    /\ UNCHANGED <<kernel, core_stopping, socket_fd, changed, core_queue, core_asleep>>

CoreReady ==
    /\ core.pc = "receive" /\ ~core.ready
    /\ core' = [core EXCEPT !.pc = "loop", !.ready = TRUE]
    /\ Notify
    /\ UNCHANGED <<kernel, core_stopping, socket_fd, core_queue>>

Wants(t, pending) ==
    /\ Cardinality(pending) < MaxInflight
    /\ Len(queue) < MaxQueued /\ queue_bytes < MaxQueueBytes
    /\ t \notin pending /\ t \notin queued

CoreInv(t) ==
    /\ core.pc = "receive" /\ core.ready
    /\ \E fresh \in SUBSET core.pending :
        core' = [core EXCEPT !.pc = "loop",
                             !.pending = IF Wants(t, fresh) THEN fresh \cup {t} ELSE fresh]
    /\ Notify
    /\ UNCHANGED <<kernel, core_stopping, socket_fd, core_queue>>

RoomByCount(t) == Len(queue) < MaxQueued
Room(t) == Len(queue) < MaxQueued /\ TxBytes[t] <= MaxQueueBytes - queue_bytes

\* A transaction that was not asked for is ignored.
CoreTx(t) ==
    /\ core.pc = "receive" /\ core.ready
    /\ core' = [core EXCEPT !.pc = "loop", !.pending = @ \ {t}]
    /\ IF t \in core.pending /\ Room(t) /\ t \notin queued
       THEN Enqueue(t) /\ Notify
       ELSE UNCHANGED <<core_queue, changed, core_asleep>>
    /\ UNCHANGED <<kernel, core_stopping, socket_fd>>

CoreNotFound ==
    /\ core.pc = "receive" /\ core.ready
    /\ core' = [core EXCEPT !.pc = "loop", !.pending = {}]
    /\ UNCHANGED <<kernel, core_stopping, socket_fd, changed, core_queue, core_asleep>>

CoreCloses ==
    /\ core.pc = "close"
    /\ IF socket_fd = 0 THEN UNCHANGED kernel ELSE CloseFd(socket_fd)
    /\ socket_fd' = 0 /\ core' = At("pause")
    /\ UNCHANGED <<core_stopping, changed, core_queue, core_asleep>>

\* The report, then the wait's predicate, then the wait.
CorePauses ==
    /\ core.pc = "pause"
    /\ Notify
    /\ core' = At(IF core_stopping THEN "top" ELSE "block")
    /\ UNCHANGED <<kernel, core_stopping, socket_fd, core_queue>>

CoreBlocks ==
    /\ core.pc = "block"
    /\ core' = At("asleep") /\ core_asleep' = core_asleep \cup {"worker"}
    /\ UNCHANGED <<kernel, core_stopping, socket_fd, changed, core_queue>>

\* Notified, or reconnect_seconds have passed (every notification re-checks the flag).
CoreWakes ==
    /\ core.pc = "asleep" /\ "worker" \notin core_asleep
    /\ IF core_stopping THEN core' = At("top") /\ UNCHANGED core_asleep
       ELSE UNCHANGED core /\ core_asleep' = core_asleep \cup {"worker"}
    /\ UNCHANGED <<kernel, core_stopping, socket_fd, changed, core_queue>>

CoreRetries ==
    /\ core.pc = "asleep"
    /\ core' = At("top") /\ core_asleep' = core_asleep \ {"worker"}
    /\ UNCHANGED <<kernel, core_stopping, socket_fd, changed, core_queue>>

\* Steps the thread takes by itself, without Core and without a timer.
CoreRuns(fds) ==
    \/ CoreTop \/ CoreSocket(fds) \/ CoreNoSocket \/ CoreStores \/ CoreConnectStops \/ CoreLoop
    \/ CoreReadInterrupted \/ CoreCloses \/ CorePauses \/ CoreBlocks \/ CoreWakes
CoreStep(fds) ==
    \/ CoreRuns(fds) \/ CoreConnects \/ CoreFails \/ CoreReady
    \/ (\E t \in Tx : CoreInv(t) \/ CoreTx(t)) \/ CoreNotFound \/ CoreRetries

(***************************************************************************)
(* Calls of the main thread.                                               *)
(***************************************************************************)
Take ==
    /\ Unlocked
    /\ Dequeue(IF Len(queue) < TakeLimit THEN Len(queue) ELSE TakeLimit)
    /\ UNCHANGED <<core, core_stopping, socket_fd, changed, core_asleep>>

\* Wait is over: something changed, the peer stops, or the timeout has passed.
WaitSleeps ==
    /\ Unlocked /\ ~changed /\ ~core_stopping /\ "main" \notin core_asleep
    /\ core_asleep' = core_asleep \cup {"main"}
    /\ UNCHANGED <<core, core_stopping, socket_fd, changed, core_queue>>

WaitReturns ==
    /\ Unlocked /\ changed /\ "main" \notin core_asleep
    /\ changed' = FALSE
    /\ UNCHANGED <<core, core_stopping, socket_fd, core_queue, core_asleep>>

WaitExpires ==
    /\ Unlocked /\ "main" \in core_asleep
    /\ core_asleep' = core_asleep \ {"main"} /\ changed' = FALSE
    /\ UNCHANGED <<core, core_stopping, socket_fd, core_queue>>

\* ~Impl: the flag, the interrupt, the notification, the join.
CoreSetStopping ==
    /\ core_stopping' = TRUE
    /\ UNCHANGED <<core, socket_fd, changed, core_queue, core_asleep>>
CoreInterrupts ==
    /\ shut' = shut \cup ({socket_fd} \ {0})
    /\ UNCHANGED corev
CoreNotifies ==
    /\ core_asleep' = {}
    /\ UNCHANGED <<core, core_stopping, socket_fd, changed, core_queue>>

-----------------------------------------------------------------------------
\* The queue, the set of queued ids and the byte count agree and stay within their
\* limits, and no more transactions are in flight than allowed: the limits are
\* tested when a transaction is announced and again when it arrives, with the main
\* thread taking from the queue in between (Connection, Take).
CoreQueueExact ==
    /\ Cardinality(queued) = Len(queue) /\ queued = Range(queue)
    /\ queue_bytes = Weight(queue, TxBytes)
    /\ Len(queue) <= MaxQueued /\ queue_bytes <= MaxQueueBytes
    /\ Cardinality(core.pending) <= MaxInflight
    /\ "main" \in core_asleep => ~changed
=============================================================================
