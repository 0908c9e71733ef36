------------------------------ MODULE ProofStore ------------------------------
(***************************************************************************)
(* ProofStore::Impl (src/proof_store.cpp): the durable proof archive.  A   *)
(* client (the synchronizing main thread) enqueues one proof per block;    *)
(* serializer threads prepare records in any order; one writer thread      *)
(* commits contiguous batches, data file first, then the index WAL; the    *)
(* client waits for durability, truncates on a reorganization and closes.  *)
(* Any step may be followed by a process kill or a power loss, after which *)
(* the store is opened again from its two files.                           *)
(*                                                                         *)
(* Simplifications.  Every critical section under `mutex` is one action,   *)
(* and the notify that follows it belongs to it.  `operation_mutex` is     *)
(* implicit: there is one client.  hash_to_height and state_present are    *)
(* functions of the index and are not kept apart.  Statistics are left     *)
(* out.  The owner marker, file identities and markerless legacy stores    *)
(* are left out.  A call that returns an error without changing state is a *)
(* stuttering step.                                                        *)
(***************************************************************************)
EXTENDS ProofDisk, FiniteSets

CONSTANTS
    Serializer,         \* the serializer threads
    GroupCommitBlocks,  \* config.group_commit_blocks
    GroupCommitDelay,   \* config.group_commit_delay_ms; 0 means no timer
    MaxQueuedBlocks,    \* config.max_queued_blocks
    MaxQueuedBytes,     \* config.max_queued_bytes
    AccountedBytes,     \* [Label -> Nat]: accounted size of a block's proof
    Crashes,            \* subset of {"kill", "power"}: the crashes considered
    Faults,             \* subset of {"serialize", "data", "wal", "index"}: failing steps
    MaxHeight,          \* bound on the height of a chain
    MaxWal              \* bound on the number of WAL records

ASSUME ThreadAssumption ==
    "client" \notin Serializer /\ "writer" \notin Serializer /\ Serializer # {}
ASSUME ConfigAssumption ==
    /\ GroupCommitBlocks \in Nat \ {0} /\ GroupCommitDelay \in Nat
    /\ MaxQueuedBlocks \in Nat \ {0} /\ MaxQueuedBytes \in Nat \ {0}
    /\ AccountedBytes \in [Label -> Nat \ {0}]
ASSUME BoundAssumption == MaxHeight \in Nat /\ MaxWal \in Nat

VARIABLES
    data, data_synced,  \* proofs.dat and the length of its synchronized prefix
    wal, wal_synced,    \* index.wal and the length of its synchronized prefix
    durable_point, enqueued_point,
    data_end, wal_end,
    index,              \* index_map: data offset of the proof of each height
    flush_height,       \* 0 when empty
    queued_blocks, queued_bytes,
    input,              \* queue of points waiting for a serializer
    ready,              \* prepared points (the map by height)
    serializer,         \* state of each serializer thread
    writer, batch,      \* state of the writer thread, and the batch it holds
    failed, stopping,
    asleep,             \* threads blocked in a condition-variable wait
    pc, arg,            \* the client's current call and its point
    acked               \* history: the tip the client was last told is durable

disk == <<data, data_synced, wal, wal_synced>>
ends == <<data_end, wal_end, index>>
queue == <<queued_blocks, queued_bytes, input>>
threads == <<ready, serializer, writer, batch>>
client == <<pc, arg, acked>>
vars == <<disk, durable_point, enqueued_point, ends, flush_height, queue, threads,
          failed, stopping, asleep, client>>

Thread == Serializer \cup {"client", "writer"}
WriterPc == {"wait", "group", "data", "data_sync", "wal", "wal_sync", "publish", "exit"}
ClientPc == {"down", "create_data", "create_data_sync", "create_wal", "create_wal_sync",
             "idle", "enqueue", "wait", "drain_truncate", "truncate", "truncate_sync",
             "close", "drain_close", "join"}

\* One type for the whole store: what every field of Impl and both files may hold.
TypeOK ==
    /\ data \in Seq(DataRecord) /\ data_synced \in 0 .. Len(data)
    /\ wal \in Seq(WalEvent) /\ wal_synced \in 0 .. Len(wal)
    /\ durable_point \in Chain /\ enqueued_point \in Chain
    /\ data_end \in Nat /\ wal_end \in Nat
    /\ index \in [1 .. Height(durable_point) -> Nat]
    /\ flush_height \in Nat /\ queued_blocks \in Nat
    /\ input \in Seq(Chain) /\ ready \in SUBSET Chain
    /\ serializer \in [Serializer -> [at : {"wait", "work", "exit"}, item : Chain]]
    /\ writer \in WriterPc /\ batch \in Seq(Chain)
    /\ failed \in BOOLEAN /\ stopping \in BOOLEAN
    /\ asleep \in SUBSET Thread
    /\ pc \in ClientPc /\ arg \in Chain /\ acked \in Chain

Waiting == [at |-> "wait", item |-> Base]
Exited == [at |-> "exit", item |-> Base]

Init ==
    /\ data = <<>> /\ data_synced = 0 /\ wal = <<>> /\ wal_synced = 0
    /\ durable_point = Base /\ enqueued_point = Base
    /\ data_end = 0 /\ wal_end = 0 /\ index = <<>>
    /\ flush_height = 0 /\ queued_blocks = 0 /\ queued_bytes = 0
    /\ input = <<>> /\ ready = {} /\ serializer = [s \in Serializer |-> Exited]
    /\ writer = "exit" /\ batch = <<>>
    /\ failed = FALSE /\ stopping = FALSE /\ asleep = {}
    /\ pc = "down" /\ arg = Base /\ acked = Base

\* The process is gone: its memory is as before the first open.
ProcessGone ==
    /\ durable_point' = Base /\ enqueued_point' = Base
    /\ data_end' = 0 /\ wal_end' = 0 /\ index' = <<>>
    /\ flush_height' = 0 /\ queued_blocks' = 0 /\ queued_bytes' = 0
    /\ input' = <<>> /\ ready' = {} /\ serializer' = [s \in Serializer |-> Exited]
    /\ writer' = "exit" /\ batch' = <<>>
    /\ failed' = FALSE /\ stopping' = FALSE /\ asleep' = {}
    /\ pc' = "down" /\ arg' = Base

-----------------------------------------------------------------------------
(* Opening: Initialize, the creation of the base record, RecoverWal.       *)

StartThreads ==
    /\ serializer' = [s \in Serializer |-> Waiting]
    /\ writer' = "wait"
    /\ pc' = "idle"

EmptyWal == wal = <<>> \/ (Len(wal) = 1 /\ wal[1].kind = "TORN")

\* No committed base: both files are emptied and synchronized.  Initialize does
\* so up to the size a base record can have and refuses more (BaseRecreatable);
\* a refused open leaves the files as they are, so it is no step.
OpenEmpty ==
    /\ pc = "down" /\ EmptyWal
    /\ wal' = <<>> /\ wal_synced' = 0 /\ data' = <<>> /\ data_synced' = 0
    /\ pc' = "create_data"
    /\ UNCHANGED <<durable_point, enqueued_point, ends, flush_height, queue, threads,
                   failed, stopping, asleep, arg, acked>>

CreateBaseData ==
    /\ pc = "create_data"
    /\ data' = Pwrite(data, 0, <<Payload(Base)>>)
    /\ pc' = "create_data_sync"
    /\ UNCHANGED <<data_synced, wal, wal_synced, durable_point, enqueued_point, ends,
                   flush_height, queue, threads, failed, stopping, asleep, arg, acked>>

SyncBaseData ==
    /\ pc = "create_data_sync"
    /\ data_synced' = Len(data) /\ data_end' = 1
    /\ pc' = "create_wal"
    /\ UNCHANGED <<data, wal, wal_synced, durable_point, enqueued_point, wal_end, index,
                   flush_height, queue, threads, failed, stopping, asleep, arg, acked>>

CreateBaseWal ==
    /\ pc = "create_wal"
    /\ wal' = Pwrite(wal, 0, <<BaseEvent>>)
    /\ pc' = "create_wal_sync"
    /\ UNCHANGED <<data, data_synced, wal_synced, durable_point, enqueued_point, ends,
                   flush_height, queue, threads, failed, stopping, asleep, arg, acked>>

\* Defect: the threads start before the base record is synchronized.
SyncBaseWalSkipped ==
    /\ pc = "create_wal_sync"
    /\ wal_end' = 1
    /\ StartThreads
    /\ UNCHANGED <<disk, durable_point, enqueued_point, data_end, index, flush_height, queue,
                   ready, batch, failed, stopping, asleep, arg, acked>>

SyncBaseWal ==
    /\ pc = "create_wal_sync"
    /\ wal_synced' = Len(wal) /\ wal_end' = 1
    /\ StartThreads
    /\ UNCHANGED <<data, data_synced, wal, durable_point, enqueued_point, data_end, index,
                   flush_height, queue, ready, batch, failed, stopping, asleep, arg, acked>>

\* RecoverWal.  The WAL is synchronized only when a torn tail was cut off, the
\* data file only when it was longer than what the WAL refers to.
OpenRecover ==
    /\ pc = "down" /\ ~EmptyWal /\ Recoverable(wal, data)
    /\ LET n == ValidWalSize(wal)
           e == RecoveredDataEnd(wal, data)
       IN  /\ wal' = SubSeq(wal, 1, n)
           /\ wal_synced' = IF n # Len(wal) THEN n ELSE wal_synced
           /\ data' = SubSeq(data, 1, e)
           /\ data_synced' = IF e # Len(data) THEN e ELSE data_synced
           /\ durable_point' = RecoveredTip(wal) /\ enqueued_point' = RecoveredTip(wal)
           /\ data_end' = e /\ wal_end' = n /\ index' = IndexOf(wal, n)
    /\ StartThreads
    /\ UNCHANGED <<flush_height, queue, ready, batch, failed, stopping, asleep, arg, acked>>

-----------------------------------------------------------------------------
(* The client's calls.                                                     *)

SetFailure == failed' = TRUE /\ asleep' = {}

Bytes(p) == AccountedBytes[p[Len(p)]]

HasCapacity(p) ==
    IF Bytes(p) > MaxQueuedBytes
    THEN queued_blocks = 0 /\ queued_bytes = 0
    ELSE queued_blocks < MaxQueuedBlocks /\ queued_bytes + Bytes(p) <= MaxQueuedBytes

MaxOf(a, b) == IF a > b THEN a ELSE b

\* input_ready.notify_one(): one sleeping serializer, if any, wakes up.
NotifyOneSerializer ==
    IF asleep \cap Serializer = {} THEN asleep' = asleep \ {"client"}
    ELSE \E s \in asleep \cap Serializer : asleep' = asleep \ {s, "client"}

Push(p) ==
    /\ input' = Append(input, p)
    /\ queued_blocks' = queued_blocks + 1
    /\ queued_bytes' = queued_bytes + Bytes(p)
    /\ enqueued_point' = p
    /\ NotifyOneSerializer
    /\ pc' = "idle" /\ arg' = Base
    /\ UNCHANGED <<disk, durable_point, ends, flush_height, threads, failed, stopping, acked>>

\* Defect: a blocked Enqueue does not ask for a flush.
NoBackpressureFlush == flush_height

\* A blocked Enqueue asks the writer to commit all that is enqueued.
BackpressureFlush ==
    IF Height(enqueued_point) > Height(durable_point)
    THEN MaxOf(flush_height, Height(enqueued_point)) ELSE flush_height

Enqueue(label) ==
    LET p == Append(enqueued_point, label) IN
    /\ pc = "idle" /\ ~failed
    /\ Height(p) <= MaxHeight
    /\ wal_end + Height(p) - Height(durable_point) <= MaxWal
    /\ \/ HasCapacity(p) /\ Push(p)
       \/ /\ ~HasCapacity(p)
          /\ flush_height' = BackpressureFlush
          /\ asleep' = (asleep \ {"writer"}) \cup {"client"}
          /\ pc' = "enqueue" /\ arg' = p
          /\ UNCHANGED <<disk, durable_point, enqueued_point, ends, queue, threads,
                         failed, stopping, acked>>

\* A call returns, with an error or with nothing to do.
Return ==
    /\ pc' = "idle" /\ arg' = Base
    /\ UNCHANGED <<disk, durable_point, enqueued_point, ends, flush_height, queue, threads,
                   failed, stopping, asleep, acked>>

SleepAgain ==
    /\ asleep' = asleep \cup {"client"}
    /\ UNCHANGED <<disk, durable_point, enqueued_point, ends, flush_height, queue, threads,
                   failed, stopping, client>>

EnqueueResume ==
    /\ pc = "enqueue" /\ "client" \notin asleep
    /\ \/ failed /\ Return
       \/ ~failed /\ HasCapacity(arg) /\ Push(arg)
       \/ ~failed /\ ~HasCapacity(arg) /\ SleepAgain

\* The client is told that its chain up to p is durable.
Acknowledge(p) == acked' = IF Height(p) > Height(acked) THEN p ELSE acked

\* Defect: the writer is not notified of the request.
RequestFlushSilently(height) ==
    /\ flush_height' = MaxOf(flush_height, height)
    /\ asleep' = asleep \cup (IF failed THEN {} ELSE {"client"})

\* The wait of WaitDurable(height): ask for a flush, wake the writer, and sleep
\* unless the store has failed.
RequestFlush(height) ==
    /\ flush_height' = MaxOf(flush_height, height)
    /\ asleep' = (asleep \ {"writer"}) \cup (IF failed THEN {} ELSE {"client"})

WaitDurable(height) ==
    /\ pc = "idle"
    /\ height <= Height(enqueued_point)
    /\ \/ /\ height <= Height(durable_point)
          /\ Acknowledge(At(durable_point, height))
          /\ UNCHANGED <<disk, durable_point, enqueued_point, ends, flush_height, queue,
                         threads, failed, stopping, asleep, pc, arg>>
       \/ /\ height > Height(durable_point)
          /\ RequestFlush(height)
          /\ pc' = "wait" /\ arg' = At(enqueued_point, height)
          /\ UNCHANGED <<disk, durable_point, enqueued_point, ends, queue, threads,
                         failed, stopping, acked>>

WaitResume ==
    /\ pc = "wait" /\ "client" \notin asleep
    /\ \/ failed /\ Return
       \/ /\ ~failed /\ Height(durable_point) >= Height(arg)
          /\ Acknowledge(At(durable_point, Height(arg)))
          /\ pc' = "idle" /\ arg' = Base
          /\ UNCHANGED <<disk, durable_point, enqueued_point, ends, flush_height, queue,
                         threads, failed, stopping, asleep>>
       \/ ~failed /\ Height(durable_point) < Height(arg) /\ SleepAgain

\* Truncate(p), with the Drain it begins with.  The caller gives up what is
\* above p when it calls.
Truncate(p) ==
    /\ pc = "idle" /\ ~failed
    /\ wal_end + Height(enqueued_point) - Height(durable_point) < MaxWal
    /\ acked' = IF Height(p) < Height(acked) THEN p ELSE acked
    /\ arg' = p
    /\ \/ /\ enqueued_point = durable_point
          /\ pc' = "truncate"
          /\ UNCHANGED <<flush_height, asleep>>
       \/ /\ enqueued_point # durable_point
          /\ pc' = "drain_truncate"
          /\ RequestFlush(Height(enqueued_point))
    /\ UNCHANGED <<disk, durable_point, enqueued_point, ends, queue, threads, failed, stopping>>

DrainResume ==
    /\ pc = "drain_truncate" /\ "client" \notin asleep
    /\ \/ failed /\ Return
       \/ /\ ~failed /\ Height(durable_point) >= Height(enqueued_point)
          /\ pc' = "truncate"
          /\ UNCHANGED <<disk, durable_point, enqueued_point, ends, flush_height, queue,
                         threads, failed, stopping, asleep, arg, acked>>
       \/ ~failed /\ Height(durable_point) < Height(enqueued_point) /\ SleepAgain

TruncateNothing ==
    /\ pc = "truncate" /\ arg = durable_point
    /\ Return

TruncateWrite ==
    /\ pc = "truncate" /\ arg # durable_point
    /\ LET event == <<TruncateEvent(arg, durable_point)>> IN
       \/ wal' = Pwrite(wal, wal_end, event) /\ pc' = "truncate_sync"
       \/ /\ "wal" \in Faults
          /\ wal' \in PartialWrites(wal, wal_end, event, TornEvent)
          /\ pc' = "close"
    /\ UNCHANGED <<data, data_synced, wal_synced, durable_point, enqueued_point, ends,
                   flush_height, queue, threads, failed, stopping, asleep, arg, acked>>

\* Defect: the index entries above the new tip stay.
TruncatedIndexKept(p) == index

TruncatedIndex(p) == [h \in 1 .. Height(p) |-> index[h]]

\* Defect: the tip moves back without the sync.
TruncateWithoutSync ==
    /\ pc = "truncate_sync"
    /\ wal_end' = wal_end + 1
    /\ index' = TruncatedIndex(arg)
    /\ durable_point' = arg /\ enqueued_point' = arg
    /\ pc' = "idle" /\ arg' = Base
    /\ UNCHANGED <<disk, data_end, flush_height, queue, threads, failed, stopping, asleep, acked>>

\* The sync, and the critical section that moves the tip back.
TruncateSync ==
    /\ pc = "truncate_sync"
    /\ \/ /\ wal_synced' = Len(wal)
          /\ wal_end' = wal_end + 1
          /\ index' = TruncatedIndex(arg)
          /\ durable_point' = arg /\ enqueued_point' = arg
          /\ pc' = "idle" /\ arg' = Base
       \/ /\ "wal" \in Faults
          /\ pc' = "close"
          /\ UNCHANGED <<wal_synced, wal_end, index, durable_point, enqueued_point, arg>>
    /\ UNCHANGED <<data, data_synced, wal, data_end, flush_height, queue, threads,
                   failed, stopping, asleep, acked>>

StopThreads == stopping' = TRUE /\ pc' = "join" /\ asleep' = {}

\* The destructor: Drain, stop the threads, join them.
BeginClose ==
    /\ arg' = Base
    /\ \/ /\ failed \/ enqueued_point = durable_point
          /\ StopThreads
          /\ UNCHANGED flush_height
       \/ /\ ~failed /\ enqueued_point # durable_point
          /\ RequestFlush(Height(enqueued_point))
          /\ pc' = "drain_close"
          /\ UNCHANGED stopping
    /\ UNCHANGED <<disk, durable_point, enqueued_point, ends, queue, threads, failed, acked>>

Close == pc = "idle" /\ BeginClose
CloseAfterError == pc = "close" /\ BeginClose

CloseResume ==
    /\ pc = "drain_close" /\ "client" \notin asleep
    /\ \/ /\ failed \/ Height(durable_point) >= Height(enqueued_point)
          /\ StopThreads
          /\ UNCHANGED <<disk, durable_point, enqueued_point, ends, flush_height, queue,
                         threads, failed, arg, acked>>
       \/ ~failed /\ Height(durable_point) < Height(enqueued_point) /\ SleepAgain

Join ==
    /\ pc = "join"
    /\ writer = "exit" /\ \A s \in Serializer : serializer[s] = Exited
    /\ ProcessGone
    /\ UNCHANGED <<disk, acked>>

-----------------------------------------------------------------------------
(* SerializerLoop.                                                         *)

SerializerTake(s) ==
    /\ serializer[s].at = "wait" /\ s \notin asleep
    /\ ~failed /\ input # <<>>
    /\ serializer' = [serializer EXCEPT ![s] = [at |-> "work", item |-> Head(input)]]
    /\ input' = Tail(input)
    /\ UNCHANGED <<disk, durable_point, enqueued_point, ends, flush_height, queued_blocks,
                   queued_bytes, ready, writer, batch, failed, stopping, asleep, client>>

SerializerSleep(s) ==
    /\ serializer[s].at = "wait" /\ s \notin asleep
    /\ ~failed /\ ~stopping /\ input = <<>>
    /\ asleep' = asleep \cup {s}
    /\ UNCHANGED <<disk, durable_point, enqueued_point, ends, flush_height, queue, threads,
                   failed, stopping, client>>

SerializerExit(s) ==
    /\ \/ serializer[s].at = "wait" /\ s \notin asleep /\ (failed \/ (stopping /\ input = <<>>))
       \/ serializer[s].at = "work" /\ failed
    /\ serializer' = [serializer EXCEPT ![s] = Exited]
    /\ UNCHANGED <<disk, durable_point, enqueued_point, ends, flush_height, queue, ready,
                   writer, batch, failed, stopping, asleep, client>>

\* PrepareProof succeeded; the record is published and the writer notified.
SerializerPublish(s) ==
    /\ serializer[s].at = "work" /\ ~failed
    /\ ready' = ready \cup {serializer[s].item}
    /\ serializer' = [serializer EXCEPT ![s] = Waiting]
    /\ asleep' = asleep \ {"writer"}
    /\ UNCHANGED <<disk, durable_point, enqueued_point, ends, flush_height, queue, writer,
                   batch, failed, stopping, client>>

SerializerFail(s) ==
    /\ "serialize" \in Faults
    /\ serializer[s].at = "work"
    /\ SetFailure
    /\ serializer' = [serializer EXCEPT ![s] = Exited]
    /\ UNCHANGED <<disk, durable_point, enqueued_point, ends, flush_height, queue, ready,
                   writer, batch, stopping, client>>

-----------------------------------------------------------------------------
(* WriterLoop and CommitBatch.                                             *)

IsReady(h) == \E p \in ready : Height(p) = h
ReadyAt(h) == CHOOSE p \in ready : Height(p) = h

\* There are n contiguous prepared heights above the durable tip, as far as a
\* group reaches.
ContiguousReady(n) ==
    /\ n \in 0 .. GroupCommitBlocks
    /\ \A i \in 1 .. n : IsReady(Height(durable_point) + i)
    /\ n < GroupCommitBlocks => ~IsReady(Height(durable_point) + n + 1)

CommitThreshold ==
    LET pending == IF flush_height > Height(durable_point)
                   THEN flush_height - Height(durable_point)
                   ELSE IF stopping /\ Height(enqueued_point) > Height(durable_point)
                        THEN Height(enqueued_point) - Height(durable_point)
                        ELSE GroupCommitBlocks
    IN  IF pending < GroupCommitBlocks THEN pending ELSE GroupCommitBlocks

\* Defect: the batch stays in the ready map.
TakeBatchKeepsReady(n) ==
    /\ batch' = [i \in 1 .. n |-> ReadyAt(Height(durable_point) + i)]
    /\ writer' = "data"
    /\ UNCHANGED <<disk, durable_point, enqueued_point, ends, flush_height, queue, ready,
                   serializer, failed, stopping, asleep, client>>

TakeBatch(n) ==
    /\ batch' = [i \in 1 .. n |-> ReadyAt(Height(durable_point) + i)]
    /\ ready' = {p \in ready : Height(p) > Height(durable_point) + n}
    /\ writer' = "data"
    /\ UNCHANGED <<disk, durable_point, enqueued_point, ends, flush_height, queue, serializer,
                   failed, stopping, asleep, client>>

WriterBegin ==
    /\ writer = "wait" /\ "writer" \notin asleep
    /\ ~failed /\ IsReady(Height(durable_point) + 1)
    /\ \E n \in 1 .. GroupCommitBlocks :
        /\ ContiguousReady(n)
        /\ \/ n >= CommitThreshold /\ TakeBatch(n)
           \/ /\ n < CommitThreshold
              /\ writer' = "group" /\ asleep' = asleep \cup {"writer"}
              /\ UNCHANGED <<disk, durable_point, enqueued_point, ends, flush_height, queue,
                             ready, serializer, batch, failed, stopping, client>>

WriterGroup ==
    /\ writer = "group" /\ "writer" \notin asleep /\ ~failed
    /\ \E n \in 1 .. GroupCommitBlocks :
        /\ ContiguousReady(n)
        /\ \/ n >= CommitThreshold /\ TakeBatch(n)
           \/ /\ n < CommitThreshold
              /\ asleep' = asleep \cup {"writer"}
              /\ UNCHANGED <<disk, durable_point, enqueued_point, ends, flush_height, queue,
                             threads, failed, stopping, client>>

\* wait_until timed out: the group is committed as it is, failure or not.
WriterTimeout ==
    /\ GroupCommitDelay > 0
    /\ writer = "group"
    /\ \E n \in 1 .. GroupCommitBlocks :
        /\ ContiguousReady(n)
        /\ batch' = [i \in 1 .. n |-> ReadyAt(Height(durable_point) + i)]
        /\ ready' = {p \in ready : Height(p) > Height(durable_point) + n}
    /\ writer' = "data" /\ asleep' = asleep \ {"writer"}
    /\ UNCHANGED <<disk, durable_point, enqueued_point, ends, flush_height, queue, serializer,
                   failed, stopping, client>>

WriterSleep ==
    /\ writer = "wait" /\ "writer" \notin asleep
    /\ ~failed /\ ~stopping /\ ~IsReady(Height(durable_point) + 1)
    /\ asleep' = asleep \cup {"writer"}
    /\ UNCHANGED <<disk, durable_point, enqueued_point, ends, flush_height, queue, threads,
                   failed, stopping, client>>

WriterExit ==
    /\ "writer" \notin asleep
    /\ \/ writer \in {"wait", "group"} /\ failed
       \/ writer = "wait" /\ stopping /\ Height(durable_point) = Height(enqueued_point)
    /\ writer' = "exit"
    /\ UNCHANGED <<disk, durable_point, enqueued_point, ends, flush_height, queue, ready,
                   serializer, batch, failed, stopping, asleep, client>>

\* CommitBatch returned an error: SetFailure, and the writer is gone.
WriterFails ==
    /\ SetFailure
    /\ writer' = "exit" /\ batch' = <<>>
    /\ UNCHANGED <<durable_point, enqueued_point, ends, flush_height, queue, ready, serializer,
                   stopping, client>>

WriterGoesTo(at) ==
    /\ writer' = at
    /\ UNCHANGED <<durable_point, enqueued_point, ends, flush_height, queue, ready, serializer,
                   batch, failed, stopping, asleep, client>>

BatchPayloads == [i \in 1 .. Len(batch) |-> Payload(batch[i])]
BatchEvents == [i \in 1 .. Len(batch) |-> ConnectEvent(batch[i], data_end + i - 1)]

WriteData ==
    /\ writer = "data"
    /\ \/ data' = Pwrite(data, data_end, BatchPayloads) /\ WriterGoesTo("data_sync")
       \/ /\ "data" \in Faults
          /\ data' \in PartialWrites(data, data_end, BatchPayloads, TornPayload)
          /\ WriterFails
    /\ UNCHANGED <<data_synced, wal, wal_synced>>

\* Defect: the WAL is written before the data is synchronized.
SyncDataSkipped ==
    /\ writer = "data_sync"
    /\ WriterGoesTo("wal")
    /\ UNCHANGED disk

SyncData ==
    /\ writer = "data_sync"
    /\ \/ data_synced' = Len(data) /\ WriterGoesTo("wal")
       \/ "data" \in Faults /\ WriterFails /\ UNCHANGED data_synced
    /\ UNCHANGED <<data, wal, wal_synced>>

WriteWal ==
    /\ writer = "wal"
    /\ \/ wal' = Pwrite(wal, wal_end, BatchEvents) /\ WriterGoesTo("wal_sync")
       \/ /\ "wal" \in Faults
          /\ wal' \in PartialWrites(wal, wal_end, BatchEvents, TornEvent)
          /\ WriterFails
    /\ UNCHANGED <<data, data_synced, wal_synced>>

\* Defect: the batch is published before the WAL is synchronized.
SyncWalSkipped ==
    /\ writer = "wal_sync"
    /\ WriterGoesTo("publish")
    /\ UNCHANGED disk

SyncWal ==
    /\ writer = "wal_sync"
    /\ \/ wal_synced' = Len(wal) /\ WriterGoesTo("publish")
       \/ "wal" \in Faults /\ WriterFails /\ UNCHANGED wal_synced
    /\ UNCHANGED <<data, data_synced, wal>>

\* The accounted bytes of the first n points of a batch.
BatchBytes(b) ==
    LET sum[n \in 0 .. Len(b)] == IF n = 0 THEN 0 ELSE sum[n - 1] + Bytes(b[n])
    IN  sum[Len(b)]

FlushAfter(h) == IF h >= flush_height THEN 0 ELSE flush_height

\* Defect: entries refer to the record before their own.
PublishedIndexOffByOne(p) ==
    [h \in 1 .. Height(p) |-> IF h <= Height(durable_point) THEN index[h]
                             ELSE data_end + (h - Height(durable_point)) - 2]

PublishedIndex(p) ==
    [h \in 1 .. Height(p) |-> IF h <= Height(durable_point) THEN index[h]
                             ELSE data_end + (h - Height(durable_point)) - 1]

\* The batch becomes visible: tip, index, file ends, queue accounting; an old
\* flush request is dropped once it is met; waiting callers are notified.
Publish ==
    /\ durable_point' = batch[Len(batch)]
    /\ data_end' = data_end + Len(batch)
    /\ wal_end' = wal_end + Len(batch)
    /\ index' = PublishedIndex(batch[Len(batch)])
    /\ queued_blocks' = queued_blocks - Len(batch)
    /\ queued_bytes' = queued_bytes - BatchBytes(batch)
    /\ flush_height' = FlushAfter(Height(batch[Len(batch)]))
    /\ asleep' = asleep \ {"client"}
    /\ writer' = "wait" /\ batch' = <<>>
    /\ UNCHANGED <<enqueued_point, input, ready, serializer, failed, stopping, client>>

CommitPublish ==
    /\ writer = "publish"
    /\ \/ Publish
       \/ "index" \in Faults /\ WriterFails
    /\ UNCHANGED disk

-----------------------------------------------------------------------------
(* Crashes.                                                                *)

\* The process is killed; what it wrote stays in the page cache.
Kill ==
    /\ "kill" \in Crashes
    /\ pc # "down"
    /\ ProcessGone
    /\ UNCHANGED <<disk, acked>>

\* The machine loses power; each file keeps what was synchronized and some of
\* what was written after it.
PowerLoss ==
    /\ "power" \in Crashes
    /\ wal' \in PowerLossImages(wal, wal_synced, TornEvent)
    /\ data' \in PowerLossImages(data, data_synced, TornPayload)
    /\ wal_synced' = Len(wal') /\ data_synced' = Len(data')
    /\ ProcessGone
    /\ UNCHANGED acked

-----------------------------------------------------------------------------
SerializerStep(s) ==
    \/ SerializerTake(s) \/ SerializerSleep(s) \/ SerializerExit(s)
    \/ SerializerPublish(s) \/ SerializerFail(s)

WriterStep ==
    \/ WriterBegin \/ WriterGroup \/ WriterTimeout \/ WriterSleep \/ WriterExit
    \/ WriteData \/ SyncData \/ WriteWal \/ SyncWal \/ CommitPublish

OpenStep ==
    \/ OpenEmpty \/ CreateBaseData \/ SyncBaseData \/ CreateBaseWal \/ SyncBaseWal
    \/ OpenRecover

\* What the client's thread does once it is inside a call.
ClientStep ==
    \/ EnqueueResume \/ WaitResume \/ DrainResume
    \/ TruncateNothing \/ TruncateWrite \/ TruncateSync
    \/ CloseAfterError \/ CloseResume \/ Join

ClientCall ==
    \/ \E label \in Label : Enqueue(label)
    \/ \E height \in 0 .. Height(enqueued_point) : WaitDurable(height)
    \/ \E height \in 0 .. Height(enqueued_point) : Truncate(At(enqueued_point, height))
    \/ Close

Next ==
    \/ \E s \in Serializer : SerializerStep(s)
    \/ WriterStep
    \/ OpenStep
    \/ ClientStep \/ ClientCall
    \/ Kill \/ PowerLoss

Spec == Init /\ [][Next]_vars

\* Every thread that can take a step eventually does; nothing obliges the
\* client to make a call, and nothing obliges the machine to crash.
Fairness ==
    /\ \A s \in Serializer : WF_vars(SerializerStep(s))
    /\ WF_vars(WriterStep) /\ WF_vars(ClientStep) /\ WF_vars(OpenStep)

FairSpec == Spec /\ Fairness

-----------------------------------------------------------------------------
(* Properties.                                                             *)

\* The threads of an open store are running.
Running ==
    pc \notin {"down", "create_data", "create_data_sync", "create_wal", "create_wal_sync"}

PendingPoints ==
    {input[i] : i \in DOMAIN input}
      \cup {serializer[s].item : s \in {t \in Serializer : serializer[t].at = "work"}}
      \cup ready \cup {batch[i] : i \in DOMAIN batch}

PendingCount ==
    Len(input) + Cardinality({s \in Serializer : serializer[s].at = "work"})
      + Cardinality(ready) + Len(batch)

\* Until a failure, each block between the durable and the enqueued tip is in
\* exactly one place of the pipeline (input queue, one serializer, ready map,
\* the writer's batch), nothing else is, and queued_blocks and queued_bytes
\* account for exactly these blocks through every interleaving of the threads.
\* The queue stays within max_queued_blocks and max_queued_bytes but for one
\* oversized proof alone in it, and a flush request never outlives its batch or
\* a truncation, nor asks for a height nobody enqueued.
QueueAccounting ==
    LET heights == Height(durable_point) + 1 .. Height(enqueued_point) IN
    /\ Running /\ ~failed =>
        /\ PendingPoints = {At(enqueued_point, h) : h \in heights}
        /\ PendingCount = Height(enqueued_point) - Height(durable_point)
        /\ queued_blocks = PendingCount
        /\ queued_bytes = BatchBytes([i \in 1 .. PendingCount |->
                              At(enqueued_point, Height(durable_point) + i)])
    /\ queued_blocks <= MaxQueuedBlocks
    /\ queued_bytes <= MaxQueuedBytes \/ queued_blocks = 1
    /\ flush_height # 0 => flush_height \in heights

\* No thread sleeps on a condition variable while what it waits for is true:
\* every critical section that makes a wait predicate true notifies it.
NoLostWakeup ==
    /\ "client" \in asleep => /\ ~failed /\ ~stopping
                              /\ pc = "enqueue" => ~HasCapacity(arg)
                              /\ pc = "wait" => Height(durable_point) < Height(arg)
                              /\ pc \in {"drain_truncate", "drain_close"} =>
                                    durable_point # enqueued_point
    /\ "writer" \in asleep => /\ ~failed /\ ~stopping
                              /\ writer = "wait" => ~IsReady(Height(durable_point) + 1)
                              /\ writer = "group" => ~ContiguousReady(CommitThreshold)
    /\ asleep \cap Serializer # {} => ~failed /\ ~stopping
    /\ input # <<>> => \E s \in Serializer : s \notin asleep

\* While the store is open its tip, its data end and its mmap index, which are
\* updated batch by batch, are what a replay of the WAL would rebuild.
IndexMatchesWal ==
    Running =>
        /\ durable_point = wal[wal_end].point
        /\ PayloadEnd(wal, wal_end, data_end)
        /\ index = IndexOf(wal, wal_end)

\* Every indexed proof can be read back: its payload is whole, on stable
\* storage and that of the block at its height, also after truncations, other
\* branches and crashes.
PayloadIntact ==
    Running =>
        \A h \in DOMAIN index :
            /\ index[h] < data_synced
            /\ data[index[h] + 1] = Payload(At(durable_point, h))

\* RecoverWal accepts whatever a crash leaves of a store with a committed base.
WalReplayable == pc = "down" /\ ~EmptyWal => Recoverable(wal, data)

\* A crash during creation leaves a store that the next open can recreate.
BaseRecreatable == pc = "down" /\ EmptyWal => Len(data) <= 1

TipOnDisk == IF EmptyWal THEN Base ELSE RecoveredTip(wal)

\* What WaitDurable or Drain reported durable is recovered by the next open.
AckedSurvives == pc = "down" => IsAncestor(acked, TipOnDisk)

\* No step, crash or recovery ever changes or drops a committed WAL record that
\* has been synchronized.
SyncedWalImmutable ==
    [][\A i \in 1 .. wal_synced :
         wal[i].kind # "TORN" => i <= wal_synced' /\ wal'[i] = wal[i]]_vars

\* The tip that survives a power loss, whatever else is lost.
SyncedTip ==
    LET n == ValidWalSize(SubSeq(wal, 1, wal_synced)) IN IF n = 0 THEN Base ELSE wal[n].point

Archive == INSTANCE ProofArchive WITH archive <- SyncedTip, confirmed <- acked

\* The store with its threads, files and crashes implements the promise of
\* ProofArchive.
ImplementsArchive == Archive!ArchiveSpec

\* Every blocked call returns: Enqueue under backpressure, a durability wait
\* with groups of any size and no timer, the drain before a truncation, and the
\* destructor, for which every thread must exit.
CallsReturn ==
    /\ pc = "enqueue" ~> pc # "enqueue"
    /\ pc = "wait" ~> pc # "wait"
    /\ pc \in {"drain_truncate", "close", "drain_close", "join"}
          ~> pc \in {"truncate", "idle", "down"}
=============================================================================
