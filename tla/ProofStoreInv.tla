---------------------------- MODULE ProofStoreInv ----------------------------
(***************************************************************************)
(* The inductive invariant of ProofStore: what every interleaving of the   *)
(* pipeline's threads, every failed write and every crash preserves.       *)
(***************************************************************************)
EXTENDS ProofStore

-----------------------------------------------------------------------------
(* The pipeline.  The blocks between the two tips are laid out in order:   *)
(* first the writer's batch, then the blocks with the serializers or in    *)
(* the ready map (each once, in any order), last the input queue.          *)

InFlight(p) ==
    /\ p = At(enqueued_point, Height(p))
    /\ Height(p) > Height(durable_point) + Len(batch)
    /\ Height(p) <= Height(enqueued_point) - Len(input)

Working(s) == serializer[s].at = "work"

PipeInv ==
    /\ IsAncestor(durable_point, enqueued_point)
    /\ queued_blocks = Height(enqueued_point) - Height(durable_point)
    /\ Height(durable_point) + Len(batch) + Len(input) <= Height(enqueued_point)
    /\ \A i \in 1 .. Len(input) :
         input[i] = At(enqueued_point, Height(enqueued_point) - Len(input) + i)
    /\ \A i \in 1 .. Len(batch) : batch[i] = At(enqueued_point, Height(durable_point) + i)
    /\ \A p \in ready : InFlight(p)
    /\ \A s \in Serializer : Working(s) => InFlight(serializer[s].item)
    /\ \A s, t \in Serializer : s # t /\ Working(s) /\ Working(t) =>
         Height(serializer[s].item) # Height(serializer[t].item)
    /\ \A s \in Serializer, p \in ready :
         Working(s) => Height(serializer[s].item) # Height(p)

-----------------------------------------------------------------------------
(* Where the threads can be.                                               *)

Holding == {"data", "data_sync", "wal", "wal_sync", "publish"}

CtlInv ==
    /\ writer \in Holding <=> batch # <<>>
    /\ Running /\ writer = "exit" => failed \/ stopping
    /\ stopping => pc = "join"
    /\ pc \in {"truncate", "truncate_sync", "close"} => ~failed /\ durable_point = enqueued_point
    /\ pc \in {"drain_truncate", "truncate", "truncate_sync"} => IsAncestor(arg, enqueued_point)
    /\ pc = "truncate_sync" => arg # durable_point
    /\ pc = "enqueue" => arg # Base /\ Parent(arg) = enqueued_point
    /\ pc = "wait" => IsAncestor(arg, enqueued_point)
    /\ ~Running => /\ durable_point = Base /\ enqueued_point = Base /\ index = <<>>
                   /\ serializer = [s \in Serializer |-> Exited] /\ writer = "exit"
                   /\ ~failed /\ wal_end = 0

-----------------------------------------------------------------------------
(* The files.  Record i of the WAL is good over the first ds data records: *)
(* RecoverWal accepts it, its payload is below ds and after every earlier  *)
(* one, and each height of its tip has an index entry.                     *)

Good(w, d, ds, i) ==
    /\ i = 1 => w[1] = BaseEvent
    /\ i > 1 => ConnectValid(w, d, i) \/ TruncateValid(w, i)
    /\ IsPayload(w[i]) =>
         /\ w[i].data_offset < ds /\ EnvelopeValid(d, w[i])
         /\ \A j \in 1 .. i - 1 : IsPayload(w[j]) => w[j].data_offset < w[i].data_offset
    /\ \E j \in 1 .. i : IsPayload(w[j]) /\ \A k \in j + 1 .. i : ~IsPayload(w[k])
    /\ \A h \in 1 .. Height(w[i].point) :
         \E j \in 1 .. i : IndexedBy(w, i, h, j) /\ w[j].point = At(w[i].point, h)

DiskInv ==
    /\ \A i \in 1 .. Len(wal) - 1 : wal[i].kind # "TORN"
    /\ \A i \in 1 .. ValidWalSize(wal) : Good(wal, data, data_synced, i)

\* No record is after the durable tip's, unless the writer or a truncation put
\* it there.
WalAtEnd ==
    \/ writer \in {"wal_sync", "publish", "exit"}
    \/ pc \in {"truncate_sync", "close", "join"} /\ durable_point = enqueued_point
    \/ Len(wal) = wal_end

EndInv ==
    Running =>
        /\ wal_end \in 1 .. ValidWalSize(wal)
        /\ durable_point = wal[wal_end].point
        /\ PayloadEnd(wal, wal_end, data_end)
        /\ index = IndexOf(wal, wal_end)
        /\ WalAtEnd
        /\ writer \in {"data_sync", "wal", "wal_sync", "publish"} =>
             /\ data_end + Len(batch) <= Len(data)
             /\ \A i \in 1 .. Len(batch) : data[data_end + i] = Payload(batch[i])
        /\ writer \in {"wal", "wal_sync", "publish"} => data_end + Len(batch) <= data_synced
        /\ writer \in {"wal_sync", "publish"} =>
             /\ Len(wal) = wal_end + Len(batch)
             /\ \A i \in 1 .. Len(batch) :
                  wal[wal_end + i] = ConnectEvent(batch[i], data_end + i - 1)
        /\ pc = "truncate_sync" =>
             /\ Len(wal) = wal_end + 1
             /\ wal[wal_end + 1] = TruncateEvent(arg, durable_point)

CreateInv ==
    /\ pc \in {"create_data", "create_data_sync", "create_wal"} => wal = <<>>
    /\ pc = "create_data" => data = <<>>
    /\ pc \in {"create_data_sync", "create_wal", "create_wal_sync"} => data = <<Payload(Base)>>
    /\ pc \in {"create_wal", "create_wal_sync"} => data_synced = 1 /\ data_end = 1
    /\ pc = "create_wal_sync" => wal = <<BaseEvent>>

\* What the threads, the disk and any number of crashes preserve together: the
\* pipeline holds the blocks between the tips in order and once, and every WAL
\* record that any crash can leave behind is good.
IndInv == TypeOK /\ PipeInv /\ CtlInv /\ DiskInv /\ EndInv /\ CreateInv

-----------------------------------------------------------------------------
(* Durability of what was acknowledged, when WAL records reach the disk    *)
(* only through a sync or a power loss: no kill, no failed WAL write.      *)

NoKill == "kill" \notin Crashes
SyncOnly == NoKill /\ "wal" \notin Faults

\* The tip that the first k records of a WAL leave.
TipOf(w, k) ==
    IF k = 0 THEN Base
    ELSE IF w[k].kind = "TORN" THEN (IF k = 1 THEN Base ELSE w[k - 1].point)
    ELSE w[k].point

\* Whatever of the WAL survives a power loss, it holds what was acknowledged.
AckTips == \A k \in wal_synced .. Len(wal) : IsAncestor(acked, TipOf(wal, k))

\* A record is being synchronized.
Syncing == writer = "wal_sync" \/ pc = "truncate_sync"

\* The part of the WAL that is not synchronized is the record being written: a
\* batch on top of the durable tip, or a truncation to a point that the caller
\* has already been told it may lose everything above.
AckOpen ==
    /\ pc = "down" => wal_synced = Len(wal)
    /\ pc # "close"
    /\ pc \in {"drain_truncate", "truncate", "truncate_sync"} => IsAncestor(acked, arg)
    /\ Running =>
         /\ wal_synced = IF Syncing THEN wal_end ELSE Len(wal)
         /\ IsAncestor(acked, durable_point)
         /\ pc # "truncate_sync" =>
              \A k \in wal_end .. Len(wal) : IsAncestor(durable_point, TipOf(wal, k))

AckInv == AckTips /\ AckOpen

\* The base record of an open store, or of one that was open, is on disk.
BaseInv ==
    /\ Running \/ (pc = "down" /\ ~EmptyWal) => wal_synced >= 1
    /\ pc = "down" /\ EmptyWal => Len(data) <= 1

-----------------------------------------------------------------------------
(* The condition variables and the queue.                                  *)

\* Who can be asleep, and what is left for the threads of a closing store.
WakeInv ==
    /\ NoLostWakeup
    /\ "client" \in asleep => pc \in {"enqueue", "wait", "drain_truncate", "drain_close"}
    /\ "writer" \in asleep => writer \in {"wait", "group"}
    /\ ~Running => asleep = {}
    /\ stopping => failed \/ durable_point = enqueued_point

\* The blocks that queued_blocks and queued_bytes account for.
QueuedPoints ==
    [i \in 1 .. queued_blocks |-> At(enqueued_point, Height(durable_point) + i)]

\* The height is with a serializer or in the ready map.
Covered(h) == IsReady(h) \/ \E s \in Serializer : Working(s) /\ Height(serializer[s].item) = h

\* No block between the batch and the input queue is lost before a failure.
AllCovered ==
    ~failed => \A h \in Height(durable_point) + Len(batch) + 1 ..
                       Height(enqueued_point) - Len(input) : Covered(h)

\* queued_bytes is the size of the blocks between the tips, failure or not.
BytesExact == queued_bytes = BatchBytes(QueuedPoints)

WithinLimits ==
    /\ queued_blocks <= MaxQueuedBlocks
    /\ queued_bytes <= MaxQueuedBytes \/ queued_blocks = 1

\* A flush request is for a height between the tips.
FlushPending ==
    flush_height # 0 =>
        flush_height > Height(durable_point) /\ flush_height <= Height(enqueued_point)

\* What the queue's accounting rests on.
AccountInv == AllCovered /\ BytesExact /\ WithinLimits /\ FlushPending
=============================================================================
