-------------------------- MODULE ProofStoreProofs ---------------------------
(*****************************************************************************)
(* The safety theorems that follow from the inductive invariant, and         *)
(* durability: what the write-ahead log keeps through every step, crash and  *)
(* recovery, that an acknowledged tip survives power losses, and that the    *)
(* store implements the promise of ProofArchive.  Then the condition         *)
(* variables: no thread sleeps while what it waits for is true.              *)
(*****************************************************************************)
EXTENDS ProofStoreLemmas

-----------------------------------------------------------------------------
(* Safety.                                                                 *)

\* Type correctness of the store's fields and files.
THEOREM StoreTypeCorrect == Spec => []TypeOK
<1>1. IndInv => TypeOK
  BY Zenon DEF IndInv
<1> QED
  BY <1>1, StoreInvariant, PTL

\* Whatever kills, power losses and failed writes leave of a store with a
\* committed base record, Initialize recovers it: RecoverWal never refuses it.
THEOREM StoreReplayable == Spec => []WalReplayable
<1>1. IndInv => WalReplayable
  <2> SUFFICES ASSUME IndInv, ~EmptyWal PROVE Recoverable(wal, data)
    BY Zenon DEF WalReplayable
  <2>1. /\ ValidWalSize(wal) \in 1 .. Len(wal)
        /\ \A i \in 1 .. ValidWalSize(wal) : Good(wal, data, data_synced, i)
    BY RecoverFacts, Zenon DEF IndInv
  <2>2. wal \in Seq(WalEvent)
    BY Zenon DEF IndInv, TypeOK
  <2> QED
    BY <2>1, <2>2, GoodIsValid, Zenon DEF Recoverable
<1> QED
  BY <1>1, StoreInvariant, PTL

\* The open store's tip, data end and index, kept incrementally by CommitBatch
\* and Truncate, are always what RecoverWal would rebuild from the WAL.
THEOREM StoreIndexMatchesWal == Spec => []IndexMatchesWal
<1>1. IndInv => IndexMatchesWal
  BY Zenon DEF IndInv, EndInv, IndexMatchesWal
<1> QED
  BY <1>1, StoreInvariant, PTL

\* Every height the open store serves has a whole, synchronized payload of the
\* block at that height of the durable chain.
THEOREM StorePayloadIntact == Spec => []PayloadIntact
<1>1. IndInv => PayloadIntact
  <2> SUFFICES ASSUME IndInv, Running, NEW h \in DOMAIN index
               PROVE  index[h] < data_synced /\ data[index[h] + 1] = Payload(At(durable_point, h))
    BY Zenon DEF PayloadIntact
  <2>1. /\ durable_point = wal[wal_end].point /\ index = IndexOf(wal, wal_end)
        /\ wal_end \in 1 .. Len(wal) /\ wal_end \in Nat
        /\ \A i \in 1 .. wal_end : Good(wal, data, data_synced, i)
    BY EndFacts, Zenon DEF IndInv, EndInv, TypeOK
  <2>2. h \in 1 .. Height(wal[wal_end].point)
    BY <2>1, Zenon DEF IndexOf
  <2>3. PICK j \in 1 .. wal_end : IndexedBy(wal, wal_end, h, j) /\ wal[j].point = At(durable_point, h)
    <3>1. Good(wal, data, data_synced, wal_end)
      BY ONLY <2>1
    <3>2. \E j \in 1 .. wal_end : IndexedBy(wal, wal_end, h, j) /\ wal[j].point = At(wal[wal_end].point, h)
      BY ONLY <2>2, <3>1, ZenonT(40) DEF Good
    <3> QED
      BY ONLY <2>1, <3>2, Zenon
  <2>4. index[h] = wal[j].data_offset
    BY <2>1, <2>2, <2>3, IndexOfAt, Zenon
  <2>5. Good(wal, data, data_synced, j) /\ IsPayload(wal[j])
    BY <2>1, <2>3, Zenon DEF IndexedBy, IsPayload
  <2>6. wal[j].data_offset < data_synced /\ data[wal[j].data_offset + 1] = Payload(wal[j].point)
    BY <2>5, Zenon DEF Good, EnvelopeValid
  <2> QED
    BY <2>3, <2>4, <2>6, Zenon
<1> QED
  BY <1>1, StoreInvariant, PTL

-----------------------------------------------------------------------------
(* What a step can do to the WAL.                                          *)

WalKept == wal' = wal /\ wal_synced' = wal_synced
WalSynced == wal' = wal /\ wal_synced' = Len(wal)
WalGrown ==
    /\ wal_synced' = wal_synced /\ wal' \in Seq(WalEvent)
    /\ Len(wal') >= Len(wal) /\ \A i \in 1 .. Len(wal) : wal'[i] = wal[i]

\* Creation, CommitBatch and Truncate write the WAL at its end only, so they
\* change no record that is there.
LEMMA WalGrows ==
    ASSUME IndInv, CreateBaseWal \/ WriteWal \/ TruncateWrite
    PROVE  WalGrown
<1>1. wal \in Seq(WalEvent)
  BY Zenon DEF IndInv, TypeOK
<1>2. CASE CreateBaseWal
  <2>1. wal = <<>> /\ wal' = <<BaseEvent>> /\ wal_synced' = wal_synced
    BY <1>2, FirstRecord, Zenon DEF CreateBaseWal, IndInv, CreateInv
  <2>2. BaseEvent \in WalEvent
    BY BaseFacts, Zenon DEF BaseEvent, WalEvent
  <2> QED
    BY <2>1, <2>2 DEF WalGrown
<1>3. CASE WriteWal
  <2>1. Running /\ writer = "wal" /\ wal_synced' = wal_synced
    BY <1>3, Zenon DEF WriteWal, IndInv, CtlInv
  <2>2. Len(wal) = wal_end
    BY <2>1, AtEnd, Zenon
  <2>3. /\ BatchEvents \in Seq(WalEvent) /\ TornEvent \in WalEvent /\ wal_end \in 0 .. Len(wal)
    BY <2>1, WriteTypes, Zenon
  <2>4. \/ wal' = Pwrite(wal, wal_end, BatchEvents)
        \/ wal' \in PartialWrites(wal, wal_end, BatchEvents, TornEvent)
    BY <1>3, Zenon DEF WriteWal
  <2>5. /\ wal' \in Seq(WalEvent) /\ Len(wal') >= Len(wal)
        /\ \A i \in 1 .. wal_end : wal'[i] = wal[i]
    BY ONLY <1>1, <2>3, <2>4, WriteFacts
  <2> QED
    BY <2>1, <2>2, <2>5, Zenon DEF WalGrown
<1>4. CASE TruncateWrite
  <2>1. Running /\ pc = "truncate" /\ wal_synced' = wal_synced
    BY <1>4, Zenon DEF TruncateWrite, Running
  <2>2. Len(wal) = wal_end
    BY <2>1, AtEnd, Zenon
  <2> DEFINE event == <<TruncateEvent(arg, durable_point)>>
  <2>3. /\ event \in Seq(WalEvent) /\ TornEvent \in WalEvent /\ wal_end \in 0 .. Len(wal)
    BY <2>1, WriteTypes
  <2>4. \/ wal' = Pwrite(wal, wal_end, event)
        \/ wal' \in PartialWrites(wal, wal_end, event, TornEvent)
    BY <1>4, Zenon DEF TruncateWrite
  <2> HIDE DEF event
  <2>5. /\ wal' \in Seq(WalEvent) /\ Len(wal') >= Len(wal)
        /\ \A i \in 1 .. wal_end : wal'[i] = wal[i]
    BY ONLY <1>1, <2>3, <2>4, WriteFacts
  <2> QED
    BY <2>1, <2>2, <2>5, Zenon DEF WalGrown
<1> QED
  BY <1>2, <1>3, <1>4, Zenon

\* Every other step leaves the WAL as it is or synchronizes it, except for the
\* two of Initialize that cut it and the power loss.
LEMMA WalChange ==
    ASSUME IndInv, [Next]_vars
    PROVE  \/ WalKept
           \/ WalSynced /\ (SyncBaseWal \/ SyncWal \/ TruncateSync)
           \/ WalGrown /\ (CreateBaseWal \/ WriteWal \/ TruncateWrite)
           \/ OpenEmpty \/ OpenRecover \/ PowerLoss
<1> USE DEF disk
<1>1. CASE UNCHANGED vars
  BY <1>1, Zenon DEF vars, WalKept
<1>2. CASE \E s \in Serializer : SerializerStep(s)
  BY <1>2, Zenon DEF SerializerStep, SerializerTake, SerializerSleep, SerializerExit,
    SerializerPublish, SerializerFail, WalKept
<1>3. CASE WriterStep
  <2>1. CASE WriterBegin \/ WriterGroup \/ WriterTimeout \/ WriterSleep \/ WriterExit
    BY <2>1, Zenon DEF WriterBegin, WriterGroup, WriterTimeout, WriterSleep, WriterExit, TakeBatch, WalKept
  <2>2. CASE WriteData \/ SyncData \/ CommitPublish
    BY <2>2, Zenon DEF WriteData, SyncData, CommitPublish, WalKept
  <2>3. CASE SyncWal
    BY <2>3, Zenon DEF SyncWal, WalKept, WalSynced
  <2> QED
    BY <1>3, <2>1, <2>2, <2>3, WalGrows, Zenon DEF WriterStep
<1>4. CASE OpenStep
  <2>1. CASE CreateBaseData \/ SyncBaseData
    BY <2>1, Zenon DEF CreateBaseData, SyncBaseData, WalKept
  <2>2. CASE SyncBaseWal
    BY <2>2, Zenon DEF SyncBaseWal, WalSynced
  <2> QED
    BY <1>4, <2>1, <2>2, WalGrows, Zenon DEF OpenStep
<1>5. CASE ClientStep
  <2>1. CASE TruncateSync
    BY <2>1, Zenon DEF TruncateSync, WalKept, WalSynced
  <2>2. CASE EnqueueResume \/ WaitResume \/ DrainResume \/ TruncateNothing \/ CloseAfterError
             \/ CloseResume \/ Join
    BY <2>2, Zenon DEF EnqueueResume, WaitResume, DrainResume, TruncateNothing, CloseAfterError,
      CloseResume, Join, BeginClose, Push, Return, SleepAgain, WalKept
  <2> QED
    BY <1>5, <2>1, <2>2, WalGrows, Zenon DEF ClientStep
<1>6. CASE ClientCall \/ Kill
  BY <1>6, Zenon DEF ClientCall, Enqueue, WaitDurable, Truncate, Close, BeginClose, Push, Kill, WalKept
<1> QED
  BY <1>1, <1>2, <1>3, <1>4, <1>5, <1>6, Zenon DEF Next

\* A power loss leaves the first k records of the WAL, with k not below the
\* synchronized prefix, and at most a torn one after them.
LEMMA WalImage ==
    ASSUME IndInv, PowerLoss
    PROVE  /\ wal' \in Seq(WalEvent) /\ wal_synced' = Len(wal')
           /\ \E k \in wal_synced .. Len(wal) : Keeps(wal, TornEvent, wal', k)
<1>1. /\ wal \in Seq(WalEvent) /\ wal_synced \in 0 .. Len(wal)
  BY Zenon DEF IndInv, TypeOK
<1>2. TornEvent \in WalEvent
  BY BaseFacts, Zenon DEF TornEvent, WalEvent
<1>3. wal' \in PowerLossImages(wal, wal_synced, TornEvent) /\ wal_synced' = Len(wal')
  BY Zenon DEF PowerLoss
<1> QED
  BY ONLY <1>1, <1>2, <1>3, ImageFacts, Zenon

-----------------------------------------------------------------------------
(* Synchronized records.                                                   *)

RecordsKept ==
    \A i \in 1 .. wal_synced : wal[i].kind # "TORN" => i <= wal_synced' /\ wal'[i] = wal[i]

\* One step keeps every committed record that has been synchronized.
LEMMA RecordsKeptStep ==
    ASSUME IndInv, [Next]_vars
    PROVE  RecordsKept
<1>1. wal \in Seq(WalEvent) /\ wal_synced \in Nat /\ wal_synced <= Len(wal) /\ Len(wal) \in Nat
  BY DEF IndInv, TypeOK
<1>2. CASE WalKept
  BY <1>1, <1>2 DEF WalKept, RecordsKept
<1>3. CASE WalSynced
  BY <1>1, <1>3 DEF WalSynced, RecordsKept
<1>4. CASE WalGrown
  BY <1>1, <1>4 DEF WalGrown, RecordsKept
<1>5. CASE OpenEmpty
  BY <1>1, <1>5 DEF OpenEmpty, EmptyWal, RecordsKept
<1>6. CASE OpenRecover
  <2>0. ~EmptyWal
    BY <1>6, Zenon DEF OpenRecover
  <2>1. PICK n \in 1 .. Len(wal) : n = ValidWalSize(wal) /\ n >= Len(wal) - 1
    BY <2>0, RecoverFacts, Zenon DEF IndInv
  <2>2. n # Len(wal) => wal[Len(wal)].kind = "TORN"
    BY <1>1, <2>1, ValidSizeFacts DEF IndInv, DiskInv
  <2>3. wal' = SubSeq(wal, 1, n) /\ wal_synced' = IF n # Len(wal) THEN n ELSE wal_synced
    BY <1>6, <2>1, Zenon DEF OpenRecover
  <2>4. \A i \in 1 .. n : wal'[i] = wal[i]
    BY <1>1, <2>1, <2>3
  <2>5. CASE n = Len(wal)
    BY <1>1, <2>3, <2>4, <2>5 DEF RecordsKept
  <2>6. CASE n # Len(wal)
    <3> SUFFICES ASSUME NEW i \in 1 .. wal_synced, wal[i].kind # "TORN"
                 PROVE  i <= wal_synced' /\ wal'[i] = wal[i]
      BY Zenon DEF RecordsKept
    <3>1. i # Len(wal)
      BY <2>2, <2>6, Zenon
    <3>2. i \in 1 .. n
      BY <1>1, <2>1, <3>1, SMTT(30)
    <3> QED
      BY <2>3, <2>4, <2>6, <3>2
  <2> QED
    BY <2>5, <2>6, Zenon
<1>7. CASE PowerLoss
  <2>1. PICK k \in wal_synced .. Len(wal) : Keeps(wal, TornEvent, wal', k)
    BY <1>7, WalImage, Zenon
  <2>2. /\ \A i \in 1 .. k : wal'[i] = wal[i]
        /\ Len(wal') = k \/ Len(wal') = k + 1
        /\ wal_synced' = Len(wal')
    BY <1>7, <2>1, WalImage, Zenon DEF Keeps
  <2> QED
    BY <1>1, <2>1, <2>2 DEF RecordsKept
<1> QED
  BY <1>2, <1>3, <1>4, <1>5, <1>6, <1>7, WalChange, Zenon

\* No step of any thread, no failed write, no kill, no power loss and no
\* recovery changes or drops a committed WAL record that has been synchronized.
THEOREM StoreKeepsSyncedWal == Spec => SyncedWalImmutable
<1>1. IndInv /\ [Next]_vars => [RecordsKept]_vars
  BY RecordsKeptStep, Zenon
<1>2. [][RecordsKept]_vars => SyncedWalImmutable
  BY PTL DEF SyncedWalImmutable, RecordsKept
<1> QED
  BY <1>1, <1>2, StoreInvariant, PTL DEF Spec

-----------------------------------------------------------------------------
(* The base record.                                                        *)

\* A store that is open, or was closed or crashed after its creation, has a
\* committed base record.
LEMMA BaseCommitted ==
    ASSUME IndInv, Running \/ ~EmptyWal
    PROVE  Len(wal) >= 1 /\ wal[1] = BaseEvent /\ wal[1].kind # "TORN"
<1>1. PICK n \in 1 .. Len(wal) : \A i \in 1 .. n : Good(wal, data, data_synced, i)
  <2>1. CASE Running
    BY <2>1, EndFacts, Zenon
  <2>2. CASE ~EmptyWal
    BY <2>2, RecoverFacts, Zenon DEF IndInv
  <2> QED
    BY <2>1, <2>2, Zenon
<1>2. 1 \in 1 .. n /\ Len(wal) >= 1
  BY <1>1, SMTT(30) DEF IndInv, TypeOK
<1>3. wal[1] = BaseEvent
  BY <1>1, <1>2, Zenon DEF Good
<1> QED
  BY <1>2, <1>3 DEF BaseEvent

\* The steps of an open store's threads leave the store open, or closed by the
\* destructor, with the synchronized part of the WAL no shorter.
LEMMA OpenGoesOn ==
    ASSUME IndInv, \/ \E s \in Serializer : SerializerStep(s)
                   \/ WriterStep \/ ClientStep \/ ClientCall
    PROVE  /\ Running /\ wal_synced' >= wal_synced
           /\ Running' \/ (pc' = "down" /\ wal' = wal)
<1>1. wal_synced \in Nat /\ wal_synced <= Len(wal) /\ Len(wal) \in Nat
  BY DEF IndInv, TypeOK
<1>2. CASE \E s \in Serializer : SerializerStep(s)
  <2>1. Running
    BY <1>2, CtlSerializer, Zenon
  <2>2. wal_synced' = wal_synced /\ pc' = pc
    BY <1>2, Zenon DEF SerializerStep, SerializerTake, SerializerSleep, SerializerExit,
      SerializerPublish, SerializerFail, disk, client
  <2> QED
    BY <1>1, <2>1, <2>2 DEF Running
<1>3. CASE WriterStep
  <2>1. Running
    BY <1>3, CtlWriter, Zenon
  <2>2. wal_synced' \in {wal_synced, Len(wal)} /\ pc' = pc
    BY <1>3, Zenon DEF WriterStep, WriterBegin, WriterGroup, WriterTimeout, WriterSleep, WriterExit,
      WriteData, SyncData, WriteWal, SyncWal, CommitPublish, TakeBatch, WriterGoesTo, WriterFails,
      Publish, disk, client
  <2> QED
    BY <1>1, <2>1, <2>2 DEF Running
<1>4. CASE ClientStep
  <2>1. Running /\ (Running' \/ (pc' = "down" /\ wal' = wal))
    BY <1>4, ZenonT(40) DEF ClientStep, EnqueueResume, WaitResume, DrainResume, TruncateNothing, TruncateWrite,
      TruncateSync, CloseAfterError, BeginClose, StopThreads, CloseResume, Join, ProcessGone, Push,
      Return, SleepAgain, Running, client, disk
  <2>2. wal_synced' \in {wal_synced, Len(wal)}
    BY <1>4, Zenon DEF ClientStep, EnqueueResume, WaitResume, DrainResume, TruncateNothing, TruncateWrite,
      TruncateSync, CloseAfterError, BeginClose, CloseResume, Join, Push, Return, SleepAgain, disk
  <2> QED
    BY <1>1, <2>1, <2>2
<1>5. CASE ClientCall
  <2>1. Running /\ Running'
    BY <1>5, Zenon DEF ClientCall, Enqueue, WaitDurable, Truncate, Close, BeginClose, StopThreads, Push, Running
  <2>2. wal_synced' = wal_synced
    BY <1>5, Zenon DEF ClientCall, Enqueue, WaitDurable, Truncate, Close, BeginClose, Push, disk
  <2> QED
    BY <1>1, <2>1, <2>2, SMTT(30)
<1> QED
  BY <1>2, <1>3, <1>4, <1>5, Zenon

\* A power loss keeps the base record of a store that has one, and leaves the
\* files of an unfinished creation no longer than they were.
LEMMA BasePowerLoss ==
    ASSUME IndInv, BaseInv, PowerLoss
    PROVE  BaseInv'
<1>1. /\ data \in Seq(DataRecord) /\ data_synced \in 0 .. Len(data)
      /\ wal \in Seq(WalEvent) /\ wal_synced \in 0 .. Len(wal)
  BY Zenon DEF IndInv, TypeOK
<1>2. pc' = "down" /\ ~Running'
  BY Zenon DEF PowerLoss, ProcessGone, Running
<1>3. PICK k \in wal_synced .. Len(wal) :
        /\ \A i \in 1 .. k : wal'[i] = wal[i]
        /\ Len(wal') = k \/ Len(wal') = k + 1
        /\ wal_synced' = Len(wal') /\ wal' \in Seq(WalEvent)
  BY WalImage, Zenon DEF Keeps
<1>4. ~EmptyWal' => wal_synced' >= 1
  BY <1>3 DEF EmptyWal
<1>5. CASE Running \/ (pc = "down" /\ ~EmptyWal)
  <2>1. wal_synced >= 1 /\ wal[1].kind # "TORN"
    BY <1>5, BaseCommitted, Zenon DEF BaseInv
  <2>2. wal'[1] = wal[1] /\ Len(wal') >= 1
    BY <1>1, <1>3, <2>1
  <2>3. ~EmptyWal'
    BY <2>1, <2>2 DEF EmptyWal
  <2> QED
    BY <1>2, <1>4, <2>3, Zenon DEF BaseInv
<1>6. CASE ~Running /\ (pc = "down" => EmptyWal)
  <2>1. Len(data) <= 1
    <3>1. CASE pc = "down"
      BY <1>6, <3>1, Zenon DEF BaseInv
    <3>2. CASE pc # "down"
      <4>1. data = <<>> \/ data = <<Payload(Base)>>
        BY <1>6, <3>2, Zenon DEF Running, IndInv, CreateInv
      <4> QED
        BY <4>1
    <3> QED
      BY <3>1, <3>2, Zenon
  <2>2. TornPayload \in DataRecord
    BY BaseFacts, Zenon DEF TornPayload, DataRecord
  <2>3. data' \in PowerLossImages(data, data_synced, TornPayload)
    BY Zenon DEF PowerLoss
  <2>4. PICK l \in data_synced .. Len(data) : Keeps(data, TornPayload, data', l)
    BY ONLY <1>1, <2>2, <2>3, ImageFacts, Zenon
  <2>5. Len(data') <= 1
    BY <1>1, <2>1, <2>4 DEF Keeps
  <2> QED
    BY <1>2, <1>4, <2>5, Zenon DEF BaseInv
<1> QED
  BY <1>5, <1>6, Zenon

\* Every step of a store that is never killed keeps the base record on disk.
LEMMA BaseStep ==
    ASSUME NoKill, IndInv, BaseInv, [Next]_vars
    PROVE  BaseInv'
<1>1. /\ wal \in Seq(WalEvent) /\ wal_synced \in Nat
  BY SMTT(30) DEF IndInv, TypeOK
<1>2. CASE UNCHANGED vars
  BY <1>2, Zenon DEF vars, disk, client, BaseInv, Running, EmptyWal
<1>3. CASE \/ \E s \in Serializer : SerializerStep(s)
           \/ WriterStep \/ ClientStep \/ ClientCall
  <2>1. /\ Running /\ wal_synced' >= wal_synced
        /\ Running' \/ (pc' = "down" /\ wal' = wal)
    BY <1>3, OpenGoesOn, Zenon
  <2>2. wal_synced >= 1 /\ Len(wal) >= 1 /\ wal[1].kind # "TORN"
    BY <2>1, BaseCommitted, Zenon DEF BaseInv
  <2>3. pc' = "down" => ~EmptyWal'
    BY <2>1, <2>2, SMTT(30) DEF EmptyWal, Running
  <2>4. wal_synced' >= 1
    BY <1>1, <1>3, <2>1, <2>2, TypeStep, SMTT(30) DEF TypeOK
  <2> QED
    BY <2>3, <2>4, Zenon DEF BaseInv
<1>4. CASE OpenEmpty \/ CreateBaseData \/ SyncBaseData \/ CreateBaseWal
  BY <1>4, Zenon DEF OpenEmpty, CreateBaseData, SyncBaseData, CreateBaseWal, BaseInv, Running
<1>5. CASE SyncBaseWal
  <2>1. wal = <<BaseEvent>> /\ wal_synced' = Len(wal) /\ pc' = "idle"
    BY <1>5, Zenon DEF SyncBaseWal, StartThreads, IndInv, CreateInv
  <2> QED
    BY <2>1 DEF BaseInv
<1>6. CASE OpenRecover
  <2>1. ~EmptyWal /\ pc = "down" /\ pc' = "idle"
    BY <1>6, Zenon DEF OpenRecover, StartThreads
  <2>2. wal_synced >= 1 /\ ValidWalSize(wal) >= 1
    BY <2>1, RecoverFacts, SMTT(30) DEF BaseInv, IndInv
  <2>3. wal_synced' \in {ValidWalSize(wal), wal_synced}
    BY <1>6, Zenon DEF OpenRecover
  <2> QED
    BY <2>1, <2>2, <2>3, Zenon DEF BaseInv
<1>7. CASE PowerLoss
  BY <1>7, BasePowerLoss, Zenon
<1> QED
  BY <1>2, <1>3, <1>4, <1>5, <1>6, <1>7, Zenon DEF Next, OpenStep, NoKill, Kill

\* Power losses and failed writes, at whatever step of Initialize, leave either
\* a committed base record or files short enough for the next open to create it
\* again.  A kill followed by a power loss is excluded: the page cache can then
\* lose a base record that the reopened store never synchronized.
THEOREM StoreBaseRecreatable ==
    ASSUME NoKill
    PROVE  Spec => []BaseRecreatable
<1>1. Init => BaseInv
  BY DEF Init, BaseInv, Running, EmptyWal
<1>2. IndInv /\ BaseInv /\ [Next]_vars => BaseInv'
  BY BaseStep, Zenon
<1>3. BaseInv => BaseRecreatable
  BY Zenon DEF BaseInv, BaseRecreatable
<1> QED
  BY <1>1, <1>2, <1>3, StoreInvariant, PTL DEF Spec

-----------------------------------------------------------------------------
(* What was acknowledged.                                                  *)

\* A point is its own ancestor.
LEMMA AncestorRefl ==
    ASSUME NEW p \in Chain
    PROVE  IsAncestor(p, p)
BY AtSelf, BaseFacts DEF IsAncestor

\* The base has no other ancestor.
LEMMA AncestorOfBase ==
    ASSUME NEW p \in Chain, IsAncestor(p, Base)
    PROVE  p = Base
BY BaseFacts DEF IsAncestor

\* Two ancestors of one point are ancestors of each other.
LEMMA AncestorsOrdered ==
    ASSUME NEW p \in Chain, NEW q \in Chain, NEW r \in Chain,
           IsAncestor(p, r), IsAncestor(q, r), Height(p) <= Height(q)
    PROVE  IsAncestor(p, q)
<1>1. Height(p) \in 0 .. Height(q)
  BY BaseFacts
<1>2. At(q, Height(p)) = At(r, Height(p))
  BY <1>1, AncestorAt, Zenon
<1> QED
  BY <1>2, Zenon DEF IsAncestor

\* The tip that a part of the WAL leaves is a chain point.
LEMMA TipType ==
    ASSUME NEW w \in Seq(WalEvent), NEW k \in 0 .. Len(w)
    PROVE  TipOf(w, k) \in Chain
<1>1. \A i \in 1 .. Len(w) : w[i].point \in Chain
  BY EventType, Zenon
<1>2. CASE k = 0
  BY <1>2, BaseFacts, Zenon DEF TipOf
<1>3. CASE k = 1
  BY <1>1, <1>3, BaseFacts DEF TipOf
<1>4. CASE k > 1
  <2>1. k \in 1 .. Len(w) /\ k - 1 \in 1 .. Len(w)
    BY <1>4
  <2> QED
    BY <1>1, <1>4, <2>1 DEF TipOf
<1> QED
  BY <1>2, <1>3, <1>4

\* The tip depends only on the records up to it.
LEMMA TipKept ==
    ASSUME NEW w, NEW v, NEW k \in Nat, \A i \in 1 .. k : v[i] = w[i]
    PROVE  TipOf(v, k) = TipOf(w, k)
<1>1. CASE k = 0
  BY <1>1, Zenon DEF TipOf
<1>2. CASE k = 1
  BY <1>2 DEF TipOf
<1>3. CASE k > 1
  <2>1. v[k] = w[k] /\ v[k - 1] = w[k - 1]
    BY <1>3
  <2> QED
    BY <2>1, Zenon DEF TipOf
<1> QED
  BY <1>1, <1>2, <1>3

\* A torn record after k whole ones leaves the tip of the k.
LEMMA TipTorn ==
    ASSUME NEW w, NEW k \in Nat, w[k + 1].kind = "TORN", k > 0 => w[k].kind # "TORN"
    PROVE  TipOf(w, k + 1) = TipOf(w, k)
<1>1. k + 1 # 0 /\ (k + 1 = 1 <=> k = 0) /\ (k + 1) - 1 = k
  OBVIOUS
<1>2. CASE k = 0
  BY <1>1, <1>2, Zenon DEF TipOf
<1>3. CASE k > 0
  <2>1. TipOf(w, k + 1) = w[(k + 1) - 1].point
    BY <1>1, <1>3 DEF TipOf
  <2>2. TipOf(w, k) = w[k].point
    BY <1>3 DEF TipOf
  <2> QED
    BY <1>1, <2>1, <2>2, Zenon
<1> QED
  BY <1>2, <1>3

\* A step that touches neither the WAL, the tip nor the client's call.
LEMMA AckFrame ==
    ASSUME AckInv, UNCHANGED <<wal, wal_synced, wal_end, durable_point, acked, arg, pc>>,
           Syncing' <=> Syncing
    PROVE  AckInv'
<1>1. AckTips'
  BY Zenon DEF AckInv, AckTips
<1>2. Running' <=> Running
  BY Zenon DEF Running
<1>3. AckOpen'
  BY <1>2, Zenon DEF AckInv, AckOpen
<1> QED
  BY <1>1, <1>3, Zenon DEF AckInv

\* A step of the client that leaves the WAL alone and acknowledges nothing above
\* the durable tip.
LEMMA AckClient ==
    ASSUME IndInv, AckInv, Running, Running',
           UNCHANGED <<wal, wal_synced, wal_end, durable_point, writer>>,
           pc # "truncate_sync", pc' \notin {"close", "truncate_sync"},
           acked' \in Chain, IsAncestor(acked', durable_point),
           pc' \in {"drain_truncate", "truncate"} => IsAncestor(acked', arg')
    PROVE  AckInv'
<1>1. wal \in Seq(WalEvent) /\ wal_synced \in Nat /\ Len(wal) \in Nat /\ durable_point \in Chain
  BY DEF IndInv, TypeOK
<1>2. wal_end \in 1 .. Len(wal)
  BY EndFacts, Zenon
<1>3. /\ wal_synced = IF Syncing THEN wal_end ELSE Len(wal)
      /\ \A k \in wal_end .. Len(wal) : IsAncestor(durable_point, TipOf(wal, k))
  BY Zenon DEF AckInv, AckOpen
<1>4. wal_synced >= wal_end
  BY <1>1, <1>2, <1>3
<1>5. ASSUME NEW k \in wal_synced .. Len(wal)
      PROVE  IsAncestor(acked', TipOf(wal, k))
  <2>1. k \in wal_end .. Len(wal) /\ k \in 0 .. Len(wal)
    BY <1>1, <1>2, <1>4
  <2>2. TipOf(wal, k) \in Chain
    BY <1>1, <2>1, TipType, Zenon
  <2> QED
    BY <1>1, <1>3, <2>1, <2>2, AncestorTrans, Zenon
<1>6. AckTips'
  BY <1>5, Zenon DEF AckTips
<1>7. Syncing' <=> Syncing
  BY Zenon DEF Syncing
<1>8. pc' # "down"
  BY Zenon DEF Running
<1>9. AckOpen'
  BY <1>3, <1>7, <1>8, Zenon DEF AckOpen
<1> QED
  BY <1>6, <1>9, Zenon DEF AckInv

\* Acknowledge reports a prefix of the durable chain, never less than before.
LEMMA AckAcknowledge ==
    ASSUME IndInv, AckInv, Running, NEW h \in 0 .. Height(durable_point),
           Acknowledge(At(durable_point, h))
    PROVE  /\ acked' \in Chain /\ IsAncestor(acked, acked')
           /\ IsAncestor(acked', durable_point)
<1>1. durable_point \in Chain /\ acked \in Chain
  BY Zenon DEF IndInv, TypeOK
<1>2. IsAncestor(acked, durable_point)
  BY Zenon DEF AckInv, AckOpen
<1>3. PICK p \in Chain : p = At(durable_point, h) /\ Height(p) = h /\ IsAncestor(p, durable_point)
  BY <1>1, AtType, AtIsAncestor, Zenon
<1>4. CASE Height(p) > Height(acked)
  <2>1. acked' = p
    BY <1>3, <1>4, Zenon DEF Acknowledge
  <2>2. Height(acked) <= Height(p)
    BY <1>1, <1>3, <1>4, BaseFacts
  <2> QED
    BY <1>1, <1>2, <1>3, <2>1, <2>2, AncestorsOrdered, Zenon
<1>5. CASE ~(Height(p) > Height(acked))
  <2>1. acked' = acked
    BY <1>3, <1>5, Zenon DEF Acknowledge
  <2> QED
    BY <1>1, <1>2, <2>1, AncestorRefl, Zenon
<1> QED
  BY <1>4, <1>5, Zenon

\* Truncate(p) gives up what is above p: what stays acknowledged is below p.
LEMMA AckGivenUp ==
    ASSUME IndInv, AckInv, Running, NEW h \in 0 .. Height(enqueued_point),
           Truncate(At(enqueued_point, h))
    PROVE  /\ acked' \in Chain /\ IsAncestor(acked', acked) /\ IsAncestor(acked', arg')
<1>1. durable_point \in Chain /\ enqueued_point \in Chain /\ acked \in Chain
  BY Zenon DEF IndInv, TypeOK
<1>2. IsAncestor(acked, durable_point) /\ IsAncestor(durable_point, enqueued_point)
  BY Zenon DEF AckInv, AckOpen, IndInv, PipeInv
<1>3. IsAncestor(acked, enqueued_point)
  BY <1>1, <1>2, AncestorTrans, Zenon
<1>4. PICK p \in Chain : p = At(enqueued_point, h) /\ IsAncestor(p, enqueued_point)
  BY <1>1, AtType, AtIsAncestor, Zenon
<1>5. arg' = p /\ acked' = IF Height(p) < Height(acked) THEN p ELSE acked
  BY <1>4, Zenon DEF Truncate
<1>6. Height(p) \in Nat /\ Height(acked) \in Nat
  BY <1>1, BaseFacts, Zenon
<1>7. CASE Height(p) < Height(acked)
  BY <1>1, <1>3, <1>4, <1>5, <1>6, <1>7, AncestorsOrdered, AncestorRefl, SMTT(30)
<1>8. CASE ~(Height(p) < Height(acked))
  BY <1>1, <1>3, <1>4, <1>5, <1>6, <1>8, AncestorsOrdered, AncestorRefl, SMTT(30)
<1> QED
  BY <1>7, <1>8, Zenon

\* The client's calls, waits and returns.
LEMMA AckCall ==
    ASSUME IndInv, AckInv, TypeOK',
           \/ EnqueueResume \/ WaitResume \/ DrainResume \/ TruncateNothing \/ CloseAfterError
           \/ CloseResume \/ ClientCall
    PROVE  AckInv'
<1> USE DEF disk, ends, threads, client
<1>1. /\ durable_point \in Chain /\ enqueued_point \in Chain /\ acked \in Chain /\ arg \in Chain
      /\ acked' \in Chain
  BY Zenon DEF IndInv, TypeOK
<1>2. pc # "close"
  BY Zenon DEF AckInv, AckOpen
<1>3. /\ Running /\ pc # "truncate_sync"
      /\ UNCHANGED <<wal, wal_synced, wal_end, durable_point, writer>>
  <2>1. CASE EnqueueResume \/ WaitResume \/ DrainResume \/ TruncateNothing \/ CloseResume
    BY <2>1, ZenonT(40) DEF EnqueueResume, WaitResume, DrainResume, TruncateNothing, CloseResume, Push, Return,
      SleepAgain, Running
  <2>2. CASE ClientCall
    BY <2>2, Zenon DEF ClientCall, Enqueue, WaitDurable, Truncate, Close, BeginClose, Push, Running
  <2> QED
    BY <1>2, <2>1, <2>2, Zenon DEF CloseAfterError
<1>4. Running' /\ pc' \notin {"close", "truncate_sync"}
  <2>1. CASE EnqueueResume \/ WaitResume \/ DrainResume \/ TruncateNothing \/ CloseResume
    BY <2>1, ZenonT(40) DEF EnqueueResume, WaitResume, DrainResume, TruncateNothing, CloseResume, Push, Return,
      SleepAgain, StopThreads, Running
  <2>2. CASE ClientCall
    BY <2>2, Zenon DEF ClientCall, Enqueue, WaitDurable, Truncate, Close, BeginClose, StopThreads, Push, Running
  <2> QED
    BY <1>2, <2>1, <2>2, Zenon DEF CloseAfterError
<1>5. IsAncestor(acked, durable_point)
  BY <1>3, Zenon DEF AckInv, AckOpen
<1>6. CASE acked' = acked /\ pc' \notin {"drain_truncate", "truncate"}
  BY <1>3, <1>4, <1>5, <1>6, <1>1, AckClient, Zenon
<1>7. CASE DrainResume
  <2>1. pc = "drain_truncate" /\ acked' = acked /\ (pc' = "idle" \/ arg' = arg)
    BY <1>7, Zenon DEF DrainResume, Return, SleepAgain
  <2>2. IsAncestor(acked, arg)
    BY <2>1, Zenon DEF AckInv, AckOpen
  <2> QED
    BY <1>1, <1>3, <1>4, <1>5, <2>1, <2>2, AckClient, Zenon
<1>8. ASSUME NEW h \in 0 .. Height(durable_point), Acknowledge(At(durable_point, h)),
             pc' \in {"idle", "wait"}
      PROVE  AckInv'
  BY <1>1, <1>3, <1>4, <1>8, AckAcknowledge, AckClient, Zenon
<1>9. CASE WaitResume
  <2>1. CASE Height(durable_point) >= Height(arg) /\ Acknowledge(At(durable_point, Height(arg))) /\ pc' = "idle"
    <3>1. Height(arg) \in 0 .. Height(durable_point)
      BY <1>1, <2>1, BaseFacts
    <3> QED
      BY <1>8, <2>1, <3>1, Zenon
  <2>2. CASE acked' = acked /\ pc' \in {"idle", "wait"}
    BY <1>6, <2>2, Zenon
  <2> QED
    BY <1>9, <2>1, <2>2, Zenon DEF WaitResume, Return, SleepAgain
<1>10. ASSUME NEW h \in 0 .. Height(enqueued_point), WaitDurable(h)
       PROVE  AckInv'
  <2>1. CASE h <= Height(durable_point) /\ Acknowledge(At(durable_point, h)) /\ pc' = pc
    <3>1. h \in 0 .. Height(durable_point)
      BY <1>1, <2>1, BaseFacts, SMTT(30)
    <3>2. pc = "idle"
      BY <1>10, Zenon DEF WaitDurable
    <3> QED
      BY <1>8, <2>1, <3>1, <3>2, Zenon
  <2>2. CASE acked' = acked /\ pc' = "wait"
    BY <1>6, <2>2, Zenon
  <2> QED
    BY <1>10, <2>1, <2>2, Zenon DEF WaitDurable
<1>11. ASSUME NEW h \in 0 .. Height(enqueued_point), Truncate(At(enqueued_point, h))
       PROVE  AckInv'
  <2>1. acked' \in Chain /\ IsAncestor(acked', acked) /\ IsAncestor(acked', arg')
    BY <1>3, <1>11, AckGivenUp, Zenon
  <2>2. IsAncestor(acked', durable_point)
    BY <1>1, <1>5, <2>1, AncestorTrans, Zenon
  <2> QED
    BY <1>3, <1>4, <2>1, <2>2, AckClient, Zenon
<1>12. CASE EnqueueResume \/ TruncateNothing \/ CloseResume \/ Close \/ \E label \in Label : Enqueue(label)
  <2>1. acked' = acked /\ pc' \notin {"drain_truncate", "truncate"}
    BY <1>12, Zenon DEF EnqueueResume, TruncateNothing, CloseResume, Close, BeginClose, StopThreads, Enqueue,
      Push, Return, SleepAgain
  <2> QED
    BY <1>6, <2>1, Zenon
<1> QED
  BY <1>2, <1>7, <1>9, <1>10, <1>11, <1>12, Zenon DEF ClientCall, CloseAfterError

\* While the writer holds a batch no truncation is past its drain.
LEMMA HoldingApart ==
    ASSUME IndInv, writer \in Holding
    PROVE  Running /\ pc \notin {"truncate", "truncate_sync", "close"}
<1>1. Running
  BY Zenon DEF IndInv, CtlInv, Holding
<1>2. batch # <<>>
  BY Zenon DEF IndInv, CtlInv
<1> QED
  BY <1>1, <1>2, TipsApart, EmptyPipe, Zenon DEF IndInv, CtlInv

\* The writer writes its batch on top of the durable tip, with everything
\* before it synchronized.
LEMMA AckWriteWal ==
    ASSUME SyncOnly, IndInv, AckInv, WriteWal
    PROVE  AckInv'
<1> USE DEF ends, client
<1>1. /\ writer = "wal" /\ writer' = "wal_sync" /\ wal_synced' = wal_synced
      /\ wal' = Pwrite(wal, wal_end, BatchEvents)
      /\ UNCHANGED <<durable_point, wal_end, acked, pc, arg>>
  BY Zenon DEF SyncOnly, WriteWal, WriterGoesTo
<1>2. Running /\ pc \notin {"truncate", "truncate_sync"} /\ Running'
  BY <1>1, HoldingApart, Zenon DEF Holding, Running
<1>3. /\ wal \in Seq(WalEvent) /\ durable_point \in Chain /\ enqueued_point \in Chain
      /\ acked \in Chain /\ batch \in Seq(Chain)
  BY Zenon DEF IndInv, TypeOK
<1>4. Len(wal) = wal_end /\ wal_end \in Nat
  BY <1>1, <1>2, AtEnd, Zenon DEF IndInv, TypeOK
<1>5. /\ BatchEvents \in Seq(WalEvent) /\ Len(BatchEvents) = Len(batch)
      /\ wal_end \in 0 .. Len(wal)
  BY <1>2, WriteTypes, Zenon
<1>6. Len(wal') = wal_end + Len(batch)
  <2>1. wal_end = Len(wal) => Len(Pwrite(wal, wal_end, BatchEvents)) = wal_end + Len(BatchEvents)
    BY ONLY <1>3, <1>5, PwriteFacts, Zenon
  <2> QED
    BY ONLY <1>1, <1>4, <1>5, <2>1, Zenon
<1>7. \A i \in 1 .. wal_end : wal'[i] = wal[i]
  BY ONLY <1>1, <1>3, <1>5, PwriteBefore, Zenon
<1>8. \A i \in 1 .. Len(batch) : wal'[wal_end + i] = BatchEvents[i]
  <2>1. \A i \in 1 .. Len(BatchEvents) :
          Pwrite(wal, wal_end, BatchEvents)[wal_end + i] = BatchEvents[i]
    BY ONLY <1>3, <1>5, PwriteInside, SMTT(30)
  <2> QED
    BY <1>1, <1>5, <2>1, Zenon
<1>9. wal_synced = wal_end /\ IsAncestor(acked, durable_point)
      /\ IsAncestor(durable_point, TipOf(wal, wal_end))
  BY <1>1, <1>2, <1>4 DEF AckInv, AckOpen, Syncing
<1>10. ASSUME NEW k \in wal_end .. Len(wal')
       PROVE  IsAncestor(durable_point, TipOf(wal', k)) /\ TipOf(wal', k) \in Chain
  <2>1. CASE k = wal_end
    <3>1. TipOf(wal', k) = TipOf(wal, k)
      BY <1>4, <1>7, <2>1, TipKept, Zenon
    <3>2. TipOf(wal, k) \in Chain
      BY <1>3, <1>4, <2>1, TipType, SMTT(30)
    <3> QED
      BY <1>9, <2>1, <3>1, <3>2, Zenon
  <2>2. CASE k > wal_end
    <3>1. PICK i \in 1 .. Len(batch) : k = wal_end + i
      <4>1. k - wal_end \in 1 .. Len(batch) /\ k = wal_end + (k - wal_end)
        BY <1>3, <1>4, <1>6, <2>2
      <4> QED
        BY <4>1, Zenon
    <3>2. wal'[k] = ConnectEvent(batch[i], data_end + i - 1)
      BY <1>8, <3>1, Zenon DEF BatchEvents
    <3>3. TipOf(wal', k) = batch[i]
      BY <1>4, <3>1, <3>2, SMTT(30) DEF TipOf, ConnectEvent
    <3>4. /\ batch[i] = At(enqueued_point, Height(durable_point) + i)
          /\ IsAncestor(durable_point, enqueued_point)
          /\ Height(durable_point) + i <= Height(enqueued_point)
      BY <1>3, PipeTypes, SMTT(30) DEF IndInv, PipeInv
    <3>5. PICK h \in 0 .. Height(enqueued_point) : h = Height(durable_point) + i
      BY <1>3, <3>4, BaseFacts
    <3>6. batch[i] \in Chain /\ Height(batch[i]) = h /\ IsAncestor(batch[i], enqueued_point)
      BY <1>3, <3>4, <3>5, AtType, AtIsAncestor, Zenon
    <3>7. Height(durable_point) <= Height(batch[i])
      BY <1>3, <3>5, <3>6, BaseFacts, SMTT(30)
    <3> QED
      BY <1>3, <3>3, <3>4, <3>6, <3>7, AncestorsOrdered, Zenon
  <2> QED
    BY <1>4, <2>1, <2>2
<1>11. AckTips'
  BY <1>1, <1>3, <1>9, <1>10, AncestorTrans, Zenon DEF AckTips
<1>12. Syncing' /\ pc' # "down"
  BY <1>1, <1>2, Zenon DEF Syncing, Running
<1>13. AckOpen'
  <2>1. pc \in {"drain_truncate", "truncate", "truncate_sync"} => IsAncestor(acked, arg)
    BY Zenon DEF AckInv, AckOpen
  <2>2. pc # "close"
    BY Zenon DEF AckInv, AckOpen
  <2> QED
    BY <1>1, <1>9, <1>10, <1>12, <2>1, <2>2, Zenon DEF AckOpen
<1> QED
  BY <1>11, <1>13, Zenon DEF AckInv

\* The sync of the batch.
LEMMA AckSyncWal ==
    ASSUME SyncOnly, IndInv, AckInv, SyncWal
    PROVE  AckInv'
<1> USE DEF ends, client
<1>1. /\ writer = "wal_sync" /\ writer' = "publish" /\ wal_synced' = Len(wal) /\ wal' = wal
      /\ UNCHANGED <<durable_point, wal_end, acked, pc, arg>>
  BY Zenon DEF SyncOnly, SyncWal, WriterGoesTo
<1>2. Running /\ pc \notin {"truncate", "truncate_sync"} /\ Running'
  BY <1>1, HoldingApart, Zenon DEF Holding, Running
<1>3. wal_synced \in 0 .. Len(wal) /\ Len(wal) \in Nat
  BY DEF IndInv, TypeOK
<1>4. AckTips'
  BY <1>1, <1>3 DEF AckInv, AckTips
<1>5. ~Syncing' /\ pc' # "down"
  BY <1>1, <1>2, Zenon DEF Syncing, Running
<1>6. AckOpen'
  BY <1>1, <1>2, <1>5, Zenon DEF AckInv, AckOpen
<1> QED
  BY <1>4, <1>6, Zenon DEF AckInv

\* The batch becomes the durable chain only after its sync.
LEMMA AckPublish ==
    ASSUME SyncOnly, IndInv, AckInv, writer = "publish", Publish, UNCHANGED disk
    PROVE  AckInv'
<1> USE DEF ends, client, disk
<1>1. /\ writer' = "wait" /\ wal_synced' = wal_synced /\ wal' = wal
      /\ UNCHANGED <<acked, pc, arg>> /\ wal_end' = wal_end + Len(batch)
      /\ durable_point' = batch[Len(batch)]
  BY Zenon DEF Publish
<1>2. Running /\ pc \notin {"truncate", "truncate_sync"} /\ Running'
  BY <1>1, HoldingApart, Zenon DEF Holding, Running
<1>3. /\ wal \in Seq(WalEvent) /\ batch \in Seq(Chain) /\ Len(wal) \in Nat /\ batch # <<>>
      /\ wal_end \in Nat
  BY DEF IndInv, TypeOK, CtlInv, Holding
<1>4. PICK m \in 1 .. Len(batch) : m = Len(batch)
  BY <1>3, SMTT(30)
<1>5. Len(wal) = wal_end + m /\ wal[wal_end + m] = ConnectEvent(batch[m], data_end + m - 1)
  BY <1>2, <1>4, Zenon DEF IndInv, EndInv
<1>6. wal_end + m # 0
  BY <1>3
<1>7. TipOf(wal, Len(wal)) = batch[m] /\ batch[m] \in Chain
  <2>1. TipOf(wal, wal_end + m) = batch[m]
    BY <1>5, <1>6 DEF TipOf, ConnectEvent
  <2> QED
    BY <1>3, <1>5, <2>1, SMTT(30)
<1>8. wal_synced = Len(wal)
  BY <1>2, Zenon DEF AckInv, AckOpen, Syncing
<1>9. IsAncestor(acked, batch[m])
  BY <1>3, <1>7, <1>8 DEF AckInv, AckTips
<1>10. AckTips'
  BY <1>1, Zenon DEF AckInv, AckTips
<1>11. ~Syncing' /\ pc' # "down"
  BY <1>1, <1>2, Zenon DEF Syncing, Running
<1>12. \A k \in wal_end' .. Len(wal') : IsAncestor(durable_point', TipOf(wal', k))
  <2>1. wal_end' = Len(wal) /\ durable_point' = batch[m]
    BY <1>1, <1>4, <1>5, Zenon
  <2> QED
    BY <1>1, <1>3, <1>7, <2>1, AncestorRefl, SMTT(30)
<1>13. AckOpen'
  <2>1. pc \in {"drain_truncate", "truncate", "truncate_sync"} => IsAncestor(acked, arg)
    BY Zenon DEF AckInv, AckOpen
  <2>2. pc # "close"
    BY Zenon DEF AckInv, AckOpen
  <2> QED
    BY <1>1, <1>4, <1>8, <1>9, <1>11, <1>12, <2>1, <2>2, Zenon DEF AckOpen
<1> QED
  BY <1>10, <1>13, Zenon DEF AckInv

\* The steps of the threads that leave the WAL and the tip alone.
LEMMA AckThreads ==
    ASSUME IndInv, AckInv, UNCHANGED <<wal, wal_synced>>,
           \/ \E s \in Serializer : SerializerStep(s)
           \/ WriterBegin \/ WriterGroup \/ WriterTimeout \/ WriterSleep \/ WriterExit
           \/ WriteData \/ SyncData \/ (writer = "publish" /\ WriterFails)
    PROVE  AckInv'
<1> USE DEF ends, client, threads
<1>1. CASE \E s \in Serializer : SerializerStep(s)
  <2>1. UNCHANGED <<wal_end, durable_point, acked, arg, pc, writer>>
    BY <1>1, Zenon DEF SerializerStep, SerializerTake, SerializerSleep, SerializerExit,
      SerializerPublish, SerializerFail
  <2> QED
    BY <2>1, AckFrame, Zenon DEF Syncing
<1>2. CASE WriterBegin \/ WriterGroup \/ WriterTimeout \/ WriterSleep \/ WriterExit
  <2>1. /\ UNCHANGED <<wal_end, durable_point, acked, arg, pc>>
        /\ writer # "wal_sync" /\ writer' # "wal_sync"
    BY <1>2, Zenon DEF WriterBegin, WriterGroup, WriterTimeout, WriterSleep, WriterExit, TakeBatch
  <2> QED
    BY <2>1, AckFrame, Zenon DEF Syncing
<1>3. CASE WriteData \/ SyncData \/ (writer = "publish" /\ WriterFails)
  <2>1. /\ UNCHANGED <<wal_end, durable_point, acked, arg, pc>>
        /\ writer # "wal_sync" /\ writer' # "wal_sync"
    BY <1>3, Zenon DEF WriteData, SyncData, WriterGoesTo, WriterFails
  <2> QED
    BY <2>1, AckFrame, Zenon DEF Syncing
<1> QED
  BY <1>1, <1>2, <1>3, Zenon

\* The TRUNCATE record goes after a WAL that is synchronized, to a point that
\* nothing above is still acknowledged of.
LEMMA AckTruncateWrite ==
    ASSUME SyncOnly, IndInv, AckInv, TruncateWrite
    PROVE  AckInv'
<1> USE DEF ends, threads
<1> DEFINE event == <<TruncateEvent(arg, durable_point)>>
<1>1. /\ pc = "truncate" /\ pc' = "truncate_sync" /\ wal' = Pwrite(wal, wal_end, event)
      /\ UNCHANGED <<wal_synced, durable_point, wal_end, acked, arg, writer>>
  BY Zenon DEF SyncOnly, TruncateWrite
<1>2. Running /\ Running' /\ writer # "wal_sync"
  BY <1>1, HoldingApart, Zenon DEF Running, Holding
<1>3. /\ wal \in Seq(WalEvent) /\ arg \in Chain /\ acked \in Chain /\ wal_end \in Nat
      /\ durable_point \in Chain
  BY Zenon DEF IndInv, TypeOK
<1>4. Len(wal) = wal_end
  BY <1>1, <1>2, AtEnd, Zenon
<1>5. event \in Seq(WalEvent) /\ Len(event) = 1 /\ wal_end \in 0 .. Len(wal)
  BY <1>2, WriteTypes
<1> HIDE DEF event
<1>6. Len(wal') = wal_end + 1
  <2>1. Len(Pwrite(wal, wal_end, event)) = wal_end + Len(event)
    BY ONLY <1>3, <1>4, <1>5, PwriteEnd, Zenon
  <2> QED
    BY <1>1, <1>5, <2>1, Zenon
<1>7. \A i \in 1 .. wal_end : wal'[i] = wal[i]
  BY ONLY <1>1, <1>3, <1>5, PwriteBefore, Zenon
<1>8. wal'[wal_end + 1] = TruncateEvent(arg, durable_point)
  <2>0. wal \in Seq(WalEvent) /\ event \in Seq(WalEvent) /\ wal_end \in 0 .. Len(wal)
    BY <1>3, <1>5, Zenon
  <2>1. 1 \in 1 .. Len(event)
    BY <1>5
  <2>2. Pwrite(wal, wal_end, event)[wal_end + 1] = event[1]
    BY ONLY <2>0, <2>1, PwriteInside, SMTT(30)
  <2> QED
    BY <1>1, <1>5, <2>2, Zenon DEF event
<1>9. /\ wal_synced = wal_end /\ IsAncestor(acked, arg) /\ IsAncestor(acked, durable_point)
      /\ IsAncestor(acked, TipOf(wal, wal_end))
  <2>1. wal_synced = Len(wal) /\ IsAncestor(acked, arg) /\ IsAncestor(acked, durable_point)
    BY <1>1, <1>2, Zenon DEF AckInv, AckOpen, Syncing
  <2>2. wal_end \in wal_synced .. Len(wal)
    BY <1>3, <1>4, <2>1, SMTT(30)
  <2> QED
    BY <1>4, <2>1, <2>2, Zenon DEF AckInv, AckTips
<1>10. ASSUME NEW k \in wal_synced' .. Len(wal')
       PROVE  IsAncestor(acked', TipOf(wal', k))
  <2>1. k = wal_end \/ k = wal_end + 1
    BY <1>1, <1>3, <1>6, <1>9, SMTT(30)
  <2>2. TipOf(wal', wal_end) = TipOf(wal, wal_end)
    BY <1>3, <1>7, TipKept, Zenon
  <2>3. wal_end + 1 # 0
    BY <1>3, SMTT(30)
  <2>4. TipOf(wal', wal_end + 1) = arg
    BY <1>8, <2>3 DEF TipOf, TruncateEvent
  <2> QED
    BY <1>1, <1>9, <2>1, <2>2, <2>4, Zenon
<1>11. AckTips'
  BY <1>10, Zenon DEF AckTips
<1>12. AckOpen'
  BY <1>1, <1>9, Zenon DEF AckOpen, Syncing
<1> QED
  BY <1>11, <1>12, Zenon DEF AckInv

\* The tip moves back when the TRUNCATE record is synchronized.
LEMMA AckTruncateSync ==
    ASSUME SyncOnly, IndInv, AckInv, TruncateSync
    PROVE  AckInv'
<1> USE DEF threads
<1>1. /\ pc = "truncate_sync" /\ pc' = "idle" /\ wal' = wal /\ wal_synced' = Len(wal)
      /\ wal_end' = wal_end + 1 /\ durable_point' = arg /\ UNCHANGED <<acked, writer>>
  BY Zenon DEF SyncOnly, TruncateSync
<1>2. Running /\ Running' /\ writer # "wal_sync"
  BY <1>1, HoldingApart, Zenon DEF Running, Holding
<1>3. /\ wal \in Seq(WalEvent) /\ arg \in Chain /\ acked \in Chain /\ wal_end \in Nat
      /\ wal_synced \in 0 .. Len(wal)
  BY Zenon DEF IndInv, TypeOK
<1>4. Len(wal) = wal_end + 1 /\ wal[wal_end + 1] = TruncateEvent(arg, durable_point)
  BY <1>1, <1>2, Zenon DEF IndInv, EndInv
<1>5. TipOf(wal, wal_end + 1) = arg
  <2>1. wal_end + 1 # 0
    BY <1>3
  <2> QED
    BY <1>4, <2>1, SMTT(30) DEF TipOf, TruncateEvent
<1>6. IsAncestor(acked, arg)
  BY <1>1, Zenon DEF AckInv, AckOpen
<1>7. wal_end' = Len(wal') /\ wal_synced' = Len(wal') /\ TipOf(wal', Len(wal')) = arg
  BY <1>1, <1>4, <1>5, Zenon
<1>8. \A k \in Len(wal') .. Len(wal') : k = Len(wal')
  BY <1>1, <1>3, SMTT(30)
<1>9. AckTips'
  BY <1>1, <1>6, <1>7, <1>8, Zenon DEF AckTips
<1>10. AckOpen'
  BY <1>1, <1>2, <1>3, <1>6, <1>7, <1>8, AncestorRefl, Zenon DEF AckOpen, Syncing
<1> QED
  BY <1>9, <1>10, Zenon DEF AckInv

\* Creating the store, while nothing is acknowledged.
LEMMA AckCreate ==
    ASSUME IndInv, AckInv,
           OpenEmpty \/ CreateBaseData \/ SyncBaseData \/ CreateBaseWal \/ SyncBaseWal
    PROVE  AckInv'
<1> USE DEF threads, ends
<1>1. /\ wal \in Seq(WalEvent) /\ wal_synced \in 0 .. Len(wal) /\ acked \in Chain
  BY Zenon DEF IndInv, TypeOK
<1>2. acked' = acked
  BY Zenon DEF OpenEmpty, CreateBaseData, SyncBaseData, CreateBaseWal, SyncBaseWal
<1>3. IsAncestor(acked, TipOf(wal, Len(wal)))
  BY <1>1 DEF AckInv, AckTips
<1>4. TipOf(wal, Len(wal)) = Base
  <2>1. wal = <<>> \/ (Len(wal) = 1 /\ (wal[1].kind = "TORN" \/ wal[1] = BaseEvent))
    BY SMTT(30) DEF OpenEmpty, CreateBaseData, SyncBaseData, CreateBaseWal, SyncBaseWal, EmptyWal, IndInv,
      CreateInv
  <2>2. CASE wal = <<>>
    BY <2>2, Zenon DEF TipOf
  <2>3. CASE Len(wal) = 1 /\ (wal[1].kind = "TORN" \/ wal[1] = BaseEvent)
    <3>1. BaseEvent.kind # "TORN" /\ BaseEvent.point = Base
      BY Zenon DEF BaseEvent
    <3> QED
      BY <2>3, <3>1, Zenon DEF TipOf
  <2> QED
    BY <2>1, <2>2, <2>3, Zenon
<1>5. acked = Base /\ IsAncestor(Base, Base)
  BY <1>1, <1>3, <1>4, AncestorOfBase, AncestorRefl, BaseFacts, Zenon
<1>6. TipOf(<<>>, 0) = Base /\ TipOf(<<BaseEvent>>, 0) = Base /\ TipOf(<<BaseEvent>>, 1) = Base
  BY Zenon DEF TipOf, BaseEvent
<1>7. wal' = <<>> \/ wal' = <<BaseEvent>>
  BY FirstRecord, Zenon DEF OpenEmpty, CreateBaseData, SyncBaseData, CreateBaseWal, SyncBaseWal, IndInv,
      CreateInv
<1>8. wal_synced' \in Nat
  BY <1>1, SMTT(30) DEF OpenEmpty, CreateBaseData, SyncBaseData, CreateBaseWal, SyncBaseWal
<1>9. AckTips'
  <2>1. CASE wal' = <<>>
    BY <1>2, <1>5, <1>6, <1>8, <2>1, SMTT(30) DEF AckTips
  <2>2. CASE wal' = <<BaseEvent>>
    <3>1. \A k \in wal_synced' .. Len(wal') : k = 0 \/ k = 1
      BY <1>8, <2>2, SMTT(30)
    <3> QED
      BY <1>2, <1>5, <1>6, <2>2, <3>1, Zenon DEF AckTips
  <2> QED
    BY <1>7, <2>1, <2>2, Zenon
<1>10. CASE SyncBaseWal
  <2>1. /\ wal' = <<BaseEvent>> /\ Len(wal') = 1 /\ wal_synced' = 1 /\ wal_end' = 1
        /\ pc' = "idle" /\ writer' = "wait" /\ durable_point' = Base
    BY <1>10, Zenon DEF SyncBaseWal, StartThreads, IndInv, CreateInv, CtlInv, Running
  <2> QED
    BY <1>2, <1>5, <1>6, <1>9, <2>1, SMTT(30) DEF AckInv, AckOpen, Syncing
<1>11. CASE OpenEmpty \/ CreateBaseData \/ SyncBaseData \/ CreateBaseWal
  BY <1>9, <1>11, Zenon DEF OpenEmpty, CreateBaseData, SyncBaseData, CreateBaseWal, AckInv, AckOpen, Running
<1> QED
  BY <1>10, <1>11, Zenon

\* Recovery finds whole events in all of the WAL but perhaps its last one.
LEMMA RecoveredWal ==
    ASSUME IndInv, ~EmptyWal
    PROVE  LET n == ValidWalSize(wal) IN n \in 1 .. Len(wal) /\ n >= Len(wal) - 1 /\ wal[n].kind # "TORN"
<1> DEFINE n == ValidWalSize(wal)
<1>1. TypeOK /\ DiskInv
  BY Zenon DEF IndInv
<1>2. n \in 1 .. Len(wal) /\ n >= Len(wal) - 1 /\ \A i \in 1 .. n : wal[i].kind # "TORN"
  BY <1>1, RecoverFacts, Zenon
<1> HIDE DEF n
<1>3. n \in 1 .. n
  BY ONLY <1>2
<1>4. n \in 1 .. Len(wal) /\ n >= Len(wal) - 1 /\ wal[n].kind # "TORN"
  BY <1>2, <1>3, Zenon
<1> QED
  BY <1>4, Zenon DEF n

\* RecoverWal finds the tip that the whole WAL leaves.
LEMMA RecoveredTipIs ==
    ASSUME IndInv, ~EmptyWal
    PROVE  TipOf(wal, Len(wal)) = wal[ValidWalSize(wal)].point
<1>1. wal \in Seq(WalEvent) /\ Len(wal) \in Nat
  BY SMTT(30) DEF IndInv, TypeOK
<1>2. PICK n \in 1 .. Len(wal) : n = ValidWalSize(wal) /\ n >= Len(wal) - 1 /\ wal[n].kind # "TORN"
  BY RecoveredWal, Zenon
<1>3. CASE n = Len(wal)
  BY <1>2, <1>3, SMTT(30) DEF TipOf
<1>4. CASE n # Len(wal)
  <2>1. Len(wal) = n + 1 /\ n > 0
    BY <1>1, <1>2, <1>4, SMTT(30)
  <2>2. wal[n + 1].kind = "TORN"
    BY <1>1, <1>2, <1>4, <2>1, ValidSizeFacts, SMTT(30) DEF IndInv, DiskInv
  <2>3. TipOf(wal, n + 1) = TipOf(wal, n)
    BY <1>2, <2>2, TipTorn
  <2> QED
    BY <1>2, <2>1, <2>3 DEF TipOf
<1> QED
  BY <1>3, <1>4, Zenon

\* A recovered store has exactly its WAL, all of it synchronized.
LEMMA AckRecover ==
    ASSUME IndInv, AckInv, OpenRecover
    PROVE  AckInv'
<1>1. /\ wal \in Seq(WalEvent) /\ Len(wal) \in Nat /\ wal_synced \in 0 .. Len(wal) /\ acked \in Chain
  BY SMTT(30) DEF IndInv, TypeOK
<1>2. ~EmptyWal /\ pc = "down" /\ acked' = acked /\ pc' = "idle" /\ writer' = "wait"
  BY Zenon DEF OpenRecover, StartThreads
<1>3. PICK n \in 1 .. Len(wal) : n = ValidWalSize(wal) /\ wal[n].kind # "TORN"
  BY <1>2, RecoveredWal, Zenon
<1>4. /\ wal' = SubSeq(wal, 1, n) /\ wal_end' = n /\ durable_point' = wal[n].point
      /\ wal_synced' = IF n # Len(wal) THEN n ELSE wal_synced
  BY <1>3, Zenon DEF OpenRecover, RecoveredTip
<1>5. wal_synced = Len(wal)
  BY <1>2, Zenon DEF AckInv, AckOpen
<1>6. wal_synced' = n /\ Len(wal') = n /\ wal'[n] = wal[n]
  BY <1>1, <1>4, <1>5, SMTT(30)
<1>7. wal[n].point \in Chain
  BY <1>1, EventType, Zenon
<1>8. IsAncestor(acked, wal[n].point)
  BY <1>1, <1>2, <1>3, <1>5, RecoveredTipIs, SMTT(30) DEF AckInv, AckTips
<1>9. TipOf(wal', n) = wal[n].point
  BY <1>3, <1>6 DEF TipOf
<1>10. \A k \in n .. n : k = n
  BY SMTT(30)
<1>11. AckTips'
  BY <1>2, <1>6, <1>8, <1>9, <1>10, Zenon DEF AckTips
<1>12. AckOpen'
  BY <1>2, <1>4, <1>6, <1>7, <1>8, <1>9, <1>10, AncestorRefl, Zenon DEF AckOpen, Syncing
<1> QED
  BY <1>11, <1>12, Zenon DEF AckInv

\* The tip that a power loss leaves is one that some part of the WAL left,
\* whole records beyond the synchronized ones or a torn one included.
LEMMA TipAfterPowerLoss ==
    ASSUME IndInv, PowerLoss
    PROVE  \E k \in wal_synced .. Len(wal) : TipOf(wal', Len(wal')) = TipOf(wal, k)
<1>1. /\ wal \in Seq(WalEvent) /\ Len(wal) \in Nat /\ wal_synced \in 0 .. Len(wal)
  BY DEF IndInv, TypeOK
<1>2. PICK k \in wal_synced .. Len(wal) : Keeps(wal, TornEvent, wal', k)
  BY WalImage, Zenon
<1>3. k \in Nat /\ \A i \in 1 .. k : wal'[i] = wal[i]
  BY <1>1, <1>2 DEF Keeps
<1>4. TipOf(wal', k) = TipOf(wal, k)
  BY <1>3, TipKept, Zenon
<1>5. CASE Len(wal') = k
  BY <1>4, <1>5, Zenon
<1>6. CASE k < Len(wal) /\ Len(wal') = k + 1 /\ wal'[k + 1] = TornEvent
  <2>1. k > 0 => wal[k].kind # "TORN"
    BY <1>1, <1>3, <1>6, SMTT(30) DEF IndInv, DiskInv
  <2>2. k > 0 => wal'[k].kind # "TORN"
    BY <1>3, <2>1, SMTT(30)
  <2>3. TipOf(wal', k + 1) = TipOf(wal', k)
    BY <1>3, <1>6, <2>2, TipTorn, SMTT(30) DEF TornEvent
  <2> QED
    BY <1>4, <1>6, <2>3, Zenon
<1> QED
  BY <1>2, <1>5, <1>6, Zenon DEF Keeps

\* The destructor leaves a synchronized WAL, and so does a power loss.
LEMMA AckGone ==
    ASSUME IndInv, AckInv, Join \/ PowerLoss
    PROVE  AckInv'
<1>1. /\ wal \in Seq(WalEvent) /\ Len(wal) \in Nat /\ wal_synced \in 0 .. Len(wal)
  BY SMTT(30) DEF IndInv, TypeOK
<1>2. pc' = "down" /\ acked' = acked /\ ~Running'
  BY Zenon DEF Join, PowerLoss, ProcessGone, Running
<1>3. /\ wal_synced' = Len(wal') /\ wal' \in Seq(WalEvent)
      /\ \E k \in wal_synced .. Len(wal) : TipOf(wal', Len(wal')) = TipOf(wal, k)
  <2>1. CASE Join
    <3>1. wal' = wal /\ wal_synced' = wal_synced /\ wal_synced = Len(wal)
      BY <2>1, Zenon DEF Join, disk, AckInv, AckOpen, Syncing, Running
    <3> QED
      BY <1>1, <3>1, SMTT(30)
  <2>2. CASE PowerLoss
    BY <2>2, WalImage, TipAfterPowerLoss, Zenon
  <2> QED
    BY <2>1, <2>2, Zenon
<1>4. IsAncestor(acked, TipOf(wal', Len(wal')))
  BY <1>3, Zenon DEF AckInv, AckTips
<1>5. \A k \in wal_synced' .. Len(wal') : k = Len(wal')
  BY <1>3
<1>6. AckTips'
  BY <1>2, <1>4, <1>5, Zenon DEF AckTips
<1> QED
  BY <1>2, <1>3, <1>6, Zenon DEF AckInv, AckOpen

\* Every step of a store that is not killed and whose WAL writes and syncs
\* succeed keeps what was acknowledged in every WAL a power loss can leave.
LEMMA AckStep ==
    ASSUME SyncOnly, IndInv, AckInv, [Next]_vars
    PROVE  AckInv'
<1> USE DEF disk
<1>1. TypeOK'
  BY TypeStep, Zenon
<1>2. CASE UNCHANGED vars
  BY <1>2, AckFrame, Zenon DEF vars, ends, client, threads, Syncing
<1>3. CASE \E s \in Serializer : SerializerStep(s)
  <2>1. UNCHANGED <<wal, wal_synced>>
    BY <1>3, Zenon DEF SerializerStep, SerializerTake, SerializerSleep, SerializerExit,
      SerializerPublish, SerializerFail
  <2> QED
    BY <1>3, <2>1, AckThreads, Zenon
<1>4. CASE WriterBegin \/ WriterGroup \/ WriterTimeout \/ WriterSleep \/ WriterExit
  <2>1. UNCHANGED <<wal, wal_synced>>
    BY <1>4, Zenon DEF WriterBegin, WriterGroup, WriterTimeout, WriterSleep, WriterExit, TakeBatch
  <2> QED
    BY <1>4, <2>1, AckThreads, Zenon
<1>5. CASE WriteData \/ SyncData
  <2>1. UNCHANGED <<wal, wal_synced>>
    BY <1>5, Zenon DEF WriteData, SyncData
  <2> QED
    BY <1>5, <2>1, AckThreads, Zenon
<1>6. CASE CommitPublish
  <2>1. UNCHANGED disk /\ UNCHANGED <<wal, wal_synced>> /\ writer = "publish" /\ (Publish \/ WriterFails)
    BY <1>6, Zenon DEF CommitPublish
  <2> QED
    BY <2>1, AckThreads, AckPublish, Zenon
<1>7. CASE WriteWal \/ SyncWal
  BY <1>7, AckWriteWal, AckSyncWal, Zenon
<1>8. CASE OpenStep
  BY <1>8, AckCreate, AckRecover, Zenon DEF OpenStep
<1>9. CASE ClientStep
  BY <1>1, <1>9, AckCall, AckTruncateWrite, AckTruncateSync, AckGone, Zenon DEF ClientStep
<1>10. CASE ClientCall
  BY <1>1, <1>10, AckCall, Zenon
<1>11. CASE PowerLoss
  BY <1>11, AckGone, Zenon
<1> QED
  BY <1>2, <1>3, <1>4, <1>5, <1>6, <1>7, <1>8, <1>9, <1>10, <1>11, Zenon
     DEF Next, WriterStep, SyncOnly, NoKill, Kill

\* Initially nothing is acknowledged and the files are empty.
LEMMA AckInit == Init => AckInv
<1> SUFFICES ASSUME Init PROVE AckInv
  BY Zenon
<1>1. wal = <<>> /\ wal_synced = 0 /\ acked = Base /\ pc = "down"
  BY Zenon DEF Init
<1>2. IsAncestor(Base, Base)
  BY BaseFacts, AncestorRefl, Zenon
<1>3. AckTips
  BY <1>1, <1>2 DEF AckTips, TipOf
<1> QED
  BY <1>1, <1>3, Zenon DEF AckInv, AckOpen, Running

\* The invariant of durability.
THEOREM StoreAckInvariant ==
    ASSUME SyncOnly
    PROVE  Spec => []AckInv
<1>1. IndInv /\ AckInv /\ [Next]_vars => AckInv'
  BY AckStep, Zenon
<1> QED
  BY <1>1, AckInit, StoreInvariant, PTL DEF Spec

\* What WaitDurable reported durable is recovered by the next open, whatever
\* the threads were doing when the power failed and whatever serialization,
\* data or index failures came before.  Kills and failing WAL writes are
\* excluded: after them a later power loss can take back records that the
\* reopened store reports durable without having synchronized them.
THEOREM StoreAckedSurvives ==
    ASSUME SyncOnly
    PROVE  Spec => []AckedSurvives
<1>1. IndInv /\ AckInv => AckedSurvives
  <2> SUFFICES ASSUME IndInv, AckInv, pc = "down"
               PROVE  IsAncestor(acked, TipOnDisk)
    BY Zenon DEF AckedSurvives
  <2>1. wal_synced = Len(wal) /\ Len(wal) \in Nat
    BY DEF AckInv, AckOpen, IndInv, TypeOK
  <2>2. IsAncestor(acked, TipOf(wal, Len(wal)))
    BY <2>1, SMTT(30) DEF AckInv, AckTips
  <2>3. CASE EmptyWal
    BY <2>2, <2>3, Zenon DEF EmptyWal, TipOf, TipOnDisk
  <2>4. CASE ~EmptyWal
    BY <2>2, <2>4, RecoveredTipIs, Zenon DEF TipOnDisk, RecoveredTip
  <2> QED
    BY <2>3, <2>4, Zenon
<1> QED
  BY <1>1, StoreInvariant, StoreAckInvariant, PTL

-----------------------------------------------------------------------------
(* The refinement of ProofArchive.                                         *)

\* The synchronized tip is the one that the synchronized records leave.
LEMMA SyncedTipIs ==
    ASSUME NEW file \in Seq(WalEvent), NEW n \in 0 .. Len(file)
    PROVE  (LET m == ValidWalSize(SubSeq(file, 1, n)) IN IF m = 0 THEN Base ELSE file[m].point)
              = TipOf(file, n)
<1>1. BaseEvent \in WalEvent
  BY BaseFacts, Zenon DEF BaseEvent, WalEvent
<1>2. PICK w \in Seq(WalEvent) : w = SubSeq(file, 1, n)
  BY <1>1, PrefixFacts, Zenon
<1>3. Len(w) = n /\ \A i \in 1 .. n : w[i] = file[i]
  BY <1>1, <1>2, PrefixFacts, SMTT(30)
<1>4. CASE n = 0
  <2>1. ValidWalSize(w) = 0
    BY <1>3, <1>4, SMTT(30) DEF ValidWalSize
  <2> QED
    BY <1>2, <1>4, <2>1, Zenon DEF TipOf
<1>5. CASE n > 0
  <2>1. w # <<>> /\ w[n] = file[n]
    BY <1>3, <1>5
  <2>2. CASE file[n].kind = "TORN"
    <3>1. ValidWalSize(w) = n - 1
      BY <1>3, <2>1, <2>2, Zenon DEF ValidWalSize
    <3>2. n - 1 = 0 <=> n = 1
      BY <1>5
    <3> QED
      BY <1>2, <1>5, <2>2, <3>1, <3>2, SMTT(30) DEF TipOf
  <2>3. CASE file[n].kind # "TORN"
    <3>1. ValidWalSize(w) = n
      BY <1>3, <2>1, <2>3, Zenon DEF ValidWalSize
    <3> QED
      BY <1>2, <1>5, <2>3, <3>1, Zenon DEF TipOf
  <2> QED
    BY <2>2, <2>3, Zenon
<1> QED
  BY <1>4, <1>5, SMTT(30)

\* What a power loss or a sync can make of the synchronized tip: a point above
\* it, or a point below it that a truncation is cutting back to.
LEMMA TipsFromSynced ==
    ASSUME IndInv, AckInv, NEW k \in wal_synced .. Len(wal)
    PROVE  \/ IsAncestor(TipOf(wal, wal_synced), TipOf(wal, k))
           \/ IsAncestor(TipOf(wal, k), TipOf(wal, wal_synced))
<1>1. /\ wal \in Seq(WalEvent) /\ wal_synced \in 0 .. Len(wal) /\ Len(wal) \in Nat /\ wal_end \in Nat
  BY DEF IndInv, TypeOK
<1>2. TipOf(wal, wal_synced) \in Chain
  BY <1>1, TipType, Zenon
<1>3. CASE wal_synced = Len(wal)
  <2>1. k = wal_synced
    BY <1>1, <1>3
  <2> QED
    BY <1>2, <2>1, AncestorRefl, Zenon
<1>4. CASE Running /\ Syncing
  <2>1. wal_synced = wal_end
    BY <1>4, Zenon DEF AckInv, AckOpen
  <2>2. wal_end \in 1 .. ValidWalSize(wal) /\ durable_point = wal[wal_end].point
    BY <1>4, Zenon DEF IndInv, EndInv
  <2>3. wal[wal_end].kind # "TORN" /\ wal_end # 0
    BY <1>1, <2>2, ValidSizeFacts, SMTT(30) DEF IndInv, DiskInv
  <2>4. TipOf(wal, wal_synced) = durable_point
    BY <2>1, <2>2, <2>3, Zenon DEF TipOf
  <2>5. CASE pc # "truncate_sync"
    BY <1>4, <2>1, <2>4, <2>5, Zenon DEF AckInv, AckOpen
  <2>6. CASE pc = "truncate_sync"
    <3>1. /\ Len(wal) = wal_end + 1 /\ wal[wal_end + 1] = TruncateEvent(arg, durable_point)
          /\ IsAncestor(arg, durable_point)
      BY <1>4, <2>6, Zenon DEF IndInv, EndInv, CtlInv
    <3>2. k = wal_synced \/ k = wal_end + 1
      BY <1>1, <2>1, <3>1
    <3>3. wal_end + 1 # 0
      BY <1>1
    <3>4. TipOf(wal, wal_end + 1) = arg
      <4>1. TruncateEvent(arg, durable_point).kind # "TORN" /\ TruncateEvent(arg, durable_point).point = arg
        BY Zenon DEF TruncateEvent
      <4> QED
        BY <3>1, <3>3, <4>1, Zenon DEF TipOf
    <3> QED
      BY <1>2, <2>4, <3>1, <3>2, <3>4, AncestorRefl, Zenon
  <2> QED
    BY <2>5, <2>6, Zenon
<1>5. CASE ~Running /\ pc # "down"
  <2>1. wal = <<>> \/ wal = <<BaseEvent>>
    BY <1>5, Zenon DEF Running, IndInv, CreateInv
  <2>2. \A l \in 0 .. Len(wal) : TipOf(wal, l) = Base
    BY <2>1 DEF TipOf, BaseEvent
  <2>3. k \in 0 .. Len(wal)
    BY <1>1
  <2> QED
    BY <1>1, <1>2, <2>2, <2>3, AncestorRefl, Zenon
<1> QED
  BY <1>3, <1>4, <1>5, Zenon DEF AckInv, AckOpen

\* Every step takes the synchronized tip to one that the WAL before it could
\* leave.
LEMMA TipMoves ==
    ASSUME SyncOnly, IndInv, IndInv', AckInv, AckInv', [Next]_vars
    PROVE  \E k \in wal_synced .. Len(wal) : SyncedTip' = TipOf(wal, k)
<1>1. /\ wal \in Seq(WalEvent) /\ wal_synced \in 0 .. Len(wal) /\ Len(wal) \in Nat
      /\ wal_synced \in Nat
  BY DEF IndInv, TypeOK
<1>2. SyncedTip' = TipOf(wal', wal_synced')
  <2>1. wal' \in Seq(WalEvent) /\ wal_synced' \in 0 .. Len(wal')
    BY Zenon DEF IndInv, TypeOK
  <2> QED
    BY <2>1, SyncedTipIs, Zenon DEF SyncedTip
<1>3. CASE WalKept \/ WalSynced
  BY <1>1, <1>2, <1>3, SMTT(30) DEF WalKept, WalSynced
<1>4. CASE WalGrown
  <2>1. \A i \in 1 .. wal_synced : wal'[i] = wal[i]
    BY <1>1, <1>4 DEF WalGrown
  <2>2. TipOf(wal', wal_synced) = TipOf(wal, wal_synced)
    BY <1>1, <2>1, TipKept, Zenon
  <2> QED
    BY <1>1, <1>2, <1>4, <2>2, SMTT(30) DEF WalGrown
<1>5. CASE OpenEmpty
  <2>1. wal_synced = Len(wal) /\ EmptyWal /\ wal' = <<>> /\ wal_synced' = 0
    BY <1>5, Zenon DEF OpenEmpty, AckInv, AckOpen
  <2>2. TipOf(wal, Len(wal)) = Base
    BY <2>1, Zenon DEF EmptyWal, TipOf
  <2>3. TipOf(wal', wal_synced') = Base
    BY <2>1, Zenon DEF TipOf
  <2> QED
    BY <1>1, <1>2, <2>1, <2>2, <2>3, SMTT(30)
<1>6. CASE OpenRecover
  <2>1. wal_synced = Len(wal) /\ ~EmptyWal
    BY <1>6, Zenon DEF OpenRecover, AckInv, AckOpen
  <2>2. PICK n \in 1 .. Len(wal) : n = ValidWalSize(wal) /\ wal[n].kind # "TORN"
    BY <2>1, RecoveredWal, Zenon
  <2>3. wal' = SubSeq(wal, 1, n) /\ wal_synced' = n
    BY <1>6, <2>1, <2>2, Zenon DEF OpenRecover
  <2>4. wal'[n] = wal[n] /\ n # 0
    BY <1>1, <2>2, <2>3, SMTT(30)
  <2>5. TipOf(wal', wal_synced') = TipOf(wal, Len(wal))
    BY <2>1, <2>2, <2>3, <2>4, RecoveredTipIs, Zenon DEF TipOf
  <2> QED
    BY <1>1, <1>2, <2>5, SMTT(30)
<1>7. CASE PowerLoss
  <2>1. wal_synced' = Len(wal')
    BY <1>7, Zenon DEF PowerLoss
  <2> QED
    BY <1>2, <1>7, <2>1, TipAfterPowerLoss, Zenon
<1> QED
  BY <1>3, <1>4, <1>5, <1>6, <1>7, WalChange, Zenon

\* The client learns of durable blocks, or gives them up, in steps that leave
\* the files alone.
LEMMA AckMoves ==
    ASSUME IndInv, AckInv, [Next]_vars, acked' # acked
    PROVE  /\ Running /\ pc # "truncate_sync" /\ WalKept /\ acked' \in Chain
           /\ \/ IsAncestor(acked, acked') /\ IsAncestor(acked', durable_point)
              \/ IsAncestor(acked', acked)
<1> USE DEF disk, client
<1>1. durable_point \in Chain /\ arg \in Chain
  BY Zenon DEF IndInv, TypeOK
<1>2. WaitResume \/ ClientCall
  <2>1. ~UNCHANGED vars
    BY Zenon DEF vars
  <2>2. ~(\E s \in Serializer : SerializerStep(s))
    BY Zenon DEF SerializerStep, SerializerTake, SerializerSleep, SerializerExit, SerializerPublish,
      SerializerFail
  <2>3. ~WriterStep
    BY Zenon DEF WriterStep, WriterBegin, WriterGroup, WriterTimeout, WriterSleep, WriterExit,
      WriteData, SyncData, WriteWal, SyncWal, CommitPublish, TakeBatch, WriterGoesTo, WriterFails,
      Publish
  <2>4. ~OpenStep
    BY Zenon DEF OpenStep, OpenEmpty, CreateBaseData, SyncBaseData, CreateBaseWal, SyncBaseWal, OpenRecover
  <2>5. ~(EnqueueResume \/ DrainResume \/ TruncateNothing \/ TruncateWrite \/ TruncateSync
          \/ CloseAfterError \/ CloseResume \/ Join)
    BY Zenon DEF EnqueueResume, DrainResume, TruncateNothing, TruncateWrite, TruncateSync,
      CloseAfterError, BeginClose, CloseResume, Join, Push, Return, SleepAgain
  <2>6. ~(Kill \/ PowerLoss)
    BY Zenon DEF Kill, PowerLoss
  <2> QED
    BY <2>1, <2>2, <2>3, <2>4, <2>5, <2>6, Zenon DEF Next, ClientStep
<1>3. CASE WaitResume
  <2>1. /\ Running /\ pc # "truncate_sync" /\ WalKept /\ Height(durable_point) >= Height(arg)
        /\ Acknowledge(At(durable_point, Height(arg)))
    BY <1>3, Zenon DEF WaitResume, Return, SleepAgain, Running, WalKept
  <2>2. Height(arg) \in 0 .. Height(durable_point)
    BY <1>1, <2>1, BaseFacts, SMTT(30)
  <2> QED
    BY <2>1, <2>2, AckAcknowledge, Zenon
<1>4. CASE ClientCall
  <2>1. Running /\ pc # "truncate_sync" /\ WalKept
    BY <1>4, Zenon DEF ClientCall, Enqueue, WaitDurable, Truncate, Close, BeginClose, Push, Running, WalKept
  <2>2. ASSUME NEW h \in 0 .. Height(enqueued_point), WaitDurable(h)
        PROVE  IsAncestor(acked, acked') /\ IsAncestor(acked', durable_point) /\ acked' \in Chain
    <3>1. h <= Height(durable_point) /\ Acknowledge(At(durable_point, h))
      BY <2>2, Zenon DEF WaitDurable
    <3>2. h \in 0 .. Height(durable_point)
      BY <1>1, <3>1, BaseFacts, SMTT(30)
    <3> QED
      BY <2>1, <3>1, <3>2, AckAcknowledge, Zenon
  <2>3. ~(Close \/ \E label \in Label : Enqueue(label))
    BY Zenon DEF Close, BeginClose, Enqueue, Push
  <2> QED
    BY <1>4, <2>1, <2>2, <2>3, AckGivenUp, Zenon DEF ClientCall
<1> QED
  BY <1>2, <1>3, <1>4, Zenon

\* The archive's notions of chain and ancestry are the store's.
LEMMA ArchiveTerms ==
    /\ Archive!Chain = Chain /\ Archive!Base = Base
    /\ \A p, q : Archive!IsAncestor(p, q) <=> IsAncestor(p, q)
<1>1. \A p : Archive!Height(p) = Height(p)
  BY Zenon DEF Archive!Height, Height
<1>2. \A p, h : Archive!At(p, h) = At(p, h)
  BY Zenon DEF Archive!At, At
<1> QED
  BY <1>1, <1>2, Zenon DEF Archive!Chain, Chain, Archive!Base, Base, Archive!IsAncestor, IsAncestor

\* Every step of the store is a step of the archive or is invisible there.
LEMMA ArchiveStep ==
    ASSUME SyncOnly, IndInv, IndInv', AckInv, AckInv', [Next]_vars
    PROVE  [Archive!ArchiveNext]_<<SyncedTip, acked>>
<1>1. /\ wal \in Seq(WalEvent) /\ wal_synced \in 0 .. Len(wal) /\ Len(wal) \in Nat
      /\ acked \in Chain /\ durable_point \in Chain
  BY DEF IndInv, TypeOK
<1>2. SyncedTip = TipOf(wal, wal_synced)
  BY <1>1, SyncedTipIs, Zenon DEF SyncedTip
<1>3. TipOf(wal, wal_synced) \in Chain
  BY <1>1, TipType, Zenon
<1>4. PICK k \in wal_synced .. Len(wal) : SyncedTip' = TipOf(wal, k)
  BY TipMoves, Zenon
<1>5. TipOf(wal, k) \in Chain /\ IsAncestor(acked, TipOf(wal, k))
  BY <1>1, TipType, SMTT(30) DEF AckInv, AckTips
<1>6. CASE acked' = acked
  <2>1. CASE SyncedTip' = SyncedTip
    BY <1>6, <2>1, Zenon
  <2>2. CASE SyncedTip' # SyncedTip /\ IsAncestor(SyncedTip, SyncedTip')
    <3>1. SyncedTip' \in Archive!Chain \ {SyncedTip} /\ Archive!IsAncestor(SyncedTip, SyncedTip')
      BY <1>4, <1>5, <2>2, ArchiveTerms, Zenon
    <3>2. Archive!Extend
      BY <1>6, <3>1, Zenon DEF Archive!Extend
    <3> QED
      BY <3>2, Zenon DEF Archive!ArchiveNext
  <2>3. CASE IsAncestor(SyncedTip', SyncedTip)
    <3>1. /\ SyncedTip' \in Archive!Chain /\ Archive!IsAncestor(SyncedTip', SyncedTip)
          /\ Archive!IsAncestor(acked, SyncedTip')
      BY <1>4, <1>5, <2>3, ArchiveTerms, Zenon
    <3>2. Archive!Cut
      BY <1>6, <3>1, Zenon DEF Archive!Cut
    <3> QED
      BY <3>2, Zenon DEF Archive!ArchiveNext
  <2> QED
    BY <1>2, <1>4, <2>1, <2>2, <2>3, TipsFromSynced, Zenon
<1>7. CASE acked' # acked
  <2>1. /\ Running /\ pc # "truncate_sync" /\ WalKept /\ acked' \in Chain
        /\ \/ IsAncestor(acked, acked') /\ IsAncestor(acked', durable_point)
           \/ IsAncestor(acked', acked)
    BY <1>7, AckMoves, Zenon
  <2>2. SyncedTip' = SyncedTip
    BY <2>1, Zenon DEF WalKept, SyncedTip
  <2>3. CASE IsAncestor(acked', acked)
    <3>1. Archive!GiveUp
      BY <2>1, <2>2, <2>3, ArchiveTerms, Zenon DEF Archive!GiveUp
    <3> QED
      BY <3>1, Zenon DEF Archive!ArchiveNext
  <2>4. CASE IsAncestor(acked, acked') /\ IsAncestor(acked', durable_point)
    <3>1. wal_synced \in wal_end .. Len(wal)
      <4>1. wal_end \in 1 .. Len(wal) /\ wal_synced = IF Syncing THEN wal_end ELSE Len(wal)
        BY <2>1, EndFacts, Zenon DEF AckInv, AckOpen
      <4> QED
        BY <1>1, <4>1, SMTT(30)
    <3>2. IsAncestor(durable_point, TipOf(wal, wal_synced))
      BY <2>1, <3>1, Zenon DEF AckInv, AckOpen
    <3>3. IsAncestor(acked', SyncedTip)
      BY <1>1, <1>2, <1>3, <2>1, <2>4, <3>2, AncestorTrans, Zenon
    <3>4. Archive!Confirm
      BY <2>1, <2>2, <2>4, <3>3, ArchiveTerms, Zenon DEF Archive!Confirm
    <3> QED
      BY <3>4, Zenon DEF Archive!ArchiveNext
  <2> QED
    BY <2>1, <2>3, <2>4, Zenon
<1> QED
  BY <1>6, <1>7, Zenon

\* A new store is an empty archive.
LEMMA ArchiveStart == Init => Archive!ArchiveInit
<1> SUFFICES ASSUME Init PROVE Archive!ArchiveInit
  BY Zenon
<1>1. wal = <<>> /\ wal_synced = 0 /\ acked = Base
  BY Zenon DEF Init
<1>2. wal \in Seq(WalEvent) /\ wal_synced \in 0 .. Len(wal)
  BY <1>1
<1>3. SyncedTip = TipOf(wal, wal_synced)
  BY <1>2, SyncedTipIs, Zenon DEF SyncedTip
<1>4. SyncedTip = Base
  BY <1>1, <1>3, Zenon DEF TipOf
<1> QED
  BY <1>1, <1>4, ArchiveTerms, Zenon DEF Archive!ArchiveInit

\* The store with its threads, its two files and its power losses implements
\* the archive that proof_store.h promises: a chain that grows block by block,
\* is cut only by a truncation, and never loses a block reported durable that
\* the caller has not given up.  SyncOnly is the premise of StoreAckedSurvives.
THEOREM StoreImplementsArchive ==
    ASSUME SyncOnly
    PROVE  Spec => ImplementsArchive
<1>1. IndInv /\ IndInv' /\ AckInv /\ AckInv' /\ [Next]_vars
        => [Archive!ArchiveNext]_<<SyncedTip, acked>>
  BY ArchiveStep, Zenon
<1> QED
  BY <1>1, ArchiveStart, StoreInvariant, StoreAckInvariant, PTL
     DEF Spec, ImplementsArchive, Archive!ArchiveSpec

-----------------------------------------------------------------------------
(* WakeInv, one part for each condition variable's waiters.                *)

ClientWaits ==
    "client" \in asleep =>
        /\ pc \in {"enqueue", "wait", "drain_truncate", "drain_close"}
        /\ ~failed /\ ~stopping
        /\ pc = "enqueue" => ~HasCapacity(arg)
        /\ pc = "wait" => Height(durable_point) < Height(arg)
        /\ pc \in {"drain_truncate", "drain_close"} => durable_point # enqueued_point

WriterWaits ==
    "writer" \in asleep =>
        /\ writer \in {"wait", "group"}
        /\ ~failed /\ ~stopping
        /\ writer = "wait" => ~IsReady(Height(durable_point) + 1)
        /\ writer = "group" => ~ContiguousReady(CommitThreshold)

SerializersWait ==
    /\ asleep \cap Serializer # {} => ~failed /\ ~stopping
    /\ input # <<>> => \E s \in Serializer : s \notin asleep

Closing ==
    /\ ~Running => asleep = {}
    /\ stopping => failed \/ durable_point = enqueued_point

\* The parts are the invariant.
LEMMA WakeParts ==
    WakeInv <=> ClientWaits /\ WriterWaits /\ SerializersWait /\ Closing
BY Zenon DEF WakeInv, NoLostWakeup, ClientWaits, WriterWaits, SerializersWait, Closing

\* The parts are the invariant of the next state.
LEMMA WakePartsNext ==
    ASSUME ClientWaits', WriterWaits', SerializersWait', Closing'
    PROVE  WakeInv'
BY Zenon DEF WakeInv, NoLostWakeup, ClientWaits, WriterWaits, SerializersWait, Closing

\* The client's wait depends on its call, the tips and the queue only.
LEMMA ClientFrame ==
    ASSUME ClientWaits, "client" \in asleep' => "client" \in asleep,
           UNCHANGED <<pc, arg, failed, stopping, durable_point, enqueued_point,
                       queued_blocks, queued_bytes>>
    PROVE  ClientWaits'
<1>1. HasCapacity(arg)' <=> HasCapacity(arg)
  BY Zenon DEF HasCapacity, Bytes
<1> QED
  BY <1>1, Zenon DEF ClientWaits

\* The writer's wait depends on the ready map, the durable tip and the flush
\* request only: a store that is not stopping has the same threshold whatever
\* is enqueued.
LEMMA WriterFrame ==
    ASSUME WriterWaits, "writer" \in asleep' => "writer" \in asleep,
           UNCHANGED <<writer, failed, stopping, durable_point, ready, flush_height>>
    PROVE  WriterWaits'
<1> SUFFICES ASSUME "writer" \in asleep, ~stopping
             PROVE  WriterWaits'
  BY Zenon DEF WriterWaits
<1>1. \A h : IsReady(h)' <=> IsReady(h)
  BY Zenon DEF IsReady
<1>2. CommitThreshold' = CommitThreshold
  BY Zenon DEF CommitThreshold
<1>3. ContiguousReady(CommitThreshold)' <=> ContiguousReady(CommitThreshold)
  BY <1>1, <1>2, Zenon DEF ContiguousReady
<1> QED
  BY <1>1, <1>3, Zenon DEF WriterWaits

\* The threshold of a commit is at least one block.
LEMMA ThresholdPositive ==
    ASSUME TypeOK
    PROVE  CommitThreshold \in Nat /\ CommitThreshold >= 1 /\ CommitThreshold <= GroupCommitBlocks
<1>1. /\ Height(durable_point) \in Nat /\ Height(enqueued_point) \in Nat /\ flush_height \in Nat
      /\ GroupCommitBlocks \in Nat /\ GroupCommitBlocks >= 1
  BY PipeTypes, ConfigAssumption DEF TypeOK
<1> QED
  BY <1>1 DEF CommitThreshold

\* A group below the threshold stays below it until something is added.
LEMMA GroupTooSmall ==
    ASSUME TypeOK, NEW n \in 1 .. GroupCommitBlocks, ContiguousReady(n), n < CommitThreshold
    PROVE  ~ContiguousReady(CommitThreshold)
<1>1. /\ CommitThreshold \in Nat /\ CommitThreshold <= GroupCommitBlocks /\ GroupCommitBlocks \in Nat
  BY ThresholdPositive, ConfigAssumption, Zenon
<1>2. ~IsReady(Height(durable_point) + n + 1)
  BY <1>1 DEF ContiguousReady
<1>3. n + 1 \in 1 .. CommitThreshold /\ Height(durable_point) + n + 1 = Height(durable_point) + (n + 1)
  BY <1>1, PipeTypes
<1> QED
  BY <1>2, <1>3, Zenon DEF ContiguousReady

-----------------------------------------------------------------------------
(* The threads.                                                            *)

\* Whoever sleeps in a serializer or writer step only joins the sleepers, and
\* a failure wakes everyone.
LEMMA WakeSerializer ==
    ASSUME IndInv, WakeInv, NEW s \in Serializer, SerializerStep(s)
    PROVE  WakeInv'
<1> USE DEF disk, ends, queue, threads, client
<1>0. ClientWaits /\ WriterWaits /\ SerializersWait /\ Closing
  BY WakeParts, Zenon
<1>1. "client" \notin Serializer /\ "writer" \notin Serializer /\ s # "client" /\ s # "writer"
  BY ThreadAssumption, Zenon
<1>2. Running /\ Running' /\ UNCHANGED <<pc, arg, stopping, durable_point, enqueued_point,
                                      queued_blocks, queued_bytes, writer, flush_height>>
  <2>1. UNCHANGED <<pc, arg, stopping, durable_point, enqueued_point,
                    queued_blocks, queued_bytes, writer, flush_height>>
    BY Zenon DEF SerializerStep, SerializerTake, SerializerSleep, SerializerExit, SerializerPublish,
      SerializerFail
  <2> QED
    BY <2>1, CtlSerializer, Zenon DEF Running
<1>3. CASE SerializerTake(s)
  <2>1. UNCHANGED <<asleep, ready, failed>> /\ s \notin asleep
    BY <1>3, Zenon DEF SerializerTake
  <2>2. ClientWaits' /\ WriterWaits'
    BY <1>0, <1>2, <2>1, ClientFrame, WriterFrame, Zenon
  <2>3. SerializersWait' /\ Closing'
    BY <1>0, <1>2, <2>1, Zenon DEF SerializersWait, Closing
  <2> QED
    BY <2>2, <2>3, WakePartsNext, Zenon
<1>4. CASE SerializerSleep(s)
  <2>1. UNCHANGED <<ready, failed, input>> /\ asleep' = asleep \cup {s} /\ input = <<>> /\ ~failed /\ ~stopping
    BY <1>4, Zenon DEF SerializerSleep
  <2>2. ClientWaits' /\ WriterWaits'
    BY <1>0, <1>1, <1>2, <2>1, ClientFrame, WriterFrame, Zenon
  <2>3. SerializersWait' /\ Closing'
    BY <1>0, <1>2, <2>1, Zenon DEF SerializersWait, Closing
  <2> QED
    BY <2>2, <2>3, WakePartsNext, Zenon
<1>5. CASE SerializerExit(s)
  <2>1. UNCHANGED <<ready, failed, input, asleep>>
    BY <1>5, Zenon DEF SerializerExit
  <2>2. ClientWaits' /\ WriterWaits'
    BY <1>0, <1>2, <2>1, ClientFrame, WriterFrame, Zenon
  <2>3. SerializersWait' /\ Closing'
    BY <1>0, <1>2, <2>1, Zenon DEF SerializersWait, Closing
  <2> QED
    BY <2>2, <2>3, WakePartsNext, Zenon
<1>6. CASE SerializerPublish(s)
  <2>1. UNCHANGED <<failed, input>> /\ asleep' = asleep \ {"writer"}
    BY <1>6, Zenon DEF SerializerPublish
  <2>2. ClientWaits' /\ WriterWaits'
    BY <1>0, <1>2, <2>1, ClientFrame, Zenon DEF WriterWaits
  <2>3. SerializersWait' /\ Closing'
    BY <1>0, <1>2, <2>1, Zenon DEF SerializersWait, Closing
  <2> QED
    BY <2>2, <2>3, WakePartsNext, Zenon
<1>7. CASE SerializerFail(s)
  <2>1. input' = input /\ asleep' = {} /\ failed'
    BY <1>7, Zenon DEF SerializerFail, SetFailure
  <2>2. ClientWaits' /\ WriterWaits'
    BY <2>1, Zenon DEF ClientWaits, WriterWaits
  <2>3. SerializersWait' /\ Closing'
    BY <1>0, <1>2, <2>1, Zenon DEF SerializersWait, Closing
  <2> QED
    BY <2>2, <2>3, WakePartsNext, Zenon
<1> QED
  BY <1>3, <1>4, <1>5, <1>6, <1>7, Zenon DEF SerializerStep

\* The writer between commits: it sleeps only when nothing is ready or the
\* group is below the threshold.
LEMMA WakeWriterIdle ==
    ASSUME IndInv, WakeInv,
           WriterBegin \/ WriterGroup \/ WriterTimeout \/ WriterSleep \/ WriterExit
    PROVE  WakeInv'
<1> USE DEF disk, ends, queue, threads, client
<1>0. ClientWaits /\ WriterWaits /\ SerializersWait /\ Closing
  BY WakeParts, Zenon
<1>1. "writer" \notin Serializer
  BY ThreadAssumption, Zenon
<1>2. /\ UNCHANGED <<pc, arg, failed, stopping, durable_point, enqueued_point,
                     queued_blocks, queued_bytes, flush_height, input>>
      /\ asleep' \in {asleep, asleep \cup {"writer"}, asleep \ {"writer"}}
  BY Zenon DEF WriterBegin, WriterGroup, WriterTimeout, WriterSleep, WriterExit, TakeBatch
<1>3. Running /\ Running'
  <2>1. Running
    BY CtlWriter, Zenon DEF WriterStep
  <2> QED
    BY <1>2, <2>1, Zenon DEF Running
<1>4. ClientWaits'
  BY <1>0, <1>2, ClientFrame, Zenon
<1>5. SerializersWait' /\ Closing'
  BY <1>0, <1>1, <1>2, <1>3, Zenon DEF SerializersWait, Closing
<1>6. TypeOK /\ PipeInv /\ TypeOK'
  <2>1. [Next]_vars
    BY Zenon DEF Next, WriterStep
  <2> QED
    BY <2>1, TypeStep, Zenon DEF IndInv
<1>7. ASSUME ~failed, ready # {}
      PROVE  ~stopping
  BY <1>0, <1>6, <1>7, EmptyPipe, Zenon DEF Closing
<1>8. CASE "writer" \notin asleep'
  <2>1. WriterWaits'
    BY <1>8, Zenon DEF WriterWaits
  <2> QED
    BY <1>4, <1>5, <2>1, WakePartsNext, Zenon
<1>9. ASSUME NEW n \in 1 .. GroupCommitBlocks, ContiguousReady(n), n < CommitThreshold, ~failed,
             ready' = ready, writer' = "group"
      PROVE  WakeInv'
  <2>1. ~ContiguousReady(CommitThreshold)
    BY <1>6, <1>9, GroupTooSmall, Zenon
  <2>2. IsReady(Height(durable_point) + 1)
    <3>1. 1 \in 1 .. n
      OBVIOUS
    <3> QED
      BY <1>9, <3>1, Zenon DEF ContiguousReady
  <2>3. ~stopping
    BY <1>7, <1>9, <2>2, Zenon DEF IsReady
  <2>4. CommitThreshold' = CommitThreshold /\ \A h : IsReady(h)' <=> IsReady(h)
    BY <1>2, <1>9, Zenon DEF CommitThreshold, IsReady
  <2>5. ~ContiguousReady(CommitThreshold)'
    BY <1>2, <2>1, <2>4, Zenon DEF ContiguousReady
  <2>6. WriterWaits'
    BY <1>2, <1>9, <2>3, <2>5, Zenon DEF WriterWaits
  <2> QED
    BY <1>4, <1>5, <2>6, WakePartsNext, Zenon
<1>10. CASE WriterBegin
  <2>1. PICK n \in 1 .. GroupCommitBlocks :
          /\ ContiguousReady(n)
          /\ \/ n >= CommitThreshold /\ TakeBatch(n)
             \/ n < CommitThreshold /\ writer' = "group" /\ ready' = ready
    BY <1>10, Zenon DEF WriterBegin
  <2>2. "writer" \notin asleep /\ ~failed
    BY <1>10, Zenon DEF WriterBegin
  <2>3. CASE TakeBatch(n)
    BY <1>8, <2>2, <2>3, Zenon DEF TakeBatch
  <2> QED
    BY <1>9, <2>1, <2>2, <2>3, Zenon
<1>11. CASE WriterGroup
  <2>1. PICK n \in 1 .. GroupCommitBlocks :
          /\ ContiguousReady(n)
          /\ \/ n >= CommitThreshold /\ TakeBatch(n)
             \/ n < CommitThreshold /\ writer' = writer /\ ready' = ready
    BY <1>11, Zenon DEF WriterGroup
  <2>2. "writer" \notin asleep /\ ~failed /\ writer = "group"
    BY <1>11, Zenon DEF WriterGroup
  <2>3. CASE TakeBatch(n)
    BY <1>8, <2>2, <2>3, Zenon DEF TakeBatch
  <2> QED
    BY <1>9, <2>1, <2>2, <2>3, Zenon
<1>12. CASE WriterTimeout
  BY <1>8, <1>12, Zenon DEF WriterTimeout
<1>13. CASE WriterExit
  BY <1>8, <1>13, Zenon DEF WriterExit
<1>14. CASE WriterSleep
  <2>1. /\ writer = "wait" /\ writer' = "wait" /\ ready' = ready /\ ~failed /\ ~stopping
        /\ ~IsReady(Height(durable_point) + 1)
    BY <1>14, Zenon DEF WriterSleep
  <2>2. ~IsReady(Height(durable_point) + 1)'
    BY <1>2, <2>1, Zenon DEF IsReady
  <2>3. WriterWaits'
    BY <1>2, <2>1, <2>2, Zenon DEF WriterWaits
  <2> QED
    BY <1>4, <1>5, <2>3, WakePartsNext, Zenon
<1> QED
  BY <1>10, <1>11, <1>12, <1>13, <1>14, Zenon

\* The writer holding a batch is awake; publishing wakes the client, failing
\* wakes everyone.
LEMMA WakeCommit ==
    ASSUME IndInv, WakeInv, WriteData \/ SyncData \/ WriteWal \/ SyncWal \/ CommitPublish
    PROVE  WakeInv'
<1> USE DEF disk, ends, queue, threads, client
<1>0. ClientWaits /\ WriterWaits /\ SerializersWait /\ Closing
  BY WakeParts, Zenon
<1>1. "client" \notin Serializer
  BY ThreadAssumption, Zenon
<1>2. Running /\ Running' /\ pc' = pc
  <2>1. Running
    BY CtlWriter, Zenon DEF WriterStep
  <2>2. pc' = pc
    BY Zenon DEF WriteData, SyncData, WriteWal, SyncWal, CommitPublish, WriterGoesTo, WriterFails, Publish
  <2> QED
    BY <2>1, <2>2, Zenon DEF Running
<1>3. "writer" \notin asleep /\ batch # <<>>
  <2>1. writer \in Holding
    BY Zenon DEF WriteData, SyncData, WriteWal, SyncWal, CommitPublish, Holding
  <2>2. batch # <<>>
    BY <2>1, Zenon DEF IndInv, CtlInv
  <2> QED
    BY <1>0, <2>1, <2>2, Zenon DEF WriterWaits, Holding
<1>4. CASE WriterFails
  <2>1. asleep' = {} /\ failed' /\ input' = input
    BY <1>4, Zenon DEF WriterFails, SetFailure
  <2>2. ClientWaits' /\ WriterWaits' /\ Closing'
    BY <1>2, <2>1, Zenon DEF ClientWaits, WriterWaits, Closing
  <2>3. SerializersWait'
    BY <2>1, ThreadAssumption, Zenon DEF SerializersWait
  <2> QED
    BY <2>2, <2>3, WakePartsNext, Zenon
<1>5. CASE \E at \in {"data_sync", "wal", "wal_sync", "publish"} : WriterGoesTo(at)
  <2>1. UNCHANGED <<asleep, arg, failed, stopping, durable_point, enqueued_point, queued_blocks,
                    queued_bytes, input>>
    BY <1>5, Zenon DEF WriterGoesTo
  <2>2. ClientWaits'
    BY <1>0, <1>2, <2>1, ClientFrame, Zenon
  <2>3. WriterWaits' /\ SerializersWait' /\ Closing'
    BY <1>0, <1>2, <1>3, <2>1, Zenon DEF WriterWaits, SerializersWait, Closing
  <2> QED
    BY <2>2, <2>3, WakePartsNext, Zenon
<1>6. CASE Publish
  <2>1. asleep' = asleep \ {"client"} /\ UNCHANGED <<failed, stopping, input>>
    BY <1>6, Zenon DEF Publish
  <2>2. ClientWaits' /\ WriterWaits' /\ SerializersWait'
    BY <1>0, <1>1, <1>3, <2>1, Zenon DEF ClientWaits, WriterWaits, SerializersWait
  <2>3. stopping => failed
    BY <1>0, <1>3, TipsApart, Zenon DEF Closing, IndInv
  <2>4. Closing'
    BY <1>2, <2>1, <2>3, Zenon DEF Closing
  <2> QED
    BY <2>2, <2>4, WakePartsNext, Zenon
<1> QED
  BY <1>4, <1>5, <1>6, Zenon DEF WriteData, SyncData, WriteWal, SyncWal, CommitPublish

\* Until the store is open, and after it is gone, nobody sleeps.
LEMMA WakeOpen ==
    ASSUME IndInv, WakeInv, OpenStep \/ Join \/ Kill \/ PowerLoss
    PROVE  WakeInv'
<1> USE DEF disk, ends, queue, threads, client
<1>0. Closing
  BY WakeParts, Zenon
<1>1. asleep' = {} /\ ~stopping'
  <2>1. CASE OpenStep
    <3>1. ~Running /\ asleep' = asleep /\ stopping' = stopping
      BY <2>1, Zenon DEF OpenStep, OpenEmpty, CreateBaseData, SyncBaseData, CreateBaseWal, SyncBaseWal,
        OpenRecover, Running
    <3> QED
      BY <1>0, <3>1, Zenon DEF Closing, Running, IndInv, CtlInv
  <2>2. CASE Join \/ Kill \/ PowerLoss
    BY <2>2, Zenon DEF Join, Kill, PowerLoss, ProcessGone
  <2> QED
    BY <2>1, <2>2, Zenon
<1>2. ClientWaits' /\ WriterWaits' /\ Closing'
  BY <1>1, Zenon DEF ClientWaits, WriterWaits, Closing
<1>3. SerializersWait'
  BY <1>1, ThreadAssumption, Zenon DEF SerializersWait
<1> QED
  BY <1>2, <1>3, WakePartsNext, Zenon

-----------------------------------------------------------------------------
(* The client.                                                             *)

\* A step that stops the threads wakes them all.
LEMMA WakeStop ==
    ASSUME Running', StopThreads, failed \/ durable_point = enqueued_point,
           UNCHANGED <<failed, durable_point, enqueued_point, input>>
    PROVE  WakeInv'
<1>1. asleep' = {}
  BY Zenon DEF StopThreads
<1>2. ClientWaits' /\ WriterWaits' /\ Closing'
  BY <1>1, Zenon DEF ClientWaits, WriterWaits, Closing
<1>3. SerializersWait'
  BY <1>1, ThreadAssumption, Zenon DEF SerializersWait
<1> QED
  BY <1>2, <1>3, WakePartsNext, Zenon

\* A call that returns or goes on leaves the others' waits as they are.
LEMMA WakeQuiet ==
    ASSUME IndInv, WakeInv, Running, Running', "client" \notin asleep, pc # "join",
           UNCHANGED <<durable_point, enqueued_point, flush_height, input, ready, writer,
                       failed, stopping, asleep>>
    PROVE  WakeInv'
<1>0. WriterWaits /\ SerializersWait /\ Closing
  BY WakeParts, Zenon
<1>1. ClientWaits' /\ SerializersWait' /\ Closing'
  BY <1>0, Zenon DEF ClientWaits, SerializersWait, Closing
<1>2. WriterWaits'
  BY <1>0, WriterFrame, Zenon
<1> QED
  BY <1>1, <1>2, WakePartsNext, Zenon

\* The client goes to sleep again: what it waits for is still false.
LEMMA WakeSleepAgain ==
    ASSUME IndInv, WakeInv, SleepAgain, ~failed,
           pc \in {"enqueue", "wait", "drain_truncate", "drain_close"},
           pc = "enqueue" => ~HasCapacity(arg),
           pc = "wait" => Height(durable_point) < Height(arg),
           pc \in {"drain_truncate", "drain_close"} => durable_point # enqueued_point
    PROVE  WakeInv'
<1> USE DEF disk, ends, queue, threads, client
<1>0. WriterWaits /\ SerializersWait /\ Closing /\ "client" \notin Serializer
  BY WakeParts, ThreadAssumption, Zenon
<1>1. /\ asleep' = asleep \cup {"client"}
      /\ UNCHANGED <<durable_point, enqueued_point, flush_height, input, ready, writer, queued_blocks,
                     queued_bytes, failed, stopping, pc, arg>>
  BY Zenon DEF SleepAgain
<1>2. ~stopping /\ Running
  BY Zenon DEF IndInv, CtlInv, Running
<1>3. HasCapacity(arg)' <=> HasCapacity(arg)
  BY <1>1, Zenon DEF HasCapacity, Bytes
<1>4. ClientWaits'
  BY <1>1, <1>2, <1>3, Zenon DEF ClientWaits
<1>5. SerializersWait' /\ Closing'
  BY <1>0, <1>1, <1>2, Zenon DEF SerializersWait, Closing, Running
<1>6. WriterWaits'
  BY <1>0, <1>1, WriterFrame, Zenon
<1> QED
  BY <1>4, <1>5, <1>6, WakePartsNext, Zenon

\* The client asks for a flush and sleeps: the writer is awake to see it.
LEMMA WakeRequest ==
    ASSUME IndInv, WakeInv, Running', ~stopping,
           asleep' \in {asleep \ {"writer"}, (asleep \ {"writer"}) \cup {"client"}},
           UNCHANGED <<durable_point, enqueued_point, input, failed, stopping>>,
           ClientWaits'
    PROVE  WakeInv'
<1>0. SerializersWait /\ "client" \notin Serializer
  BY WakeParts, ThreadAssumption, Zenon
<1>1. WriterWaits'
  BY DEF WriterWaits
<1>2. SerializersWait' /\ Closing'
  BY <1>0, Zenon DEF SerializersWait, Closing
<1> QED
  BY <1>1, <1>2, WakePartsNext, Zenon

\* Push notifies a serializer; if none sleeps, one is awake to take the block.
LEMMA WakePush ==
    ASSUME IndInv, WakeInv, NEW p, Push(p), ~failed, ~stopping
    PROVE  WakeInv'
<1> USE DEF disk, ends, queue, threads, client
<1>0. WriterWaits /\ SerializersWait /\ Closing
  BY WakeParts, Zenon
<1>1. "client" \notin Serializer /\ "writer" \notin Serializer /\ Serializer # {}
  BY ThreadAssumption, Zenon
<1>2. /\ NotifyOneSerializer /\ pc' = "idle"
      /\ UNCHANGED <<durable_point, flush_height, ready, writer, failed, stopping>>
  BY Zenon DEF Push
<1>3. /\ asleep' \subseteq asleep /\ "client" \notin asleep'
      /\ \E s \in Serializer : s \notin asleep'
  BY <1>1, <1>2, Zenon DEF NotifyOneSerializer
<1>4. ClientWaits' /\ SerializersWait'
  BY <1>2, <1>3, Zenon DEF ClientWaits, SerializersWait
<1>5. Closing'
  BY <1>2, Zenon DEF Closing, Running
<1>6. WriterWaits'
  BY <1>0, <1>2, <1>3, WriterFrame, Zenon
<1> QED
  BY <1>4, <1>5, <1>6, WakePartsNext, Zenon

\* The calls.
LEMMA WakeCall ==
    ASSUME IndInv, WakeInv, ClientCall
    PROVE  WakeInv'
<1> USE DEF disk, ends, queue, threads, client
<1>0. ClientWaits /\ WriterWaits /\ SerializersWait /\ Closing
  BY WakeParts, Zenon
<1>1. pc = "idle" /\ Running
  BY Zenon DEF ClientCall, Enqueue, WaitDurable, Truncate, Close, Running
<1>2. ~stopping /\ "client" \notin asleep
  BY <1>0, <1>1, Zenon DEF IndInv, CtlInv, ClientWaits
<1>3. /\ durable_point \in Chain /\ enqueued_point \in Chain /\ Height(durable_point) \in Nat
      /\ Height(enqueued_point) \in Nat
  BY PipeTypes, Zenon DEF IndInv
<1>4. ASSUME NEW label \in Label, Enqueue(label)
      PROVE  WakeInv'
  <2> DEFINE p == Append(enqueued_point, label)
  <2>1. CASE Push(p)
    <3>1. ~failed
      BY <1>4, Zenon DEF Enqueue
    <3> HIDE DEF p
    <3> QED
      BY <1>2, <2>1, <3>1, WakePush, Zenon
  <2>2. CASE ~Push(p)
    <3>1. /\ ~failed /\ ~HasCapacity(p) /\ pc' = "enqueue" /\ arg' = p
          /\ asleep' = (asleep \ {"writer"}) \cup {"client"}
          /\ UNCHANGED <<durable_point, enqueued_point, input, queued_blocks, queued_bytes, failed,
                         stopping>>
      BY <1>4, <2>2, Zenon DEF Enqueue
    <3>2. ~HasCapacity(arg)'
      BY <3>1, Zenon DEF HasCapacity, Bytes
    <3>3. ClientWaits' /\ Running'
      BY <1>2, <3>1, <3>2, Zenon DEF ClientWaits, Running
    <3> QED
      BY <1>2, <3>1, <3>3, WakeRequest, Zenon
  <2> QED
    BY <2>1, <2>2, Zenon
<1>5. ASSUME NEW h \in 0 .. Height(enqueued_point), WaitDurable(h)
      PROVE  WakeInv'
  <2>1. CASE h <= Height(durable_point)
    <3>1. pc' = pc /\ UNCHANGED <<durable_point, enqueued_point, flush_height, input, ready, writer,
                       failed, stopping, asleep>>
      BY <1>3, <1>5, <2>1, SMTT(30) DEF WaitDurable
    <3> QED
      BY <1>1, <1>2, <3>1, WakeQuiet, Zenon DEF Running
  <2>2. CASE h > Height(durable_point)
    <3>1. /\ pc' = "wait" /\ arg' = At(enqueued_point, h)
          /\ asleep' = (asleep \ {"writer"}) \cup (IF failed THEN {} ELSE {"client"})
          /\ UNCHANGED <<durable_point, enqueued_point, input, failed, stopping>>
      BY <1>3, <1>5, <2>2, SMTT(30) DEF WaitDurable, RequestFlush
    <3>2. Height(arg') = h
      BY <1>3, <3>1, AtType, Zenon
    <3>3. Height(durable_point') < Height(arg')
      BY <1>3, <2>2, <3>1, <3>2, Zenon
    <3>4. ClientWaits' /\ Running'
      BY <1>2, <3>1, <3>3, Zenon DEF ClientWaits, Running
    <3> QED
      BY <1>2, <3>1, <3>4, WakeRequest, Zenon
  <2> QED
    BY <1>3, <2>1, <2>2, SMTT(30)
<1>6. ASSUME NEW h \in 0 .. Height(enqueued_point), Truncate(At(enqueued_point, h))
      PROVE  WakeInv'
  <2>1. CASE enqueued_point = durable_point
    <3>1. pc' = "truncate" /\ UNCHANGED <<durable_point, enqueued_point, flush_height, input, ready,
                       writer, failed, stopping, asleep>>
      BY <1>6, <2>1, Zenon DEF Truncate
    <3> QED
      BY <1>1, <1>2, <3>1, WakeQuiet, Zenon DEF Running
  <2>2. CASE enqueued_point # durable_point
    <3>1. /\ pc' = "drain_truncate" /\ ~failed
          /\ asleep' = (asleep \ {"writer"}) \cup {"client"}
          /\ UNCHANGED <<durable_point, enqueued_point, input, failed, stopping>>
      BY <1>6, <2>2, Zenon DEF Truncate, RequestFlush
    <3>2. ClientWaits' /\ Running'
      BY <1>2, <2>2, <3>1, Zenon DEF ClientWaits, Running
    <3> QED
      BY <1>2, <3>1, <3>2, WakeRequest, Zenon
  <2> QED
    BY <2>1, <2>2, Zenon
<1>7. CASE Close
  <2>1. CASE failed \/ enqueued_point = durable_point
    <3>1. StopThreads /\ UNCHANGED <<failed, durable_point, enqueued_point, input>>
      BY <1>7, <2>1, Zenon DEF Close, BeginClose
    <3>2. Running'
      BY <3>1, Zenon DEF StopThreads, Running
    <3> QED
      BY <2>1, <3>1, <3>2, WakeStop, Zenon
  <2>2. CASE ~failed /\ enqueued_point # durable_point
    <3>1. /\ pc' = "drain_close"
          /\ asleep' = (asleep \ {"writer"}) \cup {"client"}
          /\ UNCHANGED <<durable_point, enqueued_point, input, failed, stopping>>
      BY <1>7, <2>2, Zenon DEF Close, BeginClose, RequestFlush
    <3>2. ClientWaits' /\ Running'
      BY <1>2, <2>2, <3>1, Zenon DEF ClientWaits, Running
    <3> QED
      BY <1>2, <3>1, <3>2, WakeRequest, Zenon
  <2> QED
    BY <2>1, <2>2, Zenon
<1> QED
  BY <1>4, <1>5, <1>6, <1>7, Zenon DEF ClientCall

\* What the client does inside a call.
LEMMA WakeClient ==
    ASSUME IndInv, WakeInv, ClientStep, ~Join
    PROVE  WakeInv'
<1> USE DEF disk, ends, queue, threads, client
<1>0. ClientWaits /\ WriterWaits /\ SerializersWait /\ Closing
  BY WakeParts, Zenon
<1>1. Running /\ pc # "join"
  BY Zenon DEF ClientStep, EnqueueResume, WaitResume, DrainResume, TruncateNothing, TruncateWrite,
    TruncateSync, CloseAfterError, CloseResume, Running
<1>2. ~stopping /\ "client" \notin asleep
  BY <1>0, <1>1, Zenon DEF IndInv, CtlInv, ClientWaits, ClientStep, EnqueueResume, WaitResume, DrainResume,
    TruncateNothing, TruncateWrite, TruncateSync, CloseAfterError, CloseResume
<1>3. /\ durable_point \in Chain /\ enqueued_point \in Chain /\ Height(durable_point) \in Nat
      /\ Height(enqueued_point) \in Nat
  BY PipeTypes, Zenon DEF IndInv
<1>4. CASE Return
  <2>1. pc' = "idle" /\ UNCHANGED <<durable_point, enqueued_point, flush_height, input, ready,
                       writer, failed, stopping, asleep>>
    BY <1>4, Zenon DEF Return
  <2> QED
    BY <1>1, <1>2, <2>1, WakeQuiet, Zenon DEF Running
<1>5. ASSUME pc' \in {"idle", "truncate", "truncate_sync", "close"},
             UNCHANGED <<durable_point, enqueued_point, flush_height, input, ready,
                         writer, failed, stopping, asleep>>
      PROVE  WakeInv'
  BY <1>1, <1>2, <1>5, WakeQuiet, Zenon DEF Running
<1>6. CASE EnqueueResume
  <2>1. CASE ~failed /\ HasCapacity(arg) /\ Push(arg)
    BY <1>2, <2>1, WakePush, Zenon
  <2>2. CASE ~failed /\ ~HasCapacity(arg) /\ SleepAgain
    BY <1>6, <2>2, WakeSleepAgain, Zenon DEF EnqueueResume
  <2> QED
    BY <1>4, <1>6, <2>1, <2>2, Zenon DEF EnqueueResume
<1>7. CASE WaitResume
  <2>1. CASE ~failed /\ Height(durable_point) < Height(arg) /\ SleepAgain
    BY <1>7, <2>1, WakeSleepAgain, Zenon DEF WaitResume
  <2>2. CASE Height(durable_point) >= Height(arg) /\ pc' = "idle"
            /\ UNCHANGED <<durable_point, enqueued_point, flush_height, input, ready,
                           writer, failed, stopping, asleep>>
    BY <1>5, <2>2, Zenon
  <2> QED
    BY <1>4, <1>7, <2>1, <2>2, Zenon DEF WaitResume
<1>8. CASE DrainResume
  <2>1. CASE ~failed /\ Height(durable_point) < Height(enqueued_point) /\ SleepAgain
    <3>1. durable_point # enqueued_point
      BY <1>3, <2>1
    <3> QED
      BY <1>8, <2>1, <3>1, WakeSleepAgain, Zenon DEF DrainResume
  <2>2. CASE pc' = "truncate"
            /\ UNCHANGED <<durable_point, enqueued_point, flush_height, input, ready,
                           writer, failed, stopping, asleep>>
    BY <1>5, <2>2, Zenon
  <2> QED
    BY <1>4, <1>8, <2>1, <2>2, Zenon DEF DrainResume
<1>9. CASE TruncateNothing
  BY <1>4, <1>9, Zenon DEF TruncateNothing
<1>10. CASE TruncateWrite
  <2>1. pc' \in {"truncate_sync", "close"}
        /\ UNCHANGED <<durable_point, enqueued_point, flush_height, input, ready,
                         writer, failed, stopping, asleep>>
    BY <1>10, Zenon DEF TruncateWrite
  <2> QED
    BY <1>5, <2>1, Zenon
<1>11. CASE TruncateSync
  <2>1. CASE pc' = "close" /\ UNCHANGED <<durable_point, enqueued_point>>
    <3>1. UNCHANGED <<flush_height, input, ready, writer, failed, stopping, asleep>>
      BY <1>11, Zenon DEF TruncateSync
    <3> QED
      BY <1>5, <2>1, <3>1, Zenon
  <2>2. CASE pc' = "idle"
    <3>1. /\ UNCHANGED <<flush_height, input, ready, writer, failed, stopping, asleep>>
          /\ pc = "truncate_sync"
      BY <1>11, Zenon DEF TruncateSync
    <3>2. durable_point = enqueued_point /\ ~failed
      BY <3>1, Zenon DEF IndInv, CtlInv
    <3>3. ready' = {} /\ TypeOK'
      <4>1. [Next]_vars
        BY Zenon DEF Next
      <4> QED
        BY <3>1, <3>2, <4>1, EmptyPipe, TypeStep, Zenon DEF IndInv
    <3>4. (\A h : ~IsReady(h)') /\ ~ContiguousReady(CommitThreshold)'
      <4>1. \A h : ~IsReady(h)'
        BY <3>3, Zenon DEF IsReady
      <4>2. 1 \in 1 .. CommitThreshold'
        <5>1. /\ Height(durable_point)' \in Nat /\ Height(enqueued_point)' \in Nat
              /\ flush_height' \in Nat /\ GroupCommitBlocks \in Nat /\ GroupCommitBlocks >= 1
          BY <3>3, BaseFacts, ConfigAssumption, SMTT(30) DEF TypeOK
        <5> QED
          BY <5>1 DEF CommitThreshold
      <4> QED
        BY <4>1, <4>2, Zenon DEF ContiguousReady
    <3>5. WriterWaits'
      BY <1>0, <3>1, <3>4, Zenon DEF WriterWaits
    <3>6. ClientWaits' /\ SerializersWait' /\ Closing'
      BY <1>0, <1>2, <2>2, <3>1, Zenon DEF ClientWaits, SerializersWait, Closing, Running
    <3> QED
      BY <3>5, <3>6, WakePartsNext, Zenon
  <2> QED
    BY <1>11, <2>1, <2>2, Zenon DEF TruncateSync
<1>12. CASE CloseAfterError
  <2>1. ~failed /\ durable_point = enqueued_point
    BY <1>12, Zenon DEF CloseAfterError, IndInv, CtlInv
  <2>2. StopThreads /\ UNCHANGED <<failed, durable_point, enqueued_point, input>>
    BY <1>12, <2>1, Zenon DEF CloseAfterError, BeginClose
  <2>3. Running'
    BY <2>2, Zenon DEF StopThreads, Running
  <2> QED
    BY <2>1, <2>2, <2>3, WakeStop, Zenon
<1>13. CASE CloseResume
  <2>1. CASE ~failed /\ Height(durable_point) < Height(enqueued_point) /\ SleepAgain
    <3>1. durable_point # enqueued_point
      BY <1>3, <2>1
    <3> QED
      BY <1>13, <2>1, <3>1, WakeSleepAgain, Zenon DEF CloseResume
  <2>2. CASE (failed \/ Height(durable_point) >= Height(enqueued_point)) /\ StopThreads
             /\ UNCHANGED <<failed, durable_point, enqueued_point, input>>
    <3>1. failed \/ durable_point = enqueued_point
      <4>1. IsAncestor(durable_point, enqueued_point)
        BY Zenon DEF IndInv, PipeInv
      <4>2. Height(durable_point) >= Height(enqueued_point) => durable_point = enqueued_point
        BY <1>3, <4>1, AtSelf, SMTT(30) DEF IsAncestor
      <4> QED
        BY <2>2, <4>2, Zenon
    <3>2. Running'
      BY <2>2, Zenon DEF StopThreads, Running
    <3> QED
      BY <2>2, <3>1, <3>2, WakeStop, Zenon
  <2> QED
    BY <1>13, <2>1, <2>2, Zenon DEF CloseResume
<1> QED
  BY <1>6, <1>7, <1>8, <1>9, <1>10, <1>11, <1>12, <1>13, Zenon DEF ClientStep

-----------------------------------------------------------------------------
(* No lost wakeup.                                                         *)

\* Every step keeps the invariant of the condition variables.
LEMMA WakeStep ==
    ASSUME IndInv, WakeInv, [Next]_vars
    PROVE  WakeInv'
<1>1. CASE UNCHANGED vars
  <2>1. ClientWaits /\ WriterWaits /\ SerializersWait /\ Closing
    BY WakeParts, Zenon
  <2>2. UNCHANGED <<pc, arg, failed, stopping, durable_point, enqueued_point, queued_blocks,
                    queued_bytes, writer, ready, flush_height, asleep, input>>
    BY <1>1, Zenon DEF vars, queue, threads, client
  <2>3. ClientWaits' /\ WriterWaits'
    BY <2>1, <2>2, ClientFrame, WriterFrame, Zenon
  <2>4. SerializersWait' /\ Closing'
    BY <2>1, <2>2, Zenon DEF SerializersWait, Closing, Running
  <2> QED
    BY <2>3, <2>4, WakePartsNext, Zenon
<1>2. CASE Next
  BY <1>2, WakeSerializer, WakeWriterIdle, WakeCommit, WakeOpen, WakeClient, WakeCall, Zenon
     DEF Next, WriterStep, ClientStep
<1> QED
  BY <1>1, <1>2, Zenon

\* With any number of serializers, any limits and any interleaving of calls,
\* failures and crashes, no thread of the pipeline sleeps on its condition
\* variable while its wait predicate is true: every critical section that can
\* make one true notifies it (SerializerLoop, WriterLoop, Enqueue, WaitDurable,
\* Drain and the destructor).
THEOREM StoreNoLostWakeup == Spec => []NoLostWakeup
<1>1. Init => WakeInv
  <2> SUFFICES ASSUME Init PROVE WakeInv
    BY Zenon
  <2>1. asleep = {} /\ ~stopping
    BY Zenon DEF Init
  <2>2. ClientWaits /\ WriterWaits /\ Closing
    BY <2>1, Zenon DEF ClientWaits, WriterWaits, Closing
  <2>3. SerializersWait
    BY <2>1, ThreadAssumption, Zenon DEF SerializersWait
  <2> QED
    BY <2>2, <2>3, WakeParts, Zenon
<1>2. IndInv /\ WakeInv /\ [Next]_vars => WakeInv'
  BY WakeStep, Zenon
<1>3. WakeInv => NoLostWakeup
  BY Zenon DEF WakeInv
<1> QED
  BY <1>1, <1>2, <1>3, StoreInvariant, PTL DEF Spec
=============================================================================
