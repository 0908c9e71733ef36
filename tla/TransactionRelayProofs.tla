------------------------ MODULE TransactionRelayProofs ------------------------
(***************************************************************************)
(* TransactionRelay: for any number of connections, transactions and chain *)
(* points and any limits, what the cache hands out is of the anchor and    *)
(* epoch it claims, and the jobs of WaitFor are accounted for.             *)
(***************************************************************************)
EXTENDS TransactionCacheLemmas

-----------------------------------------------------------------------------
(* The entries: within the limits, one per transaction.                     *)

StoreInv == CacheType /\ EntriesInv

\* Nothing happens to the cache.
LEMMA StoreSame ==
    ASSUME StoreInv, UNCHANGED cache
    PROVE  StoreInv'
BY Zenon DEF StoreInv, CacheType, EntriesInv, Distinct, cache

\* Expiry and erasure.
LEMMA StoreKept ==
    ASSUME StoreInv, NEW c, Shrunk(c, entries), Retain(c), UNCHANGED <<point, ready, epoch>>
    PROVE  StoreInv' /\ Range(entries') \subseteq Range(entries)
<1> DEFINE es == c.entries
<1>1. entries' = es /\ bytes' = Total(es)
  BY Zenon DEF Retain, Shrunk, Exact
<1>2. /\ es \in Seq(Entry) /\ Len(es) <= Len(entries) /\ Total(es) <= Total(entries)
      /\ Total(es) \in Nat /\ Range(es) \subseteq Range(entries) /\ (Distinct(entries) => Distinct(es))
  BY Zenon DEF Shrunk, Part
<1> HIDE DEF es
<1>3. /\ entries \in Seq(Entry) /\ Len(entries) <= MaxEntries /\ bytes = Total(entries)
      /\ bytes <= MaxBytes /\ Distinct(entries)
  BY Zenon DEF StoreInv, CacheType, EntriesInv
<1>4. /\ Len(es) \in Nat /\ Len(entries) \in Nat /\ Total(entries) \in Nat
      /\ MaxEntries \in Nat /\ MaxBytes \in Nat
  BY <1>2, <1>3, EntriesTotal, CacheConfig, Zenon
<1>5. Len(es) <= MaxEntries /\ Total(es) <= MaxBytes
  <2> DEFINE a == Len(es)
             b == Len(entries)
             t == Total(es)
             d == Total(entries)
  <2>1. /\ a \in Nat /\ b \in Nat /\ t \in Nat /\ d \in Nat /\ MaxEntries \in Nat /\ MaxBytes \in Nat
        /\ a <= b /\ b <= MaxEntries /\ t <= d /\ d <= MaxBytes
    BY <1>2, <1>3, <1>4, Zenon
  <2> HIDE DEF a, b, t, d
  <2>2. a <= MaxEntries /\ t <= MaxBytes
    BY ONLY <2>1
  <2> QED
    BY <2>2, Zenon DEF a, t
<1>7. CacheType'
  BY <1>1, <1>2, Zenon DEF StoreInv, CacheType
<1>8. EntriesInv'
  BY <1>1, <1>2, <1>3, <1>5, Zenon DEF EntriesInv, Distinct
<1> QED
  BY <1>1, <1>2, <1>7, <1>8, Zenon DEF StoreInv

\* Expire alone.
LEMMA StoreExpired ==
    ASSUME StoreInv, NEW c \in Unexpired, Retain(c), UNCHANGED <<point, ready, epoch>>
    PROVE  StoreInv' /\ Range(entries') \subseteq Range(entries)
<1>1. entries \in Seq(Entry) /\ bytes = Total(entries)
  BY Zenon DEF StoreInv, CacheType, EntriesInv
<1> QED
  BY <1>1, UnexpiredShrunk, StoreKept, Zenon

\* Clear.
LEMMA StoreCleared ==
    ASSUME NEW es, es = <<>>, Retain(EmptyStore),
           point' \in Tip \cup {NONE}, ready' \in BOOLEAN, epoch' \in Nat
    PROVE  StoreInv' /\ Range(entries') = {}
<1>1. entries' = es /\ bytes' = 0
  BY Zenon DEF Retain, EmptyStore
<1>2. es \in Seq(Entry) /\ Len(es) = 0 /\ Range(es) = {}
  BY DEF Range
<1>3. Total(es) = 0
  <2>1. es \in Seq(Entry)
    BY <1>2, Zenon
  <2>2. Len(es) = 0
    BY <1>2, Zenon
  <2> QED
    BY ONLY <2>1, <2>2, TotalEmpty, Zenon
<1>4. bytes' = Total(entries') /\ bytes' = 0 /\ Len(entries') = 0
  BY <1>1, <1>2, <1>3, Zenon
<1>5. EntriesInv'
  BY <1>4, CacheConfig DEF EntriesInv, Distinct
<1>6. CacheType'
  BY <1>1, <1>2, Zenon DEF CacheType
<1> QED
  BY <1>1, <1>2, <1>5, <1>6, Zenon DEF StoreInv

\* Publish.
LEMMA StorePublished ==
    ASSUME StoreInv, NEW pt \in Tip, NEW t \in Txid, NEW d \in Digest, Publish(pt, t, d)
    PROVE  /\ StoreInv' /\ Range(entries') \subseteq Range(entries) \cup {NewEntry(pt, t, d)}
           /\ ready /\ point = pt
<1>1. PICK c \in Unexpired :
        Retain(IF EntryBytes[t] > MaxBytes THEN c ELSE Published(c, pt, t, d))
  BY Zenon DEF Publish
<1>2. ready /\ point = pt /\ UNCHANGED <<point, ready, epoch>>
  BY Zenon DEF Publish, CanPublish
<1> DEFINE es == c.entries
<1>3. /\ entries \in Seq(Entry) /\ epoch \in Nat /\ Distinct(entries) /\ CacheType
      /\ bytes = Total(entries)
  BY Zenon DEF StoreInv, CacheType, EntriesInv
<1>4. Shrunk(c, entries) /\ Part(es, entries) /\ Exact(c) /\ Range(es) \subseteq Range(entries)
  BY <1>3, UnexpiredShrunk, Zenon DEF Shrunk, Part
<1>5. CASE EntryBytes[t] > MaxBytes
  <2>1. Retain(c)
    BY <1>1, <1>5, Zenon
  <2> QED
    BY <1>2, <1>4, <2>1, StoreKept, Zenon
<1>6. CASE ~ (EntryBytes[t] > MaxBytes)
  <2> DEFINE g == Published(c, pt, t, d)
             P == g.entries
  <2>1. entries' = P /\ bytes' = g.bytes
    BY <1>1, <1>6, Zenon DEF Retain
  <2>2. EntryBytes[t] <= MaxBytes
    BY <1>6, CacheConfig
  <2>3. Distinct(es)
    BY <1>3, <1>4, Zenon DEF Part
  <2>4. /\ Exact(g) /\ Len(P) <= MaxEntries /\ g.bytes <= MaxBytes /\ Distinct(P)
        /\ Range(P) \subseteq Range(es) \cup {NewEntry(pt, t, d)}
    BY <1>3, <1>4, <2>2, <2>3, PublishedFits, Zenon
  <2>7. P \in Seq(Entry) /\ g.bytes = Total(P)
    BY <2>4, Zenon DEF Exact
  <2> HIDE DEF g, P
  <2>5. CacheType'
    BY <1>2, <1>3, <2>1, <2>7, Zenon DEF CacheType
  <2>6. EntriesInv'
    BY <2>1, <2>4, <2>7, Zenon DEF EntriesInv, Distinct
  <2> QED
    BY <1>2, <1>4, <2>1, <2>4, <2>5, <2>6, Zenon DEF StoreInv
<1> QED
  BY <1>5, <1>6, Zenon

-----------------------------------------------------------------------------
(* What is held, by the cache, a job or a connection: one point per epoch.  *)

\* What the cache, a job or a connection holds is an entry, with an epoch and a tip.
LEMMA HeldTyped ==
    ASSUME CacheType, WorkType, PeersInv
    PROVE  Held \subseteq Entry /\ \A e \in Held : e.identity.epoch \in Nat /\ e.point \in Tip
<1>1. Range(entries) \subseteq Entry
  BY DEF CacheType, Range
<1>2. \A j \in Job : jobs[j].result \in Entry \cup {NONE}
  BY Zenon DEF WorkType, JobObject
<1>3. \A p \in Peer : peer[p].entry \in Entry \cup {NONE}
  BY Zenon DEF PeersInv, PeerState
<1>4. Held \subseteq Entry
  BY <1>1, <1>2, <1>3, Zenon DEF Held
<1> QED
  BY <1>4, Zenon DEF Entry, Id

\* Who holds what after a step that hands entries on.
LEMMA HeldFrom ==
    ASSUME NEW N, Range(entries') \subseteq Range(entries) \cup N,
           \A j \in Job : jobs'[j].result \in {NONE} \cup Held \cup N,
           \A p \in Peer : peer'[p].entry \in {NONE} \cup Held \cup N
    PROVE  Held' \subseteq Held \cup N
<1> DEFINE H == Held
<1>1. Range(entries) \subseteq H
  BY Zenon DEF Held
<1> HIDE DEF H
<1> QED
  BY <1>1, Zenon DEF Held, H

\* A step within the epoch; what is new was prepared at its point.
LEMMA HeldStep ==
    ASSUME HeldInv, UNCHANGED <<point, ready, epoch>>,
           NEW N, \A n \in N : ready /\ n.identity.epoch = epoch /\ n.point = point,
           Range(entries') \subseteq Range(entries) \cup N,
           \A j \in Job : jobs'[j].result \in {NONE} \cup Held \cup N,
           \A p \in Peer : peer'[p].entry \in {NONE} \cup Held \cup N,
           epoch \in Nat
    PROVE  HeldInv'
<1> DEFINE H == Held
<1>1. Held' \subseteq H \cup N
  BY HeldFrom, Zenon
<1>2. \A e \in H : /\ e.identity.epoch <= epoch /\ (e.identity.epoch = epoch => e.point = point)
                   /\ \A f \in H : e.identity.epoch = f.identity.epoch => e.point = f.point
  BY Zenon DEF HeldInv
<1>3. \A e \in Range(entries) : ready /\ e.identity.epoch = epoch
  BY Zenon DEF HeldInv
<1>4. \A e \in Range(entries') : ready /\ e.identity.epoch = epoch
  BY <1>3, Zenon
<1> HIDE DEF H
<1>5. ASSUME NEW e \in H \cup N, NEW f \in H \cup N, e.identity.epoch = f.identity.epoch
      PROVE  e.point = f.point
  <2>1. CASE e \in H /\ f \in H
    BY ONLY <1>2, <1>5, <2>1, Zenon
  <2>2. CASE e \in N
    BY <1>2, <1>5, <2>2, Zenon
  <2>3. CASE f \in N
    BY <1>2, <1>5, <2>3, Zenon
  <2> QED
    BY <2>1, <2>2, <2>3, Zenon
<1>6. ASSUME NEW e \in H \cup N
      PROVE  e.identity.epoch <= epoch /\ (e.identity.epoch = epoch => e.point = point)
  <2>1. CASE e \in H
    BY ONLY <1>2, <2>1, Zenon
  <2>2. CASE e \in N
    BY <2>2
  <2> QED
    BY <2>1, <2>2, Zenon
<1> QED
  BY <1>1, <1>4, <1>5, <1>6, Zenon DEF HeldInv

\* A new epoch starts with nothing of its own.
LEMMA HeldClear ==
    ASSUME CacheType, WorkType, PeersInv, HeldInv, epoch' = epoch + 1, Range(entries') = {},
           \A j \in Job : jobs'[j].result \in {NONE, jobs[j].result}, UNCHANGED peer
    PROVE  HeldInv'
<1> DEFINE H == Held
<1>1. \A j \in Job : jobs'[j].result \in {NONE} \cup Held \cup {}
  BY Zenon DEF Held
<1>2. \A p \in Peer : peer'[p].entry \in {NONE} \cup Held \cup {}
  BY Zenon DEF Held
<1>3. Held' \subseteq H \cup {}
  BY <1>1, <1>2, HeldFrom, Zenon
<1>4. \A e \in H : /\ e.identity.epoch <= epoch
                   /\ \A f \in H : e.identity.epoch = f.identity.epoch => e.point = f.point
  BY Zenon DEF HeldInv
<1>5. \A e \in H : e.identity.epoch \in Nat
  BY HeldTyped, Zenon
<1>6. epoch \in Nat
  BY Zenon DEF CacheType
<1> HIDE DEF H
<1>7. \A e \in H : e.identity.epoch <= epoch' /\ e.identity.epoch # epoch'
  BY <1>4, <1>5, <1>6
<1> QED
  BY <1>3, <1>4, <1>7, Zenon DEF HeldInv

\* Activate: without an anchor nobody holds anything of the epoch.
LEMMA HeldActivate ==
    ASSUME CacheType, WorkType, PeersInv, HeldInv, UNCHANGED <<epoch, entries, jobs, peer>>,
           point \in {NONE, point'}, ready' = TRUE
    PROVE  HeldInv'
<1> DEFINE H == Held
<1>1. Held' = H
  BY Zenon DEF Held
<1>2. \A e \in H : /\ e.identity.epoch <= epoch /\ (e.identity.epoch = epoch => e.point = point)
                   /\ \A f \in H : e.identity.epoch = f.identity.epoch => e.point = f.point
  BY Zenon DEF HeldInv
<1>3. \A e \in H : e.point # NONE
  BY HeldTyped, NoneIsNoValue, Zenon
<1>4. \A e \in Range(entries) : e.identity.epoch = epoch
  BY Zenon DEF HeldInv
<1> HIDE DEF H
<1>5. \A e \in H : e.identity.epoch = epoch => e.point = point'
  BY <1>2, <1>3, Zenon
<1> QED
  BY <1>1, <1>2, <1>4, <1>5, Zenon DEF HeldInv


-----------------------------------------------------------------------------
(* The synchronizing thread.                                                *)

\* What it has in hand where it is.
Path(r) ==
    /\ r.pc \in Preparing => r.tx \in Item
    /\ r.pc \in Preparing \ {"raw"} => r.tx.digest # NONE
    /\ r.pc \notin Preparing \cup {"complete"} => r.request = NONE
    /\ r.pc = "complete" => r.request # NONE
AsRelay(r) == r \in RelayState /\ Path(r)

\* At the top of its loop the thread has no request in hand.
LEMMA TopAsRelay == AsRelay(Top) /\ Top.request = NONE /\ Top.pc = "sync"
BY Zenon DEF Top, AsRelay, RelayState, RelayPc, Path, Preparing

\* The invariant says of the thread where it is and what it has in hand.
LEMMA IsRelay ==
    ASSUME RelayType, RelayControl
    PROVE  AsRelay(relay)
BY Zenon DEF RelayType, RelayControl, AsRelay, Path

\* Types and control follow from where the thread goes and the anchor.
LEMMA ControlStep ==
    ASSUME AsRelay(relay'), tip' \in Tip, sync_point' \in Tip,
           mempool' \in [Txid -> Digest \cup {NONE}],
           point' \in {NONE, sync_point'}, ready' => point' # NONE, relay'.pc \in Polling => ready'
    PROVE  RelayType' /\ RelayControl'
<1>1. RelayType'
  BY Zenon DEF RelayType, AsRelay
<1>2. RelayControl'
  BY Zenon DEF RelayControl, AsRelay, Path
<1> QED
  BY <1>1, <1>2, Zenon

\* Moving on within the states that need the same things in hand.
LEMMA GotoAsRelay ==
    ASSUME AsRelay(relay), NEW step, Goto(step),
           \/ relay.pc = "sync" /\ step \in {"poll", "notify"}
           \/ relay.pc = "poll" /\ step = "regenerate"
           \/ relay.pc = "incoming" /\ step \in {"recover", "last"}
           \/ relay.pc = "notify" /\ step = "join"
           \/ relay.pc = "member" /\ step = "inputs"
           \/ relay.pc = "inputs" /\ step = "anchor"
           \/ relay.pc = "anchor" /\ step = "again"
           \/ relay.pc = "again" /\ step = "publish"
           \/ relay.pc \in Preparing /\ step = Prepared
    PROVE  AsRelay(relay') /\ relay'.request = relay.request /\ relay'.pc = step
<1> DEFINE r == relay
           s == [r EXCEPT !.pc = step]
<1>1. relay' = s /\ r \in RelayState /\ Path(r)
  BY Zenon DEF Goto, AsRelay
<1>2. step \in {"poll", "notify", "regenerate", "recover", "last", "join", "inputs", "anchor", "again",
                "publish", "incoming", "complete"}
  BY Zenon DEF Prepared
<1>3. relay.pc \in Preparing /\ step = Prepared =>
        (step = "incoming" /\ r.request = NONE) \/ (step = "complete" /\ r.request # NONE)
  BY Zenon DEF Prepared
<1> HIDE DEF r
<1>4. /\ s \in RelayState /\ s.pc = step /\ s.request = r.request /\ s.tx = r.tx
  <2>1. step \in RelayPc
    BY ONLY <1>2, Zenon DEF RelayPc, Polling, Preparing
  <2> QED
    BY ONLY <1>1, <2>1, Zenon DEF RelayState
<1> HIDE DEF s
<1>5. Path(s)
  BY <1>1, <1>2, <1>3, <1>4 DEF Path, Preparing, r
<1> QED
  BY <1>1, <1>4, <1>5, Zenon DEF AsRelay, r


\* The invariant in the parts that the lemmas are about.
LEMMA InvParts ==
    /\ RelayInv <=> StoreInv /\ WorkInv /\ RelayType /\ RelayControl /\ PeersInv /\ HeldInv
    /\ RelayInv' <=> StoreInv' /\ WorkInv' /\ RelayType' /\ RelayControl' /\ PeersInv' /\ HeldInv'
BY Zenon DEF RelayInv, StoreInv, WorkInv

\* What is at hand in a state of the invariant.
LEMMA InvFacts ==
    ASSUME RelayInv
    PROVE  /\ StoreInv /\ WorkInv /\ RelayType /\ RelayControl /\ PeersInv /\ HeldInv
           /\ CacheType /\ WorkType /\ entries \in Seq(Entry) /\ epoch \in Nat
           /\ tip \in Tip /\ sync_point \in Tip /\ mempool \in [Txid -> Digest \cup {NONE}]
           /\ AsRelay(relay) /\ point \in {NONE, sync_point} /\ (ready => point # NONE)
           /\ relay.pc \in Polling => ready
<1>1. /\ StoreInv /\ WorkInv /\ RelayType /\ RelayControl /\ PeersInv /\ HeldInv
      /\ CacheType /\ WorkType
  BY Zenon, InvParts DEF StoreInv, WorkInv
<1>2. entries \in Seq(Entry) /\ epoch \in Nat
  BY <1>1, Zenon DEF CacheType
<1>3. tip \in Tip /\ sync_point \in Tip /\ mempool \in [Txid -> Digest \cup {NONE}]
  BY <1>1, Zenon DEF RelayType
<1>4. AsRelay(relay)
  BY <1>1, IsRelay, Zenon
<1>5. point \in {NONE, sync_point} /\ (ready => point # NONE) /\ (relay.pc \in Polling => ready)
  BY <1>1, Zenon DEF RelayControl
<1> QED
  BY <1>1, <1>2, <1>3, <1>4, <1>5, Zenon

\* Steps of the thread that leave the cache alone.
LEMMA QuietRelay ==
    ASSUME RelayInv,
           \/ CaughtUp \/ TakenAll \/ Recover \/ Finish \/ PollReturns \/ NotPrepared
           \/ RawTransaction \/ MempoolMember \/ Inputs \/ AnchorHolds \/ MemberAgain \/ StopNotifies
    PROVE  /\ AsRelay(relay') /\ relay'.request = relay.request
           /\ relay'.pc \in Polling => relay.pc \in Polling
           /\ UNCHANGED <<cache, regeneration, jobs, pending, tip, mempool, sync_point, peer>>
<1>0. /\ AsRelay(relay) /\ relay \in RelayState /\ Path(relay)
      /\ mempool \in [Txid -> Digest \cup {NONE}]
  BY InvFacts, Zenon DEF AsRelay
<1>1. UNCHANGED <<cache, regeneration, jobs, pending, tip, mempool, sync_point, peer>>
  <2>1. UNCHANGED <<core, sync_point, peer>>
    BY Zenon
       DEF CaughtUp, TakenAll, Recover, Finish, PollReturns, NotPrepared, RawTransaction,
           MempoolMember, Inputs, AnchorHolds, MemberAgain, StopNotifies, Quiet
  <2>2. UNCHANGED cache /\ UNCHANGED <<regeneration, jobs, pending>>
    BY Zenon
       DEF CaughtUp, TakenAll, Recover, Finish, PollReturns, NotPrepared, RawTransaction,
           MempoolMember, Inputs, AnchorHolds, MemberAgain, StopNotifies, NotifyWaiters, work
  <2> QED
    BY <2>1, <2>2, Zenon DEF core
<1>2. CASE CaughtUp
  <2>1. relay.pc = "sync" /\ Goto("poll")
    BY <1>2, Zenon DEF CaughtUp, At
  <2> QED
    BY <1>0, <1>1, <2>1, GotoAsRelay DEF Polling, Preparing
<1>3. CASE TakenAll
  <2>1. \E incoming \in SUBSET [txid : Txid, digest : Digest] :
          relay' = [relay EXCEPT !.pc = "incoming", !.todo = incoming]
    BY ONLY <1>3, Zenon DEF TakenAll
  <2>2. PICK incoming \in SUBSET [txid : Txid, digest : Digest] :
          relay' = [relay EXCEPT !.pc = "incoming", !.todo = incoming]
    BY ONLY <2>1, Zenon
  <2>3. relay.pc = "regenerate"
    BY ONLY <1>3, Zenon DEF TakenAll, At
  <2>4. incoming \in SUBSET Item
    BY Zenon DEF Item
  <2> DEFINE r == relay
             s == [r EXCEPT !.pc = "incoming", !.todo = incoming]
  <2>5. r \in RelayState /\ r.request = NONE
    BY <1>0, <2>3, Zenon DEF Path, Preparing
  <2> HIDE DEF r
  <2>6. s \in RelayState /\ s.pc = "incoming" /\ s.request = r.request
    <3>1. "incoming" \in RelayPc
      BY Zenon DEF RelayPc, Polling
    <3> QED
      <4> DEFINE m == [r EXCEPT !.pc = "incoming"]
      <4>1. /\ m \in RelayState /\ m.pc = "incoming" /\ m.request = r.request
        BY ONLY <2>5, <3>1, Zenon DEF RelayState
      <4> HIDE DEF m
      <4> DEFINE z == [m EXCEPT !.todo = incoming]
      <4>2. z \in RelayState /\ z.pc = m.pc /\ z.request = m.request
        BY ONLY <2>4, <4>1, Zenon DEF RelayState
      <4>3. s = z
        BY Zenon DEF m
      <4> QED
        BY ONLY <4>1, <4>2, <4>3, Zenon
  <2>7. relay' = s
    BY <2>2, Zenon DEF r
  <2> HIDE DEF s
  <2>8. Path(s)
    BY ONLY <2>5, <2>6, Zenon DEF Path, Preparing
  <2> QED
    BY ONLY <1>1, <2>3, <2>6, <2>7, <2>8, Zenon DEF AsRelay, Polling, r
<1>4. CASE Recover \/ Finish
  <2>1. relay.pc = "incoming" /\ (Goto("recover") \/ Goto("last"))
    BY <1>4, Zenon DEF Recover, Finish, At
  <2> QED
    BY <1>0, <1>1, <2>1, GotoAsRelay, Zenon DEF Polling
<1>5. CASE PollReturns
  <2>1. relay.pc = "last" /\ relay' = Top
    BY <1>5, Zenon DEF PollReturns, At
  <2>2. relay.request = NONE
    BY <1>0, <2>1, Zenon DEF Path, Preparing
  <2> QED
    BY <1>0, <1>1, <2>1, <2>2, TopAsRelay, Zenon DEF Polling
<1>6. CASE NotPrepared
  <2>1. relay.pc \in {"raw", "member", "inputs", "again"} /\ Goto(Prepared)
    BY <1>6, Zenon DEF NotPrepared, At
  <2> QED
    BY <1>0, <1>1, <2>1, GotoAsRelay, Zenon DEF Preparing, Polling
<1>7. CASE RawTransaction
  <2> DEFINE r == relay
             t == [r.tx EXCEPT !.digest = mempool[r.tx.txid]]
             s == [r EXCEPT !.pc = "member", !.tx = t]
  <2>1. r.pc = "raw" /\ mempool[r.tx.txid] # NONE /\ relay' = s
    BY <1>7, Zenon DEF RawTransaction, At
  <2>2. r \in RelayState /\ r.tx \in Item
    BY <1>0, <2>1, Zenon DEF Path, Preparing
  <2>3. mempool[r.tx.txid] \in Digest
    BY <1>0, <2>1, <2>2, Zenon DEF Item
  <2>4. t \in Item /\ t.digest # NONE
    BY <2>1, <2>2, <2>3, Zenon DEF Item
  <2> HIDE DEF r, t
  <2>5. /\ s \in RelayState /\ s.pc = "member" /\ s.request = r.request /\ s.tx = t
    <3>1. "member" \in RelayPc
      BY Zenon DEF RelayPc, Polling, Preparing
    <3> QED
      <4> DEFINE m == [r EXCEPT !.pc = "member"]
      <4>1. /\ m \in RelayState /\ m.pc = "member" /\ m.request = r.request
        BY ONLY <2>2, <3>1, Zenon DEF RelayState
      <4> HIDE DEF m
      <4> DEFINE z == [m EXCEPT !.tx = t]
      <4>2. z \in RelayState /\ z.pc = m.pc /\ z.request = m.request /\ z.tx = t
        BY ONLY <2>4, <4>1, Zenon DEF RelayState
      <4>3. s = z
        BY Zenon DEF m
      <4> QED
        BY ONLY <4>1, <4>2, <4>3, Zenon
  <2> HIDE DEF s
  <2>6. Path(s)
    BY ONLY <2>4, <2>5, Zenon DEF Path, Preparing
  <2> QED
    BY ONLY <1>1, <2>1, <2>5, <2>6, Zenon DEF AsRelay, Polling, Preparing, r
<1>8. CASE MempoolMember \/ Inputs \/ AnchorHolds \/ MemberAgain
  <2>1. \/ relay.pc = "member" /\ Goto("inputs")
        \/ relay.pc = "inputs" /\ Goto("anchor")
        \/ relay.pc = "anchor" /\ Goto("again")
        \/ relay.pc = "again" /\ Goto("publish")
    BY <1>8, Zenon DEF MempoolMember, Inputs, AnchorHolds, MemberAgain, At
  <2> QED
    BY <1>0, <1>1, <2>1, GotoAsRelay, Zenon DEF Polling, Preparing
<1>9. CASE StopNotifies
  <2>1. relay.pc = "notify" /\ Goto("join")
    BY <1>9, Zenon DEF StopNotifies, At
  <2> QED
    BY <1>0, <1>1, <2>1, GotoAsRelay DEF Polling, Preparing
<1> QED
  BY <1>2, <1>3, <1>4, <1>5, <1>6, <1>7, <1>8, <1>9, Zenon

\* ... and a step that leaves the cache, the jobs and the connections alone.
LEMMA QuietInv ==
    ASSUME RelayInv, AsRelay(relay'), relay'.request = relay.request,
           relay'.pc \in Polling => relay.pc \in Polling,
           UNCHANGED <<cache, regeneration, jobs, pending, sync_point, peer>>,
           tip' \in Tip, mempool' \in [Txid -> Digest \cup {NONE}]
    PROVE  RelayInv'
<1>0. /\ StoreInv /\ WorkInv /\ PeersInv /\ HeldInv /\ sync_point \in Tip
      /\ point \in {NONE, sync_point} /\ (ready => point # NONE) /\ (relay.pc \in Polling => ready)
  BY InvFacts, Zenon
<1>1. StoreInv' /\ UNCHANGED <<point, ready, epoch, entries>>
  BY <1>0, StoreSame, Zenon DEF cache
<1>2. WorkInv'
  BY <1>0, <1>1, WorkFrame, Zenon
<1>3. RelayType' /\ RelayControl'
  BY <1>0, <1>1, ControlStep, Zenon
<1>4. PeersInv'
  BY <1>0, Zenon DEF PeersInv
<1>5. HeldInv'
  <2>1. Held' = Held
    BY <1>1, Zenon DEF Held
  <2> QED
    BY <1>0, <1>1, <2>1, Zenon DEF HeldInv
<1> QED
  BY <1>1, <1>2, <1>3, <1>4, <1>5, InvParts, Zenon


-----------------------------------------------------------------------------
(* The steps of the thread that change the cache.                           *)

\* The entries of the cache, the results of jobs and the entries of connections are held.
LEMMA HeldMembers ==
    /\ Range(entries) \subseteq Held
    /\ \A j \in Job : jobs[j].result \in {NONE} \cup Held
    /\ \A p \in Peer : peer[p].entry \in {NONE} \cup Held
BY Zenon DEF Held

\* One field of the thread's state is replaced.
LEMMA RelaySet ==
    ASSUME NEW r \in RelayState
    PROVE  /\ \A v \in RelayPc : LET s == [r EXCEPT !.pc = v] IN
                /\ s \in RelayState /\ s.pc = v /\ s.request = r.request /\ s.tx = r.tx
           /\ \A v \in Req \cup {NONE} : LET s == [r EXCEPT !.request = v] IN
                /\ s \in RelayState /\ s.pc = r.pc /\ s.request = v /\ s.tx = r.tx
           /\ \A v \in SUBSET Item : LET s == [r EXCEPT !.todo = v] IN
                /\ s \in RelayState /\ s.pc = r.pc /\ s.request = r.request /\ s.tx = r.tx
           /\ \A v \in Item \cup {NONE} : LET s == [r EXCEPT !.tx = v] IN
                /\ s \in RelayState /\ s.pc = r.pc /\ s.request = r.request /\ s.tx = v
           /\ \A v \in Nat : LET s == [r EXCEPT !.regenerated = v] IN
                /\ s \in RelayState /\ s.pc = r.pc /\ s.request = r.request /\ s.tx = r.tx
<1>1. ASSUME NEW v \in RelayPc
      PROVE  LET s == [r EXCEPT !.pc = v] IN
             /\ s \in RelayState /\ s.pc = v /\ s.request = r.request /\ s.tx = r.tx
  BY ONLY r \in RelayState, v \in RelayPc, Zenon DEF RelayState
<1>2. ASSUME NEW v \in Req \cup {NONE}
      PROVE  LET s == [r EXCEPT !.request = v] IN
             /\ s \in RelayState /\ s.pc = r.pc /\ s.request = v /\ s.tx = r.tx
  BY ONLY r \in RelayState, v \in Req \cup {NONE}, Zenon DEF RelayState
<1>3. ASSUME NEW v \in SUBSET Item
      PROVE  LET s == [r EXCEPT !.todo = v] IN
             /\ s \in RelayState /\ s.pc = r.pc /\ s.request = r.request /\ s.tx = r.tx
  BY ONLY r \in RelayState, v \in SUBSET Item, Zenon DEF RelayState
<1>4. ASSUME NEW v \in Item \cup {NONE}
      PROVE  LET s == [r EXCEPT !.tx = v] IN
             /\ s \in RelayState /\ s.pc = r.pc /\ s.request = r.request /\ s.tx = v
  BY ONLY r \in RelayState, v \in Item \cup {NONE}, Zenon DEF RelayState
<1>5. ASSUME NEW v \in Nat
      PROVE  LET s == [r EXCEPT !.regenerated = v] IN
             /\ s \in RelayState /\ s.pc = r.pc /\ s.request = r.request /\ s.tx = r.tx
  BY ONLY r \in RelayState, v \in Nat, Zenon DEF RelayState
<1> QED
  BY ONLY <1>1, <1>2, <1>3, <1>4, <1>5, Zenon

\* Invalidate ends the epoch, whatever the thread does next.
LEMMA WithdrawInv ==
    ASSUME RelayInv, Invalidate, UNCHANGED <<tip, mempool, peer>>, sync_point' \in Tip,
           AsRelay(relay'), relay'.pc \notin Polling
    PROVE  RelayInv'
<1>0. /\ StoreInv /\ WorkInv /\ PeersInv /\ HeldInv /\ CacheType /\ WorkType /\ epoch \in Nat
      /\ tip \in Tip /\ mempool \in [Txid -> Digest \cup {NONE}]
  BY InvFacts, Zenon
<1>1. /\ Retain(EmptyStore) /\ ready' = FALSE /\ epoch' = epoch + 1 /\ ClearWork /\ point' = NONE
  BY Zenon DEF Invalidate, Clear
<1>2. StoreInv' /\ Range(entries') = {}
  <2>1. epoch' \in Nat
    BY <1>0, <1>1
  <2>3. point' \in Tip \cup {NONE} /\ ready' \in BOOLEAN
    BY <1>1, Zenon
  <2> QED
    <3>1. PICK es : es = <<>>
      BY Zenon
    <3> QED
      BY ONLY <1>1, <2>1, <2>3, <3>1, StoreCleared, Zenon
<1>3. WorkInv'
  BY <1>0, <1>1, WorkClear, Zenon
<1>4. RelayType' /\ RelayControl'
  BY <1>0, <1>1, ControlStep, Zenon
<1>5. PeersInv'
  BY <1>0, Zenon DEF PeersInv
<1>6. HeldInv'
  <2>1. ASSUME NEW j \in Job
        PROVE  jobs'[j].result \in {NONE, jobs[j].result}
    <3>1. jobs'[j] = ClearedJob(j) /\ jobs[j] \in JobObject
      BY <1>0, <1>1, Zenon DEF ClearWork, WorkType
    <3>2. CASE jobs'[j] = jobs[j]
      BY <3>2, Zenon
    <3>3. CASE jobs'[j] = FREE
      BY <3>3 DEF FREE
    <3>4. CASE jobs'[j] = [jobs[j] EXCEPT !.done = TRUE, !.result = NONE]
      <4> DEFINE x == jobs[j]
                 y == [x EXCEPT !.done = TRUE, !.result = NONE]
      <4>1. x \in JobObject
        BY <3>1, Zenon
      <4> HIDE DEF x
      <4>2. y.result = NONE
        BY ONLY <4>1, Zenon DEF JobObject
      <4> QED
        BY <3>4, <4>2, Zenon DEF x
    <3> QED
      BY ONLY <3>1, <3>2, <3>3, <3>4, Zenon DEF ClearedJob
  <2> QED
    BY <1>0, <1>1, <1>2, <2>1, HeldClear, Zenon
<1> QED
  BY <1>2, <1>3, <1>4, <1>5, <1>6, InvParts, Zenon

\* CatchUp and every failure of Poll.
LEMMA WithdrawsInv ==
    ASSUME RelayInv, CatchUp \/ RpcFails \/ CheckTipFails \/ PrepareFails
    PROVE  RelayInv'
<1>0. AsRelay(relay) /\ tip \in Tip /\ sync_point \in Tip
  BY InvFacts, Zenon
<1>1. Invalidate /\ UNCHANGED <<tip, mempool, peer>>
  BY Zenon DEF CatchUp, RpcFails, CheckTipFails, PrepareFails, PollFails, Quiet, core
<1>2. CASE CatchUp
  <2>1. relay.pc = "sync" /\ relay' = relay /\ sync_point' = tip
    BY <1>2, Zenon DEF CatchUp, At
  <2> QED
    BY <1>0, <1>1, <2>1, WithdrawInv, Zenon DEF Polling, Preparing
<1>3. CASE RpcFails \/ CheckTipFails \/ PrepareFails
  <2>1. relay' = Top /\ sync_point' = sync_point
    BY <1>3, Zenon DEF RpcFails, CheckTipFails, PrepareFails, PollFails, Quiet
  <2> QED
    BY <1>0, <1>1, <2>1, TopAsRelay, WithdrawInv, Zenon DEF Polling, Preparing
<1> QED
  BY <1>2, <1>3, Zenon

\* Activate never finds another anchor in the cache.
LEMMA ActivatesInv ==
    ASSUME RelayInv, PollActivates
    PROVE  RelayInv'
<1>0. /\ StoreInv /\ WorkInv /\ PeersInv /\ HeldInv /\ CacheType /\ WorkType
      /\ tip \in Tip /\ sync_point \in Tip /\ mempool \in [Txid -> Digest \cup {NONE}]
      /\ AsRelay(relay) /\ point \in {NONE, sync_point}
  BY InvFacts, Zenon
<1>1. /\ relay.pc = "poll" /\ Goto("regenerate") /\ point' = sync_point /\ ready' = TRUE
      /\ UNCHANGED <<tip, mempool, sync_point, peer>>
  BY Zenon DEF PollActivates, At, Activate, Quiet, core
<1>2. UNCHANGED <<entries, bytes, epoch, regeneration, jobs, pending>>
  BY <1>0, Zenon DEF PollActivates, Activate, work
<1>3. AsRelay(relay') /\ relay'.request = relay.request
  BY <1>0, <1>1, GotoAsRelay, Zenon
<1>4. StoreInv'
  BY <1>0, <1>1, <1>2, Zenon DEF StoreInv, CacheType, EntriesInv, Distinct
<1>5. WorkInv'
  BY <1>0, <1>1, <1>2, <1>3, WorkFrame, Zenon
<1>6. RelayType' /\ RelayControl'
  BY <1>0, <1>1, <1>3, NoneIsNoValue, ControlStep, Zenon
<1>7. PeersInv'
  BY <1>0, <1>1, Zenon DEF PeersInv
<1>8. HeldInv'
  BY <1>0, <1>1, <1>2, HeldActivate, Zenon
<1> QED
  BY <1>4, <1>5, <1>6, <1>7, <1>8, InvParts, Zenon


\* A step of the thread that leaves the connections alone, within the epoch.
LEMMA EpochInv ==
    ASSUME RelayInv, StoreInv', WorkInv', AsRelay(relay'), ready,
           UNCHANGED <<point, ready, epoch, tip, mempool, sync_point, peer>>,
           NEW N, \A n \in N : ready /\ n.identity.epoch = epoch /\ n.point = point,
           Range(entries') \subseteq Range(entries) \cup N,
           \A j \in Job : jobs'[j].result \in {NONE} \cup Held \cup N
    PROVE  RelayInv'
<1>0. /\ PeersInv /\ HeldInv /\ epoch \in Nat
      /\ tip \in Tip /\ sync_point \in Tip /\ mempool \in [Txid -> Digest \cup {NONE}]
      /\ point \in {NONE, sync_point} /\ (ready => point # NONE)
  BY InvFacts, Zenon
<1>1. RelayType' /\ RelayControl'
  BY <1>0, ControlStep, Zenon
<1>2. PeersInv'
  BY <1>0, Zenon DEF PeersInv
<1>3. HeldInv'
  <2>1. \A p \in Peer : peer'[p].entry \in {NONE} \cup Held \cup N
    BY HeldMembers, Zenon
  <2> QED
    BY <1>0, <2>1, HeldStep, Zenon
<1> QED
  BY <1>1, <1>2, <1>3, InvParts, Zenon

\* TakeRegeneration, and the lookup that may spare the preparation.
LEMMA TakeInv ==
    ASSUME RelayInv, Take
    PROVE  RelayInv'
<1>0. /\ StoreInv /\ WorkInv /\ PeersInv /\ CacheType /\ WorkType /\ entries \in Seq(Entry)
      /\ relay \in RelayState /\ Path(relay) /\ (relay.pc \in Polling => ready)
  BY InvFacts, Zenon DEF AsRelay
<1> DEFINE rq == Head(pending)
           tx == [txid |-> rq.txid, digest |-> NONE]
           To(es) == IF Match(es, rq) # NONE THEN "complete" ELSE "raw"
<1>1. /\ relay.pc = "regenerate" /\ pending # <<>> /\ TakeRegeneration
      /\ UNCHANGED <<point, ready, epoch, tip, mempool, sync_point, peer>>
  BY Zenon DEF Take, At, Quiet, core
<1>2. PICK c \in Unexpired :
        /\ Retain(c)
        /\ relay' = [relay EXCEPT !.regenerated = relay.regenerated + 1, !.request = rq, !.tx = tx,
                                  !.pc = To(c.entries)]
  BY Zenon DEF Take
<1> DEFINE es == c.entries
<1>3. rq \in Req /\ rq # NONE
  BY <1>0, <1>1, NoneIsNoValue, SMTT(30) DEF WorkType
<1>4. tx \in Item /\ tx \in Item \cup {NONE}
  BY <1>3, Zenon DEF Item, Req
<1>5. To(es) \in {"complete", "raw"} /\ To(es) \in RelayPc
  BY Zenon DEF RelayPc, Polling, Preparing
<1>6. relay.regenerated + 1 \in Nat
  BY <1>0 DEF RelayState
<1> DEFINE pc == To(es)
           r1 == [relay EXCEPT !.regenerated = relay.regenerated + 1]
           r2 == [r1 EXCEPT !.request = rq]
           r3 == [r2 EXCEPT !.tx = tx]
           r4 == [r3 EXCEPT !.pc = pc]
<1>7. relay' = r4
  BY <1>2, Zenon
<1> HIDE DEF rq, tx, To
<1>8. r1 \in RelayState
  BY <1>0, <1>6, RelaySet, Zenon
<1> HIDE DEF r1
<1>9. r2 \in RelayState /\ r2.request = rq
  BY <1>3, <1>8, RelaySet, Zenon
<1> HIDE DEF r2
<1>10. r3 \in RelayState /\ r3.request = rq /\ r3.tx = tx
  BY <1>4, <1>9, RelaySet, Zenon
<1> HIDE DEF r3
<1>11. r4 \in RelayState /\ r4.request = rq /\ r4.tx = tx /\ r4.pc = pc
  BY <1>5, <1>10, RelaySet, Zenon
<1> HIDE DEF r4
<1>12. AsRelay(relay') /\ relay'.request = Head(pending)
  <2>1. Path(r4)
    BY <1>3, <1>4, <1>5, <1>11, Zenon DEF Path, Preparing
  <2> QED
    BY <1>7, <1>11, <2>1, Zenon DEF AsRelay, rq
<1>13. relay.request = NONE /\ ready
  BY <1>0, <1>1, Zenon DEF Path, Preparing, Polling
<1>14. WorkInv'
  BY <1>0, <1>1, <1>12, <1>13, WorkTake, Zenon
<1>15. StoreInv' /\ Range(entries') \subseteq Range(entries) \cup {}
  BY <1>0, <1>1, <1>2, StoreExpired, Zenon
<1>16. ASSUME NEW k \in Job
       PROVE  jobs'[k].result \in {NONE} \cup Held \cup {}
  <2> DEFINE j == regeneration[rq]
             x == jobs[k]
  <2>1. jobs' = [jobs EXCEPT ![j].running = TRUE] /\ jobs \in [Job -> JobObject] /\ x \in JobObject
    BY <1>0, <1>1, Zenon DEF TakeRegeneration, WorkType, rq
  <2>2. jobs'[k] = x \/ jobs'[k] = [x EXCEPT !.running = TRUE]
    BY <2>1, Zenon
  <2> HIDE DEF x
  <2>3. [x EXCEPT !.running = TRUE].result = x.result
    BY ONLY <2>1, Zenon DEF JobObject
  <2>4. jobs'[k].result = x.result
    BY <2>2, <2>3, Zenon
  <2> QED
    BY <2>4, HeldMembers, Zenon DEF x
<1> QED
  BY <1>1, <1>12, <1>13, <1>14, <1>15, <1>16, EpochInv, Zenon

\* The next transaction of the batch.
LEMMA NextTransactionInv ==
    ASSUME RelayInv, NextTransaction
    PROVE  RelayInv'
<1>0. /\ StoreInv /\ WorkInv /\ PeersInv /\ CacheType /\ WorkType /\ entries \in Seq(Entry)
      /\ relay \in RelayState /\ Path(relay) /\ (relay.pc \in Polling => ready)
  BY InvFacts, Zenon DEF AsRelay
<1> DEFINE To(tx, es) == IF tx.digest = NONE THEN "raw"
                         ELSE IF Has(es, tx.txid) THEN "incoming" ELSE "member"
<1>1. /\ relay.pc = "incoming"
      /\ UNCHANGED <<point, ready, epoch, tip, mempool, sync_point, peer, regeneration, jobs, pending>>
  BY Zenon DEF NextTransaction, At, Quiet, core, work
<1>2. \E tx \in relay.todo, c \in Unexpired :
        /\ Retain(c)
        /\ relay' = [relay EXCEPT !.todo = relay.todo \ {tx}, !.tx = tx, !.pc = To(tx, c.entries)]
  BY Zenon DEF NextTransaction
<1>3. PICK tx \in relay.todo, c \in Unexpired :
        /\ Retain(c)
        /\ relay' = [relay EXCEPT !.todo = relay.todo \ {tx}, !.tx = tx, !.pc = To(tx, c.entries)]
  BY <1>2, Zenon
<1> DEFINE es == c.entries
<1> DEFINE pc == To(tx, es)
           r1 == [relay EXCEPT !.todo = relay.todo \ {tx}]
           r2 == [r1 EXCEPT !.tx = tx]
           r3 == [r2 EXCEPT !.pc = pc]
<1>4. relay' = r3
  BY <1>3, Zenon
<1>5. relay.todo \in SUBSET Item
  BY <1>0, Zenon DEF RelayState
<1>6. tx \in Item /\ relay.todo \ {tx} \in SUBSET Item
  BY <1>5, Zenon
<1>7. /\ pc \in {"raw", "incoming", "member"} /\ pc \in RelayPc
      /\ pc = "member" => tx.digest # NONE
  BY Zenon DEF RelayPc, Polling, Preparing
<1> HIDE DEF To
<1>8. relay.request = NONE /\ ready
  BY <1>0, <1>1, Zenon DEF Path, Preparing, Polling
<1>9. r1 \in RelayState /\ r1.request = NONE
  BY <1>0, <1>6, <1>8, RelaySet, Zenon
<1> HIDE DEF r1
<1>10. r2 \in RelayState /\ r2.request = NONE /\ r2.tx = tx
  BY <1>6, <1>9, RelaySet
<1> HIDE DEF r2
<1>11. r3 \in RelayState /\ r3.request = NONE /\ r3.tx = tx /\ r3.pc = pc
  BY <1>7, <1>10, RelaySet, Zenon
<1> HIDE DEF r3
<1>12. AsRelay(relay') /\ relay'.request = relay.request
  <2>1. Path(r3)
    BY <1>6, <1>7, <1>11, Zenon DEF Path, Preparing
  <2> QED
    BY <1>4, <1>8, <1>11, <2>1, Zenon DEF AsRelay
<1>13. StoreInv' /\ Range(entries') \subseteq Range(entries) \cup {}
  BY <1>0, <1>1, <1>3, StoreExpired, Zenon
<1>14. WorkInv'
  BY <1>0, <1>1, <1>12, WorkFrame, Zenon
<1>15. \A j \in Job : jobs'[j].result \in {NONE} \cup Held \cup {}
  BY <1>1, HeldMembers, Zenon
<1> QED
  BY <1>1, <1>8, <1>12, <1>13, <1>14, <1>15, EpochInv, Zenon


\* RecoveryCandidates erases what has left the mempool.
LEMMA RecoveryInv ==
    ASSUME RelayInv, RecoveryCandidates
    PROVE  RelayInv'
<1>0. /\ StoreInv /\ WorkInv /\ PeersInv /\ CacheType /\ WorkType /\ entries \in Seq(Entry)
      /\ relay \in RelayState /\ Path(relay) /\ (relay.pc \in Polling => ready)
  BY InvFacts, Zenon DEF AsRelay
<1> DEFINE Left(c) == Erase(c, {t \in Txid : mempool[t] = NONE})
           Batch(b) == {[txid |-> t, digest |-> NONE] : t \in b}
<1>1. /\ relay.pc = "recover"
      /\ UNCHANGED <<point, ready, epoch, tip, mempool, sync_point, peer, regeneration, jobs, pending>>
  BY Zenon DEF RecoveryCandidates, At, Quiet, core, work
<1>2. PICK c \in Unexpired :
        /\ Retain(Left(c))
        /\ \E b \in SUBSET Txid :
             relay' = [relay EXCEPT !.pc = "incoming", !.regenerated = RegenerationsPerPoll,
                                    !.todo = Batch(b)]
  <2>1. \E c \in Unexpired :
          /\ Retain(Left(c))
          /\ \E b \in SUBSET {t \in Txid : mempool[t] # NONE /\ ~ Has(c.entries, t)} :
               relay' = [relay EXCEPT !.pc = "incoming", !.regenerated = RegenerationsPerPoll,
                                      !.todo = Batch(b)]
    BY Zenon DEF RecoveryCandidates
  <2>2. \A es : SUBSET {t \in Txid : mempool[t] # NONE /\ ~ Has(es, t)} \subseteq SUBSET Txid
    BY Zenon
  <2> QED
    BY ONLY <2>1, <2>2, Zenon
<1>3. PICK b \in SUBSET Txid :
        relay' = [relay EXCEPT !.pc = "incoming", !.regenerated = RegenerationsPerPoll,
                               !.todo = Batch(b)]
  BY <1>2, Zenon
<1> DEFINE todo == Batch(b)
           r1 == [relay EXCEPT !.pc = "incoming"]
           r2 == [r1 EXCEPT !.regenerated = RegenerationsPerPoll]
           r3 == [r2 EXCEPT !.todo = todo]
<1>4. relay' = r3
  BY <1>3, Zenon
<1>5. todo \in SUBSET Item
  BY DEF Item
<1> HIDE DEF todo
<1>6. "incoming" \in RelayPc
  BY Zenon DEF RelayPc, Polling
<1>7. relay.request = NONE /\ ready
  BY <1>0, <1>1, Zenon DEF Path, Preparing, Polling
<1>8. r1 \in RelayState /\ r1.request = NONE /\ r1.pc = "incoming"
  BY <1>0, <1>6, <1>7, RelaySet, Zenon
<1> HIDE DEF r1
<1>9. r2 \in RelayState /\ r2.request = NONE /\ r2.pc = "incoming"
  BY <1>8, RelayConfig, RelaySet, Zenon
<1> HIDE DEF r2
<1>10. r3 \in RelayState /\ r3.request = NONE /\ r3.pc = "incoming"
  BY <1>5, <1>9, RelaySet
<1> HIDE DEF r3
<1>11. AsRelay(relay') /\ relay'.request = relay.request
  <2>1. Path(r3)
    BY <1>10, Zenon DEF Path, Preparing
  <2> QED
    BY <1>4, <1>7, <1>10, <2>1, Zenon DEF AsRelay
<1>12. StoreInv' /\ Range(entries') \subseteq Range(entries) \cup {}
  <2>1. bytes = Total(entries)
    BY <1>0, Zenon DEF StoreInv, EntriesInv
  <2>2. Shrunk(c, entries) /\ Exact(c)
    BY <1>0, <2>1, UnexpiredShrunk, Zenon DEF Shrunk
  <2>3. Shrunk(Left(c), entries)
    BY <1>0, <2>2, TxidsErased, ShrunkTwice, Zenon
  <2> QED
    BY <1>0, <1>1, <1>2, <2>3, StoreKept, Zenon
<1>13. WorkInv'
  BY <1>0, <1>1, <1>11, WorkFrame, Zenon
<1>14. \A j \in Job : jobs'[j].result \in {NONE} \cup Held \cup {}
  BY <1>1, HeldMembers, Zenon
<1> QED
  BY <1>1, <1>7, <1>11, <1>12, <1>13, <1>14, EpochInv, Zenon

\* CompleteRegeneration answers with what the cache has.
LEMMA CompleteInv ==
    ASSUME RelayInv, Complete
    PROVE  RelayInv'
<1>0. /\ StoreInv /\ WorkInv /\ PeersInv /\ CacheType /\ WorkType /\ entries \in Seq(Entry)
      /\ relay \in RelayState /\ Path(relay) /\ (relay.pc \in Polling => ready)
  BY InvFacts, Zenon DEF AsRelay
<1> DEFINE rq == relay.request
<1>1. /\ relay.pc = "complete" /\ CompleteRegeneration(rq)
      /\ relay' = [relay EXCEPT !.pc = "regenerate", !.request = NONE, !.tx = NONE]
      /\ UNCHANGED <<tip, mempool, sync_point, peer>>
  BY Zenon DEF Complete, At, Quiet, core
<1> DEFINE r1 == [relay EXCEPT !.pc = "regenerate"]
           r2 == [r1 EXCEPT !.request = NONE]
           r3 == [r2 EXCEPT !.tx = NONE]
<1>2. relay' = r3
  BY <1>1, Zenon
<1>3. "regenerate" \in RelayPc
  BY Zenon DEF RelayPc, Polling
<1>4. r1 \in RelayState /\ r1.pc = "regenerate"
  BY <1>0, <1>3, RelaySet, Zenon
<1> HIDE DEF r1
<1>5. r2 \in RelayState /\ r2.request = NONE /\ r2.pc = "regenerate"
  BY <1>4, RelaySet
<1> HIDE DEF r2
<1>6. r3 \in RelayState /\ r3.request = NONE /\ r3.pc = "regenerate"
  BY <1>5, RelaySet
<1> HIDE DEF r3
<1>7. AsRelay(relay') /\ relay'.request = NONE
  <2>1. Path(r3)
    BY <1>6, Zenon DEF Path, Preparing
  <2> QED
    BY <1>2, <1>6, <2>1, Zenon DEF AsRelay
<1>8. ready
  BY <1>0, <1>1, Zenon DEF Polling
<1>9. UNCHANGED <<point, ready, epoch>>
  BY <1>1, Zenon DEF CompleteRegeneration, cache
<1>10. WorkInv'
  BY <1>0, <1>1, <1>7, <1>9, WorkComplete, Zenon
<1>11. CASE UNCHANGED <<cache, work>>
  <2>1. StoreInv' /\ entries' = entries /\ jobs' = jobs
    BY <1>0, <1>11, StoreSame, Zenon DEF cache, work
  <2>2. Range(entries') \subseteq Range(entries) \cup {}
    BY <2>1, Zenon
  <2>3. \A j \in Job : jobs'[j].result \in {NONE} \cup Held \cup {}
    BY <2>1, HeldMembers, Zenon
  <2> QED
    BY <1>1, <1>7, <1>8, <1>9, <1>10, <2>1, <2>2, <2>3, EpochInv, Zenon
<1>12. CASE Completable(rq) /\ ~ UNCHANGED <<cache, work>>
  <2> DEFINE j == regeneration[rq]
             F(es) == [jobs EXCEPT ![j].done = TRUE, ![j].result = Match(es, rq)]
  <2>1. PICK c \in Unexpired : Retain(c) /\ jobs' = Released(F(c.entries), j)
    BY <1>1, <1>12, Zenon DEF CompleteRegeneration
  <2> DEFINE es == c.entries
  <2>2. es \in Seq(Entry) /\ Range(es) \subseteq Range(entries)
    BY <1>0, UnexpiredPart, Zenon
  <2>3. StoreInv' /\ Range(entries') \subseteq Range(entries) \cup {}
    BY <1>0, <1>9, <2>1, StoreExpired, Zenon
  <2>4. Match(es, rq) \in {NONE} \cup Held
    BY <2>2, MatchFacts, HeldMembers, Zenon
  <2> DEFINE m == Match(es, rq)
  <2>5. ASSUME NEW k \in Job
        PROVE  jobs'[k].result \in {NONE} \cup Held \cup {}
    <3> DEFINE x == jobs[k]
               y == [x EXCEPT !.done = TRUE, !.result = m]
    <3>1. jobs \in [Job -> JobObject] /\ x \in JobObject
      BY <1>0, Zenon DEF WorkType
    <3>2. F(es)[k] = x \/ F(es)[k] = y
      BY <3>1, Zenon
    <3>3. jobs'[k] = F(es)[k] \/ jobs'[k] = FREE
      <4> DEFINE g == F(es)
      <4>1. DOMAIN g = Job
        BY <3>1, Zenon
      <4> HIDE DEF g
      <4>2. jobs' = g \/ jobs' = [g EXCEPT ![j] = FREE]
        BY <2>1, Zenon DEF Released, g
      <4>3. jobs'[k] = g[k] \/ jobs'[k] = FREE
        BY ONLY <4>1, <4>2, k \in Job, Zenon
      <4> QED
        BY <4>3, Zenon DEF g
    <3> HIDE DEF x, F, m
    <3>4. y.result = m
      BY ONLY <3>1, Zenon DEF JobObject
    <3> HIDE DEF y
    <3>5. jobs'[k].result \in {x.result, m, NONE}
      BY <3>2, <3>3, <3>4 DEF FREE
    <3> QED
      BY <2>4, <3>5, HeldMembers, Zenon DEF x, m
  <2> QED
    BY <1>1, <1>7, <1>8, <1>9, <1>10, <2>3, <2>5, EpochInv, Zenon
<1> QED
  BY <1>1, <1>11, <1>12, Zenon DEF CompleteRegeneration

\* Publish of what was prepared at the synchronizer's point.
LEMMA PublishInv ==
    ASSUME RelayInv, PublishPrepared
    PROVE  RelayInv'
<1>0. /\ StoreInv /\ WorkInv /\ PeersInv /\ CacheType /\ WorkType /\ sync_point \in Tip
      /\ AsRelay(relay) /\ relay \in RelayState /\ Path(relay) /\ (relay.pc \in Polling => ready)
  BY InvFacts, Zenon DEF AsRelay
<1> DEFINE t == relay.tx.txid
           d == relay.tx.digest
           e == NewEntry(sync_point, t, d)
<1>1. /\ relay.pc = "publish" /\ Publish(sync_point, t, d) /\ Goto(Prepared)
      /\ UNCHANGED <<tip, mempool, sync_point, peer>>
  BY Zenon DEF PublishPrepared, At, Quiet, core
<1>2. UNCHANGED <<point, ready, epoch, regeneration, jobs, pending>>
  BY <1>1, Zenon DEF Publish, work
<1>3. t \in Txid /\ d \in Digest
  <2>1. relay.tx \in Item /\ relay.tx.digest # NONE
    BY <1>0, <1>1, Zenon DEF Path, Preparing
  <2> QED
    BY <2>1, Zenon DEF Item
<1> HIDE DEF t, d
<1>4. StoreInv' /\ Range(entries') \subseteq Range(entries) \cup {e} /\ ready /\ point = sync_point
  BY <1>0, <1>1, <1>3, StorePublished, Zenon
<1>5. e.identity.epoch = epoch /\ e.point = sync_point
  BY Zenon DEF NewEntry, Identity
<1>6. AsRelay(relay') /\ relay'.request = relay.request
  BY <1>0, <1>1, GotoAsRelay, Zenon DEF Preparing
<1>7. WorkInv'
  BY <1>0, <1>1, <1>2, <1>6, WorkFrame, Zenon
<1>8. \A j \in Job : jobs'[j].result \in {NONE} \cup Held \cup {e}
  BY <1>2, HeldMembers, Zenon
<1>9. \A n \in {e} : ready /\ n.identity.epoch = epoch /\ n.point = point
  BY <1>4, <1>5, Zenon
<1> HIDE DEF e
<1> QED
  BY <1>1, <1>2, <1>4, <1>6, <1>7, <1>8, <1>9, EpochInv, Zenon


-----------------------------------------------------------------------------
(* The steps of the connections.                                            *)

\* A connection changes what it remembers, outside WaitFor.
LEMMA ChangeInv ==
    ASSUME RelayInv, NEW p \in Peer, NEW s, Change(p, s), StoreInv',
           UNCHANGED <<point, ready, epoch, regeneration, jobs, pending, tip, mempool, sync_point, relay>>,
           Range(entries') \subseteq Range(entries)
    PROVE  RelayInv'
<1>0. /\ WorkInv /\ PeersInv /\ HeldInv /\ epoch \in Nat
      /\ tip \in Tip /\ sync_point \in Tip /\ mempool \in [Txid -> Digest \cup {NONE}]
      /\ AsRelay(relay) /\ point \in {NONE, sync_point} /\ (ready => point # NONE)
      /\ relay.pc \in Polling => ready
  BY InvFacts, Zenon
<1>1. /\ AsPeer(s) /\ Be(p, s) /\ peer[p].job = 0 /\ s.job = 0
      /\ s.entry = NONE \/ s.entry = peer[p].entry \/ s.entry \in Range(entries)
  BY Zenon DEF Change
<1>2. PeersInv' /\ peer'[p] = s /\ \A q \in Peer : q # p => peer'[q] = peer[q]
  BY <1>0, <1>1, PeersStep, Zenon
<1>3. s.pc # "waiting"
  BY <1>1, Zenon DEF AsPeer, PeerControl
<1>4. WorkInv'
  BY <1>0, <1>1, <1>2, <1>3, WorkFrame, Zenon
<1>5. RelayType' /\ RelayControl'
  BY <1>0, ControlStep, Zenon
<1>6. HeldInv'
  <2>1. \A q \in Peer : peer'[q].entry \in {NONE} \cup Held \cup {}
    BY <1>1, <1>2, HeldMembers, ZenonT(40)
  <2>2. \A j \in Job : jobs'[j].result \in {NONE} \cup Held \cup {}
    BY HeldMembers, Zenon
  <2> QED
    BY <1>0, <2>1, <2>2, HeldStep, ZenonT(40)
<1> QED
  BY <1>2, <1>4, <1>5, <1>6, InvParts, Zenon

\* The steps that do not touch the cache, and those that only let it expire.
LEMMA ConnectionInv ==
    ASSUME RelayInv, NEW p \in Peer,
           \/ PeerConnects(p) \/ PeerDrops(p) \/ PeerSeesStop(p) \/ PeerChecks(p) \/ PeerRechecks(p)
           \/ PeerSeesEpoch(p) \/ PeerRequests(p) \/ PeerSends(p)
           \/ PeerAnnounces(p) \/ PeerFinds(p) \/ PeerRefused(p)
    PROVE  RelayInv'
<1>0. StoreInv /\ PeersInv /\ entries \in Seq(Entry) /\ epoch \in Nat
  BY InvFacts, Zenon
<1>1. CASE \/ PeerConnects(p) \/ PeerDrops(p) \/ PeerSeesStop(p) \/ PeerChecks(p) \/ PeerRechecks(p)
           \/ PeerSeesEpoch(p) \/ PeerRequests(p) \/ PeerSends(p)
  <2>1. UNCHANGED <<cache, work>> /\ Still
    BY <1>1, Zenon DEF PeerConnects, PeerDrops, PeerSeesStop, PeerChecks, PeerRechecks, PeerSeesEpoch,
                       PeerRequests, PeerSends
  <2>2. UNCHANGED <<point, ready, epoch, regeneration, jobs, pending, tip, mempool, sync_point, relay>>
    BY <2>1, Zenon DEF cache, work, Still, core
  <2>3. StoreInv' /\ Range(entries') \subseteq Range(entries)
    BY <1>0, <2>1, StoreSame, Zenon DEF cache
  <2>4. PICK s : Change(p, s)
    BY <1>0, <1>1, MovesChange, AsksChange, Zenon
  <2> QED
    BY <2>2, <2>3, <2>4, ChangeInv, Zenon
<1>2. CASE PeerAnnounces(p) \/ PeerFinds(p) \/ PeerRefused(p)
  <2>1. UNCHANGED <<point, ready, epoch, work>> /\ Still /\ \E c \in Unexpired : Retain(c)
    BY <1>2, Zenon DEF PeerAnnounces, PeerFinds, PeerRefused
  <2>2. UNCHANGED <<point, ready, epoch, regeneration, jobs, pending, tip, mempool, sync_point, relay>>
    BY <2>1, Zenon DEF work, Still, core
  <2>3. PICK c \in Unexpired : Retain(c)
    BY <2>1, Zenon
  <2>4. StoreInv' /\ Range(entries') \subseteq Range(entries)
    BY <1>0, <2>2, <2>3, StoreExpired, Zenon
  <2>5. PICK s : Change(p, s)
    BY <1>0, <1>2, AnnouncesChange, FindsChange, Zenon
  <2> QED
    BY <2>2, <2>4, <2>5, ChangeInv, Zenon
<1> QED
  BY <1>1, <1>2, Zenon

\* WaitFor joins or queues a job.
LEMMA WaitsInv ==
    ASSUME RelayInv, NEW p \in Peer, PeerWaits(p)
    PROVE  RelayInv'
<1>0. /\ StoreInv /\ WorkInv /\ PeersInv /\ HeldInv /\ entries \in Seq(Entry) /\ epoch \in Nat
      /\ tip \in Tip /\ sync_point \in Tip /\ mempool \in [Txid -> Digest \cup {NONE}]
      /\ AsRelay(relay) /\ point \in {NONE, sync_point} /\ (ready => point # NONE)
      /\ relay.pc \in Polling => ready
  BY InvFacts, Zenon
<1>1. UNCHANGED <<point, ready, epoch, tip, mempool, sync_point, relay>>
  BY Zenon DEF PeerWaits, Still, core
<1>2. PICK c \in Unexpired : Retain(c)
  BY Zenon DEF PeerWaits
<1>3. StoreInv' /\ Range(entries') \subseteq Range(entries) \cup {}
  BY <1>0, <1>1, <1>2, StoreExpired, Zenon
<1>4. /\ WorkInv' /\ PeersInv' /\ \A q \in Peer : peer'[q].entry = peer[q].entry
      /\ \A k \in Job : jobs'[k].result \in {NONE, jobs[k].result}
  BY <1>0, <1>1, WorkJoin, Zenon
<1>5. RelayType' /\ RelayControl'
  BY <1>0, <1>1, ControlStep, Zenon
<1>6. HeldInv'
  <2>1. \A q \in Peer : peer'[q].entry \in {NONE} \cup Held \cup {}
    BY <1>4, HeldMembers, Zenon
  <2>2. \A j \in Job : jobs'[j].result \in {NONE} \cup Held \cup {}
    BY <1>4, HeldMembers, Zenon
  <2> QED
    BY <1>0, <1>1, <1>3, <2>1, <2>2, HeldStep, ZenonT(40)
<1> QED
  BY <1>3, <1>4, <1>5, <1>6, InvParts, Zenon

\* WaitFor returns, or sleeps on.
LEMMA ReturnsInv ==
    ASSUME RelayInv, NEW p \in Peer, PeerWakes(p) \/ PeerTimesOut(p)
    PROVE  RelayInv'
<1>0. /\ StoreInv /\ WorkInv /\ PeersInv /\ HeldInv /\ epoch \in Nat
      /\ tip \in Tip /\ sync_point \in Tip /\ mempool \in [Txid -> Digest \cup {NONE}]
      /\ AsRelay(relay) /\ point \in {NONE, sync_point} /\ (ready => point # NONE)
      /\ relay.pc \in Polling => ready
  BY InvFacts, Zenon
<1>1. /\ peer[p].pc = "waiting" /\ UNCHANGED cache /\ Still
      /\ Return(p) \/ UNCHANGED <<regeneration, jobs, pending, peer>>
  BY Zenon DEF PeerWakes, PeerTimesOut
<1>2. UNCHANGED <<point, ready, epoch, entries, tip, mempool, sync_point, relay>>
  BY <1>1, ZenonT(40) DEF cache, Still, core
<1>3. CASE UNCHANGED <<regeneration, jobs, pending, peer>>
  BY <1>0, <1>1, <1>2, <1>3, QuietInv, ZenonT(40)
<1>4. CASE Return(p)
  <2>1. /\ WorkInv' /\ PeersInv'
        /\ \A q \in Peer : q # p => peer'[q].entry = peer[q].entry
        /\ peer'[p].entry \in {NONE, jobs[peer[p].job].result}
        /\ \A k \in Job : jobs'[k].result \in {NONE, jobs[k].result}
    BY <1>0, <1>1, <1>2, <1>4, WorkReturn, ZenonT(40)
  <2>2. peer[p].job \in Job
    BY <1>0, <1>1, WaitingJob, Zenon DEF WorkInv
  <2>3. StoreInv' /\ Range(entries') \subseteq Range(entries) \cup {}
    BY <1>0, <1>1, <1>2, StoreSame, Zenon
  <2>4. RelayType' /\ RelayControl'
    BY <1>0, <1>2, ControlStep, Zenon
  <2>5. HeldInv'
    <3>1. \A q \in Peer : peer'[q].entry \in {NONE} \cup Held \cup {}
      BY <2>1, <2>2, HeldMembers, ZenonT(40)
    <3>2. \A j \in Job : jobs'[j].result \in {NONE} \cup Held \cup {}
      BY <2>1, HeldMembers, Zenon
    <3> QED
      BY <1>0, <1>2, <2>3, <3>1, <3>2, HeldStep, Zenon
  <2> QED
    BY <2>1, <2>3, <2>4, <2>5, InvParts, Zenon
<1> QED
  BY <1>1, <1>3, <1>4, Zenon


-----------------------------------------------------------------------------
(* The invariant holds of the first state and is preserved by every step.   *)

\* The relay starts with an empty cache, no job and no connection.
LEMMA RelayInvInit ==
    ASSUME RelayInit
    PROVE  RelayInv
<1>1. /\ point = NONE /\ ready = FALSE /\ epoch = 0 /\ entries = <<>> /\ bytes = 0
      /\ regeneration = NoJobs /\ jobs = [j \in Job |-> FREE] /\ pending = <<>>
      /\ tip \in Tip /\ mempool \in [Txid -> Digest] /\ sync_point = tip /\ relay = Top
      /\ peer = [p \in Peer |-> Off]
  BY Zenon DEF RelayInit, Init
<1>2. StoreInv
  <2>1. entries \in Seq(Entry) /\ Len(entries) = 0
    BY <1>1
  <2>2. Total(entries) = 0
    BY ONLY <2>1, TotalEmpty, Zenon
  <2>3. EntriesInv
    BY <1>1, <2>1, <2>2, CacheConfig, SMTT(30) DEF EntriesInv, Distinct
  <2> QED
    BY <1>1, <2>1, <2>3, Zenon DEF StoreInv, CacheType
<1>3. PeersInv /\ \A p \in Peer : peer[p] = Off /\ Off.job = 0 /\ Off.pc = "off" /\ Off.entry = NONE
  <2>1. \A p \in Peer : peer[p] = Off
    BY <1>1, Zenon
  <2>2. Off \in PeerState /\ PeerControl(Off) /\ PeerHistory(Off)
    BY OffAsPeer, Zenon DEF AsPeer
  <2>3. peer \in [Peer -> PeerState]
    BY <1>1, <2>2, Zenon
  <2>4. Off.job = 0 /\ Off.pc = "off" /\ Off.entry = NONE
    BY Zenon DEF Off
  <2> QED
    BY <2>1, <2>2, <2>3, <2>4, Zenon DEF PeersInv
<1>4. DOMAIN regeneration = {} /\ Range(regeneration) = {} /\ Range(pending) = {}
  BY <1>1 DEF NoJobs, Range
<1>5. WorkType
  <2>1. FREE \in JobObject
    BY Zenon DEF FREE, JobObject
  <2>2. regeneration \in [DOMAIN regeneration -> Job]
    BY <1>1, Zenon DEF NoJobs
  <2> QED
    BY <1>1, <1>4, <2>1, <2>2, FS_EmptySet, SMTT(30) DEF WorkType
<1>6. JobsInv
  <2>1. ASSUME NEW j \in Job
        PROVE  /\ jobs[j].waiters = Cardinality({p \in Peer : peer[p].job = j})
               /\ jobs[j] = FREE /\ Answers(jobs[j])
    <3>1. jobs[j] = FREE /\ FREE.waiters = 0 /\ FREE.result = NONE
      BY <1>1, Zenon DEF FREE
    <3>2. {p \in Peer : peer[p].job = j} = {}
      BY <1>3, JobFacts, Zenon
    <3> QED
      BY <3>1, <3>2, FS_EmptySet, Zenon DEF Answers
  <2> QED
    BY <1>3, <2>1, ZenonT(40) DEF JobsInv
<1>7. MapInv
  BY <1>1, <1>4, FS_EmptySet, CacheConfig DEF MapInv, IsInjective
<1>8. RelayType /\ RelayControl
  <2>1. RelayType
    BY <1>1, TopAsRelay, Zenon DEF RelayType, AsRelay
  <2>2. RelayControl
    BY <1>1, TopAsRelay, Zenon DEF RelayControl, AsRelay, Path, Polling, Preparing
  <2> QED
    BY <2>1, <2>2, Zenon
<1>9. HeldInv
  <2>1. Range(entries) = {}
    BY <1>1 DEF Range
  <2>2. \A j \in Job : jobs[j].result = NONE
    BY <1>1, Zenon DEF FREE
  <2>3. Held = {}
    BY <1>3, <2>1, <2>2, Zenon DEF Held
  <2> QED
    BY <2>1, <2>3, Zenon DEF HeldInv
<1> QED
  BY <1>2, <1>3, <1>5, <1>6, <1>7, <1>8, <1>9, InvParts, Zenon DEF WorkInv

\* Every step of the relay, of a connection and of Core preserves the invariant.
LEMMA RelayInvStep ==
    ASSUME RelayInv, [Next]_vars
    PROVE  RelayInv'
<1>0. /\ tip \in Tip /\ mempool \in [Txid -> Digest \cup {NONE}] /\ AsRelay(relay)
  BY InvFacts, Zenon
<1>1. CASE TipChanges \/ MempoolChanges
  <2>1. UNCHANGED <<cache, regeneration, jobs, pending, sync_point, peer, relay>>
    BY <1>1, Zenon DEF TipChanges, MempoolChanges, work
  <2>2. CASE TipChanges
    <3>1. tip' \in Tip /\ mempool' = mempool
      BY <2>2, Zenon DEF TipChanges
    <3> QED
      BY <1>0, <2>1, <3>1, QuietInv, Zenon
  <2>3. CASE MempoolChanges
    <3>1. PICK t \in Txid, d \in Digest \cup {NONE} : mempool' = [mempool EXCEPT ![t] = d]
      BY <2>3, Zenon DEF MempoolChanges
    <3>2. mempool' \in [Txid -> Digest \cup {NONE}] /\ tip' = tip
      BY <1>0, <2>3, <3>1, Zenon DEF MempoolChanges
    <3> QED
      BY <1>0, <2>1, <3>2, QuietInv, Zenon
  <2> QED
    BY <1>1, <2>2, <2>3, Zenon
<1>2. CASE RelayStep
  <2>1. CASE \/ CaughtUp \/ TakenAll \/ Recover \/ Finish \/ PollReturns \/ NotPrepared
             \/ RawTransaction \/ MempoolMember \/ Inputs \/ AnchorHolds \/ MemberAgain
    <3>1. /\ AsRelay(relay') /\ relay'.request = relay.request
          /\ relay'.pc \in Polling => relay.pc \in Polling
          /\ UNCHANGED <<cache, regeneration, jobs, pending, tip, mempool, sync_point, peer>>
      BY <2>1, QuietRelay, Zenon
    <3> QED
      BY <1>0, <3>1, QuietInv, Zenon
  <2>2. CASE CatchUp \/ RpcFails \/ CheckTipFails \/ PrepareFails
    BY <2>2, WithdrawsInv, Zenon
  <2>3. CASE PollActivates
    BY <2>3, ActivatesInv, Zenon
  <2>4. CASE Take
    BY <2>4, TakeInv, Zenon
  <2>5. CASE Complete
    BY <2>5, CompleteInv, Zenon
  <2>6. CASE NextTransaction
    BY <2>6, NextTransactionInv, Zenon
  <2>7. CASE RecoveryCandidates
    BY <2>7, RecoveryInv, Zenon
  <2>8. CASE PublishPrepared
    BY <2>8, PublishInv, Zenon
  <2> QED
    BY ONLY <1>2, <2>1, <2>2, <2>3, <2>4, <2>5, <2>6, <2>7, <2>8, Zenon DEF RelayStep
<1>3. ASSUME NEW p \in Peer,
             PeerStep(p) \/ PeerConnects(p) \/ PeerRequests(p) \/ PeerDrops(p) \/ PeerTimesOut(p)
      PROVE  RelayInv'
  <2>1. CASE PeerWaits(p)
    BY <2>1, WaitsInv, Zenon
  <2>2. CASE PeerWakes(p) \/ PeerTimesOut(p)
    BY <2>2, ReturnsInv, Zenon
  <2>3. CASE \/ PeerConnects(p) \/ PeerDrops(p) \/ PeerSeesStop(p) \/ PeerChecks(p) \/ PeerRechecks(p)
             \/ PeerSeesEpoch(p) \/ PeerRequests(p) \/ PeerSends(p)
             \/ PeerAnnounces(p) \/ PeerFinds(p) \/ PeerRefused(p)
    BY <2>3, ConnectionInv, Zenon
  <2> QED
    BY ONLY <1>3, <2>1, <2>2, <2>3, Zenon DEF PeerStep
<1>4. CASE Shutdown
  <2>1. /\ relay.pc = "sync" /\ Goto("notify")
        /\ UNCHANGED <<cache, regeneration, jobs, pending, tip, mempool, sync_point, peer>>
    BY <1>4, Zenon DEF Shutdown, At, work, core
  <2>2. AsRelay(relay') /\ relay'.request = relay.request /\ relay'.pc = "notify"
    BY <1>0, <2>1, GotoAsRelay, Zenon
  <2> QED
    BY <1>0, <2>1, <2>2, QuietInv, Zenon DEF Polling, Preparing
<1>5. CASE StopNotifies
  <2>1. /\ AsRelay(relay') /\ relay'.request = relay.request
        /\ relay'.pc \in Polling => relay.pc \in Polling
        /\ UNCHANGED <<cache, regeneration, jobs, pending, tip, mempool, sync_point, peer>>
    BY <1>5, QuietRelay, Zenon
  <2> QED
    BY <1>0, <2>1, QuietInv, Zenon
<1>6. CASE Stopped \/ UNCHANGED vars
  <2>1. UNCHANGED <<cache, regeneration, jobs, pending, tip, mempool, sync_point, peer, relay>>
    BY <1>6, Zenon DEF Stopped, vars, work, core
  <2> QED
    BY <1>0, <2>1, QuietInv, Zenon
<1> QED
  BY ONLY <1>1, <1>2, <1>3, <1>4, <1>5, <1>6, [Next]_vars, Zenon DEF Next

(* The inductive invariant of the transaction cache and the relay: types,    *)
(* the position of the synchronizing thread against the anchor, what every   *)
(* connection remembers, the accounting of the jobs shared by WaitFor and    *)
(* TakeRegeneration, one point per epoch for every entry anybody holds, and  *)
(* the limits of Publish, in every state the threads can reach.              *)
THEOREM RelayInvariant == Spec => []RelayInv
<1>1. RelayInit => RelayInv
  BY RelayInvInit, Zenon
<1>2. RelayInv /\ [Next]_vars => RelayInv'
  BY RelayInvStep, Zenon
<1> QED
  BY <1>1, <1>2, PTL DEF Spec


-----------------------------------------------------------------------------
(* The properties.                                                          *)

(* At every moment the cache is ready only for the accumulator's own point,  *)
(* and it stays ready for it throughout a Poll: whatever Core does between   *)
(* two RPCs, no Publish of TransactionRelay::Prepare is refused.             *)
THEOREM RelayAnchoredAtSyncPoint == Spec => []AnchoredAtSyncPoint
<1>1. RelayInv => AnchoredAtSyncPoint
  <2> SUFFICES ASSUME RelayInv PROVE AnchoredAtSyncPoint
    BY Zenon
  <2>1. /\ relay \in RelayState /\ point \in {NONE, sync_point} /\ (ready => point # NONE)
        /\ relay.pc \in Polling => ready
    BY InvFacts, Zenon DEF AsRelay
  <2>2. relay.pc \in RelayPc
    BY <2>1, Zenon DEF RelayState
  <2>3. relay.pc \notin {"sync", "poll", "notify", "join"} => ready
    BY <2>1, <2>2, Zenon DEF RelayPc
  <2> QED
    BY <2>1, <2>3, Zenon DEF AnchoredAtSyncPoint
<1> QED
  BY <1>1, RelayInvariant, PTL

(* Nothing the cache can hand out, no entry and no result of a finished job, *)
(* is of another anchor or epoch than its own: Activate and Invalidate leave *)
(* nothing behind, for any number of peers, entries and chain changes.       *)
THEOREM CacheAnchorConsistent == Spec => []AnchorConsistent
<1>1. RelayInv => AnchorConsistent
  <2> SUFFICES ASSUME RelayInv PROVE AnchorConsistent
    BY Zenon
  <2>1. /\ WorkInv /\ HeldInv /\ WorkType /\ entries \in Seq(Entry) /\ MapInv /\ JobsInv
    BY InvFacts, Zenon DEF WorkInv
  <2>2. \A e \in Held : e.identity.epoch = epoch => e.point = point
    BY <2>1, Zenon DEF HeldInv
  <2>3. ASSUME NEW i \in 1 .. Len(entries)
        PROVE  ready /\ entries[i].point = point /\ entries[i].identity.epoch = epoch
    <3>1. entries[i] \in Range(entries)
      BY <2>1, SMTT(30) DEF Range
    <3>2. ready /\ entries[i].identity.epoch = epoch
      BY <2>1, <3>1, Zenon DEF HeldInv
    <3> QED
      BY <2>2, <3>1, <3>2, HeldMembers, Zenon
  <2>4. ASSUME NEW r \in DOMAIN regeneration
        PROVE  /\ r.identity.epoch = epoch
               /\ jobs[regeneration[r]].result # NONE =>
                    /\ jobs[regeneration[r]].result.identity = r.identity
                    /\ jobs[regeneration[r]].result.point = point
    <3> DEFINE j == regeneration[r]
    <3>1. r.identity.epoch = epoch /\ j \in Job /\ jobs[j].request = r
      BY <2>1, MapInjective, ZenonT(40) DEF MapInv
    <3>2. jobs[j].result # NONE => jobs[j].result.identity = r.identity
      BY <2>1, <3>1, ZenonT(40) DEF JobsInv, Answers
    <3>3. jobs[j].result # NONE => jobs[j].result \in Held
      BY <3>1, HeldMembers, ZenonT(40)
    <3> QED
      BY <2>2, <3>1, <3>2, <3>3, Zenon
  <2> QED
    BY <2>3, <2>4, Zenon DEF AnchorConsistent
<1> QED
  BY <1>1, RelayInvariant, PTL

(* The structures of TransactionProofCache agree and stay within their       *)
(* limits, whatever the configuration: `bytes` is the sum of the entries and *)
(* never exceeds max_bytes, a transaction has one entry, and queue, map and  *)
(* jobs of the regenerations fit together.                                   *)
THEOREM CacheStructuresExact == Spec => []CacheExact
<1>1. RelayInv => CacheExact
  <2> SUFFICES ASSUME RelayInv PROVE CacheExact
    BY Zenon
  <2>1. /\ EntriesInv /\ MapInv /\ entries \in Seq(Entry)
    BY InvFacts, Zenon DEF WorkInv, StoreInv
  <2>2. ASSUME NEW t \in Txid
        PROVE  Cardinality(IndexOf(entries, t)) <= 1
    <3> DEFINE I == IndexOf(entries, t)
    <3>1. \A i, k \in I : i = k
      BY <2>1, Zenon DEF IndexOf, EntriesInv, Distinct
    <3> HIDE DEF I
    <3>2. CASE I = {}
      BY <3>2, FS_EmptySet DEF I
    <3>3. CASE I # {}
      <4>1. PICK i : i \in I
        BY <3>3, Zenon
      <4>2. I = {i}
        BY ONLY <3>1, <4>1, Zenon
      <4>3. Cardinality({i}) = 1
        BY FS_Singleton, ZenonT(40)
      <4>4. Cardinality(I) = 1
        BY ONLY <4>2, <4>3, Zenon
      <4> QED
        BY <4>4 DEF I
    <3> QED
      BY <3>2, <3>3, Zenon
  <2> QED
    BY <2>1, <2>2, Zenon DEF CacheExact, EntriesInv, MapInv
<1> QED
  BY <1>1, RelayInvariant, PTL

(* What a connection is sent is the transaction it asked for, in the very    *)
(* preparation that was announced to it: neither regeneration nor a change   *)
(* of tip during WaitFor substitutes another, for any number of connections. *)
THEOREM RelayServedAsAnnounced == Spec => []ServedAsAnnounced
<1>1. RelayInv => ServedAsAnnounced
  <2> SUFFICES ASSUME RelayInv, NEW p \in Peer, peer[p].pc = "send"
               PROVE  /\ peer[p].entry.txid = peer[p].txid
                      /\ peer[p].entry.identity = peer[p].announced[peer[p].txid]
    BY Zenon DEF ServedAsAnnounced
  <2>1. PeersInv
    BY InvFacts, Zenon
  <2> QED
    BY <2>1, PeerFields, Zenon DEF PeerControl
<1> QED
  BY <1>1, RelayInvariant, PTL

(* Equal epochs mean equal anchors for all entries connections hold, also    *)
(* after the cache has dropped them: the epoch in an announced identity is   *)
(* as good as the chain point.                                               *)
THEOREM RelayEpochIsAnchor == Spec => []EpochIsAnchor
<1>1. RelayInv => EpochIsAnchor
  <2> SUFFICES ASSUME RelayInv PROVE EpochIsAnchor
    BY Zenon
  <2>1. HeldInv
    BY InvFacts, Zenon
  <2>2. \A p \in Peer : peer[p].entry # NONE => peer[p].entry \in Held
    BY HeldMembers, Zenon
  <2> QED
    BY <2>1, <2>2, Zenon DEF EpochIsAnchor, HeldInv
<1> QED
  BY <1>1, RelayInvariant, PTL

(* A connection is never told notfound for what it was offered, however      *)
(* small the history it keeps (announced_transactions) and whichever entry   *)
(* the history drops.                                                        *)
THEOREM RelayNoFalseNotFound == Spec => []NoFalseNotFound
<1>1. RelayInv => NoFalseNotFound
  <2> SUFFICES ASSUME RelayInv, NEW p \in Peer, peer[p].pc = "notfound"
               PROVE  peer[p].txid \notin peer[p].told
    BY Zenon DEF NoFalseNotFound
  <2>1. PeersInv
    BY InvFacts, Zenon
  <2> QED
    BY <2>1, PeerFields, Zenon DEF PeerHistory
<1> QED
  BY <1>1, RelayInvariant, PTL

(* The waiters a job counts are the connections inside WaitFor, and no job   *)
(* in the map is running unless the synchronizing thread works on it: a      *)
(* failing Poll, a timeout or a racing return never leaves one behind.       *)
THEOREM RelayNoOrphanedJob == Spec => []NoOrphanedJob
<1>1. RelayInv => NoOrphanedJob
  <2> SUFFICES ASSUME RelayInv PROVE NoOrphanedJob
    BY Zenon
  <2>1. JobsInv /\ MapInv /\ WorkType
    BY InvFacts, Zenon DEF WorkInv
  <2>2. ASSUME relay.request = NONE, NEW j \in Range(regeneration), jobs[j].running
        PROVE  jobs[j].done
    <3>1. PICK r \in DOMAIN regeneration : regeneration[r] = j
      BY Zenon DEF Range
    <3>2. r # NONE
      BY <2>1, NoneIsNoValue, Zenon DEF WorkType
    <3>3. jobs[j].running /\ ~ jobs[j].done => relay.request = r
      BY <2>1, <3>1, Zenon DEF MapInv
    <3>4. jobs[j].running
      BY <2>2, Zenon
    <3>5. jobs[j].done \in BOOLEAN
      <4>1. j \in Job
        BY <2>1, <3>1, Zenon DEF WorkType
      <4> QED
        BY <2>1, <4>1, Zenon DEF WorkType, JobObject
    <3> QED
      BY <2>2, <3>2, <3>3, <3>4, <3>5, Zenon
  <2> QED
    BY <2>1, <2>2, Zenon DEF NoOrphanedJob, JobsInv
<1> QED
  BY <1>1, RelayInvariant, PTL
=============================================================================
