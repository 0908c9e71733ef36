--------------------------- MODULE TransactionCache ---------------------------
(***************************************************************************)
(* TransactionProofCache (src/transaction_cache.cpp): proofs of            *)
(* unconfirmed transactions, all anchored at one chain point, and the jobs *)
(* that regenerate a proof a peer was once offered.  Every operation is    *)
(* one critical section under `mutex`, here one operator on the next state *)
(* that TransactionRelay makes a step of the thread that calls it.         *)
(*                                                                         *)
(* Simplifications.  `entries` is the map by sequence number as a sequence *)
(* in that order; by_txid is IndexOf.  All entries live equally long, so   *)
(* the expired ones are a prefix that the clock chooses (Unexpired).       *)
(* `bytes` is the code's running count (stats.bytes): every erasure takes  *)
(* off what it erases and Publish adds what it stores.  A job is a shared  *)
(* object: it outlives its place in `regeneration` as long as somebody     *)
(* waits for it.  The other statistics are left out.                       *)
(***************************************************************************)
EXTENDS Lists, FiniteSets, FiniteSetsExt, Functions

CONSTANTS
    Txid,               \* transactions
    Digest,             \* digests of complete preparations
    Tip,                \* chain points
    Waiter,             \* threads that may wait for a regeneration
    EntryBytes,         \* [Txid -> Nat]: accounted size of a transaction's entry
    MaxEntries,         \* config.max_entries
    MaxBytes,           \* config.max_bytes
    MaxRegenerations,   \* config.max_regenerations
    NONE

Id == [epoch : Nat, digest : Digest]
Entry == [txid : Txid, point : Tip, bytes : Nat, identity : Id]
Req == [txid : Txid, identity : Id]

ASSUME CacheConfig ==
    /\ MaxEntries \in Nat \ {0} /\ MaxBytes \in Nat \ {0} /\ MaxRegenerations \in Nat \ {0}
    /\ EntryBytes \in [Txid -> Nat] /\ IsFiniteSet(Waiter)

\* nullptr and std::nullopt are no value of any of these types.
ASSUME NoneIsNoValue ==
    /\ NONE \notin Txid /\ NONE \notin Digest /\ NONE \notin Tip
    /\ NONE \notin Id /\ NONE \notin Entry /\ NONE \notin Req

VARIABLES
    point, ready, epoch,    \* the anchor, stats.ready, stats.epoch
    entries, bytes,
    regeneration,           \* request -> job
    jobs,                   \* the job objects
    pending,                \* queue of requests nobody has taken
    asleep                  \* waiters inside the wait on `changed`

cache == <<point, ready, epoch, entries, bytes>>
work == <<regeneration, jobs, pending, asleep>>

Identity(ep, d) == [epoch |-> ep, digest |-> d]
Request(t, id) == [txid |-> t, identity |-> id]

\* More job objects than waiters and map slots together can refer to.
Job == 1 .. (Cardinality(Waiter) + MaxRegenerations)
FREE == [request |-> NONE, waiters |-> 0, running |-> FALSE, done |-> FALSE, result |-> NONE]
NoJobs == [r \in {} |-> 0]

\* The shared pointer is gone once nobody waits and the map has dropped it.
Released(js, j) == IF js[j].waiters = 0 THEN [js EXCEPT ![j] = FREE] ELSE js

Init ==
    /\ point = NONE /\ ready = FALSE /\ epoch = 0
    /\ entries = <<>> /\ bytes = 0
    /\ regeneration = NoJobs /\ jobs = [j \in Job |-> FREE]
    /\ pending = <<>> /\ asleep = {}

IndexOf(es, t) == {i \in 1 .. Len(es) : es[i].txid = t}
Has(es, t) == IndexOf(es, t) # {}
EntryOf(es, t) == es[CHOOSE i \in IndexOf(es, t) : TRUE]
RecordBytes == [e \in Entry |-> e.bytes]
Total(es) == Weight(es, RecordBytes)

(***************************************************************************)
(* Erase, Expire, Match.  A store is the retained entries with the count   *)
(* of their bytes.                                                         *)
(***************************************************************************)
EmptyStore == [entries |-> <<>>, bytes |-> 0]

EraseOldest(c, k) ==
    [entries |-> SubSeq(c.entries, k + 1, Len(c.entries)),
     bytes |-> c.bytes - Total(SubSeq(c.entries, 1, k))]

\* The entry is gone, its bytes are still counted.
EraseUncounted(c, txids) ==
    [entries |-> Kept(c.entries, {e \in Range(c.entries) : e.txid \notin txids}),
     bytes |-> c.bytes]

Erase(c, txids) ==
    [entries |-> Kept(c.entries, {e \in Range(c.entries) : e.txid \notin txids}),
     bytes |-> c.bytes - Total(Kept(c.entries, {e \in Range(c.entries) : e.txid \in txids}))]

Unexpired ==
    {EraseOldest([entries |-> entries, bytes |-> bytes], k) : k \in 0 .. Len(entries)}

Retain(c) == entries' = c.entries /\ bytes' = c.bytes

MatchAnyDigest(es, request) ==
    IF ready /\ epoch = request.identity.epoch /\ Has(es, request.txid)
    THEN EntryOf(es, request.txid) ELSE NONE

Match(es, request) ==
    IF /\ ready /\ epoch = request.identity.epoch /\ Has(es, request.txid)
       /\ EntryOf(es, request.txid).identity = request.identity
    THEN EntryOf(es, request.txid)
    ELSE NONE

(***************************************************************************)
(* Clear, Invalidate, Activate.                                            *)
(***************************************************************************)
ClearedJob(j) ==
    IF j \notin Range(regeneration) THEN jobs[j]
    ELSE IF jobs[j].waiters = 0 THEN FREE
    ELSE [jobs[j] EXCEPT !.done = TRUE, !.result = NONE]

ClearWorkForgetsWaiters ==
    /\ jobs' = [j \in Job |-> ClearedJob(j)]
    /\ regeneration' = NoJobs /\ pending' = <<>> /\ UNCHANGED asleep

ClearWorkKeepsJobs ==
    /\ jobs' = [j \in Job |-> ClearedJob(j)]
    /\ asleep' = {} /\ UNCHANGED <<regeneration, pending>>

ClearWork ==
    /\ jobs' = [j \in Job |-> ClearedJob(j)]
    /\ regeneration' = NoJobs /\ pending' = <<>> /\ asleep' = {}

ClearSameEpoch ==
    /\ Retain(EmptyStore) /\ ready' = FALSE /\ UNCHANGED epoch
    /\ ClearWork

Clear ==
    /\ Retain(EmptyStore) /\ ready' = FALSE /\ epoch' = epoch + 1
    /\ ClearWork

Invalidate == Clear /\ point' = NONE

Activate(pt) ==
    /\ point' = pt /\ ready' = TRUE
    /\ IF point # NONE /\ point # pt
       THEN Retain(EmptyStore) /\ epoch' = epoch + 1 /\ ClearWork
       ELSE UNCHANGED <<entries, bytes, epoch, work>>

(***************************************************************************)
(* Publish: replaces the transaction's own entry, then evicts the oldest   *)
(* ones until the new one fits.                                            *)
(***************************************************************************)
Fits(c, n) == Len(c.entries) < MaxEntries /\ n + c.bytes <= MaxBytes
Evicted(c, n) ==
    LET k == CHOOSE k \in 0 .. Len(c.entries) :
               /\ Fits(EraseOldest(c, k), n) \/ k = Len(c.entries)
               /\ \A j \in 0 .. (k - 1) : ~ Fits(EraseOldest(c, j), n)
    IN EraseOldest(c, k)

Published(c, pt, t, d) ==
    LET left == Evicted(Erase(c, {t}), EntryBytes[t])
        entry == [txid |-> t, point |-> pt, bytes |-> EntryBytes[t], identity |-> Identity(epoch, d)]
    IN [entries |-> Append(left.entries, entry), bytes |-> left.bytes + EntryBytes[t]]
CanPublish(pt) == ready /\ point = pt

Publish(pt, t, d) ==
    /\ CanPublish(pt)
    /\ \E c \in Unexpired :
         Retain(IF EntryBytes[t] > MaxBytes THEN c ELSE Published(c, pt, t, d))
    /\ UNCHANGED <<point, ready, epoch, work>>

(***************************************************************************)
(* WaitFor, in the critical sections between which the thread sleeps.      *)
(***************************************************************************)
Refused(request, stop) == ~ ready \/ request.identity.epoch # epoch \/ stop

Joined(request) ==
    IF request \in DOMAIN regeneration THEN regeneration[request]
    ELSE Min({j \in Job : jobs[j] = FREE})

CanJoin(request) ==
    request \in DOMAIN regeneration \/ Cardinality(DOMAIN regeneration) < MaxRegenerations
WaitBegin(w, request) ==
    LET j == Joined(request) IN
    /\ CanJoin(request)
    /\ IF request \in DOMAIN regeneration
       THEN /\ jobs' = [jobs EXCEPT ![j].waiters = @ + 1]
            /\ UNCHANGED <<regeneration, pending>>
       ELSE /\ jobs' = [jobs EXCEPT ![j] = [FREE EXCEPT !.request = request, !.waiters = 1]]
            /\ regeneration' = [r \in DOMAIN regeneration \cup {request} |->
                                  IF r = request THEN j ELSE regeneration[r]]
            /\ pending' = Append(pending, request)
    /\ asleep' = IF jobs'[j].done THEN asleep ELSE asleep \cup {w}

WaitOver(j, request, stop) == jobs[j].done \/ stop \/ request.identity.epoch # epoch

WaitResult(j, request, stop) ==
    IF jobs[j].done /\ ready /\ request.identity.epoch = epoch /\ ~ stop
    THEN jobs[j].result ELSE NONE

\* The last waiter removes a job nobody works on.
Abandoned(j, request) ==
    /\ jobs[j].waiters = 1 /\ (~ jobs[j].running \/ jobs[j].done)
    /\ request \in DOMAIN regeneration /\ regeneration[request] = j
WaitEnd(w, j, request) ==
    LET left == [jobs EXCEPT ![j].waiters = @ - 1] IN
    /\ IF Abandoned(j, request)
       THEN /\ jobs' = [jobs EXCEPT ![j] = FREE]
            /\ regeneration' = Restrict(regeneration, DOMAIN regeneration \ {request})
            /\ pending' = Kept(pending, Range(pending) \ {request})
       ELSE /\ jobs' = IF request \in DOMAIN regeneration /\ regeneration[request] = j
                       THEN left ELSE Released(left, j)
            /\ UNCHANGED <<regeneration, pending>>
    /\ asleep' = asleep \ {w}

(***************************************************************************)
(* TakeRegeneration, CompleteRegeneration, NotifyWaiters.                  *)
(***************************************************************************)
TakeRegeneration ==
    /\ pending' = Tail(pending)
    /\ jobs' = [jobs EXCEPT ![regeneration[Head(pending)]].running = TRUE]
    /\ UNCHANGED <<regeneration, asleep>>

Completable(request) ==
    /\ request \in DOMAIN regeneration
    /\ jobs[regeneration[request]].running /\ ~ jobs[regeneration[request]].done

CompleteRegeneration(request) ==
    \/ /\ ~ Completable(request)
       /\ UNCHANGED <<cache, work>>
    \/ /\ Completable(request)
       /\ LET j == regeneration[request] IN
          \E c \in Unexpired :
            LET finished == [jobs EXCEPT ![j].done = TRUE, ![j].result = Match(c.entries, request)] IN
            /\ Retain(c)
            /\ jobs' = Released(finished, j)
            /\ regeneration' = IF jobs[j].waiters = 0
                               THEN Restrict(regeneration, DOMAIN regeneration \ {request})
                               ELSE regeneration
       /\ asleep' = {}
       /\ UNCHANGED <<point, ready, epoch, pending>>

NotifyWaiters == asleep' = {} /\ UNCHANGED <<cache, regeneration, jobs, pending>>

(***************************************************************************)
(* Invariants of the cache alone.                                          *)
(***************************************************************************)

(* Everything the cache can hand out was prepared at its present anchor in  *)
(* its present epoch, the results of finished jobs included: neither        *)
(* Activate at another point nor Invalidate leaves anything behind.         *)
AnchorConsistent ==
    /\ \A i \in 1 .. Len(entries) :
         ready /\ entries[i].point = point /\ entries[i].identity.epoch = epoch
    /\ \A r \in DOMAIN regeneration :
         /\ r.identity.epoch = epoch
         /\ jobs[regeneration[r]].result # NONE =>
              /\ jobs[regeneration[r]].result.identity = r.identity
              /\ jobs[regeneration[r]].result.point = point

(* The structures of the cache agree.  Publish, Erase, Expire and Clear     *)
(* keep it within its limits, with one entry per transaction (by_txid and   *)
(* entries), and the running count `bytes` never drifts from the sum of     *)
(* what is retained: max_bytes - bytes never wraps.  TakeRegeneration's     *)
(* regeneration.at finds the job of whatever it pops, each request is       *)
(* queued once, a job nobody has taken is still queued, and there are never *)
(* more than max_regenerations of them.                                     *)
CacheExact ==
    /\ Len(entries) <= MaxEntries /\ bytes <= MaxBytes /\ bytes = Total(entries)
    /\ \A t \in Txid : Cardinality(IndexOf(entries, t)) <= 1
    /\ IsInjective(pending)
    /\ Cardinality(DOMAIN regeneration) <= MaxRegenerations
    /\ \A r \in Range(pending) : r \in DOMAIN regeneration
    /\ \A r \in DOMAIN regeneration :
         LET j == jobs[regeneration[r]] IN
         j.request = r /\ (r \in Range(pending) <=> ~ j.running)
=============================================================================
