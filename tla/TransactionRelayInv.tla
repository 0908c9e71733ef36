-------------------------- MODULE TransactionRelayInv --------------------------
(***************************************************************************)
(* The inductive invariant of TransactionRelay: what has to hold between   *)
(* the synchronizing thread, the peers inside WaitFor and the job objects  *)
(* they share, so that every safety property of the cache and of the relay *)
(* is preserved by every step.                                             *)
(***************************************************************************)
EXTENDS TransactionRelay

JobObject ==
    [request : Req \cup {NONE}, waiters : Nat, running : BOOLEAN, done : BOOLEAN,
     result : Entry \cup {NONE}]
Item == [txid : Txid, digest : Digest \cup {NONE}]
Preparing == {"raw", "member", "inputs", "anchor", "again", "publish"}
Polling == {"regenerate", "complete", "incoming", "recover", "last"} \cup Preparing
RelayPc == {"sync", "poll", "notify", "join"} \cup Polling
RelayState ==
    [pc : RelayPc, request : Req \cup {NONE}, todo : SUBSET Item, tx : Item \cup {NONE},
     regenerated : Nat]
Holding == {"check", "work", "send"}
PeerState ==
    [pc : {"off", "idle", "announce", "notfound", "find", "wait", "waiting"} \cup Holding,
     tx_epoch : Int, announced : [Txid -> Id \cup {NONE}], truncated : BOOLEAN,
     txid : Txid \cup {NONE}, entry : Entry \cup {NONE}, job : Job \cup {0}, told : SUBSET Txid]

CacheType ==
    /\ point \in Tip \cup {NONE} /\ ready \in BOOLEAN /\ epoch \in Nat
    /\ entries \in Seq(Entry)

WorkType ==
    /\ regeneration \in [DOMAIN regeneration -> Job] /\ DOMAIN regeneration \subseteq Req
    /\ IsFiniteSet(DOMAIN regeneration)
    /\ jobs \in [Job -> JobObject] /\ pending \in Seq(Req)

RelayType ==
    /\ tip \in Tip /\ sync_point \in Tip /\ mempool \in [Txid -> Digest \cup {NONE}]
    /\ relay \in RelayState

\* Where the synchronizing thread is, what it has in hand, and the anchor.
RelayControl ==
    /\ point \in {NONE, sync_point} /\ (ready => point # NONE)
    /\ relay.pc \in Polling => ready
    /\ relay.pc \in Preparing => relay.tx \in Item
    /\ relay.pc \in Preparing \ {"raw"} => relay.tx.digest # NONE
    /\ relay.pc \notin Preparing \cup {"complete"} => relay.request = NONE
    /\ relay.pc = "complete" => relay.request # NONE

\* What a connection that is being answered remembers of the request.
PeerControl(s) ==
    /\ s.pc \in {"find", "wait", "waiting"} \cup Holding =>
         s.txid \in Txid /\ s.announced[s.txid] # NONE
    /\ s.job # 0 <=> s.pc = "waiting"
    /\ s.entry # NONE => /\ s.pc \in Holding /\ s.entry.txid = s.txid
                         /\ s.entry.identity = s.announced[s.txid]
    /\ s.pc \in {"work", "send"} => s.entry # NONE

\* Until the history of a connection is truncated it knows all it was told.
PeerHistory(s) ==
    /\ ~ s.truncated => \A t \in s.told : s.announced[t] # NONE
    /\ s.pc = "notfound" => s.txid \in Txid /\ s.txid \notin s.told

PeersInv ==
    peer \in [Peer -> PeerState] /\ \A p \in Peer : PeerControl(peer[p]) /\ PeerHistory(peer[p])

\* A job is the job of its request: for those who wait for it, for the map,
\* and for the relay that works on it.
Answers(job) ==
    job.result # NONE =>
        /\ job.request # NONE
        /\ job.result.txid = job.request.txid /\ job.result.identity = job.request.identity
JobsInv ==
    /\ \A p \in Peer : peer[p].pc = "waiting" => jobs[peer[p].job].request = Identified(p)
    /\ \A j \in Job :
         /\ jobs[j].waiters = Cardinality({p \in Peer : peer[p].job = j})
         /\ jobs[j] = FREE \/ jobs[j].waiters > 0 \/ j \in Range(regeneration)
         /\ Answers(jobs[j])

MapInv ==
    /\ Cardinality(DOMAIN regeneration) <= MaxRegenerations
    /\ \A r \in DOMAIN regeneration :
         LET j == jobs[regeneration[r]] IN
         /\ r.identity.epoch = epoch /\ j.request = r
         /\ r \in Range(pending) <=> ~ j.running
         /\ j.running /\ ~ j.done => relay.request = r
    /\ IsInjective(pending) /\ Range(pending) \subseteq DOMAIN regeneration

\* Every proof anybody holds: the cache, a finished job, a peer.
Held ==
    Range(entries) \cup ({jobs[j].result : j \in Job} \ {NONE})
                   \cup ({peer[p].entry : p \in Peer} \ {NONE})
HeldInv ==
    /\ \A e \in Held :
         /\ e.identity.epoch <= epoch
         /\ e.identity.epoch = epoch => e.point = point
         /\ \A f \in Held : e.identity.epoch = f.identity.epoch => e.point = f.point
    /\ \A e \in Range(entries) : ready /\ e.identity.epoch = epoch

Distinct(es) == \A i, k \in 1 .. Len(es) : es[i].txid = es[k].txid => i = k
EntriesInv ==
    /\ Len(entries) <= MaxEntries /\ bytes = Total(entries) /\ bytes <= MaxBytes
    /\ Distinct(entries)

(* The invariant: types, control, jobs, map, what is held, and the limits.  *)
RelayInv ==
    /\ CacheType /\ WorkType /\ RelayType /\ RelayControl /\ PeersInv
    /\ JobsInv /\ MapInv /\ HeldInv /\ EntriesInv
=============================================================================
