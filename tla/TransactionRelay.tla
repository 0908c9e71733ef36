--------------------------- MODULE TransactionRelay ---------------------------
(***************************************************************************)
(* TransactionRelay (src/transaction_relay.cpp) on the synchronizing       *)
(* thread, over a Core whose tip and mempool change between any two RPCs,  *)
(* and the peer threads of P2PServer (src/p2p.cpp, ClientLoop) that        *)
(* announce transactions and answer getdata from the cache.                *)
(*                                                                         *)
(* Simplifications.  An RPC and the local computation after it are one     *)
(* step.  The forest proves exactly at sync_point, which only this thread  *)
(* changes.  A digest does not depend on the tip: the case in which only   *)
(* the epoch tells two preparations apart.  The scan cursor of the         *)
(* recovery, and the announcement cursor and pacing of a peer, are choices.*)
(* A getdata message carries one request.  The limits a peer shares with   *)
(* the others (proof work, egress) are in P2PServer; here they are         *)
(* reasons why a connection may end (PeerDrops).                           *)
(***************************************************************************)
EXTENDS TransactionCache

CONSTANTS
    RegenerationsPerPoll,   \* the bound 4 of Poll
    BatchSize,              \* config.batch_size of a recovery
    MaxChanges,             \* bound on the changes of Core's tip
    MaxFaults,              \* bound on the RPC failures
    MaxIncoming,            \* bound on the transactions one Poll is handed
    MaxMempool              \* bound on the changes of Core's mempool

ASSUME RelayConfig == RegenerationsPerPoll \in Nat

VARIABLES
    tip, mempool,           \* Core: best block; txid -> digest or NONE
    changes, faults, churn, \* what is used of the bounds
    sync_point,             \* SequentialSync::CurrentPoint
    relay,                  \* the synchronizing thread
    peer,                   \* the connections
    stopping

core == <<tip, mempool, changes, churn>>
vars == <<cache, work, core, faults, sync_point, relay, peer, stopping>>

Peer == Waiter

Top == [pc |-> "sync", request |-> NONE, todo |-> {}, tx |-> NONE, regenerated |-> 0]

\* A connection before its handshake; `told` is history: what it was offered.
Off == [pc |-> "off", tx_epoch |-> -1, announced |-> [t \in Txid |-> NONE], truncated |-> FALSE,
        txid |-> NONE, entry |-> NONE, job |-> 0, told |-> {}]

RelayInit ==
    /\ Init
    /\ tip \in Tip /\ mempool \in [Txid -> Digest]
    /\ changes = 0 /\ faults = 0 /\ churn = 0
    /\ sync_point = tip
    /\ relay = Top
    /\ peer = [p \in Peer |-> Off]
    /\ stopping = FALSE

(***************************************************************************)
(* Core.                                                                   *)
(***************************************************************************)
TipChanges ==
    /\ changes < MaxChanges /\ changes' = changes + 1
    /\ \E t \in Tip \ {tip} : tip' = t
    /\ UNCHANGED <<cache, work, mempool, churn, faults, sync_point, relay, peer, stopping>>

MempoolChanges ==
    /\ churn < MaxMempool /\ churn' = churn + 1
    /\ \E t \in Txid, d \in Digest \cup {NONE} : d # mempool[t] /\ mempool' = [mempool EXCEPT ![t] = d]
    /\ UNCHANGED <<cache, work, tip, changes, faults, sync_point, relay, peer, stopping>>

(***************************************************************************)
(* The synchronizing thread: catch up with Core (sync.SetBeforeMutation    *)
(* withdraws the cache first), then Poll.                                  *)
(***************************************************************************)
Quiet == UNCHANGED <<core, faults, sync_point, peer, stopping>>
At(step) == relay.pc = step
Goto(step) == relay' = [relay EXCEPT !.pc = step]

CatchUpWithoutWithdrawal ==
    /\ At("sync") /\ tip # sync_point
    /\ sync_point' = tip
    /\ UNCHANGED <<cache, work, core, faults, relay, peer, stopping>>

CatchUp ==
    /\ At("sync") /\ tip # sync_point
    /\ Invalidate /\ sync_point' = tip
    /\ UNCHANGED <<core, faults, relay, peer, stopping>>

CaughtUp ==
    /\ At("sync") /\ tip = sync_point /\ ~ stopping
    /\ Goto("poll")
    /\ UNCHANGED <<cache, work>> /\ Quiet

\* Every failure inside Poll withdraws what is published.
PollGivesUp == UNCHANGED <<cache, work>> /\ relay' = Top
PollFails == Invalidate /\ relay' = Top

\* An RPC may fail in any step that makes one.
Rpc == {"poll", "raw", "member", "inputs", "anchor", "again", "recover", "last"}
RpcFails ==
    /\ relay.pc \in Rpc
    /\ faults < MaxFaults /\ faults' = faults + 1
    /\ PollFails
    /\ UNCHANGED <<core, sync_point, peer, stopping>>

CheckTipFails ==
    /\ relay.pc \in {"poll", "anchor", "last"} /\ tip # sync_point
    /\ PollFails /\ Quiet

PollActivates ==
    /\ At("poll") /\ tip = sync_point
    /\ Activate(sync_point) /\ Goto("regenerate") /\ Quiet

\* At most RegenerationsPerPoll requests, then what Core's peer handed in.
Take ==
    /\ At("regenerate") /\ pending # <<>> /\ relay.regenerated < RegenerationsPerPoll
    /\ TakeRegeneration
    /\ LET request == Head(pending) IN
       \E c \in Unexpired :
         /\ Retain(c)
         /\ relay' = [relay EXCEPT !.regenerated = @ + 1, !.request = request,
                        !.tx = [txid |-> request.txid, digest |-> NONE],
                        !.pc = IF Match(c.entries, request) # NONE THEN "complete" ELSE "raw"]
    /\ UNCHANGED <<point, ready, epoch>> /\ Quiet

TakenAll ==
    /\ At("regenerate") /\ (pending = <<>> \/ relay.regenerated >= RegenerationsPerPoll)
    /\ \E incoming \in SUBSET [txid : Txid, digest : Digest] :
         /\ Cardinality(incoming) <= MaxIncoming
         /\ relay' = [relay EXCEPT !.pc = "incoming", !.todo = incoming]
    /\ UNCHANGED <<cache, work>> /\ Quiet

Complete ==
    /\ At("complete")
    /\ CompleteRegeneration(relay.request)
    /\ relay' = [relay EXCEPT !.pc = "regenerate", !.request = NONE, !.tx = NONE]
    /\ Quiet

\* The next transaction of the batch that the cache does not have.
NextTransaction ==
    /\ At("incoming") /\ relay.todo # {}
    /\ \E tx \in relay.todo, c \in Unexpired :
         /\ Retain(c)
         /\ relay' = [relay EXCEPT !.todo = @ \ {tx}, !.tx = tx,
                        !.pc = IF tx.digest = NONE THEN "raw"
                               ELSE IF Has(c.entries, tx.txid) THEN "incoming" ELSE "member"]
    /\ UNCHANGED <<point, ready, epoch, work>> /\ Quiet

\* RecoveryCandidates runs when nothing was regenerated and its time has come;
\* it erases what left the mempool.
Recover ==
    /\ At("incoming") /\ relay.todo = {} /\ relay.regenerated = 0
    /\ Goto("recover")
    /\ UNCHANGED <<cache, work>> /\ Quiet

RecoveryCandidates ==
    /\ At("recover")
    /\ \E c \in Unexpired :
         /\ Retain(Erase(c, {t \in Txid : mempool[t] = NONE}))
         /\ \E batch \in SUBSET {t \in Txid : mempool[t] # NONE /\ ~ Has(c.entries, t)} :
              /\ Cardinality(batch) <= BatchSize
              /\ relay' = [relay EXCEPT !.pc = "incoming", !.regenerated = RegenerationsPerPoll,
                             !.todo = {[txid |-> t, digest |-> NONE] : t \in batch}]
    /\ UNCHANGED <<point, ready, epoch, work>> /\ Quiet

Finish ==
    /\ At("incoming") /\ relay.todo = {}
    /\ Goto("last")
    /\ UNCHANGED <<cache, work>> /\ Quiet

PollReturns ==
    /\ At("last") /\ tip = sync_point
    /\ relay' = Top
    /\ UNCHANGED <<cache, work>> /\ Quiet

(***************************************************************************)
(* PrepareById and Prepare of relay.tx, one step per RPC.                  *)
(***************************************************************************)
Prepared == IF relay.request = NONE THEN "incoming" ELSE "complete"

\* Prepare returns Ok(false): the transaction is not in the mempool (any more).
NotPrepared ==
    /\ \/ relay.pc \in {"raw", "member"} /\ mempool[relay.tx.txid] = NONE
       \/ At("inputs")      \* an unconfirmed parent has left the mempool
       \/ At("again") /\ mempool[relay.tx.txid] # relay.tx.digest
    /\ Goto(Prepared)
    /\ UNCHANGED <<cache, work>> /\ Quiet

RawTransaction ==
    /\ At("raw") /\ mempool[relay.tx.txid] # NONE
    /\ relay' = [relay EXCEPT !.pc = "member", !.tx.digest = mempool[relay.tx.txid]]
    /\ UNCHANGED <<cache, work>> /\ Quiet

\* The witness identity differs from the one relayed, or the metadata of a
\* confirmed input is anchored at another tip.
PrepareFails ==
    /\ \/ At("member") /\ mempool[relay.tx.txid] \notin {NONE, relay.tx.digest}
       \/ At("inputs") /\ tip # sync_point
    /\ PollFails /\ Quiet

MempoolMember ==
    /\ At("member") /\ mempool[relay.tx.txid] = relay.tx.digest
    /\ Goto("inputs")
    /\ UNCHANGED <<cache, work>> /\ Quiet

\* gettxout of each input; with no confirmed input the tip is not looked at.
Inputs ==
    /\ At("inputs")
    /\ Goto("anchor")
    /\ UNCHANGED <<cache, work>> /\ Quiet

AnchorHolds ==
    /\ At("anchor") /\ tip = sync_point
    /\ Goto("again")
    /\ UNCHANGED <<cache, work>> /\ Quiet

MemberAgain ==
    /\ At("again") /\ mempool[relay.tx.txid] = relay.tx.digest
    /\ Goto("publish")
    /\ UNCHANGED <<cache, work>> /\ Quiet

PublishPrepared ==
    /\ At("publish")
    /\ Publish(sync_point, relay.tx.txid, relay.tx.digest)
    /\ Goto(Prepared) /\ Quiet

(***************************************************************************)
(* A peer: announcements.                                                  *)
(***************************************************************************)
Still == UNCHANGED <<core, faults, sync_point, relay, stopping>>
Be(p, s) == peer' = [peer EXCEPT ![p] = s]
Step(p, step) == Be(p, [peer[p] EXCEPT !.pc = step])
HangUp(p) == Be(p, Off)

PeerConnects(p) ==
    /\ peer[p].pc = "off" /\ ~ stopping
    /\ Step(p, "idle")
    /\ UNCHANGED <<cache, work>> /\ Still

PeerDrops(p) ==
    /\ peer[p].pc \in {"idle", "announce", "work", "send", "notfound"}
    /\ HangUp(p)
    /\ UNCHANGED <<cache, work>> /\ Still

\* A new epoch under a connection that was offered something ends it.
PeerSeesEpoch(p) ==
    /\ peer[p].pc = "idle" /\ ~ stopping
    /\ IF epoch # peer[p].tx_epoch /\ \E t \in Txid : peer[p].announced[t] # NONE
       THEN HangUp(p)
       ELSE Be(p, [peer[p] EXCEPT !.tx_epoch = epoch, !.pc = "announce"])
    /\ UNCHANGED <<cache, work>> /\ Still

AnnouncedSilently(s, e) ==
    LET known == {t \in Txid : s.announced[t] # NONE}
        full == e.txid \notin known /\ Cardinality(known) >= MaxEntries
        dropped == IF full THEN {CHOOSE t \in known : TRUE} ELSE {}
    IN [s EXCEPT !.announced = [t \in Txid |-> IF t = e.txid THEN e.identity
                                               ELSE IF t \in dropped THEN NONE ELSE @[t]],
                 !.told = @ \cup {e.txid}]

\* The bounded history of a connection after one more announcement.
Announced(s, e) ==
    LET known == {t \in Txid : s.announced[t] # NONE}
        full == e.txid \notin known /\ Cardinality(known) >= MaxEntries
        \* announced_transactions.begin(): which one depends on the hashes.
        dropped == IF full THEN {CHOOSE t \in known : TRUE} ELSE {}
    IN [s EXCEPT !.announced = [t \in Txid |-> IF t = e.txid THEN e.identity
                                               ELSE IF t \in dropped THEN NONE ELSE @[t]],
                 !.truncated = @ \/ full,
                 !.told = @ \cup {e.txid}]

\* One batch of announcements, in the order of the cache.
AnnouncedAll(s, offered) ==
    LET after[n \in 0 .. Len(offered)] ==
          IF n = 0 THEN s ELSE Announced(after[n - 1], offered[n])
    IN after[Len(offered)]

\* AnnouncementsAfter the cursor, for the epoch the connection knows.
PeerAnnounces(p) ==
    /\ peer[p].pc = "announce"
    /\ \E c \in Unexpired :
         /\ Retain(c)
         /\ \E i \in 1 .. (Len(c.entries) + 1), j \in 0 .. Len(c.entries) :
              LET offered == IF ready /\ epoch = peer[p].tx_epoch
                             THEN SubSeq(c.entries, i, j) ELSE <<>>
                  changed == \E k \in 1 .. Len(offered) :
                               peer[p].announced[offered[k].txid] \notin {NONE, offered[k].identity}
              IN IF changed THEN HangUp(p)
                 ELSE Be(p, [AnnouncedAll(peer[p], offered) EXCEPT !.pc = "idle"])
    /\ UNCHANGED <<point, ready, epoch, work>> /\ Still

(***************************************************************************)
(* A peer: getdata.                                                        *)
(***************************************************************************)
Identified(p) == Request(peer[p].txid, peer[p].announced[peer[p].txid])

PeerRequests(p) ==
    /\ peer[p].pc = "idle" /\ ~ stopping
    /\ \E t \in Txid :
         IF peer[p].announced[t] = NONE
         THEN IF peer[p].truncated THEN HangUp(p)
              ELSE Be(p, [peer[p] EXCEPT !.pc = "notfound", !.txid = t])
         ELSE Be(p, [peer[p] EXCEPT !.pc = "find", !.txid = t])
    /\ UNCHANGED <<cache, work>> /\ Still

\* FindMatching, and the same lookup at the start of WaitFor.
PeerFinds(p) ==
    /\ peer[p].pc \in {"find", "wait"}
    /\ \E c \in Unexpired :
         /\ Retain(c)
         /\ LET entry == Match(c.entries, Identified(p)) IN
            IF entry # NONE THEN Be(p, [peer[p] EXCEPT !.pc = "check", !.entry = entry])
            ELSE peer[p].pc = "find" /\ Step(p, "wait")
    /\ UNCHANGED <<point, ready, epoch, work>> /\ Still

\* No match: refuse (also because the deadline has passed), join or queue.
PeerRefused(p) ==
    /\ peer[p].pc = "wait"
    /\ \E c \in Unexpired :
         Retain(c) /\ Match(c.entries, Identified(p)) = NONE
    /\ Step(p, "check")
    /\ UNCHANGED <<point, ready, epoch, work>> /\ Still

PeerWaits(p) ==
    /\ peer[p].pc = "wait" /\ ~ Refused(Identified(p), stopping)
    /\ \E c \in Unexpired :
         Retain(c) /\ Match(c.entries, Identified(p)) = NONE
    /\ WaitBegin(p, Identified(p))
    /\ Be(p, [peer[p] EXCEPT !.pc = "waiting", !.job = Joined(Identified(p))])
    /\ UNCHANGED <<point, ready, epoch>> /\ Still

Return(p) ==
    /\ Be(p, [peer[p] EXCEPT !.pc = "check", !.job = 0,
                !.entry = WaitResult(peer[p].job, Identified(p), stopping)])
    /\ WaitEnd(p, peer[p].job, Identified(p))

PeerWakes(p) ==
    /\ peer[p].pc = "waiting" /\ p \notin asleep
    /\ IF WaitOver(peer[p].job, Identified(p), stopping)
       THEN Return(p)
       ELSE asleep' = asleep \cup {p} /\ UNCHANGED <<regeneration, jobs, pending, peer>>
    /\ UNCHANGED cache /\ Still

PeerTimesOut(p) ==
    /\ peer[p].pc = "waiting"
    /\ Return(p)
    /\ UNCHANGED cache /\ Still

\* Shutdown, a changed anchor and a missing proof all end the connection.
PeerChecks(p) ==
    /\ peer[p].pc = "check"
    /\ IF stopping \/ epoch # Identified(p).identity.epoch \/ peer[p].entry = NONE
       THEN HangUp(p) ELSE Step(p, "work")
    /\ UNCHANGED <<cache, work>> /\ Still

\* With proof work and egress in hand, the anchor is checked once more.
PeerRechecks(p) ==
    /\ peer[p].pc = "work"
    /\ IF ~ ready \/ epoch # peer[p].entry.identity.epoch THEN HangUp(p) ELSE Step(p, "send")
    /\ UNCHANGED <<cache, work>> /\ Still

PeerSends(p) ==
    /\ peer[p].pc \in {"send", "notfound"}
    /\ Be(p, [peer[p] EXCEPT !.pc = "idle", !.txid = NONE, !.entry = NONE])
    /\ UNCHANGED <<cache, work>> /\ Still

PeerSeesStop(p) ==
    /\ peer[p].pc = "idle" /\ stopping
    /\ HangUp(p)
    /\ UNCHANGED <<cache, work>> /\ Still

PeerStep(p) ==
    \/ PeerSeesEpoch(p) \/ PeerAnnounces(p) \/ PeerFinds(p) \/ PeerRefused(p) \/ PeerWaits(p)
    \/ PeerWakes(p) \/ PeerChecks(p) \/ PeerRechecks(p) \/ PeerSends(p) \/ PeerSeesStop(p)

(***************************************************************************)
(* Shutdown: the main thread leaves its loop and destroys the server, whose *)
(* RequestStop publishes `stopping` and then notifies.                     *)
(***************************************************************************)
Shutdown ==
    /\ At("sync") /\ ~ stopping
    /\ stopping' = TRUE /\ Goto("notify")
    /\ UNCHANGED <<cache, work, core, faults, sync_point, peer>>

StopNotifiesNobody ==
    /\ At("notify")
    /\ UNCHANGED <<cache, work>> /\ Goto("join") /\ Quiet

StopNotifies ==
    /\ At("notify")
    /\ NotifyWaiters /\ Goto("join") /\ Quiet

Stopped ==
    /\ At("join") /\ \A p \in Peer : peer[p].pc = "off"
    /\ UNCHANGED vars

RelayStep ==
    \/ CatchUp \/ CaughtUp \/ RpcFails \/ CheckTipFails \/ PollActivates \/ Take \/ TakenAll
    \/ Complete \/ NextTransaction \/ Recover \/ RecoveryCandidates \/ Finish \/ PollReturns
    \/ NotPrepared \/ RawTransaction \/ PrepareFails \/ MempoolMember \/ Inputs
    \/ AnchorHolds \/ MemberAgain \/ PublishPrepared

Next ==
    \/ TipChanges \/ MempoolChanges \/ RelayStep
    \/ \E p \in Peer : PeerStep(p) \/ PeerConnects(p) \/ PeerRequests(p) \/ PeerDrops(p) \/ PeerTimesOut(p)
    \/ Shutdown \/ StopNotifies \/ Stopped

Spec == RelayInit /\ [][Next]_vars

(* The scheduler runs the synchronizing thread and every peer thread; the   *)
(* synchronizing thread polls again and again until it is told to stop.     *)
(* Nothing is assumed of Core, of deadlines or of what peers send.          *)
FairSpec ==
    /\ Spec
    /\ WF_vars(RelayStep) /\ WF_vars(StopNotifies)
    /\ \A p \in Peer : WF_vars(PeerStep(p))

(* The cache is never ready for a point the accumulator has left, and it is *)
(* ready for the accumulator's point throughout a Poll: Publish is never    *)
(* refused because the anchor changed during preparation.                   *)
AnchoredAtSyncPoint ==
    /\ ready => point = sync_point
    /\ relay.pc \notin {"sync", "poll", "notify", "join"} => ready

(* What is sent to a peer is the preparation the peer was offered, of the   *)
(* transaction it asked for: regeneration, a tip change during the wait or  *)
(* a changed witness never substitutes another one.                         *)
ServedAsAnnounced ==
    \A p \in Peer : peer[p].pc = "send" =>
        /\ peer[p].entry.txid = peer[p].txid
        /\ peer[p].entry.identity = peer[p].announced[peer[p].txid]

(* Identities with one epoch stand for proofs at one chain point, also for  *)
(* the entries peers still hold after the cache has let go of them.         *)
EpochIsAnchor ==
    \A p \in Peer : peer[p].entry # NONE =>
        /\ peer[p].entry.identity.epoch <= epoch
        /\ peer[p].entry.identity.epoch = epoch /\ point # NONE => peer[p].entry.point = point
        /\ \A q \in Peer : peer[q].entry # NONE =>
             (peer[p].entry.identity.epoch = peer[q].entry.identity.epoch =>
                peer[p].entry.point = peer[q].entry.point)

(* notfound is never the answer for a transaction this connection offered,  *)
(* even after its bounded history has forgotten it.                         *)
NoFalseNotFound ==
    \A p \in Peer : peer[p].pc = "notfound" => peer[p].txid \notin peer[p].told

(* The waiters of a job are the peers waiting on it, and between two Polls  *)
(* no job is left marked as running: nobody would ever finish it.           *)
NoOrphanedJob ==
    /\ \A j \in Job : jobs[j].waiters = Cardinality({p \in Peer : peer[p].job = j})
    /\ relay.request = NONE =>
         \A j \in Range(regeneration) : jobs[j].running => jobs[j].done

(* A peer inside WaitFor returns, without the help of its deadline: its job *)
(* is taken, the epoch ends, or shutdown wakes it.                          *)
WaitForReturns ==
    \A p \in Peer : (peer[p].pc = "waiting") ~> (peer[p].pc # "waiting")

(* Once shutdown is requested every connection ends.                        *)
ShutdownCompletes == stopping ~> \A p \in Peer : peer[p].pc = "off"
=============================================================================
