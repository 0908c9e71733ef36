------------------------------ MODULE ProofDisk ------------------------------
(***************************************************************************)
(* The two append-only files of the proof archive, proofs.dat (data) and   *)
(* index.wal (WAL), and what RecoverWal makes of them on the next open.    *)
(*                                                                         *)
(* A chain point (height, block hash) is the sequence of block labels from *)
(* the archive base up to it: a block hash commits to its ancestors, so    *)
(* equal hashes mean equal chains, the height is the length, and the       *)
(* ancestor at height h is the prefix of length h.  The base is <<>>.      *)
(*                                                                         *)
(* A file is a sequence of records; its length in records stands for its   *)
(* size in bytes, and every data record has size one.  A record that was   *)
(* only partly written, whether too short or of full size without its      *)
(* commit marker, is one torn record.                                      *)
(***************************************************************************)
EXTENDS Naturals, Sequences

CONSTANT Label          \* what tells blocks of equal height and parent apart

Chain == Seq(Label)
Base == <<>>
Height(p) == Len(p)
At(p, h) == SubSeq(p, 1, h)
Parent(p) == At(p, Height(p) - 1)
\* q is p or an ancestor of p.
IsAncestor(q, p) == Height(q) <= Height(p) /\ At(p, Height(q)) = q

-----------------------------------------------------------------------------
(* Records.                                                                *)

WalEvent == [kind : {"BASE", "CONNECT", "TRUNCATE", "TORN"}, point : Chain,
             previous_hash : Chain, data_offset : Nat]

BaseEvent ==
    [kind |-> "BASE", point |-> Base, previous_hash |-> Base, data_offset |-> 0]
ConnectEvent(p, offset) ==
    [kind |-> "CONNECT", point |-> p, previous_hash |-> Parent(p), data_offset |-> offset]
TruncateEvent(p, tip) ==
    [kind |-> "TRUNCATE", point |-> p, previous_hash |-> tip, data_offset |-> 0]
TornEvent ==
    [kind |-> "TORN", point |-> Base, previous_hash |-> Base, data_offset |-> 0]

DataRecord == [point : Chain, whole : BOOLEAN]
Payload(p) == [point |-> p, whole |-> TRUE]
TornPayload == [point |-> Base, whole |-> FALSE]

-----------------------------------------------------------------------------
(* Writes.  pwrite replaces the records after `end` and extends the file.  *)

Pwrite(file, end, recs) ==
    [i \in 1 .. (IF Len(file) > end + Len(recs) THEN Len(file) ELSE end + Len(recs)) |->
        IF i > end /\ i <= end + Len(recs) THEN recs[i - end] ELSE file[i]]

\* The file after a write of recs that stopped early: some records, and
\* possibly a torn one.
PartialWrites(file, end, recs, torn) ==
    {Pwrite(file, end, SubSeq(recs, 1, k)) : k \in 0 .. Len(recs) - 1}
      \cup {Pwrite(file, end, Append(SubSeq(recs, 1, k), torn)) : k \in 0 .. Len(recs) - 1}

\* The file after a power loss: the synchronized prefix, some of the records
\* after it in order, and possibly a torn one.
PowerLossImages(file, synced, torn) ==
    {SubSeq(file, 1, k) : k \in synced .. Len(file)}
      \cup {Append(SubSeq(file, 1, k), torn) : k \in synced .. Len(file) - 1}

-----------------------------------------------------------------------------
(* Recovery.  n is the number of records before a torn tail.               *)

IsPayload(e) == e.kind \in {"BASE", "CONNECT"}

\* Defect: the last record is always taken for a torn one.
ValidWalSizeDropsLast(w) == IF w # <<>> THEN Len(w) - 1 ELSE 0

ValidWalSize(w) ==
    IF w # <<>> /\ w[Len(w)].kind = "TORN" THEN Len(w) - 1 ELSE Len(w)

\* recovered_data_end after the first n records of w is e: the last payload
\* they refer to ends there (a TRUNCATE never gives data back).
PayloadEnd(w, n, e) ==
    \E j \in 1 .. n : /\ IsPayload(w[j])
                      /\ e = w[j].data_offset + 1
                      /\ \A k \in j + 1 .. n : ~IsPayload(w[k])

\* ValidateDataEnvelope: the payload the event refers to is there and is its own.
EnvelopeValid(d, e) ==
    e.data_offset < Len(d) /\ d[e.data_offset + 1] = Payload(e.point)

ConnectValid(w, d, i) ==
    /\ w[i].kind = "CONNECT"
    /\ Height(w[i].point) = Height(w[i - 1].point) + 1
    /\ w[i].previous_hash = w[i - 1].point
    /\ PayloadEnd(w, i - 1, w[i].data_offset)
    /\ EnvelopeValid(d, w[i])

TruncateValid(w, i) ==
    /\ w[i].kind = "TRUNCATE"
    /\ Height(w[i].point) < Height(w[i - 1].point)
    /\ w[i].previous_hash = w[i - 1].point
    /\ IsAncestor(w[i].point, w[i - 1].point)

\* The scan of RecoverWal accepts the first n records of w over data d.
WalValid(w, d, n) ==
    /\ n >= 1 /\ n <= Len(w)
    /\ w[1] = BaseEvent /\ EnvelopeValid(d, w[1])
    /\ \A i \in 2 .. n : ConnectValid(w, d, i) \/ TruncateValid(w, i)

Recoverable(w, d) == WalValid(w, d, ValidWalSize(w))

RecoveredTip(w) == w[ValidWalSize(w)].point

\* Defect: the last payload is taken for an uncommitted tail.
RecoveredDataEndShort(w, d) ==
    (CHOOSE e \in 0 .. Len(d) : PayloadEnd(w, ValidWalSize(w), e)) - 1

RecoveredDataEnd(w, d) == CHOOSE e \in 0 .. Len(d) : PayloadEnd(w, ValidWalSize(w), e)

\* Record j of w holds the index entry of height h after n records.
IndexedBy(w, n, h, j) ==
    /\ w[j].kind = "CONNECT" /\ Height(w[j].point) = h
    /\ \A k \in j + 1 .. n : w[k].kind = "CONNECT" => Height(w[k].point) # h

\* The height index rebuilt from the first n records: data offsets by height.
IndexOf(w, n) ==
    [h \in 1 .. Height(w[n].point) |-> w[CHOOSE j \in 1 .. n : IndexedBy(w, n, h, j)].data_offset]
=============================================================================
