-------------------------- MODULE ProofStoreLemmas ---------------------------
(*****************************************************************************)
(* Facts about chains, files and good WAL records, for every value of the    *)
(* constants, and the proof that IndInv is an inductive invariant: every     *)
(* step of ProofStore from a state of IndInv leads to a state of TypeOK, and *)
(* preserves PipeInv (each block between the tips is in one place of the     *)
(* pipeline), CtlInv (where the threads can be), CreateInv (creation of the  *)
(* base record), DiskInv (every WAL record a crash can leave is good) and    *)
(* EndInv (the open store's tip, ends and index are those of the WAL), for   *)
(* every number of serializers, every configuration, crash and fault.        *)
(*****************************************************************************)
EXTENDS ProofStoreInv, TLAPS

-----------------------------------------------------------------------------
(* Lengths and positions of the files and queues, as numbers.              *)

\* An empty batch or queue is a sequence.
LEMMA EmptyIsSeq ==
    ASSUME NEW S
    PROVE  <<>> \in Seq(S)
OBVIOUS

\* The length of a file or queue, which a completed fsync makes its synced length.
LEMMA LenWithin ==
    ASSUME NEW S, NEW f \in Seq(S)
    PROVE  Len(f) \in Nat /\ Len(f) \in 0 .. Len(f)
OBVIOUS

\* A file that has grown still holds its synced prefix.
LEMMA Longer ==
    ASSUME NEW S, NEW f \in Seq(S), NEW g \in Seq(S), Len(g) >= Len(f), NEW n \in 0 .. Len(f)
    PROVE  n \in 0 .. Len(g)
OBVIOUS

\* An offset within a file, and the records before it.
LEMMA Within ==
    ASSUME NEW n \in Nat, NEW k \in 0 .. n
    PROVE  k \in Nat /\ k <= n /\ \A i \in 1 .. k : i \in 1 .. n /\ i \in Nat
OBVIOUS

\* A record's position in a file, and the records up to it.
LEMMA UpTo ==
    ASSUME NEW n \in Nat, NEW k \in 1 .. n
    PROVE  /\ k \in Nat /\ k >= 1 /\ k <= n /\ k \in 1 .. k /\ k \in 0 .. n
           /\ \A i \in 1 .. k : i \in 1 .. n /\ i \in Nat
OBVIOUS

\* A record added to a file of n records, and one beyond the first n.
LEMMA Added ==
    ASSUME NEW n \in Nat
    PROVE  /\ n + 1 \in Nat /\ \A i \in 1 .. n + 1 : i \in 1 .. n \/ i = n + 1
           /\ \A k \in Nat : \A i \in 1 .. n + k : i > n => i - n \in 1 .. k /\ i = n + (i - n)
OBVIOUS

\* Two lengths that grow together keep their difference, and can be compared.
LEMMA Lengths ==
    ASSUME NEW m \in Nat, NEW n \in Nat
    PROVE  (m + 1) - (n + 1) = m - n /\ (m <= n \/ m > n)
OBVIOUS

\* The only record of a file of one record, written at offset 0, is its last.
LEMMA OneRecord == 1 \in 1 .. 1 /\ 1 = 0 + 1 /\ \A k : k \notin 1 + 1 .. 1
OBVIOUS

\* A batch taken from the ready map has as many blocks as were taken.
LEMMA TakenLen ==
    ASSUME NEW n \in Nat, NEW h
    PROVE  LET taken == [i \in 1 .. n |-> ReadyAt(h + i)]
           IN  Len(taken) = n /\ \A i \in 1 .. n : taken[i] = ReadyAt(h + i)
OBVIOUS

\* Both files, their synced lengths and the ends the store appends at.
LEMMA FileTypes ==
    ASSUME TypeOK
    PROVE  /\ data \in Seq(DataRecord) /\ Len(data) \in Nat /\ data_end \in Nat
           /\ data_synced \in Nat /\ data_synced <= Len(data)
           /\ data_synced >= data_synced /\ Len(data) >= data_synced /\ data_synced <= data_synced
           /\ wal \in Seq(WalEvent) /\ Len(wal) \in Nat /\ wal_end \in Nat
           /\ wal_synced \in Nat /\ wal_synced <= Len(wal)
<1>1. /\ data \in Seq(DataRecord) /\ data_synced \in 0 .. Len(data) /\ data_end \in Nat
      /\ wal \in Seq(WalEvent) /\ wal_synced \in 0 .. Len(wal) /\ wal_end \in Nat
  BY Zenon DEF TypeOK
<1> QED
  BY ONLY <1>1

-----------------------------------------------------------------------------
(* Chains.                                                                 *)

\* The ancestor of p at height h is a chain of that height.
LEMMA AtType ==
    ASSUME NEW p \in Chain, NEW h \in 0 .. Height(p)
    PROVE  At(p, h) \in Chain /\ Height(At(p, h)) = h
BY DEF Chain, Height, At

\* A point is its own ancestor at its own height.
LEMMA AtSelf ==
    ASSUME NEW p \in Chain
    PROVE  At(p, Height(p)) = p
BY DEF Chain, Height, At

\* Ancestors of ancestors.
LEMMA AtAt ==
    ASSUME NEW p \in Chain, NEW h \in 0 .. Height(p), NEW g \in 0 .. h
    PROVE  At(At(p, h), g) = At(p, g)
BY DEF Chain, Height, At

\* A block on top of p has the ancestors of p.
LEMMA AtAppend ==
    ASSUME NEW p \in Chain, NEW l \in Label
    PROVE  /\ Append(p, l) \in Chain
           /\ Height(Append(p, l)) = Height(p) + 1
           /\ \A h \in 0 .. Height(p) : At(Append(p, l), h) = At(p, h)
BY DEF Chain, Height, At

\* Base is the only chain of height zero and an ancestor of all.
LEMMA BaseFacts ==
    /\ Base \in Chain /\ Height(Base) = 0
    /\ \A p \in Chain : Height(p) \in Nat /\ At(p, 0) = Base /\ (Height(p) = 0 => p = Base)
BY DEF Chain, Height, At, Base

\* Ancestry is transitive and agrees on lower heights.
LEMMA AncestorTrans ==
    ASSUME NEW p \in Chain, NEW q \in Chain, NEW r \in Chain,
           IsAncestor(p, q), IsAncestor(q, r)
    PROVE  IsAncestor(p, r)
<1>1. Height(p) \in 0 .. Height(q) /\ Height(q) \in 0 .. Height(r)
  BY BaseFacts DEF IsAncestor
<1>2. At(At(r, Height(q)), Height(p)) = At(r, Height(p))
  BY <1>1, AtAt, Zenon
<1> QED
  <2>1. Height(p) <= Height(r)
    BY <1>1, BaseFacts
  <2>2. At(r, Height(p)) = p
    BY <1>2, Zenon DEF IsAncestor
  <2> QED
    BY <2>1, <2>2, Zenon DEF IsAncestor

\* Below an ancestor's height a chain has the same points as the ancestor.
LEMMA AncestorAt ==
    ASSUME NEW p \in Chain, NEW q \in Chain, IsAncestor(q, p), NEW h \in 0 .. Height(q)
    PROVE  At(q, h) = At(p, h)
<1>1. Height(q) \in 0 .. Height(p) /\ At(p, Height(q)) = q
  BY BaseFacts DEF IsAncestor
<1> QED
  BY <1>1, AtAt, Zenon

\* The prefixes of a chain are its ancestors.
LEMMA AtIsAncestor ==
    ASSUME NEW p \in Chain, NEW h \in 0 .. Height(p)
    PROVE  IsAncestor(At(p, h), p)
BY AtType, BaseFacts DEF IsAncestor

-----------------------------------------------------------------------------
(* Files.                                                                  *)

\* What a write at the end of, or inside, a file makes of it.
LEMMA PwriteFacts ==
    ASSUME NEW S, NEW file \in Seq(S), NEW recs \in Seq(S), NEW end \in 0 .. Len(file)
    PROVE  /\ Pwrite(file, end, recs) \in Seq(S)
           /\ Len(Pwrite(file, end, recs)) >= Len(file)
           /\ Len(Pwrite(file, end, recs)) >= end + Len(recs)
           /\ end = Len(file) => Len(Pwrite(file, end, recs)) = end + Len(recs)
           /\ \A i \in 1 .. end : Pwrite(file, end, recs)[i] = file[i]
           /\ \A i \in 1 .. Len(recs) : Pwrite(file, end, recs)[end + i] = recs[i]
<1> DEFINE m == IF Len(file) > end + Len(recs) THEN Len(file) ELSE end + Len(recs)
           f == [i \in 1 .. m |-> IF i > end /\ i <= end + Len(recs) THEN recs[i - end] ELSE file[i]]
<1>1. m \in Nat /\ m >= Len(file) /\ m >= end + Len(recs) /\ (end = Len(file) => m = end + Len(recs))
  OBVIOUS
<1>2. \A i \in 1 .. m : f[i] \in S
  OBVIOUS
<1>3. f \in Seq(S) /\ Len(f) = m
  BY <1>1, <1>2
<1>4. Pwrite(file, end, recs) = f
  BY Zenon DEF Pwrite
<1>5. \A i \in 1 .. end : f[i] = file[i]
  BY <1>1
<1>6. \A i \in 1 .. Len(recs) : f[end + i] = recs[i]
  BY <1>1
<1> QED
  BY <1>1, <1>3, <1>4, <1>5, <1>6, Zenon

\* A write at the end of a file ends after its records.
LEMMA PwriteEnd ==
    ASSUME NEW S, NEW file \in Seq(S), NEW recs \in Seq(S), NEW end \in 0 .. Len(file), end = Len(file)
    PROVE  Len(Pwrite(file, end, recs)) = end + Len(recs)
BY PwriteFacts, Zenon

\* A write leaves what is before it.
LEMMA PwriteBefore ==
    ASSUME NEW S, NEW file \in Seq(S), NEW recs \in Seq(S), NEW end \in 0 .. Len(file)
    PROVE  \A i \in 1 .. end : Pwrite(file, end, recs)[i] = file[i]
BY PwriteFacts, Zenon

\* A write puts its records from its offset on.
LEMMA PwriteInside ==
    ASSUME NEW S, NEW file \in Seq(S), NEW recs \in Seq(S), NEW end \in 0 .. Len(file)
    PROVE  \A i \in 1 .. Len(recs) : Pwrite(file, end, recs)[end + i] = recs[i]
BY PwriteFacts, SMTT(30)

\* A whole write at the end of a file.
Written(file, end, recs, f) ==
    Len(f) = end + Len(recs) /\ \A i \in 1 .. Len(recs) : f[end + i] = recs[i]

\* Writing at the end appends the records.
LEMMA PwriteWritten ==
    ASSUME NEW S, NEW file \in Seq(S), NEW recs \in Seq(S), NEW end \in 0 .. Len(file),
           end = Len(file)
    PROVE  Written(file, end, recs, Pwrite(file, end, recs))
<1>1. Len(Pwrite(file, end, recs)) = end + Len(recs)
  BY PwriteFacts, Zenon
<1>2. ASSUME NEW i \in 1 .. Len(recs) PROVE Pwrite(file, end, recs)[end + i] = recs[i]
  <2>1. end \in Nat /\ Len(recs) \in Nat /\ i \in 1 .. Len(recs)
    OBVIOUS
  <2>2. /\ end + i \in 1 .. end + Len(recs) /\ end + i > end /\ end + i <= end + Len(recs)
        /\ end + i - end = i /\ ~(end > end + Len(recs))
    BY ONLY <2>1
  <2> QED
    BY <2>2 DEF Pwrite
<1> QED
  BY ONLY <1>1, <1>2, Zenon DEF Written

\* A prefix of a sequence, and a prefix with one element put after it.
LEMMA PrefixFacts ==
    ASSUME NEW S, NEW s \in Seq(S), NEW k \in 0 .. Len(s), NEW x \in S
    PROVE  /\ SubSeq(s, 1, k) \in Seq(S) /\ Len(SubSeq(s, 1, k)) = k
           /\ \A i \in 1 .. k : SubSeq(s, 1, k)[i] = s[i]
           /\ Append(SubSeq(s, 1, k), x) \in Seq(S)
           /\ Len(Append(SubSeq(s, 1, k), x)) = k + 1
           /\ \A i \in 1 .. k : Append(SubSeq(s, 1, k), x)[i] = s[i]
           /\ Append(SubSeq(s, 1, k), x)[k + 1] = x
<1>1. /\ SubSeq(s, 1, k) \in Seq(S) /\ Len(SubSeq(s, 1, k)) = k
      /\ \A i \in 1 .. k : SubSeq(s, 1, k)[i] = s[i]
  OBVIOUS
<1> DEFINE t == SubSeq(s, 1, k)
<1>2. ASSUME NEW u \in Seq(S), Len(u) = k
      PROVE  /\ Append(u, x) \in Seq(S) /\ Len(Append(u, x)) = k + 1
             /\ \A i \in 1 .. k : Append(u, x)[i] = u[i]
             /\ Append(u, x)[k + 1] = x
  BY <1>2
<1> HIDE DEF t
<1>3. t \in Seq(S) /\ Len(t) = k
  BY <1>1, Zenon DEF t
<1>4. /\ Append(t, x) \in Seq(S) /\ Len(Append(t, x)) = k + 1
      /\ \A i \in 1 .. k : Append(t, x)[i] = t[i]
      /\ Append(t, x)[k + 1] = x
  BY <1>2, <1>3, Zenon
<1> QED
  BY <1>1, <1>4, Zenon DEF t

\* Of recs, f got the first k whole and, at the end of the file, possibly a torn one.
WroteOnly(file, end, recs, torn, f, k) ==
    /\ \A i \in 1 .. k : f[end + i] = recs[i]
    /\ end = Len(file) =>
         \/ Len(f) = end + k
         \/ Len(f) = end + k + 1 /\ f[end + (k + 1)] = torn

\* What an incomplete write leaves: k whole records and possibly a torn one.
LEMMA PartialFacts ==
    ASSUME NEW S, NEW file \in Seq(S), NEW recs \in Seq(S), NEW torn \in S,
           NEW end \in 0 .. Len(file), NEW f \in PartialWrites(file, end, recs, torn)
    PROVE  /\ f \in Seq(S) /\ Len(f) >= Len(file)
           /\ \A i \in 1 .. end : f[i] = file[i]
           /\ \E k \in 0 .. Len(recs) - 1 : WroteOnly(file, end, recs, torn, f, k)
<1>1. PICK k \in 0 .. Len(recs) - 1 :
        \/ f = Pwrite(file, end, SubSeq(recs, 1, k))
        \/ f = Pwrite(file, end, Append(SubSeq(recs, 1, k), torn))
  BY Zenon DEF PartialWrites
<1>2. ASSUME NEW r \in Seq(S)
      PROVE  /\ Pwrite(file, end, r) \in Seq(S) /\ Len(Pwrite(file, end, r)) >= Len(file)
             /\ end = Len(file) => Len(Pwrite(file, end, r)) = end + Len(r)
             /\ \A i \in 1 .. end : Pwrite(file, end, r)[i] = file[i]
             /\ \A i \in 1 .. Len(r) : Pwrite(file, end, r)[end + i] = r[i]
  <2>1. Pwrite(file, end, r) \in Seq(S) /\ Len(Pwrite(file, end, r)) >= Len(file)
    BY PwriteFacts, Zenon
  <2>2. end = Len(file) => Len(Pwrite(file, end, r)) = end + Len(r)
    BY PwriteFacts, Zenon
  <2>3. \A i \in 1 .. end : Pwrite(file, end, r)[i] = file[i]
    BY PwriteFacts
  <2>4. \A i \in 1 .. Len(r) : Pwrite(file, end, r)[end + i] = r[i]
    BY PwriteFacts
  <2> QED
    BY <2>1, <2>2, <2>3, <2>4, Zenon
<1>3. CASE f = Pwrite(file, end, SubSeq(recs, 1, k))
  <2> DEFINE r == SubSeq(recs, 1, k)
  <2>1. r \in Seq(S) /\ Len(r) = k /\ \A i \in 1 .. k : r[i] = recs[i]
    BY PrefixFacts
  <2> HIDE DEF r
  <2>2. /\ Pwrite(file, end, r) \in Seq(S) /\ Len(Pwrite(file, end, r)) >= Len(file)
        /\ end = Len(file) => Len(Pwrite(file, end, r)) = end + Len(r)
        /\ \A i \in 1 .. end : Pwrite(file, end, r)[i] = file[i]
        /\ \A i \in 1 .. Len(r) : Pwrite(file, end, r)[end + i] = r[i]
    BY <1>2, <2>1, Zenon
  <2>3. f = Pwrite(file, end, r)
    BY <1>3, Zenon DEF r
  <2> QED
    BY <2>1, <2>2, <2>3, Zenon DEF WroteOnly
<1>4. CASE f = Pwrite(file, end, Append(SubSeq(recs, 1, k), torn))
  <2> DEFINE r == Append(SubSeq(recs, 1, k), torn)
  <2>1. r \in Seq(S) /\ Len(r) = k + 1 /\ (\A i \in 1 .. k : r[i] = recs[i]) /\ r[k + 1] = torn
    BY PrefixFacts
  <2> HIDE DEF r
  <2>2. /\ Pwrite(file, end, r) \in Seq(S) /\ Len(Pwrite(file, end, r)) >= Len(file)
        /\ end = Len(file) => Len(Pwrite(file, end, r)) = end + Len(r)
        /\ \A i \in 1 .. end : Pwrite(file, end, r)[i] = file[i]
        /\ \A i \in 1 .. Len(r) : Pwrite(file, end, r)[end + i] = r[i]
    BY <1>2, <2>1, Zenon
  <2>3. f = Pwrite(file, end, r)
    BY <1>4, Zenon DEF r
  <2>4. /\ f \in Seq(S) /\ Len(f) >= Len(file) /\ \A i \in 1 .. end : f[i] = file[i]
        /\ end = Len(file) => Len(f) = end + k + 1
    BY <2>1, <2>2, <2>3
  <2>5. (\A i \in 1 .. k : f[end + i] = recs[i]) /\ f[end + (k + 1)] = torn
    BY <2>1, <2>2, <2>3
  <2> QED
    BY <2>4, <2>5, Zenon DEF WroteOnly
<1> QED
  BY <1>1, <1>3, <1>4, Zenon

\* f has the first k records of file and possibly a torn one.
Keeps(file, torn, f, k) ==
    /\ \A i \in 1 .. k : f[i] = file[i]
    /\ Len(f) = k \/ (k < Len(file) /\ Len(f) = k + 1 /\ f[k + 1] = torn)

\* What a power loss leaves: the synchronized prefix and more, in order.
LEMMA ImageFacts ==
    ASSUME NEW S, NEW file \in Seq(S), NEW torn \in S, NEW synced \in 0 .. Len(file),
           NEW f \in PowerLossImages(file, synced, torn)
    PROVE  /\ f \in Seq(S)
           /\ \E k \in synced .. Len(file) : Keeps(file, torn, f, k)
<1>1. \/ \E k \in synced .. Len(file) : f = SubSeq(file, 1, k)
      \/ \E k \in synced .. Len(file) - 1 : f = Append(SubSeq(file, 1, k), torn)
  BY Zenon DEF PowerLossImages
<1>2. ASSUME NEW k \in synced .. Len(file), f = SubSeq(file, 1, k)
      PROVE  f \in Seq(S) /\ Len(f) = k /\ \A i \in 1 .. k : f[i] = file[i]
  BY <1>2, PrefixFacts
<1>3. ASSUME NEW k \in synced .. Len(file) - 1, f = Append(SubSeq(file, 1, k), torn)
      PROVE  /\ f \in Seq(S) /\ Len(f) = k + 1 /\ f[k + 1] = torn
             /\ \A i \in 1 .. k : f[i] = file[i]
  BY <1>3, PrefixFacts
<1>4. CASE \E k \in synced .. Len(file) : f = SubSeq(file, 1, k)
  BY <1>2, <1>4, Zenon DEF Keeps
<1>5. CASE \E k \in synced .. Len(file) - 1 : f = Append(SubSeq(file, 1, k), torn)
  <2>1. PICK k \in synced .. Len(file) - 1 : f = Append(SubSeq(file, 1, k), torn)
    BY <1>5, Zenon
  <2>2. k \in synced .. Len(file) /\ k < Len(file)
    OBVIOUS
  <2> QED
    BY <1>3, <2>1, <2>2, Zenon DEF Keeps
<1> QED
  BY <1>1, <1>4, <1>5, Zenon

\* The fields of a WAL record.
LEMMA EventType ==
    ASSUME NEW w \in Seq(WalEvent), NEW i \in 1 .. Len(w)
    PROVE  /\ w[i] \in WalEvent
           /\ w[i].point \in Chain /\ w[i].data_offset \in Nat
           /\ Height(w[i].point) \in Nat
<1>1. w[i] \in WalEvent
  OBVIOUS
<1>2. w[i].point \in Chain /\ w[i].data_offset \in Nat
  BY <1>1, Zenon DEF WalEvent
<1> QED
  BY <1>1, <1>2, BaseFacts, Zenon

\* A torn record can only be the last one; ValidWalSize leaves it out.
LEMMA ValidSizeFacts ==
    ASSUME NEW w \in Seq(WalEvent), \A i \in 1 .. Len(w) - 1 : w[i].kind # "TORN"
    PROVE  /\ ValidWalSize(w) \in 0 .. Len(w) /\ ValidWalSize(w) >= Len(w) - 1
           /\ \A i \in 1 .. ValidWalSize(w) : w[i].kind # "TORN"
           /\ Len(w) > 0 /\ w[Len(w)].kind # "TORN" => ValidWalSize(w) = Len(w)
           /\ Len(w) > 0 /\ w[Len(w)].kind = "TORN" => ValidWalSize(w) = Len(w) - 1
           /\ Len(w) = 0 => ValidWalSize(w) = 0
BY DEF ValidWalSize

-----------------------------------------------------------------------------
(* Recovery.                                                               *)

\* The end of the last payload is unique.
LEMMA PayloadEndUnique ==
    ASSUME NEW w, NEW n \in Nat, NEW e, NEW f, PayloadEnd(w, n, e), PayloadEnd(w, n, f)
    PROVE  e = f
<1>1. PICK j \in 1 .. n : /\ IsPayload(w[j]) /\ e = w[j].data_offset + 1
                          /\ \A k \in j + 1 .. n : ~IsPayload(w[k])
  BY Zenon DEF PayloadEnd
<1>2. PICK i \in 1 .. n : /\ IsPayload(w[i]) /\ f = w[i].data_offset + 1
                          /\ \A k \in i + 1 .. n : ~IsPayload(w[k])
  BY Zenon DEF PayloadEnd
<1>3. i = j
  BY <1>1, <1>2
<1> QED
  BY <1>1, <1>2, <1>3, Zenon

\* A payload record at the end of the WAL gives its data end.
LEMMA PayloadEndLast ==
    ASSUME NEW w, NEW n \in Nat \ {0}, IsPayload(w[n]), NEW e, e = w[n].data_offset + 1
    PROVE  PayloadEnd(w, n, e)
BY DEF PayloadEnd

\* The index entry of a height is that of the record that indexes it.
LEMMA IndexOfAt ==
    ASSUME NEW w, NEW n \in Nat, NEW h \in 1 .. Height(w[n].point), NEW j \in 1 .. n,
           IndexedBy(w, n, h, j)
    PROVE  IndexOf(w, n)[h] = w[j].data_offset
<1> DEFINE c == CHOOSE i \in 1 .. n : IndexedBy(w, n, h, i)
<1>1. c \in 1 .. n /\ IndexedBy(w, n, h, c)
  BY Zenon
<1>2. c = j
  BY <1>1 DEF IndexedBy
<1>3. IndexOf(w, n)[h] = w[c].data_offset
  BY Zenon DEF IndexOf
<1> QED
  BY <1>2, <1>3, Zenon

\* Good records are what the scan of RecoverWal accepts.
LEMMA GoodIsValid ==
    ASSUME NEW w \in Seq(WalEvent), NEW d, NEW ds, NEW n \in 1 .. Len(w),
           \A i \in 1 .. n : Good(w, d, ds, i)
    PROVE  WalValid(w, d, n)
<1>1. Good(w, d, ds, 1)
  OBVIOUS
<1>2. w[1] = BaseEvent
  BY <1>1, Zenon DEF Good
<1>3. IsPayload(w[1])
  BY <1>2 DEF IsPayload, BaseEvent
<1>4. EnvelopeValid(d, w[1])
  BY <1>1, <1>3, Zenon DEF Good
<1>5. \A i \in 2 .. n : ConnectValid(w, d, i) \/ TruncateValid(w, i)
  BY DEF Good
<1> QED
  BY <1>2, <1>4, <1>5 DEF WalValid

-----------------------------------------------------------------------------
(* Good records.                                                           *)

\* Goodness of a record depends only on the records up to it and on its payload.
LEMMA GoodCongruence ==
    ASSUME NEW w, NEW d, NEW ds, NEW w2, NEW d2, NEW ds2, NEW i \in Nat \ {0},
           Good(w, d, ds, i),
           \A k \in 1 .. i : w2[k] = w[k],
           IsPayload(w[i]) => /\ w[i].data_offset < ds2 /\ w[i].data_offset < Len(d2)
                              /\ d2[w[i].data_offset + 1] = d[w[i].data_offset + 1]
    PROVE  Good(w2, d2, ds2, i)
<1>1. i = 1 => w2[1] = BaseEvent
  BY DEF Good
<1>2. IsPayload(w[i]) => EnvelopeValid(d2, w2[i])
  BY DEF Good, EnvelopeValid
<1>3. i > 1 => ConnectValid(w2, d2, i) \/ TruncateValid(w2, i)
  <2> SUFFICES ASSUME i > 1 PROVE ConnectValid(w2, d2, i) \/ TruncateValid(w2, i)
    BY Zenon
  <2>1. w2[i] = w[i] /\ w2[i - 1] = w[i - 1] /\ \A k \in 1 .. i - 1 : w2[k] = w[k]
    OBVIOUS
  <2>2. CASE ConnectValid(w, d, i)
    <3>1. PayloadEnd(w2, i - 1, w2[i].data_offset)
      BY <2>1, <2>2 DEF ConnectValid, PayloadEnd
    <3>2. EnvelopeValid(d2, w2[i])
      BY <1>2, <2>2, Zenon DEF ConnectValid, IsPayload
    <3> QED
      BY <2>1, <2>2, <3>1, <3>2, Zenon DEF ConnectValid
  <2>3. CASE TruncateValid(w, i)
    BY <2>1, <2>3, Zenon DEF TruncateValid
  <2> QED
    BY <2>2, <2>3, Zenon DEF Good
<1>4. IsPayload(w2[i]) =>
        /\ w2[i].data_offset < ds2 /\ EnvelopeValid(d2, w2[i])
        /\ \A j \in 1 .. i - 1 : IsPayload(w2[j]) => w2[j].data_offset < w2[i].data_offset
  BY <1>2 DEF Good
<1>5. \E j \in 1 .. i : IsPayload(w2[j]) /\ \A k \in j + 1 .. i : ~IsPayload(w2[k])
  BY DEF Good
<1>6. \A h \in 1 .. Height(w2[i].point) :
        \E j \in 1 .. i : IndexedBy(w2, i, h, j) /\ w2[j].point = At(w2[i].point, h)
  BY DEF Good, IndexedBy
<1> QED
  BY <1>1, <1>3, <1>4, <1>5, <1>6, Zenon DEF Good

\* Payload offsets grow along the WAL, so all of them are below its data end.
LEMMA OffsetsBelowEnd ==
    ASSUME NEW w \in Seq(WalEvent), NEW d, NEW ds, NEW n \in 1 .. Len(w), NEW e,
           \A i \in 1 .. n : Good(w, d, ds, i), PayloadEnd(w, n, e)
    PROVE  \A i \in 1 .. n : IsPayload(w[i]) => w[i].data_offset < e
<1>1. PICK j \in 1 .. n : /\ IsPayload(w[j]) /\ e = w[j].data_offset + 1
                          /\ \A k \in j + 1 .. n : ~IsPayload(w[k])
  BY Zenon DEF PayloadEnd
<1>2. \A i \in 1 .. n : w[i].data_offset \in Nat
  BY EventType
<1>3. Good(w, d, ds, j)
  BY Zenon
<1>4. \A i \in 1 .. j - 1 : IsPayload(w[i]) => w[i].data_offset < w[j].data_offset
  BY <1>1, <1>3, Zenon DEF Good
<1> QED
  BY <1>1, <1>2, <1>4, SMTT(30)

\* What Truncate appends is good: every height of the new tip keeps its entry.
LEMMA GoodTruncate ==
    ASSUME NEW w \in Seq(WalEvent), NEW d, NEW ds, NEW n \in 1 .. Len(w) - 1,
           \A i \in 1 .. n : Good(w, d, ds, i),
           NEW p \in Chain, IsAncestor(p, w[n].point), p # w[n].point,
           w[n + 1] = TruncateEvent(p, w[n].point)
    PROVE  /\ Good(w, d, ds, n + 1)
           /\ \A h \in 1 .. Height(p) : IndexOf(w, n + 1)[h] = IndexOf(w, n)[h]
<1> DEFINE tip == w[n].point
<1>1. Good(w, d, ds, n) /\ tip \in Chain
  BY EventType
<1>2. /\ w[n + 1].kind = "TRUNCATE" /\ w[n + 1].point = p /\ w[n + 1].previous_hash = tip
      /\ ~IsPayload(w[n + 1])
  BY DEF TruncateEvent, IsPayload
<1>3. Height(p) \in Nat /\ Height(tip) \in Nat
  BY <1>1, BaseFacts, Zenon
<1>4. Height(p) < Height(tip)
  BY <1>1, <1>3, AtSelf DEF IsAncestor
<1>5. TruncateValid(w, n + 1)
  BY <1>2, <1>4 DEF TruncateValid
<1>6. \E j \in 1 .. n + 1 : IsPayload(w[j]) /\ \A k \in j + 1 .. n + 1 : ~IsPayload(w[k])
  <2>1. PICK j \in 1 .. n : IsPayload(w[j]) /\ \A k \in j + 1 .. n : ~IsPayload(w[k])
    BY <1>1, Zenon DEF Good
  <2>2. \A k \in j + 1 .. n + 1 : ~IsPayload(w[k])
    BY <1>2, <2>1
  <2> QED
    BY <2>1, <2>2
<1>7. ASSUME NEW h \in 1 .. Height(p)
      PROVE  /\ \E j \in 1 .. n + 1 : IndexedBy(w, n + 1, h, j) /\ w[j].point = At(p, h)
             /\ IndexOf(w, n + 1)[h] = IndexOf(w, n)[h]
  <2>1. h \in 1 .. Height(tip) /\ h \in 0 .. Height(p)
    BY <1>3, <1>4
  <2>2. PICK j \in 1 .. n : IndexedBy(w, n, h, j) /\ w[j].point = At(tip, h)
    BY <1>1, <2>1, Zenon DEF Good
  <2>3. IndexedBy(w, n + 1, h, j)
    BY <1>2, <2>2 DEF IndexedBy
  <2>4. At(tip, h) = At(p, h)
    BY <1>1, <2>1, AncestorAt, Zenon
  <2>5. IndexOf(w, n)[h] = w[j].data_offset
    BY <2>1, <2>2, IndexOfAt
  <2>6. IndexOf(w, n + 1)[h] = w[j].data_offset
    BY <1>2, <2>3, IndexOfAt
  <2> QED
    BY <2>2, <2>3, <2>4, <2>5, <2>6
<1> QED
  BY SMTT(30), <1>2, <1>5, <1>6, <1>7 DEF Good

\* Records n + 1 .. n + m of w connect the blocks of q above height H, and their
\* payloads are at e + 1 .. e + m of the data file.
Connected(w, d, n, e, q, H, m) ==
    \A i \in 1 .. m :
        /\ w[n + i] = ConnectEvent(At(q, H + i), e + i - 1)
        /\ d[e + i] = Payload(At(q, H + i))

\* The fields of record n + i of them.
ConnectFields(w, d, n, e, q, H, i) ==
    /\ w[n + i].kind = "CONNECT" /\ w[n + i].point = At(q, H + i)
    /\ Height(w[n + i].point) = H + i /\ IsPayload(w[n + i])
    /\ w[n + i].previous_hash = At(q, H + (i - 1))
    /\ w[n + i].data_offset = e + i - 1
    /\ d[e + i] = Payload(At(q, H + i))

\* Every connecting record has these fields.
LEMMA ConnectedRecord ==
    ASSUME NEW w, NEW d, NEW n \in Nat, NEW e \in Nat, NEW q \in Chain, NEW H \in Nat,
           NEW m \in Nat, H + m <= Height(q), Connected(w, d, n, e, q, H, m)
    PROVE  \A i \in 1 .. m : ConnectFields(w, d, n, e, q, H, i)
<1> TAKE i \in 1 .. m
<1>1. Height(q) \in Nat
  BY BaseFacts, Zenon
<1>2. H + i \in 0 .. Height(q) /\ H + (i - 1) \in 0 .. H + i /\ H + i - 1 = H + (i - 1)
  BY <1>1
<1>3. At(q, H + i) \in Chain /\ Height(At(q, H + i)) = H + i
  BY <1>2, AtType, Zenon
<1>4. Parent(At(q, H + i)) = At(q, H + (i - 1))
  BY <1>2, <1>3, AtAt DEF Parent
<1>5. w[n + i] = ConnectEvent(At(q, H + i), e + i - 1) /\ d[e + i] = Payload(At(q, H + i))
  BY Zenon DEF Connected
<1> QED
  BY <1>3, <1>4, <1>5 DEF ConnectEvent, IsPayload, ConnectFields

\* Records 1 .. n of w are good, e is where their data ends, and m more records,
\* up to N, connect blocks of q to the tip at height H; their data is synchronized.
Appends(w, d, ds, n, e, q, H, m, N) ==
    /\ n >= 1 /\ m >= 1 /\ N = n + m
    /\ \A i \in 1 .. n : Good(w, d, ds, i)
    /\ PayloadEnd(w, n, e)
    /\ H = Height(w[n].point) /\ IsAncestor(w[n].point, q)
    /\ N <= Len(w) /\ H + m <= Height(q) /\ e + m <= ds
    /\ Connected(w, d, n, e, q, H, m)

\* Then they are good too, and data end, height and index grow with them.
Appended(w, d, ds, n, e, H, m, N) ==
    /\ Good(w, d, ds, N) /\ PayloadEnd(w, N, e + m)
    /\ Height(w[N].point) = H + m
    /\ \A h \in 1 .. H + m :
         IndexOf(w, N)[h] = IF h <= H THEN IndexOf(w, n)[h] ELSE e + (h - H) - 1

\* An offset below e is below the last of m offsets from e on.
LEMMA OffsetBelow ==
    ASSUME NEW o \in Nat, NEW e \in Nat, NEW m \in Nat, m >= 1, o < e
    PROVE  o < e + m - 1
  OBVIOUS

\* What CommitBatch appends is good.
LEMMA GoodConnects ==
    ASSUME NEW w \in Seq(WalEvent), NEW d \in Seq(DataRecord), NEW ds \in 0 .. Len(d),
           NEW n \in Nat, NEW e \in Nat, NEW q \in Chain, NEW H \in Nat, NEW m \in Nat,
           NEW N \in Nat, Appends(w, d, ds, n, e, q, H, m, N)
    PROVE  Appended(w, d, ds, n, e, H, m, N)
<1> SUFFICES ASSUME n >= 1, \A i \in 1 .. n : Good(w, d, ds, i), PayloadEnd(w, n, e),
                    H = Height(w[n].point), IsAncestor(w[n].point, q), m >= 1, N = n + m,
                    N <= Len(w), H + m <= Height(q), e + m <= ds,
                    Connected(w, d, n, e, q, H, m)
             PROVE  /\ Good(w, d, ds, N) /\ PayloadEnd(w, N, e + m)
                    /\ Height(w[N].point) = H + m
                    /\ \A h \in 1 .. H + m :
                         IndexOf(w, N)[h] = IF h <= H THEN IndexOf(w, n)[h] ELSE e + (h - H) - 1
  BY Zenon DEF Appends, Appended
<1>0. n \in Nat /\ e \in Nat /\ H \in Nat /\ m \in Nat /\ N \in Nat /\ m >= 1 /\ N = n + m
  BY Zenon
<1> DEFINE tip == w[n].point
<1>1. n \in 1 .. Len(w) /\ m \in 1 .. m /\ N > 1 /\ N \in Nat \ {0}
  OBVIOUS
<1>2. tip \in Chain /\ Height(q) \in Nat /\ At(q, H) = tip
  BY <1>1, EventType, BaseFacts, Zenon DEF IsAncestor
<1>3. \A i \in 1 .. m :
        /\ w[n + i].kind = "CONNECT" /\ w[n + i].point = At(q, H + i)
        /\ Height(w[n + i].point) = H + i /\ IsPayload(w[n + i])
        /\ w[n + i].previous_hash = At(q, H + (i - 1))
        /\ w[n + i].data_offset = e + i - 1
        /\ d[e + i] = Payload(At(q, H + i))
  <2>1. /\ n \in Nat /\ e \in Nat /\ q \in Chain /\ H \in Nat /\ m \in Nat
        /\ H + m <= Height(q) /\ Connected(w, d, n, e, q, H, m)
    BY Zenon
  <2>2. \A i \in 1 .. m : ConnectFields(w, d, n, e, q, H, i)
    BY ONLY <2>1, ConnectedRecord, Zenon
  <2> QED
    BY ONLY <2>2, Zenon DEF ConnectFields
<1>4. /\ w[N].kind = "CONNECT" /\ w[N].point = At(q, H + m)
      /\ Height(w[N].point) = H + m /\ IsPayload(w[N])
      /\ w[N].previous_hash = At(q, H + (m - 1))
      /\ w[N].data_offset = e + m - 1
      /\ d[e + m] = Payload(At(q, H + m))
  BY <1>1, <1>3, Zenon
<1>5. \A j \in 1 .. n : IsPayload(w[j]) => w[j].data_offset < e /\ w[j].data_offset \in Nat
  <2>1. ASSUME NEW j \in 1 .. n PROVE w[j].data_offset \in Nat
    <3>1. j \in 1 .. Len(w)
      BY <1>1
    <3> QED
      BY <3>1, EventType, Zenon
  <2> QED
    BY <1>1, <2>1, OffsetsBelowEnd, Zenon
<1>6. /\ PayloadEnd(w, N - 1, e + m - 1)
      /\ w[N - 1].point = At(q, H + (m - 1)) /\ Height(w[N - 1].point) = H + (m - 1)
  <2>1. CASE m = 1
    <3>1. N - 1 = n /\ e + m - 1 = e /\ H + (m - 1) = H
      BY <2>1
    <3> QED
      BY <1>2, <3>1, Zenon
  <2>2. CASE m > 1
    <3>1. PICK k \in 1 .. m : k = m - 1
      BY <2>2
    <3>2. N - 1 = n + k /\ N - 1 \in Nat \ {0} /\ e + m - 1 = e + k /\ H + (m - 1) = H + k
      BY <2>2, <3>1
    <3>3. /\ IsPayload(w[N - 1]) /\ w[N - 1].data_offset = e + k - 1
          /\ w[N - 1].point = At(q, H + k) /\ Height(w[N - 1].point) = H + k
      BY <1>3, <3>2, Zenon
    <3>4. e + k = w[N - 1].data_offset + 1
      <4>1. k \in Nat /\ w[N - 1].data_offset = e + k - 1
        BY ONLY <1>0, k \in 1 .. m, <3>3
      <4> QED
        BY ONLY <1>0, <4>1
    <3> QED
      BY <3>2, <3>3, <3>4, PayloadEndLast, Zenon
  <2> QED
    BY <2>1, <2>2
<1>7. EnvelopeValid(d, w[N])
  <2>1. w[N].data_offset = e + m - 1 /\ w[N].point = At(q, H + m) /\ d[e + m] = Payload(At(q, H + m))
    BY ONLY <1>4, Zenon
  <2>2. e + m <= Len(d) /\ Len(d) \in Nat
    BY SMTT(30)
  <2>3. e + m - 1 < Len(d) /\ e + m - 1 + 1 = e + m
    BY ONLY <1>0, <2>2
  <2> QED
    BY ONLY <2>1, <2>3, Zenon DEF EnvelopeValid
<1>8. ConnectValid(w, d, N)
  <2>1. Height(w[N].point) = Height(w[N - 1].point) + 1
    BY ONLY SMTT(30), <1>0, <1>4, <1>6
  <2>2. w[N].previous_hash = w[N - 1].point
    BY ONLY <1>4, <1>6, Zenon
  <2>3. PayloadEnd(w, N - 1, w[N].data_offset)
    BY ONLY <1>4, <1>6, Zenon
  <2> QED
    BY <1>4, <1>7, <2>1, <2>2, <2>3, Zenon DEF ConnectValid
<1>9. \A j \in 1 .. N - 1 : IsPayload(w[j]) => w[j].data_offset < w[N].data_offset
  <2> SUFFICES ASSUME NEW j \in 1 .. N - 1, IsPayload(w[j])
               PROVE  w[j].data_offset < e + m - 1
    BY <1>4, Zenon
  <2>1. CASE j <= n
    <3>1. w[j].data_offset < e /\ w[j].data_offset \in Nat
      BY <1>5, <2>1, SMTT(30)
    <3> QED
      BY ONLY <1>0, <3>1, OffsetBelow, Zenon
  <2>2. CASE j > n
    <3>1. PICK k \in 1 .. m - 1 : j = n + k
      BY <2>2
    <3>2. k \in 1 .. m
      OBVIOUS
    <3>3. w[n + k].data_offset = e + k - 1
      BY <1>3, <3>2, Zenon
    <3> QED
      BY <3>1, <3>3
  <2>3. j <= n \/ j > n
    BY ONLY <1>0, j \in 1 .. N - 1
  <2> QED
    BY ONLY <2>1, <2>2, <2>3, Zenon
<1>10. ASSUME NEW h \in 1 .. H + m
       PROVE  /\ \E j \in 1 .. N : IndexedBy(w, N, h, j) /\ w[j].point = At(q, h)
              /\ IndexOf(w, N)[h] = IF h <= H THEN IndexOf(w, n)[h] ELSE e + (h - H) - 1
  <2>1. h \in 1 .. Height(w[N].point)
    BY <1>4, Zenon
  <2>2. ASSUME NEW k \in n + 1 .. N PROVE Height(w[k].point) = H + (k - n)
    <3>1. PICK i \in 1 .. m : k = n + i
      BY SMTT(30)
    <3>2. Height(w[n + i].point) = H + i
      BY <1>3, Zenon
    <3> QED
      BY <3>1, <3>2
  <2>3. CASE h <= H
    <3>1. h \in 1 .. Height(tip) /\ h \in 0 .. Height(tip)
      BY <2>3, SMTT(30)
    <3>2. PICK j \in 1 .. n : IndexedBy(w, n, h, j) /\ w[j].point = At(tip, h)
      <4>1. Good(w, d, ds, n)
        BY <1>1
      <4> QED
        BY ONLY <3>1, <4>1, Zenon DEF Good
    <3>3. j \in 1 .. N /\ \A k \in n + 1 .. N : Height(w[k].point) # h
      BY <2>2, <2>3
    <3>4. IndexedBy(w, N, h, j)
      <4>1. ASSUME NEW k \in j + 1 .. N, w[k].kind = "CONNECT" PROVE Height(w[k].point) # h
        <5>1. k \in j + 1 .. n \/ k \in n + 1 .. N
          BY ONLY <1>0, k \in j + 1 .. N, j \in 1 .. n
        <5> QED
          BY ONLY <3>2, <3>3, <4>1, <5>1, Zenon DEF IndexedBy
      <4> QED
        BY ONLY <3>2, <4>1, Zenon DEF IndexedBy
    <3>5. At(tip, h) = At(q, h)
      BY <1>2, <3>1, AncestorAt, Zenon
    <3>6. IndexOf(w, n)[h] = w[j].data_offset
      BY <3>1, <3>2, IndexOfAt, Zenon
    <3>7. IndexOf(w, N)[h] = w[j].data_offset
      BY <2>1, <3>3, <3>4, IndexOfAt, Zenon
    <3> QED
      BY <2>3, <3>2, <3>3, <3>4, <3>5, <3>6, <3>7, Zenon
  <2>4. CASE h > H
    <3>1. PICK k \in 1 .. m : h = H + k
      <4>1. h - H \in 1 .. m /\ h = H + (h - H)
        BY <2>4, SMTT(30)
      <4> QED
        BY <4>1, Zenon
    <3>2. PICK j \in 1 .. N : j = n + k
      OBVIOUS
    <3>3. /\ w[j].kind = "CONNECT" /\ Height(w[j].point) = h /\ w[j].point = At(q, h)
          /\ w[j].data_offset = e + (h - H) - 1
      <4>1. /\ w[n + k].kind = "CONNECT" /\ Height(w[n + k].point) = H + k
            /\ w[n + k].point = At(q, H + k) /\ w[n + k].data_offset = e + k - 1
        BY <1>3, Zenon
      <4>2. h - H = k
        BY <3>1
      <4> QED
        BY <3>1, <3>2, <4>1, <4>2, Zenon
    <3>4. \A i \in j + 1 .. N : Height(w[i].point) # h
      <4> TAKE i \in j + 1 .. N
      <4>1. i \in n + 1 .. N /\ i > n + k /\ i \in Nat /\ k \in Nat /\ h = H + k
        BY <3>1, <3>2
      <4>2. Height(w[i].point) = H + (i - n)
        BY <2>2, <4>1, Zenon
      <4> QED
        BY ONLY <1>0, <4>1, <4>2
    <3>5. IndexedBy(w, N, h, j)
      BY <3>3, <3>4, Zenon DEF IndexedBy
    <3>6. IndexOf(w, N)[h] = w[j].data_offset
      BY <2>1, <3>5, IndexOfAt, Zenon
    <3>7. h \in Nat /\ h > H /\ j \in 1 .. N
      BY <2>4
    <3> QED
      BY ONLY <1>0, <3>3, <3>5, <3>6, <3>7, SMTT(30)
  <2> QED
    BY <2>3, <2>4, SMTT(30)
<1>11. ASSUME NEW h \in 1 .. Height(w[N].point)
       PROVE  \E j \in 1 .. N : IndexedBy(w, N, h, j) /\ w[j].point = At(w[N].point, h)
  <2>0. Height(w[N].point) = H + m
    BY ONLY <1>4, Zenon
  <2>1. h \in 1 .. H + m /\ h \in 0 .. H + m
    BY ONLY <1>0, <2>0, h \in 1 .. Height(w[N].point)
  <2>3. H + m \in 0 .. Height(q)
    BY <1>2, SMTT(30)
  <2>2. At(w[N].point, h) = At(q, h)
    BY <1>4, <2>1, <2>3, AtAt, Zenon
  <2> QED
    BY <1>10, <2>1, <2>2, Zenon
<1>12. PayloadEnd(w, N, e + m)
  <2>0. w[N].data_offset = e + m - 1
    BY ONLY <1>4, Zenon
  <2>1. e + m = w[N].data_offset + 1
    BY ONLY <1>0, <2>0, SMTT(30)
  <2> QED
    BY <1>1, <1>4, <2>1, PayloadEndLast, Zenon
<1>13. w[N].data_offset < ds
  BY SMTT(30), <1>4
<1>14. \E j \in 1 .. N : IsPayload(w[j]) /\ \A k \in j + 1 .. N : ~IsPayload(w[k])
  BY <1>12, Zenon DEF PayloadEnd
<1>15. Good(w, d, ds, N)
  <2>1. ~(N = 1) /\ N > 1
    BY ONLY <1>1
  <2> QED
    BY ONLY <2>1, <1>7, <1>8, <1>9, <1>11, <1>13, <1>14, Zenon DEF Good
<1> QED
  BY <1>4, <1>10, <1>12, <1>15, Zenon

\* The index entries are data offsets.
LEMMA IndexType ==
    ASSUME NEW w \in Seq(WalEvent), NEW d, NEW ds, NEW n \in 1 .. Len(w), Good(w, d, ds, n)
    PROVE  IndexOf(w, n) \in [1 .. Height(w[n].point) -> Nat]
<1>1. ASSUME NEW h \in 1 .. Height(w[n].point) PROVE IndexOf(w, n)[h] \in Nat
  <2>1. PICK j \in 1 .. n : IndexedBy(w, n, h, j)
    BY Zenon DEF Good
  <2>2. IndexOf(w, n)[h] = w[j].data_offset
    BY <2>1, IndexOfAt
  <2>3. j \in 1 .. Len(w)
    OBVIOUS
  <2> QED
    BY <2>2, <2>3, EventType, Zenon
<1>2. IndexOf(w, n) = [h \in 1 .. Height(w[n].point) |-> IndexOf(w, n)[h]]
  BY DEF IndexOf
<1> QED
  BY <1>1, <1>2, Zenon

-----------------------------------------------------------------------------
(* Consequences of the invariant used throughout.                          *)

\* The ends of an open store lie inside its files, the data end inside the
\* synchronized part.
LEMMA EndFacts ==
    ASSUME IndInv, Running
    PROVE  /\ wal_end \in 1 .. Len(wal) /\ wal_end <= ValidWalSize(wal)
           /\ data_end \in 1 .. data_synced /\ data_end <= Len(data)
           /\ \A i \in 1 .. wal_end : Good(wal, data, data_synced, i)
<1>1. /\ wal \in Seq(WalEvent) /\ data_synced \in 0 .. Len(data) /\ data \in Seq(DataRecord)
      /\ data_end \in Nat
  BY Zenon DEF IndInv, TypeOK
<1>2. ValidWalSize(wal) \in 0 .. Len(wal)
  BY <1>1, ValidSizeFacts, Zenon DEF IndInv, DiskInv
<1>3. wal_end \in 1 .. ValidWalSize(wal) /\ PayloadEnd(wal, wal_end, data_end)
  BY Zenon DEF IndInv, EndInv
<1>4. wal_end \in 1 .. Len(wal) /\ wal_end <= ValidWalSize(wal)
  BY <1>2, <1>3
<1>5. \A i \in 1 .. wal_end : Good(wal, data, data_synced, i)
  <2>1. \A i \in 1 .. ValidWalSize(wal) : Good(wal, data, data_synced, i)
    BY Zenon DEF IndInv, DiskInv
  <2> QED
    BY ONLY <1>2, <1>3, <2>1
<1>6. PICK j \in 1 .. wal_end : IsPayload(wal[j]) /\ data_end = wal[j].data_offset + 1
  BY <1>3, Zenon DEF PayloadEnd
<1>7. wal[j].data_offset \in Nat
  BY <1>1, <1>4, EventType, SMTT(30)
<1>8. wal[j].data_offset < data_synced
  BY <1>5, <1>6, Zenon DEF Good
<1>9. data_end \in 1 .. data_synced
  BY <1>1, <1>6, <1>7, <1>8
<1>10. data_end <= Len(data)
  BY <1>1, <1>9
<1> QED
  BY <1>4, <1>5, <1>9, <1>10, Zenon

\* A batch taken from the ready map is the next n blocks above the durable tip.
LEMMA ReadyFacts ==
    ASSUME TypeOK, PipeInv, NEW n \in Nat,
           \A i \in 1 .. n : IsReady(Height(durable_point) + i)
    PROVE  \A i \in 1 .. n :
             /\ ReadyAt(Height(durable_point) + i) \in ready
             /\ ReadyAt(Height(durable_point) + i) \in Chain
             /\ ReadyAt(Height(durable_point) + i) = At(enqueued_point, Height(durable_point) + i)
             /\ Height(ReadyAt(Height(durable_point) + i)) = Height(durable_point) + i
<1> TAKE i \in 1 .. n
<1> DEFINE h == Height(durable_point) + i
<1>1. ReadyAt(h) \in ready /\ Height(ReadyAt(h)) = h
  BY Zenon DEF IsReady, ReadyAt
<1>2. ReadyAt(h) \in Chain
  BY <1>1, Zenon DEF TypeOK
<1>3. ReadyAt(h) = At(enqueued_point, Height(ReadyAt(h)))
  BY <1>1, Zenon DEF PipeInv, InFlight
<1> QED
  BY <1>1, <1>2, <1>3, Zenon

\* What RecoverWal finds in a WAL with a committed base.
LEMMA RecoverFacts ==
    ASSUME TypeOK, DiskInv, ~EmptyWal
    PROVE  LET n == ValidWalSize(wal)
               e == RecoveredDataEnd(wal, data)
           IN  /\ n \in 1 .. Len(wal) /\ n >= Len(wal) - 1
               /\ \A i \in 1 .. n : wal[i].kind # "TORN"
               /\ \A i \in 1 .. n : Good(wal, data, data_synced, i)
               /\ e \in 0 .. Len(data) /\ e <= data_synced /\ PayloadEnd(wal, n, e)
               /\ RecoveredTip(wal) \in Chain
               /\ IndexOf(wal, n) \in [1 .. Height(RecoveredTip(wal)) -> Nat]
<1> DEFINE n == ValidWalSize(wal)
           e == RecoveredDataEnd(wal, data)
<1>1. wal \in Seq(WalEvent) /\ data \in Seq(DataRecord) /\ data_synced \in 0 .. Len(data)
  BY Zenon DEF TypeOK
<1>2. /\ n \in 0 .. Len(wal) /\ n >= Len(wal) - 1
      /\ \A i \in 1 .. n : wal[i].kind # "TORN"
      /\ Len(wal) > 0 /\ wal[Len(wal)].kind # "TORN" => n = Len(wal)
      /\ Len(wal) > 0 /\ wal[Len(wal)].kind = "TORN" => n = Len(wal) - 1
  BY <1>1, ValidSizeFacts, Zenon DEF DiskInv
<1>3. Len(wal) > 0 /\ (Len(wal) = 1 => wal[1].kind # "TORN")
  BY <1>1 DEF EmptyWal
<1>4. \A i \in 1 .. n : Good(wal, data, data_synced, i)
  BY Zenon DEF DiskInv
<1> HIDE DEF n, e
<1>5. n \in 1 .. Len(wal)
  <2>1. Len(wal) \in Nat
    BY <1>1
  <2>2. CASE Len(wal) = 1
    BY <1>2, <1>3, <2>2
  <2>3. CASE Len(wal) > 1
    BY <1>2, <2>1, <2>3, SMTT(30)
  <2> QED
    BY <1>3, <2>1, <2>2, <2>3
<1>6. PICK j \in 1 .. n : IsPayload(wal[j]) /\ \A k \in j + 1 .. n : ~IsPayload(wal[k])
  BY <1>4, <1>5 DEF Good
<1>7. j \in 1 .. Len(wal) /\ wal[j].data_offset \in Nat
  BY <1>1, <1>5, EventType, SMTT(30)
<1>8. wal[j].data_offset < data_synced
  BY <1>4, <1>6, Zenon DEF Good
<1>9. wal[j].data_offset + 1 \in 0 .. Len(data) /\ wal[j].data_offset + 1 <= data_synced
  BY <1>1, <1>7, <1>8
<1>10. PayloadEnd(wal, n, wal[j].data_offset + 1)
  BY <1>6, Zenon DEF PayloadEnd
<1>11. e \in 0 .. Len(data) /\ PayloadEnd(wal, n, e)
  BY <1>9, <1>10, Zenon DEF e, n, RecoveredDataEnd
<1>12. e = wal[j].data_offset + 1
  BY <1>5, <1>10, <1>11, PayloadEndUnique
<1>13. wal[n].point \in Chain /\ RecoveredTip(wal) = wal[n].point
  BY <1>1, <1>5, EventType, Zenon DEF RecoveredTip, n
<1>14. IndexOf(wal, n) \in [1 .. Height(wal[n].point) -> Nat]
  BY <1>1, <1>4, <1>5, IndexType
<1> QED
  BY <1>2, <1>4, <1>5, <1>9, <1>11, <1>12, <1>13, <1>14, Zenon DEF n, e

-----------------------------------------------------------------------------
(* Type correctness.                                                       *)

\* Writing records at the end of an open store's files keeps their types.
LEMMA WriteTypes ==
    ASSUME IndInv, Running
    PROVE  /\ BatchPayloads \in Seq(DataRecord) /\ BatchEvents \in Seq(WalEvent)
           /\ Len(BatchPayloads) = Len(batch) /\ Len(BatchEvents) = Len(batch)
           /\ TornPayload \in DataRecord /\ TornEvent \in WalEvent
           /\ TruncateEvent(arg, durable_point) \in WalEvent
           /\ data_end \in 0 .. Len(data) /\ wal_end \in 0 .. Len(wal)
<1>1. /\ batch \in Seq(Chain) /\ arg \in Chain /\ durable_point \in Chain /\ data_end \in Nat
      /\ data \in Seq(DataRecord) /\ wal \in Seq(WalEvent)
  BY Zenon DEF IndInv, TypeOK
<1>2. \A p \in Chain : Payload(p) \in DataRecord
  BY Zenon DEF Payload, DataRecord
<1>3. BatchPayloads \in Seq(DataRecord) /\ Len(BatchPayloads) = Len(batch)
  BY <1>1, <1>2 DEF BatchPayloads
<1>4. ASSUME NEW i \in 1 .. Len(batch)
      PROVE  ConnectEvent(batch[i], data_end + i - 1) \in WalEvent
  <2>1. batch[i] \in Chain /\ data_end + i - 1 \in Nat
    BY <1>1
  <2>2. CASE Height(batch[i]) = 0
    BY <2>1, <2>2 DEF ConnectEvent, WalEvent, Parent, Height, At, Chain
  <2>3. CASE Height(batch[i]) > 0
    <3>1. Height(batch[i]) - 1 \in 0 .. Height(batch[i])
      BY <2>1, <2>3, BaseFacts
    <3>2. Parent(batch[i]) \in Chain
      BY <2>1, <3>1, AtType, Zenon DEF Parent
    <3> QED
      BY <2>1, <3>2, Zenon DEF ConnectEvent, WalEvent
  <2> QED
    BY <2>1, <2>2, <2>3, BaseFacts
<1>5. BatchEvents \in Seq(WalEvent) /\ Len(BatchEvents) = Len(batch)
  BY <1>1, <1>4 DEF BatchEvents
<1>6. TornPayload \in DataRecord /\ TornEvent \in WalEvent
  BY BaseFacts, Zenon DEF TornPayload, TornEvent, DataRecord, WalEvent
<1>7. TruncateEvent(arg, durable_point) \in WalEvent
  BY <1>1, Zenon DEF TruncateEvent, WalEvent
<1>8. data_end \in 0 .. Len(data) /\ wal_end \in 0 .. Len(wal)
  BY EndFacts, <1>1, SMTT(30)
<1> QED
  BY <1>3, <1>5, <1>6, <1>7, <1>8, Zenon

\* Writing keeps the types of the files and never shortens them.
LEMMA WriteFacts ==
    ASSUME NEW S, NEW file \in Seq(S), NEW recs \in Seq(S), NEW torn \in S,
           NEW end \in 0 .. Len(file), NEW f,
           f = Pwrite(file, end, recs) \/ f \in PartialWrites(file, end, recs, torn)
    PROVE  f \in Seq(S) /\ Len(f) >= Len(file) /\ \A i \in 1 .. end : f[i] = file[i]
<1>1. CASE f = Pwrite(file, end, recs)
  BY <1>1, PwriteFacts, Zenon
<1>2. CASE f \in PartialWrites(file, end, recs, torn)
  <2>1. /\ file \in Seq(S) /\ recs \in Seq(S) /\ torn \in S /\ end \in 0 .. Len(file)
        /\ f \in PartialWrites(file, end, recs, torn)
    BY <1>2, Zenon
  <2> QED
    BY ONLY <2>1, PartialFacts, SMTT(30)
<1> QED
  BY <1>1, <1>2, Zenon

\* The threads' steps on the files keep their types.
LEMMA TypeWrite ==
    ASSUME IndInv, WriteData \/ WriteWal \/ TruncateWrite
    PROVE  TypeOK'
<1>1. CASE WriteData
  <2>1. Running
    BY <1>1, Zenon DEF WriteData, IndInv, CtlInv
  <2>2. data' \in Seq(DataRecord) /\ Len(data') >= Len(data)
    <3>1. data \in Seq(DataRecord)
      BY Zenon DEF IndInv, TypeOK
    <3> QED
      BY <1>1, <2>1, <3>1, WriteTypes, WriteFacts, Zenon DEF WriteData
  <2>3. data_synced' \in 0 .. Len(data')
    <3>1. data \in Seq(DataRecord) /\ data_synced' \in 0 .. Len(data)
      BY <1>1, Zenon DEF WriteData, IndInv, TypeOK
    <3> QED
      BY <2>2, <3>1, Longer, Zenon
  <2>4. CASE WriterGoesTo("data_sync")
    BY <1>1, <2>2, <2>3, <2>4, Zenon DEF WriteData, IndInv, TypeOK, WriterGoesTo, WriterPc, ends, queue, client
  <2>5. CASE WriterFails
    BY <1>1, <2>2, <2>3, <2>5, EmptyIsSeq, Zenon DEF WriteData, IndInv, TypeOK, WriterFails, SetFailure, WriterPc, ends, queue, client
  <2> QED
    BY <1>1, <2>4, <2>5, Zenon DEF WriteData
<1>2. CASE WriteWal
  <2>1. Running
    BY <1>2, Zenon DEF WriteWal, IndInv, CtlInv
  <2>2. wal' \in Seq(WalEvent) /\ Len(wal') >= Len(wal)
    <3>1. wal \in Seq(WalEvent)
      BY Zenon DEF IndInv, TypeOK
    <3> QED
      BY <1>2, <2>1, <3>1, WriteTypes, WriteFacts, Zenon DEF WriteWal
  <2>3. wal_synced' \in 0 .. Len(wal')
    <3>1. wal \in Seq(WalEvent) /\ wal_synced' \in 0 .. Len(wal)
      BY <1>2, Zenon DEF WriteWal, IndInv, TypeOK
    <3> QED
      BY <2>2, <3>1, Longer, Zenon
  <2>4. CASE WriterGoesTo("wal_sync")
    BY <1>2, <2>2, <2>3, <2>4, Zenon DEF WriteWal, IndInv, TypeOK, WriterGoesTo, WriterPc, ends, queue, client
  <2>5. CASE WriterFails
    BY <1>2, <2>2, <2>3, <2>5, EmptyIsSeq, Zenon DEF WriteWal, IndInv, TypeOK, WriterFails, SetFailure, WriterPc, ends, queue, client
  <2> QED
    BY <1>2, <2>4, <2>5, Zenon DEF WriteWal
<1>3. CASE TruncateWrite
  <2>1. Running
    BY <1>3, Zenon DEF TruncateWrite, Running
  <2>2. wal' \in Seq(WalEvent) /\ Len(wal') >= Len(wal)
    <3>1. wal \in Seq(WalEvent)
      BY Zenon DEF IndInv, TypeOK
    <3>2. <<TruncateEvent(arg, durable_point)>> \in Seq(WalEvent)
      BY <2>1, WriteTypes
    <3> QED
      BY <1>3, <2>1, <3>1, <3>2, WriteTypes, WriteFacts, Zenon DEF TruncateWrite
  <2>3. wal_synced' \in 0 .. Len(wal')
    <3>1. wal \in Seq(WalEvent) /\ wal_synced' \in 0 .. Len(wal)
      BY <1>3, Zenon DEF TruncateWrite, IndInv, TypeOK
    <3> QED
      BY <2>2, <3>1, Longer, Zenon
  <2> QED
    BY <1>3, <2>2, <2>3, Zenon DEF TruncateWrite, IndInv, TypeOK, ClientPc, ends, queue, threads
<1> QED
  BY <1>1, <1>2, <1>3, Zenon

\* Serializers keep the types.
LEMMA TypeSerializer ==
    ASSUME IndInv, NEW s \in Serializer, SerializerStep(s)
    PROVE  TypeOK'
<1> USE DEF IndInv, TypeOK, disk, ends, queue, threads, client
<1>1. Waiting \in [at : {"wait", "work", "exit"}, item : Chain]
  BY BaseFacts, Zenon DEF Waiting
<1>2. Exited \in [at : {"wait", "work", "exit"}, item : Chain]
  BY BaseFacts, Zenon DEF Exited
<1>3. CASE SerializerTake(s)
  <2>1. Head(input) \in Chain /\ Tail(input) \in Seq(Chain)
    BY <1>3, SMTT(30) DEF SerializerTake
  <2>2. [at |-> "work", item |-> Head(input)] \in [at : {"wait", "work", "exit"}, item : Chain]
    BY <2>1, Zenon
  <2> QED
    BY <1>3, <2>1, <2>2, Zenon DEF SerializerTake
<1>4. CASE SerializerSleep(s)
  BY <1>4, Zenon DEF SerializerSleep, Thread
<1>5. CASE SerializerExit(s)
  BY <1>2, <1>5, Zenon DEF SerializerExit
<1>6. CASE SerializerPublish(s)
  BY <1>1, <1>6, Zenon DEF SerializerPublish
<1>7. CASE SerializerFail(s)
  BY <1>2, <1>7, Zenon DEF SerializerFail, SetFailure
<1> QED
  BY <1>3, <1>4, <1>5, <1>6, <1>7, Zenon DEF SerializerStep

\* A batch of prepared blocks is a sequence of points.
LEMMA BatchType ==
    ASSUME TypeOK, PipeInv, NEW n \in 1 .. GroupCommitBlocks, ContiguousReady(n)
    PROVE  [i \in 1 .. n |-> ReadyAt(Height(durable_point) + i)] \in Seq(Chain)
<1>1. n \in Nat
  BY ConfigAssumption
<1>2. \A i \in 1 .. n : ReadyAt(Height(durable_point) + i) \in Chain
  BY <1>1, ReadyFacts, Zenon DEF ContiguousReady
<1> QED
  BY <1>1, <1>2

\* A new index has an offset for every height of the new tip.
LEMMA PublishType ==
    ASSUME IndInv, Running, batch # <<>>
    PROVE  /\ batch[Len(batch)] \in Chain
           /\ Height(batch[Len(batch)]) = Height(durable_point) + Len(batch)
           /\ PublishedIndex(batch[Len(batch)]) \in [1 .. Height(batch[Len(batch)]) -> Nat]
           /\ queued_blocks - Len(batch) \in Nat
<1> DEFINE p == batch[Len(batch)]
           H == Height(durable_point)
<1>1. /\ batch \in Seq(Chain) /\ durable_point \in Chain /\ enqueued_point \in Chain
      /\ index \in [1 .. H -> Nat] /\ data_end \in Nat /\ input \in Seq(Chain)
  BY Zenon DEF IndInv, TypeOK
<1>2. H \in Nat /\ Height(enqueued_point) \in Nat /\ Len(batch) \in Nat \ {0} /\ Len(input) \in Nat
  BY <1>1, BaseFacts
<1>3. /\ H + Len(batch) + Len(input) <= Height(enqueued_point)
      /\ queued_blocks = Height(enqueued_point) - H
      /\ p = At(enqueued_point, H + Len(batch))
  <2>1. Len(batch) \in 1 .. Len(batch)
    BY ONLY <1>2
  <2> QED
    BY <2>1, Zenon DEF IndInv, PipeInv
<1>4. H + Len(batch) \in 0 .. Height(enqueued_point)
  BY <1>2, <1>3
<1>5. p \in Chain /\ Height(p) = H + Len(batch)
  BY <1>1, <1>3, <1>4, AtType, Zenon
<1>6. queued_blocks - Len(batch) \in Nat
  BY <1>2, <1>3
<1>7. data_end >= 1
  BY EndFacts
<1> HIDE DEF H
<1>8. \A h \in 1 .. Height(p) : (IF h <= H THEN index[h] ELSE data_end + (h - H) - 1) \in Nat
  BY <1>1, <1>2, <1>5, <1>7
<1>9. PublishedIndex(p) = [h \in 1 .. Height(p) |-> IF h <= H THEN index[h] ELSE data_end + (h - H) - 1]
  BY Zenon DEF PublishedIndex, H
<1>10. PublishedIndex(p) \in [1 .. Height(p) -> Nat]
  BY <1>8, <1>9, Zenon
<1> QED
  BY <1>5, <1>6, <1>10, Zenon DEF H

\* The writer keeps the types.
LEMMA TypeWriter ==
    ASSUME IndInv, WriterStep
    PROVE  TypeOK'
<1> USE DEF IndInv, TypeOK, disk, ends, queue, threads, client
<1>1. ASSUME NEW n \in 1 .. GroupCommitBlocks, ContiguousReady(n), TakeBatch(n)
      PROVE  TypeOK'
  BY <1>1, BatchType, Zenon DEF TakeBatch, WriterPc
<1>2. CASE WriterBegin
  BY <1>1, <1>2, Zenon DEF WriterBegin, WriterPc, Thread
<1>3. CASE WriterGroup
  BY <1>1, <1>3, Zenon DEF WriterGroup, Thread
<1>4. CASE WriterTimeout
  <2>1. PICK n \in 1 .. GroupCommitBlocks :
          /\ ContiguousReady(n)
          /\ batch' = [i \in 1 .. n |-> ReadyAt(Height(durable_point) + i)]
          /\ ready' = {p \in ready : Height(p) > Height(durable_point) + n}
    BY <1>4, Zenon DEF WriterTimeout
  <2>2. batch' \in Seq(Chain) /\ ready' \in SUBSET Chain
    BY <2>1, BatchType, Zenon
  <2> QED
    BY <1>4, <2>2, Zenon DEF WriterTimeout, WriterPc
<1>5. CASE WriterSleep
  BY <1>5, Zenon DEF WriterSleep, Thread
<1>6. CASE WriterExit
  BY <1>6, Zenon DEF WriterExit, WriterPc
<1>7. CASE WriterFails /\ UNCHANGED disk
  BY <1>7, EmptyIsSeq, Zenon DEF WriterFails, SetFailure, WriterPc
<1>8. CASE SyncData
  <2>1. CASE data_synced' = Len(data) /\ WriterGoesTo("wal")
    BY <1>8, <2>1, LenWithin, Zenon DEF SyncData, WriterGoesTo, WriterPc
  <2> QED
    BY <1>7, <1>8, <2>1, Zenon DEF SyncData
<1>9. CASE SyncWal
  <2>1. CASE wal_synced' = Len(wal) /\ WriterGoesTo("publish")
    BY <1>9, <2>1, LenWithin, Zenon DEF SyncWal, WriterGoesTo, WriterPc
  <2> QED
    BY <1>7, <1>9, <2>1, Zenon DEF SyncWal
<1>10. CASE CommitPublish
  <2>1. CASE Publish
    <3>1. Running /\ batch # <<>>
      BY <1>10, Zenon DEF CommitPublish, CtlInv, Holding
    <3>2. FlushAfter(Height(batch[Len(batch)])) \in Nat
      BY Zenon DEF FlushAfter
    <3>3. data_end + Len(batch) \in Nat /\ wal_end + Len(batch) \in Nat
      BY SMTT(30)
    <3>4. /\ durable_point' \in Chain /\ index' \in [1 .. Height(durable_point') -> Nat]
          /\ queued_blocks' \in Nat
      BY <2>1, <3>1, PublishType, Zenon DEF Publish
    <3> QED
      BY <1>10, <2>1, <3>2, <3>3, <3>4, EmptyIsSeq, Zenon DEF CommitPublish, Publish, WriterPc
  <2> QED
    BY <1>7, <1>10, <2>1, ZenonT(40) DEF CommitPublish
<1> QED
  BY <1>2, <1>3, <1>4, <1>5, <1>6, <1>8, <1>9, <1>10, TypeWrite, ZenonT(40) DEF WriterStep

\* Opening the store keeps the types.
LEMMA TypeOpen ==
    ASSUME IndInv, OpenStep
    PROVE  TypeOK'
<1> USE DEF IndInv, TypeOK, disk, ends, queue, threads, client
<1>1. /\ Waiting \in [at : {"wait", "work", "exit"}, item : Chain]
      /\ Base \in Chain /\ Payload(Base) \in DataRecord /\ BaseEvent \in WalEvent
  BY BaseFacts, Zenon DEF Waiting, Payload, DataRecord, BaseEvent, WalEvent
<1>2. CASE OpenEmpty
  BY <1>2, SMTT(30) DEF OpenEmpty, ClientPc
<1>3. CASE CreateBaseData
  <2>1. <<Payload(Base)>> \in Seq(DataRecord) /\ 0 \in 0 .. Len(data)
    BY <1>1
  <2>2. data' \in Seq(DataRecord) /\ Len(data') >= Len(data)
    BY <1>3, <2>1, PwriteFacts, Zenon DEF CreateBaseData
  <2> QED
    BY <1>3, <2>2 DEF CreateBaseData, ClientPc
<1>4. CASE SyncBaseData
  BY <1>4 DEF SyncBaseData, ClientPc
<1>5. CASE CreateBaseWal
  <2>1. <<BaseEvent>> \in Seq(WalEvent) /\ 0 \in 0 .. Len(wal)
    BY <1>1
  <2>2. wal' \in Seq(WalEvent) /\ Len(wal') >= Len(wal)
    BY <1>5, <2>1, PwriteFacts, Zenon DEF CreateBaseWal
  <2> QED
    BY <1>5, <2>2 DEF CreateBaseWal, ClientPc
<1>6. CASE SyncBaseWal
  BY <1>1, <1>6, SMTT(30) DEF SyncBaseWal, StartThreads, ClientPc, WriterPc
<1>7. CASE OpenRecover
  <2> DEFINE n == ValidWalSize(wal)
             e == RecoveredDataEnd(wal, data)
  <2>1. /\ n \in 1 .. Len(wal) /\ e \in 0 .. Len(data) /\ e <= data_synced
        /\ RecoveredTip(wal) \in Chain
        /\ IndexOf(wal, n) \in [1 .. Height(RecoveredTip(wal)) -> Nat]
    BY <1>7, RecoverFacts, Zenon DEF OpenRecover
  <2>2. /\ wal' = SubSeq(wal, 1, n) /\ wal_synced' = IF n # Len(wal) THEN n ELSE wal_synced
        /\ data' = SubSeq(data, 1, e) /\ data_synced' = IF e # Len(data) THEN e ELSE data_synced
        /\ durable_point' = RecoveredTip(wal) /\ enqueued_point' = RecoveredTip(wal)
        /\ data_end' = e /\ wal_end' = n /\ index' = IndexOf(wal, n)
    BY <1>7, Zenon DEF OpenRecover
  <2> HIDE DEF n, e
  <2>3. wal' \in Seq(WalEvent) /\ Len(wal') = n
    BY <2>1, <2>2
  <2>4. data' \in Seq(DataRecord) /\ Len(data') = e
    BY <2>1, <2>2
  <2>5. wal_synced' \in 0 .. Len(wal') /\ data_synced' \in 0 .. Len(data')
    BY <2>1, <2>2, <2>3, <2>4, SMTT(30)
  <2>6. data_end' \in Nat /\ wal_end' \in Nat
    BY <2>1, <2>2, SMTT(30)
  <2> QED
    BY <1>1, <1>7, <2>1, <2>2, <2>3, <2>4, <2>5, <2>6, Zenon
    DEF OpenRecover, StartThreads, ClientPc, WriterPc
<1> QED
  BY <1>2, <1>3, <1>4, <1>5, <1>6, <1>7, Zenon DEF OpenStep

\* Pushing a block keeps the types.
LEMMA TypePush ==
    ASSUME IndInv, NEW p \in Chain, Push(p)
    PROVE  TypeOK'
<1> USE DEF IndInv, TypeOK, disk, ends, queue, threads, client
<1>1. asleep' \in SUBSET Thread
  BY Zenon DEF Push, NotifyOneSerializer
<1> QED
  BY <1>1, BaseFacts DEF Push, ClientPc

\* The empty index is that of the base.
LEMMA EmptyIndex == <<>> \in [1 .. Height(Base) -> Nat] /\ IndexOf(<<BaseEvent>>, 1) = <<>>
<1>1. Height(Base) = 0 /\ <<BaseEvent>>[1].point = Base
  BY BaseFacts, Zenon DEF BaseEvent
<1>2. <<>> \in [1 .. 0 -> Nat]
  BY SMT
<1>3. IndexOf(<<BaseEvent>>, 1) \in [1 .. 0 -> Nat]
  BY <1>1 DEF IndexOf
<1>4. \A f, g \in [1 .. 0 -> Nat] : f = g
  OBVIOUS
<1> QED
  BY <1>1, <1>2, <1>3, <1>4, Zenon

\* When the process is gone its memory is well typed.
LEMMA TypeGone ==
    ASSUME ProcessGone, data' \in Seq(DataRecord), data_synced' \in 0 .. Len(data'),
           wal' \in Seq(WalEvent), wal_synced' \in 0 .. Len(wal'), acked' \in Chain
    PROVE  TypeOK'
<1>1. Base \in Chain /\ index' \in [1 .. Height(durable_point') -> Nat]
  BY EmptyIndex, BaseFacts, Zenon DEF ProcessGone
<1>2. Exited \in [at : {"wait", "work", "exit"}, item : Chain]
  BY <1>1, Zenon DEF Exited
<1>3. serializer' \in [Serializer -> [at : {"wait", "work", "exit"}, item : Chain]]
  BY <1>2, Zenon DEF ProcessGone
<1>4. input' \in Seq(Chain) /\ batch' \in Seq(Chain) /\ ready' \in SUBSET Chain /\ asleep' \in SUBSET Thread
  BY DEF ProcessGone
<1>5. durable_point' \in Chain /\ enqueued_point' \in Chain /\ arg' \in Chain
  BY <1>1, Zenon DEF ProcessGone
<1>6. /\ data_end' \in Nat /\ wal_end' \in Nat /\ flush_height' \in Nat /\ queued_blocks' \in Nat
      /\ failed' \in BOOLEAN /\ stopping' \in BOOLEAN /\ pc' \in ClientPc /\ writer' \in WriterPc
  BY Zenon DEF ProcessGone, ClientPc, WriterPc
<1> QED
  BY <1>1, <1>3, <1>4, <1>5, <1>6, Zenon DEF TypeOK

\* The client's steps inside a call keep the types.
LEMMA TypeClientStep ==
    ASSUME IndInv, ClientStep
    PROVE  TypeOK'
<1> USE DEF IndInv, TypeOK, disk, ends, queue, threads, client
<1>1. Base \in Chain
  BY BaseFacts, Zenon
<1>2. CASE Return
  BY <1>1, <1>2, Zenon DEF Return, ClientPc
<1>3. CASE SleepAgain
  BY <1>3, Zenon DEF SleepAgain, Thread
<1>4. CASE EnqueueResume
  BY <1>2, <1>3, <1>4, TypePush, ZenonT(40) DEF EnqueueResume
<1>5. CASE WaitResume
  <2>1. CASE /\ Height(durable_point) >= Height(arg)
             /\ Acknowledge(At(durable_point, Height(arg)))
             /\ pc' = "idle" /\ arg' = Base
             /\ UNCHANGED <<disk, durable_point, enqueued_point, ends, flush_height, queue,
                            threads, failed, stopping, asleep>>
    <3>1. Height(arg) \in 0 .. Height(durable_point)
      BY <2>1, BaseFacts
    <3>2. At(durable_point, Height(arg)) \in Chain
      BY <3>1, AtType, Zenon
    <3> QED
      BY <1>1, <2>1, <3>2, Zenon DEF Acknowledge, ClientPc
  <2> QED
    BY <1>2, <1>3, <1>5, <2>1, Zenon DEF WaitResume
<1>6. CASE DrainResume
  BY <1>2, <1>3, <1>6, Zenon DEF DrainResume, ClientPc
<1>7. CASE TruncateNothing
  BY <1>2, <1>7, Zenon DEF TruncateNothing
<1>8. CASE TruncateSync
  <2>1. IsAncestor(arg, enqueued_point) /\ durable_point = enqueued_point
    BY <1>8, Zenon DEF TruncateSync, CtlInv
  <2>2. Height(arg) \in Nat /\ Height(durable_point) \in Nat /\ Height(arg) <= Height(durable_point)
    BY <2>1, BaseFacts, Zenon DEF IsAncestor
  <2>3. TruncatedIndex(arg) \in [1 .. Height(arg) -> Nat]
    BY <2>2 DEF TruncatedIndex
  <2> QED
    BY <1>1, <1>8, <2>3, SMTT(30) DEF TruncateSync, ClientPc
<1>9. CASE CloseAfterError
  BY <1>1, <1>9, BaseFacts, ZenonT(40) DEF CloseAfterError, BeginClose, StopThreads, RequestFlush, MaxOf, ClientPc, Thread
<1>10. CASE CloseResume
  BY <1>1, <1>3, <1>10, Zenon DEF CloseResume, StopThreads, ClientPc
<1>11. CASE Join
  BY <1>11, TypeGone, Zenon DEF Join
<1> QED
  BY <1>4, <1>5, <1>6, <1>7, <1>8, <1>9, <1>10, <1>11, TypeWrite, Zenon DEF ClientStep

\* The client's calls keep the types.
LEMMA TypeClientCall ==
    ASSUME IndInv, ClientCall
    PROVE  TypeOK'
<1> USE DEF IndInv, TypeOK, disk, ends, queue, threads, client
<1>1. Base \in Chain /\ Height(enqueued_point) \in Nat /\ Height(durable_point) \in Nat
  BY BaseFacts, Zenon
<1>2. ASSUME NEW label \in Label, Enqueue(label) PROVE TypeOK'
  <2> DEFINE p == Append(enqueued_point, label)
  <2>1. p \in Chain
    BY AtAppend, Zenon
  <2> HIDE DEF p
  <2>2. CASE Push(p)
    BY <2>1, <2>2, TypePush, Zenon
  <2>3. CASE /\ flush_height' = BackpressureFlush
             /\ asleep' = (asleep \ {"writer"}) \cup {"client"}
             /\ pc' = "enqueue" /\ arg' = p
             /\ UNCHANGED <<disk, durable_point, enqueued_point, ends, queue, threads,
                            failed, stopping, acked>>
    <3>1. BackpressureFlush \in Nat
      BY <1>1, Zenon DEF BackpressureFlush, MaxOf
    <3> QED
      BY <2>1, <2>3, <3>1, Zenon DEF ClientPc, Thread
  <2> QED
    BY <1>2, <2>2, <2>3, Zenon DEF Enqueue, p
<1>3. ASSUME NEW height \in 0 .. Height(enqueued_point), WaitDurable(height) PROVE TypeOK'
  <2>1. At(enqueued_point, height) \in Chain
    BY AtType, Zenon
  <2>2. height <= Height(durable_point) => At(durable_point, height) \in Chain
    BY <1>1, AtType
  <2>3. height \in Nat
    BY <1>1, SMTT(30)
  <2> QED
    BY <1>3, <2>1, <2>2, <2>3, Zenon DEF WaitDurable, Acknowledge, RequestFlush, MaxOf, ClientPc, Thread
<1>4. ASSUME NEW height \in 0 .. Height(enqueued_point), Truncate(At(enqueued_point, height))
      PROVE  TypeOK'
  <2>1. At(enqueued_point, height) \in Chain
    BY AtType, Zenon
  <2> QED
    BY <1>1, <1>4, <2>1, Zenon DEF Truncate, RequestFlush, MaxOf, ClientPc, Thread
<1>5. CASE Close
  BY <1>1, <1>5, Zenon DEF Close, BeginClose, StopThreads, RequestFlush, MaxOf, ClientPc, Thread
<1> QED
  BY <1>2, <1>3, <1>4, <1>5, Zenon DEF ClientCall

\* Crashes keep the types.
LEMMA TypeCrash ==
    ASSUME IndInv, Kill \/ PowerLoss
    PROVE  TypeOK'
<1>1. /\ data \in Seq(DataRecord) /\ data_synced \in 0 .. Len(data)
      /\ wal \in Seq(WalEvent) /\ wal_synced \in 0 .. Len(wal) /\ acked \in Chain
  BY Zenon DEF IndInv, TypeOK
<1>2. CASE Kill
  BY <1>1, <1>2, TypeGone, Zenon DEF Kill, disk
<1>3. CASE PowerLoss
  <2>1. TornEvent \in WalEvent /\ TornPayload \in DataRecord
    BY BaseFacts, Zenon DEF TornPayload, TornEvent, DataRecord, WalEvent
  <2>2. wal' \in Seq(WalEvent) /\ data' \in Seq(DataRecord)
    BY <1>1, <1>3, <2>1, ImageFacts, Zenon DEF PowerLoss
  <2>3. wal_synced' \in 0 .. Len(wal') /\ data_synced' \in 0 .. Len(data')
    BY <1>3, <2>2 DEF PowerLoss
  <2> QED
    BY <1>1, <1>3, <2>2, <2>3, TypeGone, Zenon DEF PowerLoss
<1> QED
  BY <1>2, <1>3, Zenon

\* Every step keeps the types.
LEMMA TypeStep ==
    ASSUME IndInv, [Next]_vars
    PROVE  TypeOK'
<1>1. CASE UNCHANGED vars
  BY <1>1, Zenon DEF IndInv, TypeOK, vars, disk, ends, queue, threads, client
<1> QED
  BY <1>1, TypeSerializer, TypeWriter, TypeOpen, TypeClientStep, TypeClientCall, TypeCrash, Zenon DEF Next

-----------------------------------------------------------------------------
(* The pipeline.                                                           *)

pipe == <<durable_point, enqueued_point, queued_blocks, input, batch, ready, serializer>>

\* The types the pipeline's facts rest on, with the lengths as numbers.
LEMMA PipeTypes ==
    ASSUME TypeOK
    PROVE  /\ durable_point \in Chain /\ enqueued_point \in Chain
           /\ Height(durable_point) \in Nat /\ Height(enqueued_point) \in Nat
           /\ input \in Seq(Chain) /\ batch \in Seq(Chain)
           /\ Len(input) \in Nat /\ Len(batch) \in Nat /\ queued_blocks \in Nat
           /\ ready \in SUBSET Chain
           /\ \A p \in ready : Height(p) \in Nat
           /\ \A s \in Serializer : serializer[s].item \in Chain /\ Height(serializer[s].item) \in Nat
<1>1. /\ durable_point \in Chain /\ enqueued_point \in Chain /\ queued_blocks \in Nat
      /\ input \in Seq(Chain) /\ batch \in Seq(Chain) /\ ready \in SUBSET Chain
      /\ serializer \in [Serializer -> [at : {"wait", "work", "exit"}, item : Chain]]
  BY Zenon DEF TypeOK
<1>2. \A s \in Serializer : serializer[s].item \in Chain
  BY <1>1, Zenon
<1> QED
  BY <1>1, <1>2, BaseFacts, LenWithin, Zenon

\* The heights of the tips, the lengths of the queues between them and their sum.
LEMMA PipeNumbers ==
    ASSUME TypeOK, PipeInv
    PROVE  /\ Height(durable_point) \in Nat /\ Height(enqueued_point) \in Nat
           /\ Len(batch) \in Nat /\ Len(input) \in Nat
           /\ queued_blocks = Height(enqueued_point) - Height(durable_point)
           /\ Height(durable_point) + Len(batch) + Len(input) <= Height(enqueued_point)
BY PipeTypes, Zenon DEF PipeInv

\* When the tips are equal the pipeline is empty.
LEMMA EmptyPipe ==
    ASSUME TypeOK, PipeInv, durable_point = enqueued_point
    PROVE  /\ input = <<>> /\ batch = <<>> /\ queued_blocks = 0 /\ ready = {}
           /\ \A s \in Serializer : ~Working(s)
<1>1. Len(input) = 0 /\ Len(batch) = 0 /\ queued_blocks = 0
  <2>1. /\ Height(durable_point) \in Nat /\ Len(batch) \in Nat /\ Len(input) \in Nat
        /\ Height(durable_point) + Len(batch) + Len(input) <= Height(durable_point)
        /\ queued_blocks = Height(durable_point) - Height(durable_point)
    BY PipeNumbers, Zenon
  <2> QED
    BY ONLY <2>1
<1>2. input = <<>> /\ batch = <<>>
  BY <1>1, PipeTypes
<1>3. \A p : Height(p) \in Nat => ~InFlight(p)
  BY <1>1, PipeTypes DEF InFlight
<1>4. ready = {}
  BY <1>3, PipeTypes, Zenon DEF PipeInv
<1>5. \A s \in Serializer : ~Working(s)
  BY <1>3, PipeTypes, Zenon DEF PipeInv
<1> QED
  BY <1>1, <1>2, <1>4, <1>5, Zenon

\* An empty pipeline with equal tips satisfies the invariant.
LEMMA FreshPipe ==
    ASSUME durable_point' \in Chain, enqueued_point' = durable_point', queued_blocks' = 0,
           input' = <<>>, batch' = <<>>, ready' = {},
           \A s \in Serializer : serializer'[s].at # "work"
    PROVE  PipeInv'
<1>1. Height(durable_point') \in Nat
  BY BaseFacts, Zenon
<1>2. IsAncestor(durable_point', enqueued_point')
  BY <1>1, AtSelf, SMTT(30) DEF IsAncestor
<1> QED
  BY <1>1, <1>2 DEF PipeInv, Working

\* A pushed block goes to the end of the pipeline.
LEMMA PipePush ==
    ASSUME TypeOK, PipeInv, NEW p \in Chain, Push(p),
           Height(p) = Height(enqueued_point) + 1, At(p, Height(enqueued_point)) = enqueued_point
    PROVE  PipeInv'
<1> DEFINE H == Height(enqueued_point)
           L == Len(input)
<1>1. /\ enqueued_point' = p /\ input' = Append(input, p) /\ queued_blocks' = queued_blocks + 1
      /\ UNCHANGED <<durable_point, batch, ready, serializer>>
  BY Zenon DEF Push, threads
<1>2. IsAncestor(enqueued_point, p)
  BY PipeTypes, SMTT(30) DEF IsAncestor
<1>3. \A h \in 0 .. H : At(p, h) = At(enqueued_point, h)
  <2> TAKE h \in 0 .. H
  <2> QED
    BY <1>2, AncestorAt, PipeTypes, Zenon
<1>4. IsAncestor(durable_point, p)
  BY <1>2, PipeTypes, AncestorTrans, Zenon DEF PipeInv
<1>5. Len(input') = L + 1 /\ L \in Nat /\ H \in Nat
  BY <1>1, PipeTypes, SMTT(30)
<1>6. Height(durable_point) + Len(batch) + L <= H
  BY Zenon DEF PipeInv
<1> HIDE DEF H, L
<1>7. ASSUME NEW i \in 1 .. Len(input') PROVE input'[i] = At(p, (H + 1) - (L + 1) + i)
  <2>1. CASE i = L + 1
    <3>1. input'[i] = p
      BY <1>1, <2>1, PipeTypes DEF L
    <3>2. (H + 1) - (L + 1) + i = Height(p)
      BY <1>5, <2>1 DEF H
    <3> QED
      BY <3>1, <3>2, AtSelf, Zenon
  <2>2. CASE i # L + 1
    <3>1. i \in 1 .. L /\ H - L + i \in 0 .. H /\ (H + 1) - (L + 1) + i = H - L + i
      <4>1. Height(durable_point) \in Nat /\ Len(batch) \in Nat /\ i \in 1 .. Len(input')
        BY PipeNumbers, Zenon
      <4> QED
        BY ONLY <1>5, <1>6, <2>2, <4>1
    <3>2. input'[i] = input[i]
      BY <1>1, <3>1, PipeTypes, SMTT(30) DEF L
    <3>3. input[i] = At(enqueued_point, H - L + i)
      BY <3>1, Zenon DEF PipeInv, H, L
    <3> QED
      BY <1>3, <3>1, <3>2, <3>3, Zenon
  <2> QED
    BY <2>1, <2>2, Zenon
<1>8. ASSUME NEW i \in 1 .. Len(batch) PROVE batch[i] = At(p, Height(durable_point) + i)
  <2>1. Height(durable_point) + i \in 0 .. H
    BY <1>5, <1>6, PipeTypes
  <2> QED
    BY <1>3, <2>1, Zenon DEF PipeInv
<1>9. ASSUME NEW q, Height(q) \in Nat, InFlight(q) PROVE InFlight(q)'
  <2>1. /\ q = At(enqueued_point, Height(q)) /\ Height(q) > Height(durable_point) + Len(batch)
        /\ Height(q) <= H - L
    BY <1>9, Zenon DEF InFlight, H, L
  <2>2. Height(q) \in 0 .. H
    BY <1>5, <1>9, <2>1
  <2>3. q = At(p, Height(q))
    BY <1>3, <2>1, <2>2, Zenon
  <2>4. Height(q) <= (H + 1) - (L + 1)
    BY <1>5, <2>1, Lengths, Zenon
  <2> QED
    BY <1>1, <1>5, <2>1, <2>3, <2>4, Zenon DEF InFlight, H
<1>10. queued_blocks' = Height(enqueued_point') - Height(durable_point')
  <2>1. /\ queued_blocks = H - Height(durable_point) /\ Height(durable_point) \in Nat
        /\ queued_blocks' = queued_blocks + 1 /\ Height(enqueued_point') = H + 1
        /\ durable_point' = durable_point
    BY <1>1, PipeNumbers, Zenon DEF H
  <2> QED
    BY ONLY <1>5, <2>1
<1>11. Height(durable_point') + Len(batch') + Len(input') <= Height(enqueued_point')
  BY <1>1, <1>5, <1>6, PipeTypes DEF H
<1>12. \A i \in 1 .. Len(input') : input'[i] = At(enqueued_point', Height(enqueued_point') - Len(input') + i)
  <2>1. enqueued_point' = p /\ Height(enqueued_point') = H + 1 /\ Len(input') = L + 1
    BY <1>1, <1>5, Zenon DEF H
  <2> TAKE i \in 1 .. Len(input')
  <2>2. input'[i] = At(p, (H + 1) - (L + 1) + i)
    BY <1>7, Zenon
  <2> QED
    BY ONLY <2>1, <2>2, Zenon
<1>13. \A i \in 1 .. Len(batch') : batch'[i] = At(enqueued_point', Height(durable_point') + i)
  BY <1>1, <1>8, Zenon
<1>14. \A q \in ready' : InFlight(q)'
  BY <1>1, <1>9, PipeTypes, Zenon DEF PipeInv
<1>15. \A s \in Serializer : Working(s)' => InFlight(serializer[s].item)'
  BY <1>1, <1>9, PipeTypes, Zenon DEF PipeInv, Working
<1>16. (\A s, t \in Serializer : s # t /\ Working(s) /\ Working(t) =>
          Height(serializer[s].item) # Height(serializer[t].item))'
  BY <1>1, Zenon DEF PipeInv, Working
<1>17. (\A s \in Serializer, q \in ready : Working(s) => Height(serializer[s].item) # Height(q))'
  BY <1>1, Zenon DEF PipeInv, Working
<1> QED
  BY <1>1, <1>4, <1>10, <1>11, <1>12, <1>13, <1>14, <1>15, <1>16, <1>17, Zenon DEF PipeInv

\* A serializer takes the head of the queue, gives it to the ready map or drops
\* it on a failure.
LEMMA PipeSerializer ==
    ASSUME TypeOK, PipeInv, NEW s \in Serializer, SerializerStep(s)
    PROVE  PipeInv'
<1> DEFINE H == Height(enqueued_point)
           L == Len(input)
<1>1. H \in Nat /\ L \in Nat /\ Height(durable_point) + Len(batch) + L <= H
  BY PipeTypes, Zenon DEF PipeInv
<1>2. serializer \in [Serializer -> [at : {"wait", "work", "exit"}, item : Chain]]
  BY Zenon DEF TypeOK
<1>3. CASE SerializerTake(s)
  <2>1. input # <<>> /\ Head(input) \in Chain
    BY <1>3, PipeTypes DEF SerializerTake
  <2>2. PICK q \in Chain : q = Head(input)
    BY <2>1, Zenon
  <2>3. /\ input # <<>> /\ input' = Tail(input)
        /\ serializer' = [serializer EXCEPT ![s] = [at |-> "work", item |-> q]]
        /\ UNCHANGED <<durable_point, enqueued_point, queued_blocks, batch, ready>>
    BY <1>3, <2>2, Zenon DEF SerializerTake
  <2>4. L >= 1 /\ Len(input') = L - 1 /\ q = input[1] /\ \A i \in 1 .. L - 1 : input'[i] = input[i + 1]
    BY <2>3, <2>2, PipeTypes, SMTT(30)
  <2>5. H - L + 1 \in 0 .. H
    <3>1. Height(durable_point) \in Nat /\ Len(batch) \in Nat
      BY PipeTypes, Zenon
    <3> QED
      BY ONLY <1>1, <2>4, <3>1, SMTT(30)
  <2>6. q = At(enqueued_point, H - L + 1)
    <3>1. 1 \in 1 .. L
      BY ONLY <1>1, <2>4
    <3> QED
      BY <2>4, <3>1, Zenon DEF PipeInv
  <2>7. Height(q) = H - L + 1 /\ q = At(enqueued_point, Height(q))
    BY <2>5, <2>6, AtType, PipeTypes, Zenon
  <2> HIDE DEF H, L
  <2>8. \A i \in 1 .. Len(input') : input'[i] = At(enqueued_point, H - Len(input') + i)
    <3> TAKE i \in 1 .. Len(input')
    <3>1. i + 1 \in 1 .. L /\ H - L + (i + 1) = H - Len(input') + i
      BY <1>1, <2>4, SMTT(30)
    <3>2. input[i + 1] = At(enqueued_point, H - L + (i + 1))
      BY <3>1, Zenon DEF PipeInv, H, L
    <3> QED
      BY <2>4, <3>1, <3>2, Zenon
  <2>9. \A r : Height(r) \in Nat /\ InFlight(r) => InFlight(r)' /\ Height(r) < H - L + 1
    <3> SUFFICES ASSUME NEW r, Height(r) \in Nat, InFlight(r)
                 PROVE  InFlight(r)' /\ Height(r) < H - L + 1
      BY Zenon
    <3>1. /\ r = At(enqueued_point, Height(r)) /\ Height(r) > Height(durable_point) + Len(batch)
          /\ Height(r) <= H - L
      BY Zenon DEF InFlight, H, L
    <3>2. H \in Nat /\ L \in Nat
      BY <1>1, Zenon
    <3>3. Height(r) <= H - Len(input') /\ Height(r) < H - L + 1
      BY ONLY Height(r) \in Nat, <2>4, <3>1, <3>2
    <3> QED
      BY <2>3, <3>1, <3>3, Zenon DEF InFlight, H
  <2>10. InFlight(q)'
    <3>1. Height(durable_point) \in Nat /\ Len(batch) \in Nat
      BY PipeNumbers, Zenon
    <3>2. Height(q) > Height(durable_point) + Len(batch) /\ Height(q) <= H - Len(input')
      BY ONLY <1>1, <2>4, <2>7, <3>1
    <3> QED
      BY <2>3, <2>7, <3>2, Zenon DEF InFlight, H
  <2>11. \A t \in Serializer : t # s => serializer'[t] = serializer[t]
    BY <1>2, <2>3, Zenon
  <2>12. serializer'[s].at = "work" /\ serializer'[s].item = q
    BY <1>2, <2>3, Zenon
  <2>13. \A r \in ready : InFlight(r)' /\ Height(r) < Height(q)
    BY <2>7, <2>9, PipeTypes, Zenon DEF PipeInv
  <2>14. \A t \in Serializer : t # s /\ Working(t) => InFlight(serializer[t].item)' /\ Height(serializer[t].item) < Height(q)
    <3> SUFFICES ASSUME NEW t \in Serializer, t # s, Working(t)
                 PROVE  /\ Height(serializer[t].item) \in Nat /\ InFlight(serializer[t].item)
                        /\ serializer'[t] = serializer[t]
      BY <2>7, <2>9, Zenon DEF InFlight
    <3> QED
      BY <2>11, PipeTypes, Zenon DEF PipeInv
  <2>15. \A t \in Serializer : Working(t)' => InFlight(serializer[t].item)'
    BY <2>10, <2>11, <2>12, <2>14, Zenon DEF Working, InFlight
  <2>16. \A t, u \in Serializer : t # u /\ Working(t)' /\ Working(u)' =>
           Height(serializer'[t].item) # Height(serializer'[u].item)
    <3> SUFFICES ASSUME NEW t \in Serializer, NEW u \in Serializer, t # u, Working(t)', Working(u)'
                 PROVE  Height(serializer'[t].item) # Height(serializer'[u].item)
      BY Zenon
    <3>1. CASE t # s /\ u # s
      BY <2>11, <3>1, Zenon DEF PipeInv, Working
    <3>2. ASSUME NEW v \in Serializer, v # s, Working(v)'
          PROVE  Height(serializer'[v].item) # Height(q)
      <4>1. Working(v) /\ serializer'[v] = serializer[v]
        BY <2>11, <3>2, Zenon DEF Working
      <4>2. Height(serializer[v].item) < Height(q) /\ Height(serializer[v].item) \in Nat
        BY <2>14, <3>2, <4>1, PipeTypes, Zenon
      <4>3. Height(q) \in Nat
        BY BaseFacts, Zenon
      <4> QED
        BY <4>1, <4>2, <4>3
    <3>3. CASE t = s \/ u = s
      BY <2>12, <3>2, <3>3, Zenon
    <3> QED
      BY <3>1, <3>2, <3>3, Zenon
  <2>17. \A t \in Serializer, r \in ready : Working(t)' => Height(serializer'[t].item) # Height(r)
    <3> SUFFICES ASSUME NEW t \in Serializer, NEW r \in ready, Working(t)'
                 PROVE  Height(serializer'[t].item) # Height(r)
      BY Zenon
    <3>1. CASE t # s
      BY <2>11, <3>1, Zenon DEF PipeInv, Working
    <3>2. CASE t = s
      <4>1. Height(r) < Height(q) /\ Height(r) \in Nat /\ Height(q) \in Nat
        BY <2>13, BaseFacts, PipeTypes, Zenon
      <4>2. Height(r) # Height(q)
        BY ONLY <4>1
      <4> QED
        BY <2>12, <3>2, <4>2, Zenon
    <3> QED
      BY <3>1, <3>2, Zenon
  <2>18. Height(durable_point) + Len(batch) + Len(input') <= H
    BY <1>1, <2>4, PipeTypes, SMTT(30)
  <2> QED
    BY <2>3, <2>8, <2>13, <2>15, <2>16, <2>17, <2>18, Zenon DEF PipeInv, H
<1>4. CASE UNCHANGED pipe
  BY <1>4, Zenon DEF pipe, PipeInv, InFlight, Working
<1>5. CASE serializer' = [serializer EXCEPT ![s] = Exited] /\ UNCHANGED
             <<durable_point, enqueued_point, queued_blocks, input, batch, ready>>
  <2>1. serializer'[s].at = "exit" /\ \A t \in Serializer : t # s => serializer'[t] = serializer[t]
    BY <1>2, <1>5, Zenon DEF Exited
  <2>2. \A t \in Serializer : Working(t)' => Working(t) /\ serializer'[t] = serializer[t]
    BY <2>1, Zenon DEF Working
  <2>3. \A p : InFlight(p)' <=> InFlight(p)
    BY <1>5, Zenon DEF InFlight
  <2>4. \A t \in Serializer : Working(t)' => InFlight(serializer[t].item)'
    BY <1>5, <2>2, Zenon DEF PipeInv, InFlight
  <2> QED
    BY <1>5, <2>2, <2>3, <2>4, Zenon DEF PipeInv
<1>6. CASE SerializerPublish(s)
  <2>1. /\ Working(s) /\ ready' = ready \cup {serializer[s].item}
        /\ serializer' = [serializer EXCEPT ![s] = Waiting]
        /\ UNCHANGED <<durable_point, enqueued_point, queued_blocks, input, batch>>
    BY <1>6, Zenon DEF SerializerPublish, Working, queue
  <2>2. serializer'[s].at = "wait" /\ \A t \in Serializer : t # s => serializer'[t] = serializer[t]
    BY <1>2, <2>1, Zenon DEF Waiting
  <2>3. \A t \in Serializer : Working(t)' => t # s /\ Working(t) /\ serializer'[t] = serializer[t]
    BY <2>2, Zenon DEF Working
  <2>4. \A p : InFlight(p)' <=> InFlight(p)
    BY <2>1, Zenon DEF InFlight
  <2>5. \A t \in Serializer : Working(t)' => InFlight(serializer[t].item)'
    BY <2>1, <2>3, Zenon DEF PipeInv, InFlight
  <2>6. \A p \in ready' : InFlight(p)'
    BY <2>1, <2>4, ZenonT(40) DEF PipeInv
  <2>7. \A t \in Serializer, p \in ready' : Working(t)' => Height(serializer'[t].item) # Height(p)
    <3> SUFFICES ASSUME NEW t \in Serializer, NEW p \in ready', Working(t)'
                 PROVE  Height(serializer'[t].item) # Height(p)
      BY Zenon
    <3>1. t # s /\ Working(t) /\ serializer'[t] = serializer[t]
      BY <2>3, Zenon
    <3>2. CASE p \in ready
      BY <3>1, <3>2, Zenon DEF PipeInv
    <3>3. CASE p = serializer[s].item
      BY <2>1, <3>1, <3>3, Zenon DEF PipeInv
    <3> QED
      BY <2>1, <3>2, <3>3, Zenon
  <2> QED
    BY <2>1, <2>3, <2>5, <2>6, <2>7, Zenon DEF PipeInv
<1> QED
  BY <1>3, <1>4, <1>5, <1>6, Zenon
  DEF SerializerStep, SerializerSleep, SerializerExit, SerializerFail, pipe, queue, threads

\* A batch is the next blocks above the durable tip; what stays in the ready map
\* or with the serializers is above it.
LEMMA PipeTakeBatch ==
    ASSUME TypeOK, PipeInv, batch = <<>>, NEW n \in 1 .. GroupCommitBlocks, ContiguousReady(n),
           batch' = [i \in 1 .. n |-> ReadyAt(Height(durable_point) + i)],
           ready' = {p \in ready : Height(p) > Height(durable_point) + n},
           UNCHANGED <<durable_point, enqueued_point, queued_blocks, input, serializer>>
    PROVE  PipeInv'
<1> DEFINE D == Height(durable_point)
<1>1. n \in Nat /\ n >= 1 /\ D \in Nat /\ Len(batch) = 0
  BY ConfigAssumption, PipeTypes, SMTT(30)
<1>2. \A i \in 1 .. n : /\ ReadyAt(D + i) \in ready
                        /\ ReadyAt(D + i) = At(enqueued_point, D + i) /\ Height(ReadyAt(D + i)) = D + i
  BY <1>1, ReadyFacts, Zenon DEF ContiguousReady
<1>3. Len(batch') = n /\ \A i \in 1 .. n : batch'[i] = At(enqueued_point, D + i)
  <2>1. Len(batch') = n /\ \A i \in 1 .. n : batch'[i] = ReadyAt(D + i)
    BY <1>1, TakenLen, Zenon
  <2> QED
    BY <1>2, <2>1, Zenon
<1>4. D + n <= Height(enqueued_point) - Len(input)
  <2>1. n \in 1 .. n
    BY ONLY <1>1
  <2>2. InFlight(ReadyAt(D + n)) /\ Height(ReadyAt(D + n)) = D + n
    BY <1>2, <2>1, Zenon DEF PipeInv
  <2> QED
    BY ONLY <2>2, Zenon DEF InFlight
<1> HIDE DEF D
<1>5. \A p \in ready' : InFlight(p)'
  BY <1>3, Zenon DEF PipeInv, InFlight, D
<1>6. ASSUME NEW s \in Serializer, Working(s) PROVE Height(serializer[s].item) > D + n
  <2>1. Height(serializer[s].item) > D /\ Height(serializer[s].item) \in Nat
    <3>1. /\ Height(serializer[s].item) \in Nat
          /\ Height(serializer[s].item) > Height(durable_point) + Len(batch)
      BY <1>6, PipeTypes, Zenon DEF PipeInv, InFlight
    <3>2. Height(durable_point) \in Nat /\ Len(batch) = 0
      BY <1>1, Zenon DEF D
    <3> QED
      BY ONLY <3>1, <3>2 DEF D
  <2>2. \A i \in 1 .. n : Height(serializer[s].item) # D + i
    BY <1>2, <1>6, Zenon DEF PipeInv
  <2>3. CASE Height(serializer[s].item) <= D + n
    <3>1. Height(serializer[s].item) - D \in 1 .. n
      BY <1>1, <2>1, <2>3
    <3>2. Height(serializer[s].item) = D + (Height(serializer[s].item) - D)
      BY <1>1, <2>1, SMTT(30)
    <3> QED
      BY <2>2, <3>1, <3>2, Zenon
  <2> QED
    BY ONLY <1>1, <2>1, <2>3, SMTT(30)
<1>7. \A s \in Serializer : Working(s)' => InFlight(serializer[s].item)'
  BY <1>3, <1>6, Zenon DEF PipeInv, InFlight, Working, D
<1>8. D + Len(batch') + Len(input) <= Height(enqueued_point)
  <2>1. Len(input) \in Nat /\ Height(enqueued_point) \in Nat
    BY PipeNumbers, Zenon
  <2> QED
    BY ONLY <1>1, <1>3, <1>4, <2>1
<1>9. \A s \in Serializer, p \in ready' : Working(s)' => Height(serializer'[s].item) # Height(p)
  BY Zenon DEF PipeInv, Working
<1>10. \A s, t \in Serializer : s # t /\ Working(s)' /\ Working(t)' =>
         Height(serializer'[s].item) # Height(serializer'[t].item)
  BY Zenon DEF PipeInv, Working
<1> QED
  BY <1>3, <1>5, <1>7, <1>8, <1>9, <1>10, Zenon DEF PipeInv, D

\* Publishing a batch moves the durable tip over it.
LEMMA PipePublish ==
    ASSUME TypeOK, PipeInv, batch # <<>>, Publish
    PROVE  PipeInv'
<1> DEFINE D == Height(durable_point)
           m == Len(batch)
<1>1. /\ durable_point' = batch[m] /\ queued_blocks' = queued_blocks - m /\ batch' = <<>>
      /\ UNCHANGED <<enqueued_point, input, ready, serializer>>
  BY Zenon DEF Publish
<1>2. m \in Nat /\ m >= 1 /\ D \in Nat
  BY PipeTypes, SMTT(30)
<1>3. D + m + Len(input) <= Height(enqueued_point) /\ batch[m] = At(enqueued_point, D + m)
  <2>1. m \in 1 .. m
    BY ONLY <1>2
  <2> QED
    BY <2>1, Zenon DEF PipeInv
<1>4. D + m \in 0 .. Height(enqueued_point)
  BY <1>2, <1>3, PipeTypes, SMTT(30)
<1>5. Height(durable_point') = D + m /\ IsAncestor(durable_point', enqueued_point)
  BY <1>1, <1>3, <1>4, AtType, AtIsAncestor, PipeTypes, Zenon
<1> HIDE DEF D, m
<1>6. \A p : InFlight(p) => InFlight(p)'
  <2>1. D + m = Height(durable_point') + Len(batch')
    <3>1. Len(batch') = 0
      BY <1>1, Zenon
    <3> QED
      BY ONLY <1>2, <1>5, <3>1
  <2> QED
    BY <1>1, <2>1, Zenon DEF InFlight, D, m
<1>7. queued_blocks' = Height(enqueued_point) - Height(durable_point')
  <2>1. queued_blocks = Height(enqueued_point) - D /\ Height(enqueued_point) \in Nat
    BY PipeNumbers, Zenon DEF D
  <2>2. queued_blocks' = queued_blocks - m
    BY <1>1, Zenon
  <2> QED
    BY ONLY <1>2, <1>5, <2>1, <2>2
<1>8. Height(durable_point') + Len(batch') + Len(input) <= Height(enqueued_point)
  <2>1. Len(batch') = 0 /\ Len(input) \in Nat /\ Height(enqueued_point) \in Nat
    BY <1>1, PipeNumbers, Zenon
  <2> QED
    BY ONLY <1>2, <1>3, <1>5, <2>1
<1>9. \A s \in Serializer : Working(s)' => InFlight(serializer[s].item)'
  <2> SUFFICES ASSUME NEW s \in Serializer, Working(s)'
               PROVE  InFlight(serializer[s].item)'
    BY Zenon
  <2>1. PICK p : p = serializer[s].item
    BY Zenon
  <2>2. InFlight(p)
    BY <1>1, <2>1, Zenon DEF PipeInv, Working
  <2>3. InFlight(p)' /\ serializer'[s].item = p
    BY <1>1, <1>6, <2>1, <2>2, Zenon
  <2> QED
    BY <2>3, Zenon DEF InFlight
<1>10. \A p \in ready' : InFlight(p)'
  BY <1>1, <1>6, Zenon DEF PipeInv
<1>11. 1 .. Len(batch') = {}
  BY ONLY <1>1, SMTT(30)
<1>12. /\ \A s, t \in Serializer : s # t /\ Working(s)' /\ Working(t)' =>
            Height(serializer'[s].item) # Height(serializer'[t].item)
       /\ \A s \in Serializer, p \in ready' :
            Working(s)' => Height(serializer'[s].item) # Height(p)
  BY <1>1, Zenon DEF PipeInv, Working
<1>13. \A i \in 1 .. Len(input') :
         input'[i] = At(enqueued_point', Height(enqueued_point') - Len(input') + i)
  BY <1>1, Zenon DEF PipeInv
<1> QED
  BY ONLY <1>1, <1>5, <1>7, <1>8, <1>9, <1>10, <1>11, <1>12, <1>13, Zenon DEF PipeInv

\* A failed writer drops its batch.
LEMMA PipeWriterFails ==
    ASSUME TypeOK, PipeInv, batch' = <<>>,
           UNCHANGED <<durable_point, enqueued_point, queued_blocks, input, ready, serializer>>
    PROVE  PipeInv'
<1>1. Len(batch') = 0 /\ Len(batch) \in Nat
  BY PipeTypes, Zenon
<1>2. \A p : Height(p) \in Nat /\ InFlight(p) => InFlight(p)'
  BY <1>1, PipeTypes DEF InFlight
<1>3. \A s \in Serializer : Working(s)' => InFlight(serializer[s].item)'
  <2> SUFFICES ASSUME NEW s \in Serializer, Working(s)'
               PROVE  InFlight(serializer[s].item)'
    BY Zenon
  <2>1. PICK p : p = serializer[s].item /\ Height(p) \in Nat
    BY PipeTypes, Zenon
  <2>2. InFlight(p)
    BY <2>1, Zenon DEF PipeInv, Working
  <2>3. InFlight(p)' /\ serializer'[s].item = p
    BY <1>2, <2>1, <2>2, Zenon
  <2> QED
    BY <2>3, Zenon DEF InFlight
<1>4. Height(durable_point) + 0 + Len(input) <= Height(enqueued_point)
  <2>1. /\ Height(durable_point) \in Nat /\ Height(enqueued_point) \in Nat /\ Len(input) \in Nat
        /\ Height(durable_point) + Len(batch) + Len(input) <= Height(enqueued_point)
    BY PipeNumbers, Zenon
  <2> QED
    BY ONLY <1>1, <2>1
<1>5. \A p \in ready' : InFlight(p)'
  BY <1>2, PipeTypes, Zenon DEF PipeInv
<1>6. 1 .. Len(batch') = {}
  BY ONLY <1>1, SMTT(30)
<1>7. /\ \A s, t \in Serializer : s # t /\ Working(s)' /\ Working(t)' =>
           Height(serializer'[s].item) # Height(serializer'[t].item)
      /\ \A s \in Serializer, p \in ready' :
           Working(s)' => Height(serializer'[s].item) # Height(p)
  BY Zenon DEF PipeInv, Working
<1>8. /\ \A i \in 1 .. Len(input') :
           input'[i] = At(enqueued_point', Height(enqueued_point') - Len(input') + i)
      /\ IsAncestor(durable_point', enqueued_point')
      /\ queued_blocks' = Height(enqueued_point') - Height(durable_point')
  BY Zenon DEF PipeInv
<1>9. Height(durable_point') + Len(batch') + Len(input') <= Height(enqueued_point')
  BY <1>1, <1>4, Zenon
<1> QED
  BY ONLY <1>3, <1>5, <1>6, <1>7, <1>8, <1>9, Zenon DEF PipeInv

\* Every step keeps the pipeline in order.
LEMMA PipeStep ==
    ASSUME IndInv, [Next]_vars
    PROVE  PipeInv'
<1> USE DEF disk, ends, queue, threads, client
<1>1. TypeOK /\ PipeInv /\ CtlInv
  BY Zenon DEF IndInv
<1>2. CASE UNCHANGED pipe
  BY <1>1, <1>2, Zenon DEF pipe, PipeInv, InFlight, Working
<1>3. CASE \E s \in Serializer : SerializerStep(s)
  BY <1>1, <1>3, PipeSerializer, Zenon
<1>4. CASE WriterStep
  <2>1. ASSUME NEW n \in 1 .. GroupCommitBlocks, ContiguousReady(n), TakeBatch(n), writer \in {"wait", "group"}
        PROVE  PipeInv'
    <3>1. batch = <<>>
      BY <1>1, <2>1, Zenon DEF CtlInv, Holding
    <3> QED
      BY <1>1, <2>1, <3>1, PipeTakeBatch, Zenon DEF TakeBatch
  <2>2. CASE WriterBegin
    BY <1>2, <2>1, <2>2, Zenon DEF WriterBegin, pipe
  <2>3. CASE WriterGroup
    BY <1>2, <2>1, <2>3, Zenon DEF WriterGroup, pipe
  <2>4. CASE WriterTimeout
    <3>1. batch = <<>>
      BY <1>1, <2>4, Zenon DEF WriterTimeout, CtlInv, Holding
    <3>2. PICK n \in 1 .. GroupCommitBlocks :
            /\ ContiguousReady(n)
            /\ batch' = [i \in 1 .. n |-> ReadyAt(Height(durable_point) + i)]
            /\ ready' = {p \in ready : Height(p) > Height(durable_point) + n}
      BY <2>4, Zenon DEF WriterTimeout
    <3>3. UNCHANGED <<durable_point, enqueued_point, queued_blocks, input, serializer>>
      BY <2>4, Zenon DEF WriterTimeout
    <3> QED
      BY <1>1, <3>1, <3>2, <3>3, PipeTakeBatch, Zenon
  <2>5. CASE WriterFails
    BY <1>1, <2>5, PipeWriterFails, Zenon DEF WriterFails
  <2>6. CASE \E at \in WriterPc : WriterGoesTo(at)
    BY <1>2, <2>6, Zenon DEF WriterGoesTo, pipe
  <2>7. CASE writer = "publish" /\ Publish
    <3>1. batch # <<>>
      BY <1>1, <2>7, Zenon DEF CtlInv, Holding
    <3> QED
      BY <1>1, <2>7, <3>1, PipePublish, Zenon
  <2>8. CASE WriterSleep \/ WriterExit
    BY <1>2, <2>8, Zenon DEF WriterSleep, WriterExit, pipe
  <2> QED
    BY <1>4, <2>2, <2>3, <2>4, <2>5, <2>6, <2>7, <2>8, Zenon
    DEF WriterStep, WriteData, SyncData, WriteWal, SyncWal, CommitPublish, WriterPc
<1>5. CASE pc = "down" /\ OpenRecover
  <2>1. durable_point = enqueued_point
    BY <1>1, <1>5, Zenon DEF CtlInv, Running
  <2>2. input = <<>> /\ batch = <<>> /\ queued_blocks = 0 /\ ready = {}
    BY <1>1, <2>1, EmptyPipe, Zenon
  <2>3. durable_point' \in Chain /\ enqueued_point' = durable_point'
    BY <1>5, RecoverFacts, Zenon DEF OpenRecover, IndInv
  <2>4. \A s \in Serializer : serializer'[s].at # "work"
    BY <1>5, Zenon DEF OpenRecover, StartThreads, Waiting
  <2> QED
    BY <1>5, <2>2, <2>3, <2>4, FreshPipe, Zenon DEF OpenRecover
<1>6. CASE SyncBaseWal
  <2>1. durable_point = enqueued_point
    BY <1>1, <1>6, Zenon DEF SyncBaseWal, CtlInv, Running
  <2>2. input = <<>> /\ batch = <<>> /\ queued_blocks = 0 /\ ready = {}
    BY <1>1, <2>1, EmptyPipe, Zenon
  <2>3. durable_point' \in Chain /\ enqueued_point' = durable_point'
    BY <1>1, <1>6, <2>1, Zenon DEF SyncBaseWal, TypeOK
  <2>4. \A s \in Serializer : serializer'[s].at # "work"
    BY <1>6, Zenon DEF SyncBaseWal, StartThreads, Waiting
  <2> QED
    BY <1>6, <2>2, <2>3, <2>4, FreshPipe, Zenon DEF SyncBaseWal
<1>7. CASE OpenStep
  BY <1>2, <1>5, <1>6, <1>7, Zenon
  DEF OpenStep, OpenEmpty, CreateBaseData, SyncBaseData, CreateBaseWal, OpenRecover, pipe
<1>8. CASE ProcessGone
  <2>1. durable_point' \in Chain /\ enqueued_point' = durable_point'
    BY <1>8, BaseFacts, Zenon DEF ProcessGone
  <2>2. \A s \in Serializer : serializer'[s].at # "work"
    BY <1>8, Zenon DEF ProcessGone, Exited
  <2> QED
    BY <1>8, <2>1, <2>2, FreshPipe, Zenon DEF ProcessGone
<1>9. CASE EnqueueResume
  <2>1. CASE Push(arg)
    <3>1. arg \in Chain /\ arg # Base /\ Parent(arg) = enqueued_point
      BY <1>1, <1>9, Zenon DEF EnqueueResume, CtlInv, TypeOK
    <3>2. Height(arg) \in Nat /\ Height(arg) # 0
      BY <3>1, BaseFacts, Zenon
    <3>3. Height(arg) - 1 \in 0 .. Height(arg)
      BY <3>2
    <3>4. Height(enqueued_point) = Height(arg) - 1
      BY <3>1, <3>3, AtType, Zenon DEF Parent
    <3>5. Height(arg) = Height(enqueued_point) + 1 /\ At(arg, Height(enqueued_point)) = enqueued_point
      BY <3>1, <3>2, <3>4, SMTT(30) DEF Parent
    <3> QED
      BY <1>1, <2>1, <3>1, <3>5, PipePush, Zenon
  <2> QED
    BY <1>2, <1>9, <2>1, Zenon DEF EnqueueResume, Return, SleepAgain, pipe
<1>10. CASE TruncateSync
  <2>1. durable_point = enqueued_point
    BY <1>1, <1>10, Zenon DEF TruncateSync, CtlInv
  <2>2. input = <<>> /\ batch = <<>> /\ queued_blocks = 0 /\ ready = {} /\ \A s \in Serializer : ~Working(s)
    BY <1>1, <2>1, EmptyPipe, Zenon
  <2>3. durable_point' \in Chain /\ enqueued_point' = durable_point'
    BY <1>1, <1>10, <2>1, Zenon DEF TruncateSync, TypeOK
  <2> QED
    BY <1>10, <2>2, <2>3, FreshPipe, Zenon DEF TruncateSync, Working
<1>11. CASE ClientStep
  BY <1>2, <1>8, <1>9, <1>10, <1>11, Zenon
  DEF ClientStep, WaitResume, DrainResume, TruncateNothing, TruncateWrite, CloseAfterError,
      BeginClose, CloseResume, Join, Return, SleepAgain, pipe
<1>12. ASSUME NEW label \in Label, Enqueue(label) PROVE PipeInv'
  <2> DEFINE p == Append(enqueued_point, label)
  <2>1. p \in Chain /\ Height(p) = Height(enqueued_point) + 1 /\ At(p, Height(enqueued_point)) = enqueued_point
    <3>1. enqueued_point \in Chain /\ Height(enqueued_point) \in Nat
      BY <1>1, PipeTypes, Zenon
    <3>2. Height(enqueued_point) \in 0 .. Height(enqueued_point)
      BY ONLY <3>1
    <3> QED
      BY <3>1, <3>2, AtAppend, AtSelf, Zenon
  <2> HIDE DEF p
  <2>2. CASE Push(p)
    BY <1>1, <2>1, <2>2, PipePush, Zenon
  <2>3. CASE UNCHANGED pipe
    BY <1>2, <2>3, Zenon
  <2> QED
    BY <1>12, <2>2, <2>3, Zenon DEF Enqueue, p, pipe
<1>13. CASE ClientCall
  BY <1>2, <1>12, <1>13, Zenon DEF ClientCall, WaitDurable, Truncate, Close, BeginClose, pipe
<1>14. CASE UNCHANGED vars
  BY <1>2, <1>14, Zenon DEF vars, pipe
<1> QED
  BY <1>3, <1>4, <1>7, <1>8, <1>11, <1>13, <1>14, Zenon DEF Next, Kill, PowerLoss

-----------------------------------------------------------------------------
(* The threads' positions.                                                 *)

\* A block in the pipeline keeps the tips apart.
LEMMA TipsApart ==
    ASSUME TypeOK, PipeInv, batch # <<>> \/ \E s \in Serializer : Working(s)
    PROVE  durable_point # enqueued_point
BY EmptyPipe, Zenon

\* Serializers run only while the store is open.
LEMMA CtlSerializer ==
    ASSUME IndInv, NEW s \in Serializer, SerializerStep(s)
    PROVE  CtlInv' /\ Running
<1> USE DEF disk, ends, queue, threads, client
<1>1. TypeOK /\ PipeInv /\ CtlInv
  BY Zenon DEF IndInv
<1>2. serializer[s].at # "exit"
  BY Zenon DEF SerializerStep, SerializerTake, SerializerSleep, SerializerExit, SerializerPublish, SerializerFail
<1>3. Running
  BY <1>1, <1>2, SMTT(30) DEF CtlInv, Exited
<1>4. UNCHANGED <<durable_point, enqueued_point, writer, batch, stopping, pc, arg>>
  BY Zenon DEF SerializerStep, SerializerTake, SerializerSleep, SerializerExit, SerializerPublish, SerializerFail
<1>5. failed' = failed \/ (failed' /\ Working(s))
  BY Zenon DEF SerializerStep, SerializerTake, SerializerSleep, SerializerExit, SerializerPublish,
    SerializerFail, SetFailure, Working
<1>6. pc \in {"truncate", "truncate_sync", "close"} => ~failed'
  BY <1>1, <1>5, TipsApart, Zenon DEF CtlInv
<1>7. failed => failed'
  BY Zenon DEF SerializerStep, SerializerTake, SerializerSleep, SerializerExit, SerializerPublish,
    SerializerFail, SetFailure
<1>8. Running'
  BY <1>3, <1>4, Zenon DEF Running
<1> QED
  BY <1>1, <1>3, <1>4, <1>6, <1>7, <1>8, Zenon DEF CtlInv, Holding

\* The writer runs only while the store is open.
LEMMA CtlWriter ==
    ASSUME IndInv, WriterStep
    PROVE  CtlInv' /\ Running
<1> USE DEF disk, ends, queue, threads, client
<1>1. TypeOK /\ PipeInv /\ CtlInv
  BY Zenon DEF IndInv
<1>2. writer # "exit"
  BY Zenon DEF WriterStep, WriterBegin, WriterGroup, WriterTimeout, WriterSleep, WriterExit,
    WriteData, SyncData, WriteWal, SyncWal, CommitPublish
<1>3. Running
  BY <1>1, <1>2, Zenon DEF CtlInv
<1>4. UNCHANGED <<enqueued_point, stopping, pc, arg>>
  BY Zenon DEF WriterStep, WriterBegin, WriterGroup, WriterTimeout, WriterSleep, WriterExit,
    WriteData, SyncData, WriteWal, SyncWal, CommitPublish, TakeBatch, WriterGoesTo, WriterFails, Publish
<1>5. Running'
  BY <1>3, <1>4, Zenon DEF Running
<1>6. ASSUME NEW n \in 1 .. GroupCommitBlocks, batch' = [i \in 1 .. n |-> ReadyAt(Height(durable_point) + i)]
      PROVE  batch' # <<>>
  <2>1. n \in Nat /\ n >= 1
    BY ConfigAssumption
  <2>2. Len(batch') = n
    BY <1>6, <2>1, SMTT(30)
  <2> QED
    BY <2>1, <2>2
<1>7. ASSUME durable_point' = durable_point, failed' = failed, writer' \in Holding <=> batch' # <<>>, writer' # "exit"
      PROVE  CtlInv'
  BY <1>1, <1>3, <1>4, <1>5, <1>7, Zenon DEF CtlInv
<1>8. CASE WriterBegin \/ WriterGroup
  <2>1. writer' \in Holding <=> batch' # <<>>
    BY <1>1, <1>6, <1>8, Zenon DEF WriterBegin, WriterGroup, TakeBatch, CtlInv, Holding
  <2> QED
    <3>1. durable_point' = durable_point /\ failed' = failed /\ writer' # "exit"
      BY <1>8, Zenon DEF WriterBegin, WriterGroup, TakeBatch
    <3> QED
      BY <1>3, <1>7, <2>1, <3>1, Zenon
<1>9. CASE WriterTimeout
  <2>1. writer' \in Holding <=> batch' # <<>>
    BY <1>6, <1>9, Zenon DEF WriterTimeout, Holding
  <2> QED
    <3>1. durable_point' = durable_point /\ failed' = failed /\ writer' # "exit"
      BY <1>9, Zenon DEF WriterTimeout
    <3> QED
      BY <1>3, <1>7, <2>1, <3>1, Zenon
<1>10. CASE WriterSleep
  <2>1. writer' \in Holding <=> batch' # <<>>
    BY <1>1, <1>10, Zenon DEF WriterSleep, CtlInv
  <2> QED
    <3>1. durable_point' = durable_point /\ failed' = failed /\ writer' # "exit"
      BY <1>10, Zenon DEF WriterSleep
    <3> QED
      BY <1>3, <1>7, <2>1, <3>1, Zenon
<1>11. CASE WriterExit
  <2>1. UNCHANGED <<durable_point, failed, batch>> /\ writer' = "exit" /\ writer \notin Holding /\ (failed \/ stopping)
    BY <1>11, Zenon DEF WriterExit, Holding
  <2> QED
    BY <1>1, <1>3, <1>4, <1>5, <2>1, Zenon DEF CtlInv, Holding
<1>12. CASE writer \in Holding /\ WriterFails
  <2>1. durable_point # enqueued_point
    BY <1>1, <1>12, TipsApart, Zenon DEF CtlInv
  <2>2. failed' /\ writer' = "exit" /\ batch' = <<>> /\ UNCHANGED durable_point
    BY <1>12, Zenon DEF WriterFails, SetFailure
  <2>3. pc \notin {"truncate", "truncate_sync", "close"}
    BY <1>1, <2>1, Zenon DEF CtlInv
  <2> QED
    BY <1>1, <1>3, <1>4, <1>5, <2>2, <2>3, Zenon DEF CtlInv, Holding
<1>13. ASSUME NEW at \in {"data_sync", "wal", "wal_sync", "publish"}, WriterGoesTo(at), writer \in Holding
       PROVE  CtlInv'
  <2>1. writer' \in Holding <=> batch' # <<>>
    BY <1>1, <1>13, Zenon DEF WriterGoesTo, CtlInv, Holding
  <2> QED
    BY <1>7, <1>13, <2>1, Zenon DEF WriterGoesTo
<1>14. CASE writer \in Holding /\ Publish
  <2>1. durable_point # enqueued_point
    BY <1>1, <1>14, TipsApart, Zenon DEF CtlInv
  <2>2. writer' = "wait" /\ batch' = <<>> /\ UNCHANGED failed
    BY <1>14, Zenon DEF Publish
  <2>3. pc \notin {"truncate", "truncate_sync", "close"}
    BY <1>1, <2>1, Zenon DEF CtlInv
  <2> QED
    BY <1>1, <1>3, <1>4, <1>5, <2>2, <2>3, Zenon DEF CtlInv, Holding
<1>15. CASE WriteData \/ SyncData \/ WriteWal \/ SyncWal \/ CommitPublish
  <2>1. writer \in Holding
    BY <1>15, Zenon DEF WriteData, SyncData, WriteWal, SyncWal, CommitPublish, Holding
  <2>2. \/ WriterFails \/ Publish
        \/ \E at \in {"data_sync", "wal", "wal_sync", "publish"} : WriterGoesTo(at)
    BY <1>15, Zenon DEF WriteData, SyncData, WriteWal, SyncWal, CommitPublish
  <2> QED
    BY <1>3, <1>12, <1>13, <1>14, <2>1, <2>2, Zenon
<1> QED
  BY <1>3, <1>8, <1>9, <1>10, <1>11, <1>15, Zenon DEF WriterStep

\* Opening: no thread runs before the base record is on disk.
LEMMA CtlOpen ==
    ASSUME IndInv, OpenStep
    PROVE  CtlInv'
<1> USE DEF disk, ends, queue, threads, client
<1>1. TypeOK /\ PipeInv /\ CtlInv
  BY Zenon DEF IndInv
<1>2. ~Running
  BY Zenon DEF OpenStep, OpenEmpty, CreateBaseData, SyncBaseData, CreateBaseWal, SyncBaseWal, OpenRecover, Running
<1>3. /\ durable_point = Base /\ enqueued_point = Base /\ index = <<>>
      /\ serializer = [s \in Serializer |-> Exited] /\ writer = "exit"
      /\ ~failed /\ wal_end = 0 /\ batch = <<>> /\ ~stopping
  <2>1. ~stopping
    BY <1>1, <1>2, Zenon DEF CtlInv, Running
  <2> QED
    BY <1>1, <1>2, <2>1, EmptyPipe, Zenon DEF CtlInv
<1>4. CASE OpenEmpty \/ CreateBaseData \/ SyncBaseData \/ CreateBaseWal
  <2>1. /\ UNCHANGED <<durable_point, enqueued_point, index, serializer, writer, failed, wal_end, batch, stopping>>
        /\ pc' \in {"create_data", "create_data_sync", "create_wal", "create_wal_sync"}
    BY <1>4, Zenon DEF OpenEmpty, CreateBaseData, SyncBaseData, CreateBaseWal
  <2> QED
    BY <1>3, <2>1, Zenon DEF CtlInv, Running, Holding
<1>5. CASE SyncBaseWal \/ OpenRecover
  <2>1. UNCHANGED <<failed, batch, stopping>> /\ pc' = "idle" /\ writer' = "wait"
    BY <1>5, Zenon DEF SyncBaseWal, OpenRecover, StartThreads
  <2> QED
    BY <1>3, <2>1, Zenon DEF CtlInv, Running, Holding
<1> QED
  BY <1>4, <1>5, Zenon DEF OpenStep

\* The client's steps inside a call.
LEMMA CtlClientStep ==
    ASSUME IndInv, ClientStep
    PROVE  CtlInv'
<1> USE DEF disk, ends, queue, threads, client
<1>1. TypeOK /\ PipeInv /\ CtlInv
  BY Zenon DEF IndInv
<1>2. Running
  BY Zenon DEF ClientStep, EnqueueResume, WaitResume, DrainResume, TruncateNothing, TruncateWrite, TruncateSync,
    CloseAfterError, CloseResume, Join, Running
<1>3. Running => (stopping => pc = "join") /\ (writer \in Holding <=> batch # <<>>)
                 /\ (writer = "exit" => failed \/ stopping)
  BY <1>1, Zenon DEF CtlInv
<1>4. CASE Return /\ pc # "join"
  BY <1>2, <1>3, <1>4, Zenon DEF Return, CtlInv, Running
<1>5. CASE SleepAgain
  BY <1>1, <1>2, <1>5, Zenon DEF SleepAgain, CtlInv, Running
<1>6. CASE EnqueueResume
  <2>1. CASE Push(arg)
    BY <1>2, <1>3, <1>6, <2>1, Zenon DEF EnqueueResume, Push, CtlInv, Running
  <2> QED
    BY <1>4, <1>5, <1>6, <2>1, Zenon DEF EnqueueResume
<1>7. CASE WaitResume
  <2>1. CASE pc' = "idle" /\ UNCHANGED <<disk, durable_point, enqueued_point, ends, flush_height, queue,
                                        threads, failed, stopping, asleep>>
    BY <1>2, <1>3, <1>7, <2>1, Zenon DEF WaitResume, CtlInv, Running
  <2> QED
    BY <1>4, <1>5, <1>7, <2>1, Zenon DEF WaitResume
<1>8. CASE DrainResume
  <2>1. CASE ~failed /\ Height(durable_point) >= Height(enqueued_point) /\ pc' = "truncate"
             /\ UNCHANGED <<disk, durable_point, enqueued_point, ends, flush_height, queue,
                            threads, failed, stopping, asleep, arg, acked>>
    <3>1. IsAncestor(durable_point, enqueued_point) /\ durable_point \in Chain /\ enqueued_point \in Chain
      BY <1>1, Zenon DEF PipeInv, TypeOK
    <3>2. Height(durable_point) = Height(enqueued_point)
      BY <2>1, <3>1, BaseFacts, SMTT(30) DEF IsAncestor
    <3>3. durable_point = enqueued_point
      BY <3>1, <3>2, AtSelf, Zenon DEF IsAncestor
    <3>4. IsAncestor(arg, enqueued_point)
      BY <1>1, <1>8, Zenon DEF DrainResume, CtlInv
    <3> QED
      BY <1>2, <1>3, <1>8, <2>1, <3>3, <3>4, Zenon DEF DrainResume, CtlInv, Running
  <2> QED
    BY <1>4, <1>5, <1>8, <2>1, Zenon DEF DrainResume
<1>9. CASE TruncateNothing
  BY <1>4, <1>9, Zenon DEF TruncateNothing
<1>10. CASE TruncateWrite
  <2>1. ~failed /\ durable_point = enqueued_point /\ IsAncestor(arg, enqueued_point) /\ arg # durable_point
    BY <1>1, <1>10, Zenon DEF TruncateWrite, CtlInv
  <2>2. /\ pc' \in {"truncate_sync", "close"} /\ pc = "truncate"
        /\ UNCHANGED <<durable_point, enqueued_point, failed, stopping, arg, writer, batch>>
    BY <1>10, Zenon DEF TruncateWrite
  <2> QED
    BY <1>2, <1>3, <2>1, <2>2, Zenon DEF CtlInv, Running
<1>11. CASE TruncateSync
  <2>1. ~failed /\ durable_point = enqueued_point
    BY <1>1, <1>11, Zenon DEF TruncateSync, CtlInv
  <2>2. /\ pc = "truncate_sync" /\ UNCHANGED <<failed, stopping, writer, batch>>
        /\ pc' = "idle" \/ (pc' = "close" /\ UNCHANGED <<durable_point, enqueued_point>>)
    BY <1>11, Zenon DEF TruncateSync
  <2> QED
    BY <1>2, <1>3, <2>1, <2>2, Zenon DEF CtlInv, Running
<1>12. CASE CloseAfterError
  <2>1. pc' = "join" /\ UNCHANGED <<durable_point, enqueued_point, failed, writer, batch>> /\ stopping'
    BY <1>1, <1>12, Zenon DEF CloseAfterError, BeginClose, StopThreads, CtlInv
  <2> QED
    BY <1>2, <1>3, <2>1, Zenon DEF CtlInv, Running
<1>13. CASE CloseResume
  <2>1. CASE pc' = "join" /\ stopping' /\ UNCHANGED <<durable_point, enqueued_point, failed, writer, batch>>
    BY <1>2, <1>3, <2>1, Zenon DEF CtlInv, Running
  <2> QED
    BY <1>5, <1>13, <2>1, Zenon DEF CloseResume, StopThreads
<1>14. CASE Join
  BY <1>14, Zenon DEF Join, ProcessGone, CtlInv, Running, Holding
<1> QED
  BY <1>6, <1>7, <1>8, <1>9, <1>10, <1>11, <1>12, <1>13, <1>14, Zenon DEF ClientStep

\* The client's calls.
LEMMA CtlClientCall ==
    ASSUME IndInv, ClientCall
    PROVE  CtlInv'
<1> USE DEF disk, ends, queue, threads, client
<1>1. TypeOK /\ PipeInv /\ CtlInv
  BY Zenon DEF IndInv
<1>2. pc = "idle" /\ Running
  BY Zenon DEF ClientCall, Enqueue, WaitDurable, Truncate, Close, Running
<1>3. ~stopping /\ (writer \in Holding <=> batch # <<>>) /\ (writer = "exit" => failed)
  BY <1>1, <1>2, Zenon DEF CtlInv
<1>4. ASSUME NEW label \in Label, Enqueue(label) PROVE CtlInv'
  <2> DEFINE p == Append(enqueued_point, label)
  <2>1. p \in Chain /\ Height(p) = Height(enqueued_point) + 1 /\ At(p, Height(enqueued_point)) = enqueued_point
        /\ Height(enqueued_point) \in Nat
    <3>1. enqueued_point \in Chain /\ Height(enqueued_point) \in Nat
      BY <1>1, PipeTypes, Zenon
    <3>2. Height(enqueued_point) \in 0 .. Height(enqueued_point)
      BY ONLY <3>1
    <3> QED
      BY <3>1, <3>2, AtAppend, AtSelf, Zenon
  <2> HIDE DEF p
  <2>2. p # Base /\ Height(p) - 1 = Height(enqueued_point)
    BY <2>1, BaseFacts
  <2>3. Parent(p) = enqueued_point
    BY <2>1, <2>2, Zenon DEF Parent
  <2>4. CASE Push(p)
    BY <1>2, <1>3, <2>4, Zenon DEF Push, CtlInv, Running
  <2>5. CASE pc' = "enqueue" /\ arg' = p
             /\ UNCHANGED <<disk, durable_point, enqueued_point, ends, queue, threads, failed, stopping, acked>>
    BY <1>2, <1>3, <2>2, <2>3, <2>5, Zenon DEF CtlInv, Running
  <2> QED
    BY <1>4, <2>4, <2>5, Zenon DEF Enqueue, p
<1>5. ASSUME NEW height \in 0 .. Height(enqueued_point), WaitDurable(height) PROVE CtlInv'
  <2>1. IsAncestor(At(enqueued_point, height), enqueued_point)
    BY <1>1, AtIsAncestor, Zenon DEF TypeOK
  <2>2. UNCHANGED <<durable_point, enqueued_point, failed, stopping, writer, batch>>
    BY <1>5, Zenon DEF WaitDurable
  <2>3. pc' = pc \/ (pc' = "wait" /\ arg' = At(enqueued_point, height))
    BY <1>5, Zenon DEF WaitDurable
  <2> QED
    BY <1>2, <1>3, <2>1, <2>2, <2>3, Zenon DEF CtlInv, Running
<1>6. ASSUME NEW height \in 0 .. Height(enqueued_point), Truncate(At(enqueued_point, height)) PROVE CtlInv'
  <2>1. IsAncestor(At(enqueued_point, height), enqueued_point)
    BY <1>1, AtIsAncestor, Zenon DEF TypeOK
  <2>2. /\ UNCHANGED <<durable_point, enqueued_point, failed, stopping, writer, batch>>
        /\ arg' = At(enqueued_point, height) /\ ~failed
        /\ \/ pc' = "truncate" /\ enqueued_point = durable_point
           \/ pc' = "drain_truncate"
    BY <1>6, Zenon DEF Truncate
  <2> QED
    BY <1>2, <1>3, <2>1, <2>2, Zenon DEF CtlInv, Running
<1>7. CASE Close
  <2>1. /\ UNCHANGED <<durable_point, enqueued_point, failed, writer, batch>>
        /\ (pc' = "join" /\ stopping') \/ (pc' = "drain_close" /\ UNCHANGED stopping)
    BY <1>7, Zenon DEF Close, BeginClose, StopThreads
  <2> QED
    BY <1>2, <1>3, <2>1, SMTT(30) DEF CtlInv, Running
<1> QED
  BY <1>4, <1>5, <1>6, <1>7, Zenon DEF ClientCall

\* Every step keeps the threads' positions.
LEMMA CtlStep ==
    ASSUME IndInv, [Next]_vars
    PROVE  CtlInv'
<1>1. CASE Kill \/ PowerLoss
  BY <1>1, Zenon DEF Kill, PowerLoss, ProcessGone, CtlInv, Running, Holding
<1>2. CASE UNCHANGED vars
  BY <1>2, Zenon DEF IndInv, CtlInv, Running, vars, disk, ends, queue, threads, client
<1> QED
  BY <1>1, <1>2, CtlSerializer, CtlWriter, CtlOpen, CtlClientStep, CtlClientCall, Zenon DEF Next

-----------------------------------------------------------------------------
(* The creation of the base record.                                        *)

\* Writing one record into an empty file.
LEMMA FirstRecord ==
    ASSUME NEW x
    PROVE  Pwrite(<<>>, 0, <<x>>) = <<x>>
BY DEF Pwrite

\* Every step keeps the order of creation: data, its sync, the WAL, its sync.
LEMMA CreateStep ==
    ASSUME IndInv, [Next]_vars
    PROVE  CreateInv'
<1> USE DEF disk, ends, queue, threads, client
<1>1. TypeOK /\ CtlInv /\ CreateInv
  BY Zenon DEF IndInv
<1>2. CASE Running' \/ pc' = "down"
  BY <1>2, Zenon DEF Running, CreateInv
<1>3. CASE UNCHANGED vars
  BY <1>1, <1>3, Zenon DEF vars, CreateInv
<1>4. CASE OpenEmpty
  BY <1>4, Zenon DEF OpenEmpty, CreateInv
<1>5. CASE CreateBaseData
  <2>1. data' = <<Payload(Base)>>
    BY <1>1, <1>5, FirstRecord, Zenon DEF CreateBaseData, CreateInv
  <2> QED
    BY <1>1, <1>5, <2>1, Zenon DEF CreateBaseData, CreateInv
<1>6. CASE SyncBaseData
  BY <1>1, <1>6, Zenon DEF SyncBaseData, CreateInv
<1>7. CASE CreateBaseWal
  <2>1. wal' = <<BaseEvent>>
    BY <1>1, <1>7, FirstRecord, Zenon DEF CreateBaseWal, CreateInv
  <2> QED
    BY <1>1, <1>7, <2>1, Zenon DEF CreateBaseWal, CreateInv
<1>8. CASE SyncBaseWal \/ OpenRecover
  BY <1>2, <1>8, Zenon DEF SyncBaseWal, OpenRecover, StartThreads, Running
<1>10. CASE \E s \in Serializer : SerializerStep(s)
  <2>1. Running
    BY <1>10, CtlSerializer, Zenon
  <2>2. pc' = pc
    BY <1>10, Zenon DEF SerializerStep, SerializerTake, SerializerSleep, SerializerExit, SerializerPublish, SerializerFail
  <2> QED
    BY <1>2, <2>1, <2>2, Zenon DEF Running
<1>11. CASE WriterStep
  <2>1. Running
    BY <1>11, CtlWriter, Zenon
  <2>2. pc' = pc
    BY <1>11, Zenon DEF WriterStep, WriterBegin, WriterGroup, WriterTimeout, WriterSleep, WriterExit,
      WriteData, SyncData, WriteWal, SyncWal, CommitPublish, TakeBatch, WriterGoesTo, WriterFails, Publish
  <2> QED
    BY <1>2, <2>1, <2>2, Zenon DEF Running
<1>12. CASE ClientStep
  <2>1. Running' \/ pc' = "down"
    BY <1>12, Zenon DEF ClientStep, EnqueueResume, WaitResume, DrainResume, TruncateNothing, TruncateWrite,
      TruncateSync, CloseAfterError, BeginClose, StopThreads, CloseResume, Join, ProcessGone, Push, Return, SleepAgain, Running
  <2> QED
    BY <1>2, <2>1, Zenon
<1>13. CASE ClientCall
  <2>1. Running'
    BY <1>13, Zenon DEF ClientCall, Enqueue, WaitDurable, Truncate, Close, BeginClose, StopThreads, Push, Running
  <2> QED
    BY <1>2, <2>1, Zenon
<1>14. CASE Kill \/ PowerLoss
  BY <1>2, <1>14, Zenon DEF Kill, PowerLoss, ProcessGone
<1> QED
  BY <1>3, <1>4, <1>5, <1>6, <1>7, <1>8, <1>10, <1>11, <1>12, <1>13, <1>14, Zenon DEF Next, OpenStep

-----------------------------------------------------------------------------
(* The files.                                                              *)

\* n good records, and at most a torn one after them.
LEMMA DiskFrom ==
    ASSUME wal' \in Seq(WalEvent), NEW n \in Nat,
           \A i \in 1 .. n : wal'[i].kind # "TORN" /\ Good(wal', data', data_synced', i),
           Len(wal') = n \/ (Len(wal') = n + 1 /\ wal'[n + 1].kind = "TORN")
    PROVE  DiskInv' /\ ValidWalSize(wal') = n
<1>1. \A i \in 1 .. Len(wal') - 1 : wal'[i].kind # "TORN"
  BY SMTT(30)
<1>2. ValidWalSize(wal') = n
  <2>1. CASE Len(wal') = n /\ n = 0
    BY <1>1, <2>1, ValidSizeFacts, Zenon
  <2>2. CASE Len(wal') = n /\ n > 0
    BY <1>1, <2>2, ValidSizeFacts, SMTT(30)
  <2>3. CASE Len(wal') = n + 1 /\ wal'[n + 1].kind = "TORN"
    BY <1>1, <2>3, ValidSizeFacts, SMTT(30)
  <2> QED
    BY <2>1, <2>2, <2>3, SMTT(30)
<1> QED
  BY <1>1, <1>2, Zenon DEF DiskInv

\* Good records stay good while the data they refer to stays.
LEMMA GoodKept ==
    ASSUME TypeOK, NEW n \in 0 .. Len(wal), \A i \in 1 .. n : Good(wal, data, data_synced, i),
           \A i \in 1 .. n : wal'[i] = wal[i],
           NEW e \in Nat, \A i \in 1 .. n : IsPayload(wal[i]) => wal[i].data_offset < e,
           e <= Len(data'), e <= data_synced', \A i \in 1 .. e : data'[i] = data[i],
           data_synced' \in Nat, Len(data') \in Nat
    PROVE  \A i \in 1 .. n : Good(wal', data', data_synced', i)
<1> TAKE i \in 1 .. n
<1>1. wal \in Seq(WalEvent) /\ i \in 1 .. Len(wal) /\ i \in Nat \ {0} /\ \A k \in 1 .. i : k \in 1 .. n
  <2>1. wal \in Seq(WalEvent) /\ Len(wal) \in Nat /\ i \in 1 .. n /\ n \in 0 .. Len(wal)
    BY FileTypes, Zenon
  <2>2. i \in 1 .. Len(wal) /\ i \in Nat \ {0} /\ \A k \in 1 .. i : k \in 1 .. n
    BY ONLY <2>1
  <2> QED
    BY <2>1, <2>2, Zenon
<1>2. wal[i].data_offset \in Nat
  BY <1>1, EventType, Zenon
<1>3. \A k \in 1 .. i : wal'[k] = wal[k]
  BY <1>1, Zenon
<1>4. IsPayload(wal[i]) => /\ wal[i].data_offset < data_synced' /\ wal[i].data_offset < Len(data')
                           /\ data'[wal[i].data_offset + 1] = data[wal[i].data_offset + 1]
  BY <1>2, SMTT(30)
<1>5. Good(wal, data, data_synced, i)
  BY Zenon
<1> QED
  BY ONLY <1>1, <1>3, <1>4, <1>5, GoodCongruence, Zenon

\* The payloads of good records are in the synchronized part of the data.
LEMMA OffsetsSynced ==
    ASSUME TypeOK, NEW n \in Nat, \A i \in 1 .. n : Good(wal, data, data_synced, i)
    PROVE  \A i \in 1 .. n : IsPayload(wal[i]) => wal[i].data_offset < data_synced
BY Zenon DEF Good

\* A step that leaves the WAL and the synchronized data alone keeps DiskInv.
LEMMA DiskFrame ==
    ASSUME TypeOK, TypeOK', DiskInv, wal' = wal, data_synced' >= data_synced,
           \A i \in 1 .. data_synced : data'[i] = data[i]
    PROVE  DiskInv'
<1>1. /\ wal \in Seq(WalEvent) /\ data_synced \in Nat /\ data_synced' \in 0 .. Len(data')
      /\ Len(data') \in Nat
  BY SMTT(30) DEF TypeOK
<1>2. ValidWalSize(wal) \in 0 .. Len(wal)
  BY <1>1, ValidSizeFacts, Zenon DEF DiskInv
<1>3. \A i \in 1 .. ValidWalSize(wal) : Good(wal, data, data_synced, i)
  BY Zenon DEF DiskInv
<1>4. PICK n \in 0 .. Len(wal) : n = ValidWalSize(wal)
  BY <1>2, Zenon
<1>5. n \in Nat /\ data_synced <= data_synced' /\ data_synced <= Len(data') /\ data_synced' \in Nat
  BY <1>1, SMTT(30)
<1>6. \A i \in 1 .. n : IsPayload(wal[i]) => wal[i].data_offset < data_synced
  BY <1>3, <1>4, <1>5, OffsetsSynced, Zenon
<1>7. \A i \in 1 .. n : Good(wal', data', data_synced', i)
  BY <1>1, <1>3, <1>4, <1>5, <1>6, GoodKept, Zenon
<1> QED
  BY <1>4, <1>7, Zenon DEF DiskInv

\* A power loss keeps the synchronized prefix, so it leaves only good records.
LEMMA DiskPowerLoss ==
    ASSUME IndInv, TypeOK', PowerLoss
    PROVE  DiskInv'
<1>1. /\ wal \in Seq(WalEvent) /\ wal_synced \in 0 .. Len(wal)
      /\ data \in Seq(DataRecord) /\ data_synced \in 0 .. Len(data)
      /\ wal' \in Seq(WalEvent) /\ data' \in Seq(DataRecord)
  BY Zenon DEF IndInv, TypeOK
<1>2. TornEvent \in WalEvent /\ TornPayload \in DataRecord
  BY BaseFacts, Zenon DEF TornPayload, TornEvent, DataRecord, WalEvent
<1>3. PICK k \in wal_synced .. Len(wal) :
        /\ \A i \in 1 .. k : wal'[i] = wal[i]
        /\ Len(wal') = k \/ (k < Len(wal) /\ Len(wal') = k + 1 /\ wal'[k + 1] = TornEvent)
  <2>1. wal' \in PowerLossImages(wal, wal_synced, TornEvent)
    BY Zenon DEF PowerLoss
  <2>2. \E k \in wal_synced .. Len(wal) : Keeps(wal, TornEvent, wal', k)
    BY ONLY <1>1, <1>2, <2>1, ImageFacts, Zenon
  <2> QED
    BY ONLY <2>2, Zenon DEF Keeps
<1>4. PICK l \in data_synced .. Len(data) :
        /\ \A i \in 1 .. l : data'[i] = data[i]
        /\ Len(data') = l \/ (l < Len(data) /\ Len(data') = l + 1 /\ data'[l + 1] = TornPayload)
  <2>1. data' \in PowerLossImages(data, data_synced, TornPayload)
    BY Zenon DEF PowerLoss
  <2>2. \E l \in data_synced .. Len(data) : Keeps(data, TornPayload, data', l)
    BY ONLY <1>1, <1>2, <2>1, ImageFacts, ZenonT(40)
  <2> QED
    BY ONLY <2>2, Zenon DEF Keeps
<1>5. /\ data_synced' = Len(data') /\ data_synced <= Len(data') /\ data_synced \in Nat
      /\ Len(data') \in Nat /\ \A i \in 1 .. data_synced : data'[i] = data[i]
  BY <1>1, <1>4, SMTT(30) DEF PowerLoss
<1>6. PICK n \in 0 .. Len(wal) : n = ValidWalSize(wal)
  BY <1>1, ValidSizeFacts, Zenon DEF IndInv, DiskInv
<1>7. /\ n >= Len(wal) - 1 /\ \A i \in 1 .. n : wal[i].kind # "TORN"
      /\ n # Len(wal) => wal[Len(wal)].kind = "TORN"
  BY <1>1, <1>6, ValidSizeFacts, SMTT(30) DEF IndInv, DiskInv
<1>8. \A i \in 1 .. n : Good(wal, data, data_synced, i)
  BY <1>6, Zenon DEF IndInv, DiskInv
<1> DEFINE m == IF k <= n THEN k ELSE n
<1>9. m \in 0 .. Len(wal) /\ m \in Nat /\ m <= k /\ m <= n
  BY <1>1, <1>6
<1> HIDE DEF m
<1>10. \A i \in 1 .. m : Good(wal, data, data_synced, i)
  BY <1>8, <1>9, SMTT(30)
<1>11. \A i \in 1 .. m : IsPayload(wal[i]) => wal[i].data_offset < data_synced
  BY <1>9, <1>10, OffsetsSynced, Zenon DEF IndInv
<1>12. \A i \in 1 .. m : wal'[i] = wal[i]
  BY <1>3, <1>9
<1>13. \A i \in 1 .. m : Good(wal', data', data_synced', i)
  BY <1>5, <1>9, <1>10, <1>11, <1>12, GoodKept, Zenon DEF IndInv
<1>14. \A i \in 1 .. m : wal'[i].kind # "TORN"
  BY <1>7, <1>9, <1>12, SMTT(30)
<1>15. Len(wal') = m \/ (Len(wal') = m + 1 /\ wal'[m + 1].kind = "TORN")
  <2>1. CASE k <= n
    <3>1. m = k
      BY <2>1, Zenon DEF m
    <3> QED
      BY <1>3, <3>1 DEF TornEvent
  <2>2. CASE k > n
    <3>1. m = n /\ k = Len(wal) /\ k = n + 1
      BY <1>1, <1>6, <1>7, <2>2, SMTT(30) DEF m
    <3>2. Len(wal') = k /\ wal'[k] = wal[k] /\ wal[k].kind = "TORN"
      BY <1>1, <1>3, <1>7, <3>1
    <3> QED
      BY <3>1, <3>2, Zenon
  <2> QED
    BY <1>1, <1>6, <2>1, <2>2, SMTT(30)
<1> QED
  BY <1>1, <1>9, <1>13, <1>14, <1>15, DiskFrom, Zenon

\* The data end and the index depend only on the records up to n.
LEMMA EndCongruence ==
    ASSUME NEW w \in Seq(WalEvent), NEW d, NEW ds, NEW n \in 1 .. Len(w), Good(w, d, ds, n),
           NEW w2, \A k \in 1 .. n : w2[k] = w[k], NEW e, PayloadEnd(w, n, e)
    PROVE  w2[n].point = w[n].point /\ PayloadEnd(w2, n, e) /\ IndexOf(w2, n) = IndexOf(w, n)
<1>1. w2[n] = w[n] /\ n \in Nat
  BY SMTT(30)
<1>2. PayloadEnd(w2, n, e)
  BY SMTT(30) DEF PayloadEnd
<1>3. ASSUME NEW h \in 1 .. Height(w[n].point) PROVE IndexOf(w2, n)[h] = IndexOf(w, n)[h]
  <2>1. PICK j \in 1 .. n : IndexedBy(w, n, h, j)
    BY Zenon DEF Good
  <2>2. IndexedBy(w2, n, h, j) /\ w2[j] = w[j]
    BY <2>1, SMTT(30) DEF IndexedBy
  <2>3. IndexOf(w, n)[h] = w[j].data_offset
    BY <1>1, <2>1, IndexOfAt, Zenon
  <2>4. IndexOf(w2, n)[h] = w2[j].data_offset
    BY <1>1, <2>2, IndexOfAt, Zenon
  <2> QED
    BY <2>2, <2>3, <2>4, Zenon
<1>4. IndexOf(w, n) = [h \in 1 .. Height(w[n].point) |-> IndexOf(w, n)[h]]
  BY SMTT(30) DEF IndexOf
<1>5. IndexOf(w2, n) = [h \in 1 .. Height(w[n].point) |-> IndexOf(w2, n)[h]]
  BY <1>1, SMTT(30) DEF IndexOf
<1>6. IndexOf(w2, n) = IndexOf(w, n)
  BY <1>3, <1>4, <1>5, Zenon
<1> QED
  BY <1>1, <1>2, <1>6, Zenon

\* The base record alone is good.
LEMMA GoodBase ==
    /\ Good(<<BaseEvent>>, <<Payload(Base)>>, 1, 1) /\ PayloadEnd(<<BaseEvent>>, 1, 1)
    /\ BaseEvent.kind # "TORN" /\ BaseEvent.point = Base
<1> DEFINE w == <<BaseEvent>>
<1>1. w[1] = BaseEvent /\ BaseEvent.kind = "BASE" /\ BaseEvent.point = Base /\ BaseEvent.data_offset = 0
  BY Zenon DEF BaseEvent
<1>2. IsPayload(w[1])
  BY <1>1, Zenon DEF IsPayload
<1>3. EnvelopeValid(<<Payload(Base)>>, w[1])
  BY <1>1 DEF EnvelopeValid
<1>4. Height(w[1].point) = 0
  BY <1>1, BaseFacts, Zenon
<1>5. PayloadEnd(w, 1, 1)
  BY <1>1, <1>2, OneRecord, Zenon DEF PayloadEnd
<1> HIDE DEF w
<1>6. Good(w, <<Payload(Base)>>, 1, 1)
  BY <1>1, <1>2, <1>3, <1>4, SMTT(30) DEF Good
<1> QED
  BY <1>1, <1>5, <1>6, Zenon DEF w

\* Opening keeps or creates good files, and takes tip, ends and index from them.
LEMMA FilesOpen ==
    ASSUME IndInv, TypeOK', OpenStep
    PROVE  DiskInv' /\ EndInv'
<1> USE DEF disk, ends, queue, threads, client
<1>1. TypeOK /\ DiskInv /\ EndInv /\ CtlInv /\ CreateInv
  BY Zenon DEF IndInv
<1>2. CASE OpenEmpty \/ CreateBaseData \/ SyncBaseData
  <2>1. wal' = <<>> /\ ~Running'
    BY <1>1, <1>2, Zenon DEF OpenEmpty, CreateBaseData, SyncBaseData, CreateInv, Running
  <2>2. Len(wal') = 0 /\ wal' \in Seq(WalEvent)
    BY <2>1, SMTT(30)
  <2>3. DiskInv'
    BY <2>2, DiskFrom, SMTT(30)
  <2> QED
    BY <2>1, <2>3, Zenon DEF EndInv
<1>3. CASE CreateBaseWal
  <2>1. wal' = <<BaseEvent>> /\ data' = <<Payload(Base)>> /\ data_synced' = 1 /\ ~Running'
    BY <1>1, <1>3, FirstRecord, Zenon DEF CreateBaseWal, CreateInv, Running
  <2>2. Len(wal') = 1 /\ wal' \in Seq(WalEvent) /\ wal'[1] = BaseEvent
    BY <2>1, Zenon DEF TypeOK
  <2>3. \A i \in 1 .. 1 : wal'[i].kind # "TORN" /\ Good(wal', data', data_synced', i)
    BY <2>1, <2>2, GoodBase, SMTT(30)
  <2>4. DiskInv'
    BY <2>2, <2>3, DiskFrom, Zenon
  <2> QED
    BY <2>1, <2>4, Zenon DEF EndInv
<1>4. CASE SyncBaseWal
  <2>1. /\ wal' = <<BaseEvent>> /\ data' = <<Payload(Base)>> /\ data_synced' = 1 /\ Running'
        /\ wal_end' = 1 /\ data_end' = 1 /\ index' = <<>> /\ durable_point' = Base
        /\ writer' = "wait" /\ pc' = "idle"
    BY <1>1, <1>4, Zenon DEF SyncBaseWal, StartThreads, CreateInv, CtlInv, Running
  <2>2. Len(wal') = 1 /\ wal' \in Seq(WalEvent) /\ wal'[1] = BaseEvent
    BY <2>1, Zenon DEF TypeOK
  <2>3. \A i \in 1 .. 1 : wal'[i].kind # "TORN" /\ Good(wal', data', data_synced', i)
    BY <2>1, <2>2, GoodBase, SMTT(30)
  <2>4. DiskInv' /\ ValidWalSize(wal') = 1
    BY <2>2, <2>3, DiskFrom, Zenon
  <2>5. durable_point' = wal'[wal_end'].point /\ PayloadEnd(wal', wal_end', data_end')
        /\ index' = IndexOf(wal', wal_end') /\ WalAtEnd'
    BY <2>1, <2>2, GoodBase, EmptyIndex, Zenon DEF WalAtEnd
  <2> QED
    BY <2>1, <2>4, <2>5, SMTT(30) DEF EndInv
<1>5. CASE OpenRecover
  <2>1. PICK n \in 1 .. Len(wal) : n = ValidWalSize(wal)
    BY <1>1, <1>5, RecoverFacts, Zenon DEF OpenRecover
  <2>2. PICK e \in 0 .. Len(data) : e = RecoveredDataEnd(wal, data)
    BY <1>1, <1>5, RecoverFacts, Zenon DEF OpenRecover
  <2>3. /\ \A i \in 1 .. n : wal[i].kind # "TORN"
        /\ \A i \in 1 .. n : Good(wal, data, data_synced, i)
        /\ e <= data_synced /\ PayloadEnd(wal, n, e)
    BY <1>1, <1>5, <2>1, <2>2, RecoverFacts, Zenon DEF OpenRecover
  <2>4. /\ wal' = SubSeq(wal, 1, n) /\ data' = SubSeq(data, 1, e)
        /\ data_synced' = IF e # Len(data) THEN e ELSE data_synced
        /\ durable_point' = wal[n].point /\ data_end' = e /\ wal_end' = n /\ index' = IndexOf(wal, n)
        /\ writer' = "wait" /\ pc' = "idle"
    BY <1>5, <2>1, <2>2, Zenon DEF OpenRecover, StartThreads, RecoveredTip
  <2>5. /\ wal \in Seq(WalEvent) /\ data \in Seq(DataRecord) /\ data_synced \in 0 .. Len(data)
        /\ wal' \in Seq(WalEvent)
    BY <1>1, Zenon DEF TypeOK
  <2>6. Len(wal') = n /\ \A i \in 1 .. n : wal'[i] = wal[i]
    BY ONLY n \in 1 .. Len(wal), <2>4, <2>5, SMTT(30)
  <2>7. Len(data') = e /\ \A i \in 1 .. e : data'[i] = data[i]
    BY ONLY e \in 0 .. Len(data), <2>4, <2>5, SMTT(30)
  <2>8. e \in Nat /\ e <= data_synced' /\ e <= Len(data') /\ data_synced' \in Nat /\ Len(data') \in Nat
    <3>1. Len(data) \in Nat
      BY <2>5, LenWithin, Zenon
    <3> QED
      BY ONLY e \in 0 .. Len(data), <2>3, <2>4, <2>5, <2>7, <3>1, SMTT(30)
  <2>9. \A i \in 1 .. n : IsPayload(wal[i]) => wal[i].data_offset < e
    BY <2>3, <2>5, OffsetsBelowEnd, Zenon
  <2>10. n \in 0 .. Len(wal) /\ n \in Nat /\ n >= 1
    BY <2>5, LenWithin, UpTo, Zenon
  <2>11. \A i \in 1 .. n : Good(wal', data', data_synced', i)
    BY <1>1, <2>3, <2>6, <2>7, <2>8, <2>9, <2>10, GoodKept, Zenon
  <2>12. \A i \in 1 .. n : wal'[i].kind # "TORN"
    BY <2>3, <2>6, Zenon
  <2>13. DiskInv' /\ ValidWalSize(wal') = n
    BY <2>5, <2>6, <2>10, <2>11, <2>12, DiskFrom, Zenon
  <2>14. Good(wal, data, data_synced, n)
    BY <2>3, <2>10, SMTT(30)
  <2>15. wal'[n].point = wal[n].point /\ PayloadEnd(wal', n, e) /\ IndexOf(wal', n) = IndexOf(wal, n)
    BY <2>3, <2>5, <2>6, <2>14, EndCongruence, Zenon
  <2>16. wal_end' \in 1 .. ValidWalSize(wal') /\ WalAtEnd'
    BY <2>4, <2>6, <2>10, <2>13, SMTT(30) DEF WalAtEnd
  <2>17. /\ writer' \notin {"data_sync", "wal", "wal_sync", "publish"} /\ pc' # "truncate_sync"
    BY <2>4, Zenon
  <2> QED
    BY <2>4, <2>13, <2>15, <2>16, <2>17, Zenon DEF EndInv
<1> QED
  BY <1>2, <1>3, <1>4, <1>5, Zenon DEF OpenStep

-----------------------------------------------------------------------------
(* The open store.                                                         *)

\* The part of EndInv that does not speak of a write in progress.
EndCore ==
    /\ wal_end \in 1 .. ValidWalSize(wal)
    /\ durable_point = wal[wal_end].point
    /\ PayloadEnd(wal, wal_end, data_end)
    /\ index = IndexOf(wal, wal_end)

\* It is kept when a step changes nothing up to the end of the WAL.
LEMMA CoreKept ==
    ASSUME IndInv, Running, \A i \in 1 .. wal_end : wal'[i] = wal[i],
           ValidWalSize(wal') \in Nat, wal_end <= ValidWalSize(wal'),
           UNCHANGED <<durable_point, data_end, wal_end, index>>
    PROVE  EndCore'
<1>1. wal \in Seq(WalEvent) /\ wal_end \in 1 .. Len(wal) /\ Good(wal, data, data_synced, wal_end)
  <2>1. wal_end \in 1 .. Len(wal) /\ wal_end \in 1 .. wal_end /\ \A i \in 1 .. wal_end : Good(wal, data, data_synced, i)
    BY EndFacts, SMTT(30)
  <2> QED
    BY <2>1, Zenon DEF IndInv, TypeOK
<1>2. /\ durable_point = wal[wal_end].point /\ PayloadEnd(wal, wal_end, data_end)
      /\ index = IndexOf(wal, wal_end)
  BY Zenon DEF IndInv, EndInv
<1>3. /\ wal'[wal_end].point = wal[wal_end].point /\ PayloadEnd(wal', wal_end, data_end)
      /\ IndexOf(wal', wal_end) = IndexOf(wal, wal_end)
  <2>1. \A k \in 1 .. wal_end : wal'[k] = wal[k]
    BY Zenon
  <2> QED
    BY ONLY <1>1, <1>2, <2>1, EndCongruence, Zenon
<1>4. wal_end' \in 1 .. ValidWalSize(wal')
  BY <1>1
<1> QED
  BY <1>2, <1>3, <1>4, Zenon DEF EndCore

\* While the writer holds an unwritten batch, or a truncation is about to be
\* written, the WAL ends at the durable tip.
LEMMA AtEnd ==
    ASSUME IndInv, Running, writer \in {"data", "data_sync", "wal"} \/ pc = "truncate"
    PROVE  /\ Len(wal) = wal_end /\ ValidWalSize(wal) = wal_end
           /\ \A i \in 1 .. wal_end : wal[i].kind # "TORN"
<1>1. Len(wal) = wal_end
  <2>1. CASE writer \in {"data", "data_sync", "wal"}
    <3>1. durable_point # enqueued_point
      BY <2>1, TipsApart, Zenon DEF IndInv, CtlInv, Holding
    <3> QED
      BY <2>1, <3>1, Zenon DEF IndInv, EndInv, WalAtEnd
  <2>2. CASE pc = "truncate"
    <3>1. durable_point = enqueued_point /\ ~failed /\ ~stopping
      BY <2>2, Zenon DEF IndInv, CtlInv
    <3>2. batch = <<>>
      BY <3>1, EmptyPipe, Zenon DEF IndInv
    <3>3. writer \notin Holding /\ writer # "exit"
      BY <2>2, <3>1, <3>2, Zenon DEF IndInv, CtlInv, Running
    <3> QED
      BY <2>2, <3>3, Zenon DEF IndInv, EndInv, WalAtEnd, Holding
  <2> QED
    BY <2>1, <2>2, Zenon
<1>2. wal_end <= ValidWalSize(wal) /\ wal_end \in 1 .. Len(wal)
  BY EndFacts, Zenon
<1>3. ValidWalSize(wal) \in 0 .. Len(wal) /\ \A i \in 1 .. ValidWalSize(wal) : wal[i].kind # "TORN"
  BY ValidSizeFacts, Zenon DEF IndInv, DiskInv, TypeOK
<1> QED
  BY <1>1, <1>2, <1>3

\* Records that connect the first k blocks of the batch are good.
LEMMA BatchGood ==
    ASSUME IndInv, Running, writer \in {"wal", "wal_sync", "publish"},
           NEW w \in Seq(WalEvent), NEW k \in 0 .. Len(batch), wal_end + k <= Len(w),
           \A i \in 1 .. wal_end : w[i] = wal[i] /\ wal[i].kind # "TORN",
           \A i \in 1 .. k : w[wal_end + i] = ConnectEvent(batch[i], data_end + i - 1)
    PROVE  /\ \A i \in 1 .. wal_end + k : w[i].kind # "TORN" /\ Good(w, data, data_synced, i)
           /\ k > 0 => Appended(w, data, data_synced, wal_end, data_end, Height(durable_point),
                                k, wal_end + k)
<1>1. /\ data \in Seq(DataRecord) /\ data_synced \in 0 .. Len(data) /\ wal \in Seq(WalEvent)
      /\ durable_point \in Chain /\ enqueued_point \in Chain /\ data_end \in Nat
      /\ batch \in Seq(Chain) /\ wal_end \in 1 .. Len(wal) /\ wal_end \in Nat /\ wal_end >= 1
  <2>1. /\ data \in Seq(DataRecord) /\ data_synced \in 0 .. Len(data) /\ wal \in Seq(WalEvent)
        /\ durable_point \in Chain /\ enqueued_point \in Chain /\ data_end \in Nat
        /\ batch \in Seq(Chain)
    BY Zenon DEF IndInv, TypeOK
  <2>2. wal_end \in 1 .. Len(wal) /\ Len(wal) \in Nat
    BY <2>1, EndFacts, LenWithin, Zenon
  <2>3. wal_end \in Nat /\ wal_end >= 1
    BY ONLY <2>2
  <2> QED
    BY <2>1, <2>2, <2>3, Zenon
<1>2. PICK H \in Nat : H = Height(durable_point)
  BY <1>1, BaseFacts, Zenon
<1>3. /\ Height(enqueued_point) \in Nat /\ Len(batch) \in Nat /\ k \in Nat
      /\ H + Len(batch) <= Height(enqueued_point) /\ IsAncestor(durable_point, enqueued_point)
      /\ \A i \in 1 .. k : batch[i] = At(enqueued_point, H + i)
  <2>1. /\ Height(enqueued_point) \in Nat /\ Len(batch) \in Nat /\ Len(input) \in Nat
    BY PipeTypes, Zenon DEF IndInv
  <2>2. /\ H + Len(batch) + Len(input) <= Height(enqueued_point)
        /\ IsAncestor(durable_point, enqueued_point)
        /\ \A i \in 1 .. Len(batch) : batch[i] = At(enqueued_point, H + i)
    BY <1>2, Zenon DEF IndInv, PipeInv
  <2>3. k \in 0 .. Len(batch)
    BY Zenon
  <2>4. H + Len(batch) <= Height(enqueued_point) /\ k \in Nat /\ \A i \in 1 .. k : i \in 1 .. Len(batch)
    BY ONLY <1>2, <2>1, <2>2, <2>3
  <2> QED
    BY ONLY <2>1, <2>2, <2>4, Zenon
<1>4. /\ data_end + Len(batch) <= data_synced
      /\ \A i \in 1 .. k : data[data_end + i] = Payload(batch[i])
      /\ durable_point = wal[wal_end].point /\ PayloadEnd(wal, wal_end, data_end)
  <2>1. /\ data_end + Len(batch) <= data_synced
        /\ durable_point = wal[wal_end].point /\ PayloadEnd(wal, wal_end, data_end)
        /\ \A i \in 1 .. Len(batch) : data[data_end + i] = Payload(batch[i])
    BY Zenon DEF IndInv, EndInv
  <2>2. Len(batch) \in Nat /\ k \in 0 .. Len(batch)
    BY <1>3, Zenon
  <2>3. \A i \in 1 .. k : i \in 1 .. Len(batch)
    BY ONLY <2>2, SMTT(30)
  <2> QED
    BY ONLY <2>1, <2>3, Zenon
<1>5. \A i \in 1 .. wal_end : Good(wal, data, data_synced, i)
  BY EndFacts, Zenon
<1>6. ASSUME NEW i \in 1 .. wal_end PROVE Good(w, data, data_synced, i)
  <2>1. i \in Nat \ {0} /\ Good(wal, data, data_synced, i) /\ \A j \in 1 .. i : w[j] = wal[j]
    <3>1. wal_end \in Nat /\ i \in 1 .. wal_end
      BY <1>1, Zenon
    <3>2. i \in Nat \ {0} /\ \A j \in 1 .. i : j \in 1 .. wal_end
      BY ONLY <3>1
    <3> QED
      BY <1>5, <3>1, <3>2, Zenon
  <2>2. IsPayload(wal[i]) => wal[i].data_offset < data_synced /\ wal[i].data_offset < Len(data)
    BY <2>1, Zenon DEF Good, EnvelopeValid
  <2> QED
    BY ONLY <2>1, <2>2, GoodCongruence, Zenon
<1>7. w[wal_end] = wal[wal_end] /\ PayloadEnd(w, wal_end, data_end)
  <2>1. /\ wal_end \in 1 .. Len(wal) /\ Good(wal, data, data_synced, wal_end)
        /\ \A i \in 1 .. wal_end : w[i] = wal[i]
    BY <1>1, <1>5, LenWithin, UpTo, Zenon
  <2> QED
    BY ONLY <1>1, <1>4, <2>1, EndCongruence, SMTT(30)
<1>8. ASSUME NEW m \in 1 .. k
      PROVE  Appended(w, data, data_synced, wal_end, data_end, H, m, wal_end + m)
  <2>1. m \in Nat /\ m >= 1 /\ H + m <= Height(enqueued_point) /\ data_end + m <= data_synced
    <3>1. m \in 1 .. k /\ k \in 0 .. Len(batch) /\ data_synced \in Nat
      BY FileTypes, Zenon DEF IndInv
    <3>2. /\ H \in Nat /\ Len(batch) \in Nat /\ Height(enqueued_point) \in Nat /\ data_end \in Nat
          /\ H + Len(batch) <= Height(enqueued_point) /\ data_end + Len(batch) <= data_synced
      BY <1>1, <1>2, <1>3, <1>4, Zenon
    <3> QED
      BY ONLY <3>1, <3>2
  <2>2. PICK N \in Nat : N = wal_end + m /\ N <= Len(w)
    <3>1. /\ wal_end \in Nat /\ k \in Nat /\ m \in 1 .. k /\ wal_end + k <= Len(w) /\ Len(w) \in Nat
      BY <1>1, <1>3, LenWithin, Zenon
    <3>2. wal_end + m \in Nat /\ wal_end + m <= Len(w)
      BY ONLY <3>1
    <3> QED
      BY <3>2, Zenon
  <2>3. Connected(w, data, wal_end, data_end, enqueued_point, H, m)
    <3>1. \A i \in 1 .. m : i \in 1 .. k
      BY <1>3, UpTo, Zenon
    <3> QED
      BY <1>3, <1>4, <3>1, Zenon DEF Connected
  <2>4. H = Height(w[wal_end].point) /\ IsAncestor(w[wal_end].point, enqueued_point)
    BY <1>2, <1>3, <1>4, <1>7, Zenon
  <2>5. \A i \in 1 .. wal_end : Good(w, data, data_synced, i)
    BY <1>6, Zenon
  <2>6. w \in Seq(WalEvent) /\ H \in Nat
    BY Zenon
  <2>7. Appends(w, data, data_synced, wal_end, data_end, enqueued_point, H, m, N)
    BY ONLY <1>1, <1>7, <2>1, <2>2, <2>3, <2>4, <2>5, <2>6, Zenon DEF Appends
  <2>8. Appended(w, data, data_synced, wal_end, data_end, H, m, N)
    BY <1>1, <2>1, <2>2, <2>6, <2>7, GoodConnects, Zenon
  <2> QED
    BY <2>2, <2>8, Zenon
<1>9. ASSUME NEW i \in 1 .. wal_end + k PROVE w[i].kind # "TORN" /\ Good(w, data, data_synced, i)
  <2>1. CASE i <= wal_end
    <3>1. k \in Nat /\ i \in 1 .. wal_end + k
      BY <1>3, Zenon
    <3>2. i \in 1 .. wal_end
      BY ONLY <1>1, <2>1, <3>1, SMTT(30)
    <3>3. w[i] = wal[i] /\ wal[i].kind # "TORN"
      BY <3>2, Zenon
    <3>4. Good(w, data, data_synced, i)
      BY <1>6, <3>2, Zenon
    <3> QED
      BY ONLY <3>3, <3>4, Zenon
  <2>2. CASE i > wal_end
    <3>1. PICK m \in 1 .. k : i = wal_end + m
      <4>1. i - wal_end \in 1 .. k /\ i = wal_end + (i - wal_end)
        <5>1. wal_end \in Nat /\ k \in Nat /\ i \in 1 .. wal_end + k
          BY <1>1, <1>3, Zenon
        <5> QED
          BY <2>2, <5>1, Added, Zenon
      <4> QED
        BY <4>1, Zenon
    <3>2. w[wal_end + m].kind = "CONNECT"
      <4>1. w[wal_end + m] = ConnectEvent(batch[m], data_end + m - 1)
        BY Zenon
      <4> QED
        BY ONLY <4>1, SMTT(30) DEF ConnectEvent
    <3> QED
      BY <1>8, <3>1, <3>2, Zenon DEF Appended
  <2> QED
    <3>1. wal_end \in Nat /\ k \in Nat /\ i \in 1 .. wal_end + k
      BY <1>1, <1>3, Zenon
    <3>2. i <= wal_end \/ i > wal_end
      BY ONLY <3>1
    <3> QED
      BY <2>1, <2>2, <3>2, Zenon
<1>10. k > 0 => k \in 1 .. k
  BY <1>3, SMTT(30)
<1> QED
  BY <1>2, <1>8, <1>9, <1>10, ZenonT(40)

\* A step that touches neither the files nor the tip, and starts no write.
LEMMA FilesQuiet ==
    ASSUME IndInv, TypeOK', Running, wal' = wal, data' = data, data_synced' >= data_synced,
           UNCHANGED <<durable_point, data_end, wal_end, index>>, WalAtEnd',
           writer' \in {"data_sync", "wal", "wal_sync", "publish"} => writer' = writer /\ batch' = batch,
           pc' = "truncate_sync" => pc = "truncate_sync" /\ arg' = arg
    PROVE  DiskInv' /\ EndInv'
<1>1. DiskInv'
  BY DiskFrame, Zenon DEF IndInv
<1>2. EndCore'
  <2>1. ValidWalSize(wal') = ValidWalSize(wal) /\ ValidWalSize(wal) \in Nat /\ wal_end <= ValidWalSize(wal)
    <3>1. wal \in Seq(WalEvent) /\ \A i \in 1 .. Len(wal) - 1 : wal[i].kind # "TORN"
      BY Zenon DEF IndInv, TypeOK, DiskInv
    <3>2. ValidWalSize(wal) \in 0 .. Len(wal)
      BY <3>1, ValidSizeFacts, Zenon
    <3> QED
      <4>1. Len(wal) \in Nat /\ wal_end <= ValidWalSize(wal)
        BY <3>1, EndFacts, LenWithin, Zenon
      <4> QED
        BY <3>2, <4>1, Within, Zenon
  <2>2. \A i \in 1 .. wal_end : wal'[i] = wal[i]
    BY Zenon
  <2> QED
    BY <2>1, <2>2, CoreKept, Zenon
<1>3. data_synced \in Nat /\ data_synced' \in Nat /\ data_end \in Nat /\ Len(batch) \in Nat
  <2>1. data_synced' \in 0 .. Len(data') /\ data' \in Seq(DataRecord)
    BY Zenon DEF TypeOK
  <2> QED
    BY <2>1, FileTypes, PipeTypes, LenWithin, Within, Zenon DEF IndInv
<1>4. EndInv
  BY Zenon DEF IndInv
<1>5. writer' \in {"data_sync", "wal", "wal_sync", "publish"} =>
        /\ data_end' + Len(batch') <= Len(data')
        /\ \A i \in 1 .. Len(batch') : data'[data_end' + i] = Payload(batch'[i])
  BY <1>4, Zenon DEF EndInv
<1>6. writer' \in {"wal", "wal_sync", "publish"} => data_end' + Len(batch') <= data_synced'
  <2>1. SUFFICES ASSUME writer' \in {"wal", "wal_sync", "publish"}
                 PROVE  data_end' + Len(batch') <= data_synced'
    BY Zenon
  <2>2. writer' = writer /\ Len(batch') = Len(batch) /\ data_end' = data_end
    BY <2>1, Zenon
  <2>3. data_end + Len(batch) <= data_synced
    BY <1>4, <2>1, <2>2, Zenon DEF EndInv
  <2> QED
    BY ONLY data_synced' >= data_synced, <1>3, <2>2, <2>3, SMTT(30)
<1>7. writer' \in {"wal_sync", "publish"} =>
        /\ Len(wal') = wal_end' + Len(batch')
        /\ \A i \in 1 .. Len(batch') :
             wal'[wal_end' + i] = ConnectEvent(batch'[i], data_end' + i - 1)
  BY <1>4, Zenon DEF EndInv
<1>8. pc' = "truncate_sync" =>
        Len(wal') = wal_end' + 1 /\ wal'[wal_end' + 1] = TruncateEvent(arg', durable_point')
  BY <1>4, Zenon DEF EndInv
<1> QED
  BY <1>1, <1>2, <1>5, <1>6, <1>7, <1>8, Zenon DEF EndInv, EndCore

\* A serializer thread leaves the files and what the writer knows of them alone.
LEMMA FilesSerializer ==
    ASSUME IndInv, TypeOK', NEW s \in Serializer, Running, SerializerStep(s)
    PROVE  DiskInv' /\ EndInv'
<1>1. /\ wal' = wal /\ data' = data /\ data_synced' = data_synced
      /\ UNCHANGED <<durable_point, data_end, wal_end, index>>
      /\ enqueued_point' = enqueued_point /\ writer' = writer /\ batch' = batch
      /\ pc' = pc /\ arg' = arg
  BY Zenon DEF SerializerStep, SerializerTake, SerializerSleep, SerializerExit, SerializerPublish,
         SerializerFail, disk, ends, queue, threads, client
<1>2. WalAtEnd' /\ data_synced' >= data_synced
  BY <1>1, FileTypes, Zenon DEF IndInv, EndInv, WalAtEnd
<1> QED
  BY <1>1, <1>2, FilesQuiet, Zenon

\* The writer between commits.
LEMMA FilesWriterIdle ==
    ASSUME IndInv, TypeOK', Running,
           WriterBegin \/ WriterGroup \/ WriterTimeout \/ WriterSleep \/ WriterExit
    PROVE  DiskInv' /\ EndInv'
<1>1. /\ wal' = wal /\ data' = data /\ data_synced' = data_synced
      /\ UNCHANGED <<durable_point, data_end, wal_end, index>>
      /\ enqueued_point' = enqueued_point /\ pc' = pc /\ arg' = arg
      /\ writer \in {"wait", "group"} /\ writer' \in {"wait", "group", "data", "exit"}
  BY Zenon DEF WriterBegin, WriterGroup, WriterTimeout, WriterSleep, WriterExit, TakeBatch,
         disk, ends, queue, threads, client
<1>2. WalAtEnd' /\ data_synced' >= data_synced
  BY <1>1, FileTypes, Zenon DEF IndInv, EndInv, WalAtEnd
<1> QED
  BY <1>1, <1>2, FilesQuiet, Zenon

\* CommitBatch's data write leaves every payload the WAL refers to alone.
LEMMA FilesWriteData ==
    ASSUME IndInv, TypeOK', Running, WriteData
    PROVE  DiskInv' /\ EndInv'
<1> USE DEF ends, client
<1>1. /\ writer = "data" /\ wal' = wal /\ data_synced' = data_synced
      /\ UNCHANGED <<durable_point, data_end, wal_end, index>>
      /\ enqueued_point' = enqueued_point /\ pc' = pc /\ arg' = arg
      /\ writer' \in {"data_sync", "exit"}
  BY Zenon DEF WriteData, WriterGoesTo, WriterFails
<1>2. /\ wal \in Seq(WalEvent) /\ data \in Seq(DataRecord) /\ data_synced \in Nat
      /\ data_synced <= Len(data) /\ data_end \in Nat /\ data_end <= data_synced /\ Len(data) \in Nat
      /\ wal_end \in 1 .. Len(wal) /\ wal_end \in Nat /\ data_end <= Len(data)
      /\ \A i \in 1 .. wal_end : Good(wal, data, data_synced, i)
  <2>1. wal \in Seq(WalEvent) /\ data \in Seq(DataRecord) /\ data_synced \in 0 .. Len(data)
    BY Zenon DEF IndInv, TypeOK
  <2> QED
    BY <2>1, EndFacts, SMTT(30)
<1>3. Len(wal) = wal_end /\ ValidWalSize(wal) = wal_end /\ \A i \in 1 .. wal_end : wal[i].kind # "TORN"
  BY <1>1, AtEnd, Zenon
<1>4. \A i \in 1 .. wal_end : IsPayload(wal[i]) => wal[i].data_offset < data_end
  <2>1. PayloadEnd(wal, wal_end, data_end)
    BY Zenon DEF IndInv, EndInv
  <2> QED
    BY <1>2, <2>1, OffsetsBelowEnd, Zenon
<1>5. Len(data') \in Nat /\ Len(data') >= Len(data) /\ \A i \in 1 .. data_end : data'[i] = data[i]
  <2>1. \/ data' = Pwrite(data, data_end, BatchPayloads)
        \/ data' \in PartialWrites(data, data_end, BatchPayloads, TornPayload)
    BY Zenon DEF WriteData
  <2>2. /\ BatchPayloads \in Seq(DataRecord) /\ TornPayload \in DataRecord
        /\ data_end \in 0 .. Len(data) /\ data \in Seq(DataRecord)
    BY <1>2, WriteTypes, Zenon
  <2>3. Len(data') >= Len(data) /\ \A i \in 1 .. data_end : data'[i] = data[i]
    BY ONLY <2>1, <2>2, WriteFacts, SMTT(30)
  <2> QED
    <3>1. Len(data') \in Nat
      BY LenWithin, Zenon DEF TypeOK
    <3> QED
      BY <2>3, <3>1, Zenon
<1>6. \A i \in 1 .. wal_end : Good(wal', data', data_synced', i)
  <2>1. /\ TypeOK /\ wal_end \in 0 .. Len(wal) /\ data_end <= Len(data') /\ data_end <= data_synced'
        /\ data_synced' \in Nat /\ \A i \in 1 .. wal_end : wal'[i] = wal[i]
    <3>1. /\ TypeOK /\ data_synced' \in Nat /\ data_end <= data_synced'
          /\ \A i \in 1 .. wal_end : wal'[i] = wal[i]
      BY <1>1, <1>2, Zenon DEF IndInv
    <3>2. wal_end \in 0 .. Len(wal) /\ data_end <= Len(data')
      BY ONLY <1>2, <1>5
    <3> QED
      BY <3>1, <3>2, Zenon
  <2> QED
    BY ONLY <1>2, <1>4, <1>5, <2>1, GoodKept, Zenon
<1>7. DiskInv'
  BY <1>1, <1>2, <1>3, <1>6, DiskFrom, Zenon
<1>8. EndCore'
  <2>1. ValidWalSize(wal') \in Nat /\ wal_end <= ValidWalSize(wal') /\ \A i \in 1 .. wal_end : wal'[i] = wal[i]
    <3>1. wal_end <= wal_end
      BY ONLY <1>2
    <3> QED
      BY <1>1, <1>2, <1>3, <3>1, Zenon
  <2> QED
    BY <1>1, <2>1, CoreKept, Zenon
<1>9. WalAtEnd'
  BY <1>1, <1>3, Zenon DEF WalAtEnd
<1>10. writer' = "data_sync" =>
         /\ data_end' + Len(batch') <= Len(data')
         /\ \A i \in 1 .. Len(batch') : data'[data_end' + i] = Payload(batch'[i])
  <2> SUFFICES ASSUME writer' = "data_sync"
               PROVE  /\ data_end' + Len(batch') <= Len(data')
                      /\ \A i \in 1 .. Len(batch') : data'[data_end' + i] = Payload(batch'[i])
    BY Zenon
  <2>1. data' = Pwrite(data, data_end, BatchPayloads) /\ batch' = batch
    BY Zenon DEF WriteData, WriterGoesTo, WriterFails
  <2>2. /\ BatchPayloads \in Seq(DataRecord) /\ Len(BatchPayloads) = Len(batch)
        /\ data_end \in 0 .. Len(data) /\ data \in Seq(DataRecord)
    BY <1>2, WriteTypes, Zenon
  <2>3. Len(data') >= data_end + Len(BatchPayloads)
    BY ONLY <2>1, <2>2, PwriteFacts, Zenon
  <2>4. \A i \in 1 .. Len(BatchPayloads) :
          Pwrite(data, data_end, BatchPayloads)[data_end + i] = BatchPayloads[i]
    BY ONLY <2>2, PwriteInside, SMTT(30)
  <2>5. Len(batch) \in Nat /\ \A i \in 1 .. Len(batch) : BatchPayloads[i] = Payload(batch[i])
    BY PipeTypes, Zenon DEF BatchPayloads, IndInv
  <2> QED
    BY ONLY <1>1, <1>2, <1>5, <2>1, <2>2, <2>3, <2>4, <2>5, Zenon
<1>11. pc' # "truncate_sync"
  BY <1>1, TipsApart, EmptyPipe, Zenon DEF IndInv, CtlInv, Holding
<1> QED
  BY <1>1, <1>7, <1>8, <1>9, <1>10, <1>11, Zenon DEF EndInv, EndCore

-----------------------------------------------------------------------------
(* The files of the open store.                                            *)

\* The syncs move no record.
LEMMA FilesSync ==
    ASSUME IndInv, TypeOK', Running, SyncData \/ SyncWal
    PROVE  DiskInv' /\ EndInv'
<1> USE DEF ends, client
<1>1. /\ wal' = wal /\ data' = data /\ pc' = pc /\ arg' = arg
      /\ UNCHANGED <<durable_point, data_end, wal_end, index>>
      /\ enqueued_point' = enqueued_point
      /\ \/ writer = "data_sync" /\ writer' = "wal" /\ batch' = batch /\ data_synced' = Len(data)
         \/ writer = "wal_sync" /\ writer' = "publish" /\ batch' = batch /\ data_synced' = data_synced
         \/ writer' = "exit" /\ data_synced' = data_synced
  BY Zenon DEF SyncData, SyncWal, WriterGoesTo, WriterFails
<1>2. data_synced \in Nat /\ data_synced <= Len(data) /\ Len(data) \in Nat /\ data_synced' >= data_synced
  BY <1>1, FileTypes, Zenon DEF IndInv
<1>3. DiskInv'
  BY <1>1, <1>2, DiskFrame, Zenon DEF IndInv
<1>4. EndCore'
  <2>1. wal \in Seq(WalEvent) /\ \A i \in 1 .. Len(wal) - 1 : wal[i].kind # "TORN"
    BY Zenon DEF IndInv, TypeOK, DiskInv
  <2>2. ValidWalSize(wal) \in 0 .. Len(wal)
    BY <2>1, ValidSizeFacts, Zenon
  <2>3. ValidWalSize(wal') \in Nat /\ wal_end <= ValidWalSize(wal')
    BY <1>1, <2>2, EndFacts
  <2> QED
    BY <1>1, <2>3, CoreKept, Zenon
<1>5. EndInv
  BY Zenon DEF IndInv
<1>6. WalAtEnd'
  BY <1>1, AtEnd, Zenon DEF WalAtEnd
<1>7. writer' \in {"data_sync", "wal", "wal_sync", "publish"} =>
        /\ data_end' + Len(batch') <= Len(data')
        /\ \A i \in 1 .. Len(batch') : data'[data_end' + i] = Payload(batch'[i])
  BY <1>1, <1>5, Zenon DEF EndInv
<1>8. writer' \in {"wal", "wal_sync", "publish"} => data_end' + Len(batch') <= data_synced'
  BY <1>1, <1>5, Zenon DEF EndInv
<1>9. writer' \in {"wal_sync", "publish"} =>
        /\ Len(wal') = wal_end' + Len(batch')
        /\ \A i \in 1 .. Len(batch') :
             wal'[wal_end' + i] = ConnectEvent(batch'[i], data_end' + i - 1)
  BY <1>1, <1>5, Zenon DEF EndInv
<1>10. pc' = "truncate_sync" =>
        Len(wal') = wal_end' + 1 /\ wal'[wal_end' + 1] = TruncateEvent(arg', durable_point')
  BY <1>1, <1>5, Zenon DEF EndInv
<1> QED
  BY <1>3, <1>4, <1>6, <1>7, <1>8, <1>9, <1>10, Zenon DEF EndInv, EndCore

\* The WAL write appends good records, and at most one torn one.
LEMMA FilesWriteWal ==
    ASSUME IndInv, TypeOK', Running, WriteWal
    PROVE  DiskInv' /\ EndInv'
<1> USE DEF ends, client
<1>1. /\ writer = "wal" /\ data' = data /\ data_synced' = data_synced
      /\ UNCHANGED <<durable_point, data_end, wal_end, index>>
      /\ enqueued_point' = enqueued_point /\ pc' = pc /\ arg' = arg
      /\ writer' \in {"wal_sync", "exit"}
  BY Zenon DEF WriteWal, WriterGoesTo, WriterFails
<1>2. /\ wal \in Seq(WalEvent) /\ wal' \in Seq(WalEvent) /\ wal_end \in Nat /\ data_end \in Nat
      /\ Len(batch) \in Nat /\ wal_end >= 1
  <2>1. wal_end \in 1 .. Len(wal) /\ Len(batch) \in Nat
    BY EndFacts, PipeTypes, Zenon DEF IndInv
  <2> QED
    BY <2>1 DEF IndInv, TypeOK
<1>3. Len(wal) = wal_end /\ \A i \in 1 .. wal_end : wal[i].kind # "TORN"
  BY <1>1, AtEnd, Zenon
<1>4. Len(BatchEvents) = Len(batch)
      /\ \A i \in 1 .. Len(batch) : BatchEvents[i] = ConnectEvent(batch[i], data_end + i - 1)
  BY <1>2, WriteTypes, Zenon DEF BatchEvents
<1>0. /\ BatchEvents \in Seq(WalEvent) /\ TornEvent \in WalEvent
      /\ wal \in Seq(WalEvent) /\ wal_end \in 0 .. Len(wal)
  BY <1>2, WriteTypes, Zenon
<1>5. \A i \in 1 .. wal_end : wal'[i] = wal[i]
  <2>1. \/ wal' = Pwrite(wal, wal_end, BatchEvents)
        \/ wal' \in PartialWrites(wal, wal_end, BatchEvents, TornEvent)
    BY Zenon DEF WriteWal
  <2> QED
    BY ONLY <1>0, <2>1, WriteFacts, SMTT(30)
<1>6. PICK k \in 0 .. Len(batch) :
        /\ \A i \in 1 .. k : wal'[wal_end + i] = BatchEvents[i]
        /\ \/ Len(wal') = wal_end + k
           \/ Len(wal') = wal_end + k + 1 /\ wal'[wal_end + (k + 1)] = TornEvent
        /\ writer' = "wal_sync" => k = Len(batch) /\ Len(wal') = wal_end + k /\ batch' = batch
  <2>1. CASE wal' = Pwrite(wal, wal_end, BatchEvents) /\ WriterGoesTo("wal_sync")
    <3>0. wal_end = Len(wal)
      BY <1>3, Zenon
    <3>1. \A i \in 1 .. Len(BatchEvents) :
            Pwrite(wal, wal_end, BatchEvents)[wal_end + i] = BatchEvents[i]
      BY ONLY <1>0, PwriteInside, SMTT(30)
    <3>2. Len(Pwrite(wal, wal_end, BatchEvents)) = wal_end + Len(BatchEvents)
      BY ONLY <1>0, <3>0, PwriteEnd, Zenon
    <3>3. batch' = batch
      BY <2>1, Zenon DEF WriterGoesTo
    <3>4. Len(batch) \in 0 .. Len(batch)
      BY <1>2
    <3> QED
      BY <1>4, <2>1, <3>1, <3>2, <3>3, <3>4, Zenon
  <2>2. CASE wal' \in PartialWrites(wal, wal_end, BatchEvents, TornEvent) /\ WriterFails
    <3>0. wal' \in PartialWrites(wal, wal_end, BatchEvents, TornEvent)
      BY <2>2, Zenon
    <3>1. PICK k \in 0 .. Len(BatchEvents) - 1 : WroteOnly(wal, wal_end, BatchEvents, TornEvent, wal', k)
      BY ONLY <1>0, <3>0, PartialFacts, Zenon
    <3>2. k \in 0 .. Len(batch)
      BY <1>2, <1>4, <3>1
    <3>3. writer' # "wal_sync"
      BY <2>2, Zenon DEF WriterFails
    <3> QED
      BY <1>3, <3>1, <3>2, <3>3, Zenon DEF WroteOnly
  <2> QED
    BY <2>1, <2>2, Zenon DEF WriteWal
<1>7. /\ \A i \in 1 .. wal_end + k : wal'[i].kind # "TORN" /\ Good(wal', data, data_synced, i)
  <2>1. k \in Nat /\ wal_end + k <= Len(wal') /\ wal' \in Seq(WalEvent)
    BY <1>2, <1>6, SMTT(30)
  <2>2. \A i \in 1 .. k : wal'[wal_end + i] = ConnectEvent(batch[i], data_end + i - 1)
    BY <1>2, <1>4, <1>6
  <2>3. \A i \in 1 .. wal_end : wal'[i] = wal[i] /\ wal[i].kind # "TORN"
    BY <1>3, <1>5, Zenon
  <2>4. PICK w \in Seq(WalEvent) : w = wal'
    BY <2>1, Zenon
  <2>5. \A i \in 1 .. wal_end + k : w[i].kind # "TORN" /\ Good(w, data, data_synced, i)
    BY <1>1, <2>1, <2>2, <2>3, <2>4, BatchGood, Zenon
  <2> QED
    BY <2>4, <2>5, Zenon
<1>8. PICK n \in Nat : n = wal_end + k /\ n >= wal_end
  BY <1>2
<1>9. Len(wal') = n \/ (Len(wal') = n + 1 /\ wal'[n + 1].kind = "TORN")
  <2>1. n + 1 = wal_end + (k + 1) /\ wal_end + k + 1 = n + 1
    BY <1>2, <1>8
  <2>2. TornEvent.kind = "TORN"
    BY Zenon DEF TornEvent
  <2> QED
    BY <1>6, <1>8, <2>1, <2>2, Zenon
<1>10. \A i \in 1 .. n : wal'[i].kind # "TORN" /\ Good(wal', data', data_synced', i)
  BY <1>1, <1>7, <1>8, Zenon
<1>11. DiskInv' /\ ValidWalSize(wal') = n
  BY <1>2, <1>9, <1>10, DiskFrom, Zenon
<1>12. EndCore'
  BY <1>1, <1>5, <1>8, <1>11, CoreKept, Zenon
<1>13. EndInv
  BY Zenon DEF IndInv
<1>14. writer' = "wal_sync" =>
         /\ data_end' + Len(batch') <= Len(data')
         /\ \A i \in 1 .. Len(batch') : data'[data_end' + i] = Payload(batch'[i])
         /\ data_end' + Len(batch') <= data_synced'
  BY <1>1, <1>6, <1>13, Zenon DEF EndInv
<1>15. writer' = "wal_sync" =>
         /\ Len(wal') = wal_end' + Len(batch')
         /\ \A i \in 1 .. Len(batch') :
              wal'[wal_end' + i] = ConnectEvent(batch'[i], data_end' + i - 1)
  BY <1>1, <1>4, <1>6, Zenon
<1>16. pc' # "truncate_sync"
  BY <1>1, TipsApart, EmptyPipe, Zenon DEF IndInv, CtlInv, Holding
<1> QED
  BY <1>1, <1>11, <1>12, <1>14, <1>15, <1>16, Zenon DEF EndInv, EndCore, WalAtEnd

\* Publishing takes tip, ends and index to the records just written.
LEMMA FilesPublish ==
    ASSUME IndInv, TypeOK', Running, CommitPublish
    PROVE  DiskInv' /\ EndInv'
<1> USE DEF disk, ends, client
<1>1. wal' = wal /\ data' = data /\ data_synced' = data_synced /\ writer = "publish"
  BY Zenon DEF CommitPublish
<1>2. DiskInv'
  <2>1. data_synced' >= data_synced
    BY <1>1, FileTypes, Zenon DEF IndInv
  <2> QED
    BY <1>1, <2>1, DiskFrame, Zenon DEF IndInv
<1>3. CASE WriterFails
  <2>1. /\ UNCHANGED <<durable_point, data_end, wal_end, index, pc, arg>>
        /\ writer' = "exit"
    BY <1>3, Zenon DEF WriterFails
  <2>2. WalAtEnd'
    BY ONLY <2>1, Zenon DEF WalAtEnd
  <2>3. data_synced' >= data_synced
    BY <1>1, FileTypes, Zenon DEF IndInv
  <2> QED
    BY <1>1, <2>1, <2>2, <2>3, FilesQuiet, Zenon
<1>4. CASE Publish
  <2>1. /\ wal \in Seq(WalEvent) /\ wal_end \in Nat /\ wal_end >= 1 /\ data_end \in Nat
        /\ batch \in Seq(Chain) /\ Len(batch) \in Nat /\ Len(batch) > 0
        /\ durable_point \in Chain /\ enqueued_point \in Chain
    <3>1. Running /\ TypeOK /\ CtlInv
      BY <1>1, Zenon DEF IndInv, CtlInv
    <3>2. batch # <<>>
      BY <1>1, <3>1, Zenon DEF CtlInv, Holding
    <3>3. wal \in Seq(WalEvent) /\ data_end \in Nat /\ batch \in Seq(Chain)
      BY <3>1, Zenon DEF TypeOK
    <3>4. durable_point \in Chain /\ enqueued_point \in Chain
      BY <3>1, PipeTypes, Zenon
    <3>5. wal_end \in 1 .. Len(wal)
      BY <3>1, EndFacts, Zenon
    <3>6. Len(batch) \in Nat /\ Len(batch) > 0
      BY ONLY <3>2, <3>3
    <3> QED
      BY ONLY <3>3, <3>4, <3>5, <3>6
  <2>2. PICK m \in 0 .. Len(batch) : m = Len(batch) /\ m \in Nat /\ m > 0
    BY <2>1
  <2>3. PICK H \in Nat : H = Height(durable_point)
    BY <2>1, BaseFacts, Zenon
  <2>4. /\ Len(wal) = wal_end + m
        /\ \A i \in 1 .. m : wal[wal_end + i] = ConnectEvent(batch[i], data_end + i - 1)
    BY <1>1, <2>2, Zenon DEF IndInv, EndInv
  <2>5. \A i \in 1 .. Len(wal) - 1 : wal[i].kind # "TORN"
    BY Zenon DEF IndInv, DiskInv
  <2>6. \A i \in 1 .. wal_end : wal[i] = wal[i] /\ wal[i].kind # "TORN"
    BY <2>1, <2>2, <2>4, <2>5
  <2>0. /\ \A i \in 1 .. wal_end + m : wal[i].kind # "TORN" /\ Good(wal, data, data_synced, i)
        /\ Appended(wal, data, data_synced, wal_end, data_end, H, m, wal_end + m)
    <3>1. /\ IndInv /\ Running /\ writer \in {"wal", "wal_sync", "publish"}
          /\ wal \in Seq(WalEvent) /\ m \in 0 .. Len(batch) /\ wal_end + m <= Len(wal) /\ m > 0
      BY <1>1, <2>1, <2>2, <2>4
    <3>2. /\ \A i \in 1 .. wal_end : wal[i] = wal[i] /\ wal[i].kind # "TORN"
          /\ \A i \in 1 .. m : wal[wal_end + i] = ConnectEvent(batch[i], data_end + i - 1)
      BY <2>4, <2>6, Zenon
    <3>3. \A i \in 1 .. wal_end + m : wal[i].kind # "TORN" /\ Good(wal, data, data_synced, i)
      BY ONLY <3>1, <3>2, BatchGood, Zenon
    <3>4. Appended(wal, data, data_synced, wal_end, data_end, Height(durable_point), m, wal_end + m)
      BY ONLY <3>1, <3>2, BatchGood, Zenon
    <3> QED
      BY <2>3, <3>3, <3>4, Zenon
  <2>7. /\ \A i \in 1 .. wal_end + m : wal[i].kind # "TORN" /\ Good(wal, data, data_synced, i)
        /\ PayloadEnd(wal, wal_end + m, data_end + m)
        /\ Height(wal[wal_end + m].point) = H + m
        /\ \A h \in 1 .. H + m :
             IndexOf(wal, wal_end + m)[h] =
               IF h <= H THEN IndexOf(wal, wal_end)[h] ELSE data_end + (h - H) - 1
    BY <2>0, Zenon DEF Appended
  <2>8. /\ wal_end' = wal_end + m /\ data_end' = data_end + m /\ durable_point' = batch[m]
        /\ index' = PublishedIndex(batch[m]) /\ writer' = "wait" /\ pc' = pc /\ arg' = arg
    BY <1>4, <2>2, ZenonT(40) DEF Publish
  <2>9. wal[wal_end + m].point = batch[m]
    <3>1. wal[wal_end + m] = ConnectEvent(batch[m], data_end + m - 1)
      BY <2>2, <2>4
    <3> QED
      BY ONLY <3>1, SMTT(30) DEF ConnectEvent
  <2>10. index = IndexOf(wal, wal_end)
    BY Zenon DEF IndInv, EndInv
  <2>11. index' = IndexOf(wal, wal_end + m)
    <3>1. index' = [h \in 1 .. H + m |->
                      IF h <= H THEN index[h] ELSE data_end + (h - H) - 1]
      BY <2>3, <2>7, <2>8, <2>9, Zenon DEF PublishedIndex
    <3>2. IndexOf(wal, wal_end + m) = [h \in 1 .. H + m |-> IndexOf(wal, wal_end + m)[h]]
      BY SMTT(30), <2>7 DEF IndexOf
    <3> QED
      BY <2>7, <2>10, <3>1, <3>2, Zenon
  <2>12. ValidWalSize(wal) = wal_end + m
    <3>1. wal[Len(wal)].kind # "TORN"
      <4>1. Len(wal) \in 1 .. wal_end + m
        BY <2>1, <2>2, <2>4
      <4> QED
        BY <2>7, <4>1, Zenon
    <3> QED
      BY <2>4, <3>1, Zenon DEF ValidWalSize
  <2>13. wal_end' \in 1 .. ValidWalSize(wal')
    BY <1>1, <2>1, <2>2, <2>8, <2>12
  <2>14. pc # "truncate_sync"
    BY <1>1, TipsApart, EmptyPipe, Zenon DEF IndInv, CtlInv, Holding
  <2> QED
    BY <1>1, <1>2, <2>4, <2>7, <2>8, <2>9, <2>11, <2>13, <2>14, Zenon DEF EndInv, WalAtEnd
<1> QED
  BY <1>3, <1>4, Zenon DEF CommitPublish

\* A truncation appends one good record, or at most a torn one.
LEMMA FilesTruncateWrite ==
    ASSUME IndInv, TypeOK', TruncateWrite
    PROVE  DiskInv' /\ EndInv'
<1> USE DEF ends, threads
<1>1. /\ pc = "truncate" /\ Running /\ arg # durable_point /\ data' = data
      /\ data_synced' = data_synced /\ UNCHANGED <<durable_point, data_end, wal_end, index>>
      /\ enqueued_point' = enqueued_point /\ arg' = arg /\ writer' = writer /\ batch' = batch
      /\ pc' \in {"truncate_sync", "close"}
  BY Zenon DEF TruncateWrite, Running
<1>2. /\ durable_point = enqueued_point /\ IsAncestor(arg, durable_point)
      /\ durable_point = wal[wal_end].point
  BY <1>1, Zenon DEF IndInv, CtlInv, EndInv
<1>3. writer \notin Holding
  BY <1>2, EmptyPipe, Zenon DEF IndInv, CtlInv
<1>4. Len(wal) = wal_end /\ \A i \in 1 .. wal_end : wal[i].kind # "TORN"
  BY <1>1, AtEnd, Zenon
<1>5. wal_end \in 1 .. Len(wal) /\ \A i \in 1 .. wal_end : Good(wal, data, data_synced, i)
  BY <1>1, EndFacts, Zenon
<1>6. wal \in Seq(WalEvent) /\ wal' \in Seq(WalEvent) /\ arg \in Chain
  BY Zenon DEF IndInv, TypeOK
<1>7. PICK recs \in Seq(WalEvent) : recs = <<TruncateEvent(arg, durable_point)>>
  <2>1. TruncateEvent(arg, durable_point) \in WalEvent
    BY <1>1, WriteTypes, Zenon
  <2>2. PICK x \in WalEvent : x = TruncateEvent(arg, durable_point)
    BY <2>1, Zenon
  <2>3. <<x>> \in Seq(WalEvent)
    OBVIOUS
  <2> QED
    BY <2>2, <2>3, Zenon
<1>8. /\ Len(recs) = 1 /\ recs[1] = TruncateEvent(arg, durable_point) /\ TornEvent \in WalEvent
      /\ wal_end \in 0 .. Len(wal)
  BY <1>1, <1>7, WriteTypes, Zenon
<1>9. \A i \in 1 .. wal_end : wal'[i] = wal[i]
  <2>1. \/ wal' = Pwrite(wal, wal_end, recs)
        \/ wal' \in PartialWrites(wal, wal_end, recs, TornEvent)
    BY <1>7, Zenon DEF TruncateWrite
  <2>2. /\ wal \in Seq(WalEvent) /\ recs \in Seq(WalEvent) /\ TornEvent \in WalEvent
        /\ wal_end \in 0 .. Len(wal)
    BY <1>6, <1>8, Zenon
  <2> QED
    BY ONLY SMTT(30), <2>1, <2>2, WriteFacts
<1>10. \A i \in 1 .. wal_end : wal'[i].kind # "TORN" /\ Good(wal', data', data_synced', i)
  <2>1. /\ TypeOK /\ wal_end \in 0 .. Len(wal) /\ data_synced \in Nat /\ Len(data') \in Nat
        /\ data_synced <= Len(data') /\ data_synced <= data_synced' /\ data_synced' \in Nat
        /\ wal_end \in Nat
    BY <1>1, <1>8, FileTypes, Zenon DEF IndInv
  <2>2. \A i \in 1 .. wal_end : IsPayload(wal[i]) => wal[i].data_offset < data_synced
    BY <1>5, <2>1, OffsetsSynced, Zenon
  <2>3. \A i \in 1 .. data_synced : data'[i] = data[i]
    BY <1>1, Zenon
  <2>4. \A i \in 1 .. wal_end : Good(wal', data', data_synced', i)
    BY ONLY <1>5, <1>9, <2>1, <2>2, <2>3, GoodKept, Zenon
  <2> QED
    BY <1>4, <1>9, <2>4, Zenon
<1>11. CASE wal' = Pwrite(wal, wal_end, recs) /\ pc' = "truncate_sync"
  <2>1. /\ wal \in Seq(WalEvent) /\ recs \in Seq(WalEvent) /\ wal_end \in 0 .. Len(wal)
        /\ wal_end = Len(wal)
    BY <1>4, <1>6, <1>8, Zenon
  <2>2. Written(wal, wal_end, recs, wal')
    BY ONLY <1>11, <2>1, PwriteWritten, Zenon
  <2>4. Len(wal') = wal_end + 1 /\ wal'[wal_end + 1] = TruncateEvent(arg, durable_point)
    <3>1. 1 \in 1 .. Len(recs)
      BY ONLY <1>8
    <3> QED
      BY ONLY <1>8, <2>2, <3>1, Zenon DEF Written
  <2>5. PICK n \in Nat : n = wal_end /\ n >= 1
    BY <1>5
  <2>6. PICK w \in Seq(WalEvent) : w = wal'
    BY <1>6, Zenon
  <2>7. Good(w, data', data_synced', n + 1)
    <3>1. w[n] = wal[n]
      BY <1>5, <1>6, <1>9, <2>5, <2>6, LenWithin, UpTo, Zenon
    <3>2. /\ n \in 1 .. Len(w) - 1 /\ IsAncestor(arg, w[n].point) /\ arg # w[n].point
          /\ w[n + 1] = TruncateEvent(arg, w[n].point) /\ arg \in Chain
      BY <1>1, <1>2, <1>6, <2>4, <2>5, <2>6, <3>1, SMTT(30)
    <3>3. \A i \in 1 .. n : Good(w, data', data_synced', i)
      BY <1>10, <2>5, <2>6, Zenon
    <3> QED
      BY ONLY <2>6, <3>2, <3>3, GoodTruncate, Zenon
  <2>8. \A i \in 1 .. n + 1 : wal'[i].kind # "TORN" /\ Good(wal', data', data_synced', i)
    <3>1. wal'[n + 1].kind = "TRUNCATE"
      BY <2>4, <2>5 DEF TruncateEvent
    <3>2. \A i \in 1 .. n + 1 : i \in 1 .. n \/ i = n + 1
      BY Added, Zenon
    <3> QED
      BY <1>10, <2>5, <2>6, <2>7, <3>1, <3>2, Zenon
  <2>9. DiskInv' /\ ValidWalSize(wal') = n + 1
    <3>1. wal' \in Seq(WalEvent) /\ n + 1 \in Nat /\ Len(wal') = n + 1
      BY <1>6, <2>4, <2>5, Added, Zenon
    <3> QED
      BY ONLY <2>8, <3>1, DiskFrom, Zenon
  <2>10. EndCore'
    BY SMTT(30), <1>1, <1>9, <2>5, <2>9, CoreKept
  <2>11. writer' \notin {"data_sync", "wal", "wal_sync", "publish"}
    BY <1>1, <1>3, Zenon DEF Holding
  <2> QED
    BY <1>1, <1>2, <1>11, <2>4, <2>9, <2>10, <2>11, Zenon DEF EndInv, EndCore, WalAtEnd
<1>12. CASE wal' \in PartialWrites(wal, wal_end, recs, TornEvent) /\ pc' = "close"
  <2>1. wal' \in PartialWrites(wal, wal_end, recs, TornEvent)
    BY <1>12, Zenon
  <2>2. PICK k \in 0 .. Len(recs) - 1 : WroteOnly(wal, wal_end, recs, TornEvent, wal', k)
    BY ONLY <1>6, <1>7, <1>8, <2>1, PartialFacts, Zenon
  <2>3. k = 0
    BY <1>8
  <2>4. Len(wal') = wal_end \/ (Len(wal') = wal_end + 1 /\ wal'[wal_end + 1].kind = "TORN")
    <3>1. WroteOnly(wal, wal_end, recs, TornEvent, wal', 0)
      BY ONLY <2>2, <2>3, Zenon
    <3>2. Len(wal') = wal_end + 0 \/ (Len(wal') = wal_end + 0 + 1 /\ wal'[wal_end + (0 + 1)] = TornEvent)
      BY ONLY <1>4, <3>1, Zenon DEF WroteOnly
    <3>3. wal_end \in Nat /\ TornEvent.kind = "TORN"
      BY ONLY <1>5, <1>6 DEF TornEvent
    <3>4. wal_end + 0 = wal_end /\ wal_end + 0 + 1 = wal_end + 1 /\ wal_end + (0 + 1) = wal_end + 1
      BY ONLY <3>3
    <3> QED
      BY ONLY <3>2, <3>3, <3>4, Zenon
  <2>5. PICK n \in Nat : n = wal_end
    BY <1>5
  <2>6. DiskInv' /\ ValidWalSize(wal') = n
    BY <1>6, <1>10, <2>4, <2>5, DiskFrom, Zenon
  <2>7. EndCore'
    <3>1. ValidWalSize(wal') \in Nat /\ wal_end <= ValidWalSize(wal')
      BY ONLY <2>5, <2>6
    <3> QED
      BY <1>1, <1>9, <3>1, CoreKept, Zenon
  <2>8. writer' \notin {"data_sync", "wal", "wal_sync", "publish"}
    BY <1>1, <1>3, Zenon DEF Holding
  <2> QED
    BY <1>1, <1>2, <1>12, <2>6, <2>7, <2>8, Zenon DEF EndInv, EndCore, WalAtEnd
<1> QED
  BY <1>7, <1>11, <1>12, Zenon DEF TruncateWrite

\* After the sync, tip and index are those of the truncation's record.
LEMMA FilesTruncateSync ==
    ASSUME IndInv, TypeOK', TruncateSync
    PROVE  DiskInv' /\ EndInv'
<1> USE DEF threads
<1>1. /\ pc = "truncate_sync" /\ Running /\ wal' = wal /\ data' = data
      /\ data_synced' = data_synced /\ data_end' = data_end /\ writer' = writer /\ batch' = batch
  BY Zenon DEF TruncateSync, Running
<1>2. /\ durable_point = enqueued_point /\ IsAncestor(arg, durable_point) /\ arg # durable_point
      /\ durable_point = wal[wal_end].point /\ PayloadEnd(wal, wal_end, data_end)
      /\ index = IndexOf(wal, wal_end) /\ Len(wal) = wal_end + 1
      /\ wal[wal_end + 1] = TruncateEvent(arg, durable_point)
  BY <1>1, Zenon DEF IndInv, CtlInv, EndInv
<1>3. writer' \notin {"data_sync", "wal", "wal_sync", "publish"}
  BY <1>1, <1>2, EmptyPipe, Zenon DEF IndInv, CtlInv, Holding
<1>4. CASE pc' = "close" /\ UNCHANGED <<wal_end, index, durable_point, enqueued_point, arg>>
  <2>1. data_synced' >= data_synced
    BY <1>1, FileTypes, Zenon DEF IndInv
  <2>2. WalAtEnd'
    BY <1>2, <1>4, Zenon DEF WalAtEnd
  <2> QED
    BY <1>1, <1>3, <1>4, <2>1, <2>2, FilesQuiet, Zenon
<1>5. CASE /\ wal_end' = wal_end + 1 /\ index' = TruncatedIndex(arg)
           /\ durable_point' = arg /\ pc' = "idle"
  <2>1. PICK n \in Nat : n = wal_end /\ n >= 1
    BY <1>1, EndFacts
  <2>2. /\ wal \in Seq(WalEvent) /\ arg \in Chain /\ n \in 1 .. Len(wal) - 1
        /\ IsAncestor(arg, wal[n].point) /\ arg # wal[n].point
        /\ wal[n + 1] = TruncateEvent(arg, wal[n].point)
    <3>1. wal \in Seq(WalEvent) /\ arg \in Chain
      BY Zenon DEF IndInv, TypeOK
    <3>2. Len(wal) = n + 1
      BY <1>2, <2>1, Zenon
    <3>3. n \in 1 .. Len(wal) - 1
      BY ONLY <2>1, <3>2
    <3> QED
      BY <1>2, <2>1, <3>1, <3>3, Zenon
  <2>3. \A i \in 1 .. n : Good(wal, data, data_synced, i)
    BY <1>1, <2>1, EndFacts, Zenon
  <2>4. \A h \in 1 .. Height(arg) : IndexOf(wal, n + 1)[h] = IndexOf(wal, n)[h]
    BY ONLY <2>2, <2>3, GoodTruncate, Zenon
  <2>5. wal[n + 1].point = arg /\ wal[n + 1].kind = "TRUNCATE"
    BY SMTT(30), <2>2 DEF TruncateEvent
  <2>6. index' = IndexOf(wal, n + 1)
    <3>1. IndexOf(wal, n + 1) = [h \in 1 .. Height(arg) |-> IndexOf(wal, n + 1)[h]]
      BY SMTT(30), <2>5 DEF IndexOf
    <3> QED
      BY <1>2, <1>5, <2>1, <2>4, <3>1, Zenon DEF TruncatedIndex
  <2>7. PayloadEnd(wal, n + 1, data_end)
    <3>1. ~IsPayload(wal[n + 1]) /\ PayloadEnd(wal, n, data_end)
      BY <1>2, <2>1, <2>5, Zenon DEF IsPayload
    <3> QED
      BY ONLY <2>1, <3>1 DEF PayloadEnd
  <2>8. ValidWalSize(wal) = n + 1
    BY <1>2, <2>1, <2>5, Zenon DEF ValidWalSize
  <2>9. data_synced' >= data_synced
    BY <1>1, FileTypes, Zenon DEF IndInv
  <2>10. DiskInv'
    BY <1>1, <2>9, DiskFrame, Zenon DEF IndInv
  <2>11. wal_end' \in 1 .. ValidWalSize(wal')
    BY <1>1, <1>5, <2>1, <2>8
  <2> QED
    BY <1>1, <1>2, <1>3, <1>5, <2>1, <2>5, <2>6, <2>7, <2>10, <2>11, Zenon DEF EndInv, WalAtEnd
<1> QED
  BY <1>4, <1>5, Zenon DEF TruncateSync

\* A step that ends the process leaves the files to the next open.
LEMMA FilesGone ==
    ASSUME IndInv, TypeOK', Join \/ Kill \/ PowerLoss
    PROVE  DiskInv' /\ EndInv'
<1>1. ~Running'
  BY Zenon DEF Join, Kill, PowerLoss, ProcessGone, Running
<1>2. CASE Join \/ Kill
  <2>1. wal' = wal /\ data' = data /\ data_synced' = data_synced
    BY <1>2, Zenon DEF Join, Kill, disk
  <2>2. data_synced' >= data_synced
    BY <2>1, FileTypes, Zenon DEF IndInv
  <2> QED
    BY <1>1, <2>1, <2>2, DiskFrame, Zenon DEF IndInv, EndInv
<1> QED
  BY <1>1, <1>2, DiskPowerLoss, Zenon DEF EndInv

\* The client's steps that write nothing.
LEMMA FilesClient ==
    ASSUME IndInv, TypeOK', ClientStep \/ ClientCall, ~TruncateWrite, ~TruncateSync, ~Join
    PROVE  DiskInv' /\ EndInv'
<1> USE DEF disk, ends, queue, threads, client
<1>1. /\ Running /\ wal' = wal /\ data' = data /\ data_synced' = data_synced
      /\ UNCHANGED <<durable_point, data_end, wal_end, index>>
      /\ writer' = writer /\ batch' = batch
      /\ pc # "truncate_sync" /\ pc # "join"
  BY ZenonT(40) DEF ClientStep, EnqueueResume, WaitResume, DrainResume, TruncateNothing, CloseAfterError,
         CloseResume, ClientCall, Enqueue, WaitDurable, Truncate, Close, BeginClose, Push, Return,
         SleepAgain, Running
<1>2. /\ pc' # "truncate_sync"
      /\ pc = "close" => pc' = "join" /\ enqueued_point' = enqueued_point
  BY Zenon DEF ClientStep, EnqueueResume, WaitResume, DrainResume, TruncateNothing, CloseAfterError,
         CloseResume, ClientCall, Enqueue, WaitDurable, Truncate, Close, BeginClose, Push, Return,
         SleepAgain, StopThreads, IndInv, CtlInv
<1>3. data_synced' >= data_synced
  BY <1>1, FileTypes, Zenon DEF IndInv
<1>4. WalAtEnd'
  BY <1>1, <1>2, Zenon DEF IndInv, EndInv, WalAtEnd
<1> QED
  BY <1>1, <1>2, <1>3, <1>4, FilesQuiet, Zenon

\* Every step keeps the files good and the open store in agreement with them.
LEMMA FilesStep ==
    ASSUME IndInv, [Next]_vars
    PROVE  DiskInv' /\ EndInv'
<1>1. TypeOK'
  BY TypeStep, Zenon
<1>2. CASE UNCHANGED vars
  BY <1>2, Zenon DEF IndInv, DiskInv, EndInv, WalAtEnd, Running, vars, disk, ends, queue, threads, client
<1>3. CASE \E s \in Serializer : SerializerStep(s)
  BY <1>1, <1>3, FilesSerializer, CtlSerializer, Zenon
<1>4. CASE WriterStep
  <2>1. Running
    BY <1>4, CtlWriter, Zenon
  <2> QED
    BY <1>1, <1>4, <2>1, FilesWriterIdle, FilesWriteData, FilesSync, FilesWriteWal, FilesPublish, Zenon
       DEF WriterStep
<1>5. CASE OpenStep
  BY <1>1, <1>5, FilesOpen, Zenon
<1>6. CASE ClientStep \/ ClientCall
  BY <1>1, <1>6, FilesTruncateWrite, FilesTruncateSync, FilesGone, FilesClient, Zenon
<1>7. CASE Kill \/ PowerLoss
  BY <1>1, <1>7, FilesGone, Zenon
<1> QED
  BY <1>2, <1>3, <1>4, <1>5, <1>6, <1>7, Zenon DEF Next

-----------------------------------------------------------------------------
(* The invariant.                                                          *)

\* A store that does not exist yet satisfies the invariant.
LEMMA InitInv == Init => IndInv
<1> SUFFICES ASSUME Init PROVE IndInv
  BY Zenon
<1>1. TypeOK
  <2>1. Base \in Chain /\ <<>> \in [1 .. Height(Base) -> Nat]
    BY BaseFacts, EmptyIndex, Zenon
  <2>2. Exited \in [at : {"wait", "work", "exit"}, item : Chain]
    BY <2>1, Zenon DEF Exited
  <2>3. serializer \in [Serializer -> [at : {"wait", "work", "exit"}, item : Chain]]
    BY <2>2, Zenon DEF Init
  <2>4. index \in [1 .. Height(durable_point) -> Nat]
    BY <2>1, Zenon DEF Init
  <2>5. failed \in BOOLEAN /\ stopping \in BOOLEAN /\ asleep \in SUBSET Thread /\ ready \in SUBSET Chain
    BY Zenon DEF Init
  <2>6. /\ data \in Seq(DataRecord) /\ data_synced \in 0 .. Len(data)
        /\ wal \in Seq(WalEvent) /\ wal_synced \in 0 .. Len(wal)
        /\ input \in Seq(Chain) /\ batch \in Seq(Chain)
    BY DEF Init
  <2> QED
    BY <2>1, <2>3, <2>4, <2>5, <2>6, Zenon DEF Init, TypeOK, WriterPc, ClientPc
<1>2. /\ pc = "down" /\ wal = <<>> /\ input = <<>> /\ batch = <<>> /\ ready = {}
      /\ durable_point = Base /\ enqueued_point = Base /\ queued_blocks = 0
      /\ \A s \in Serializer : serializer[s].at = "exit"
  BY Zenon DEF Init, Exited
<1>3. Height(Base) = 0 /\ IsAncestor(Base, Base)
  BY BaseFacts, AtSelf DEF IsAncestor
<1>4. PipeInv
  <2>1. Len(input) = 0 /\ Len(batch) = 0
    BY <1>2, Zenon
  <2>2. \A s \in Serializer : ~Working(s)
    BY <1>2, Zenon DEF Working
  <2>3. IsAncestor(durable_point, enqueued_point) /\ ready = {}
    BY ONLY <1>2, <1>3, Zenon
  <2>4. /\ queued_blocks = Height(enqueued_point) - Height(durable_point)
        /\ Height(durable_point) + Len(batch) + Len(input) <= Height(enqueued_point)
    BY ONLY <1>2, <1>3, <2>1
  <2>5. 1 .. Len(input) = {} /\ 1 .. Len(batch) = {}
    BY ONLY <2>1
  <2> QED
    BY ONLY <2>2, <2>3, <2>4, <2>5, Zenon DEF PipeInv
<1>5. CtlInv
  BY Zenon DEF Init, CtlInv, Running, Holding
<1>6. DiskInv
  BY <1>2 DEF DiskInv, ValidWalSize
<1>7. EndInv /\ CreateInv
  BY <1>2, Zenon DEF EndInv, CreateInv, Running
<1> QED
  BY <1>1, <1>4, <1>5, <1>6, <1>7, Zenon DEF IndInv

\* Every reachable state of the store satisfies the inductive invariant: for
\* every number of serializers, every configuration, every kill, power loss and
\* failed write, the pipeline holds the pending blocks in order and every WAL
\* record on disk is one that RecoverWal accepts.
THEOREM StoreInvariant == Spec => []IndInv
<1>1. Init => IndInv
  BY InitInv, Zenon
<1>2. IndInv /\ [Next]_vars => IndInv'
  <2> SUFFICES ASSUME IndInv, [Next]_vars PROVE IndInv'
    BY Zenon
  <2> QED
    BY TypeStep, PipeStep, CtlStep, FilesStep, CreateStep, Zenon DEF IndInv
<1> QED
  BY <1>1, <1>2, PTL DEF Spec
=============================================================================
