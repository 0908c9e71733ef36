------------------------ MODULE TransactionCacheLemmas ------------------------
(***************************************************************************)
(* What the operators of TransactionCache and TransactionRelay compute,    *)
(* for every sequence of entries, requests or announcements, and what the  *)
(* steps of connections and jobs preserve.                                 *)
(***************************************************************************)
EXTENDS TransactionRelayInv, ListProofs

-----------------------------------------------------------------------------
(* The bytes of the records.                                               *)

\* A record's bytes are a number.
LEMMA BytesWeigh == Weighs(RecordBytes, Entry) /\ \A e \in Entry : RecordBytes[e] = e.bytes
<1>1. \A e \in Entry : RecordBytes[e] = e.bytes
  BY Zenon DEF RecordBytes
<1>2. \A e \in Entry : e.bytes \in Nat
  BY Zenon DEF Entry
<1> QED
  BY <1>1, <1>2, Zenon DEF Weighs

\* A sequence and its total are what they are.
LEMMA EntriesTotal ==
    ASSUME NEW es \in Seq(Entry)
    PROVE  Total(es) \in Nat /\ Len(es) \in Nat
BY BytesWeigh, WeightNat DEF Total

\* Appending an entry adds its bytes.
LEMMA TotalAppend ==
    ASSUME NEW es \in Seq(Entry), NEW e \in Entry
    PROVE  /\ Total(Append(es, e)) = Total(es) + e.bytes
           /\ Total(es) \in Nat /\ e.bytes \in Nat
BY BytesWeigh, WeightAppend DEF Total

\* Nothing weighs nothing.
LEMMA TotalEmpty ==
    ASSUME NEW es \in Seq(Entry), Len(es) = 0
    PROVE  Total(es) = 0
BY BytesWeigh, WeightNat, Zenon DEF Total

-----------------------------------------------------------------------------
(* Expiry, erasure and eviction leave a part of the entries.               *)

\* Nothing is added, nothing is repeated, and no limit is exceeded.
Part(r, s) ==
    /\ r \in Seq(Entry) /\ Len(r) <= Len(s) /\ Total(r) <= Total(s) /\ Total(r) \in Nat
    /\ Range(r) \subseteq Range(s) /\ (Distinct(s) => Distinct(r))

\* What Expire leaves, and what the eviction of the oldest leaves.
LEMMA SuffixPart ==
    ASSUME NEW s \in Seq(Entry), NEW k \in 1 .. Len(s) + 1
    PROVE  Part(SubSeq(s, k, Len(s)), s)
<1> DEFINE L == Len(s)
           r == SubSeq(s, k, L)
           M == Len(r)
<1>1. L \in Nat /\ k \in Nat /\ k >= 1 /\ k <= L + 1
  OBVIOUS
<1>2. r \in Seq(Entry) /\ M = (L - k) + 1
  BY <1>1
<1>3. \A i \in 1 .. M : r[i] = s[(k - 1) + i]
  BY <1>1, <1>2
<1> HIDE DEF r
<1>4. M \in Nat
  BY <1>2
<1>5. k - 1 \in 0 .. L /\ (k - 1) + 1 = k
  BY ONLY <1>1
<1> DEFINE p == SubSeq(s, 1, k - 1)
<1>6. p \in Seq(Entry)
  BY <1>1
<1>7. Total(s) = Total(p) + Total(r)
  BY <1>5, BytesWeigh, WeightSplit, Zenon DEF Total, r
<1> HIDE DEF p
<1>8. Total(p) \in Nat
  BY <1>6, EntriesTotal, Zenon
<1>9. Total(r) \in Nat
  BY <1>2, EntriesTotal, Zenon
<1>10. Total(r) <= Total(s)
  BY ONLY <1>7, <1>8, <1>9
<1>11. M <= L
  <2> HIDE DEF M, L
  <2> QED
    BY ONLY <1>1, <1>2
<1>12. \A i \in 1 .. M : (k - 1) + i \in 1 .. L
  <2> HIDE DEF M, L
  <2> QED
    BY ONLY <1>1, <1>2
<1>13. DOMAIN r = 1 .. M /\ DOMAIN s = 1 .. L
  BY <1>2
<1>14. Range(r) \subseteq Range(s)
  BY ONLY <1>3, <1>12, <1>13, Zenon DEF Range
<1>15. ASSUME Distinct(s)
       PROVE  Distinct(r)
  <2> SUFFICES ASSUME NEW i \in 1 .. M, NEW j \in 1 .. M, r[i].txid = r[j].txid
               PROVE  i = j
    BY Zenon DEF Distinct
  <2>1. (k - 1) + i = (k - 1) + j
    BY ONLY <1>3, <1>12, <1>15, r[i].txid = r[j].txid, i \in 1 .. M, j \in 1 .. M, Zenon DEF Distinct
  <2> QED
    BY ONLY <2>1, <1>1, i \in 1 .. M, j \in 1 .. M
<1> QED
  BY ONLY <1>2, <1>9, <1>10, <1>11, <1>14, <1>15, Zenon DEF Part, r

\* What an erasure leaves.
LEMMA KeptPart ==
    ASSUME NEW s \in Seq(Entry), NEW S
    PROVE  Part(Kept(s, S), s) /\ Range(Kept(s, S)) \subseteq S
<1> DEFINE L == Len(s)
           r == Kept(s, S)
           q == Kept(s, Range(s) \ S)
           M == Len(r)
<1>1. r \in Seq(Entry) /\ M <= L
  BY KeptEmbeds, Zenon
<1>2. PICK f : Embeds(f, r, s, L, S)
  BY KeptEmbeds, Zenon
<1>3. q \in Seq(Entry)
  BY KeptEmbeds, Zenon
<1>4. Total(s) = Total(r) + Total(q)
  <2>1. \A x \in Range(s) : x \in Range(s) \ S <=> x \notin S
    BY Zenon
  <2> QED
    BY <2>1, BytesWeigh, KeptWeight, Zenon DEF Total
<1> HIDE DEF q, r
<1>13. Total(r) \in Nat /\ Total(q) \in Nat
  BY <1>1, <1>3, EntriesTotal, Zenon
<1>12. Total(r) <= Total(s)
  BY ONLY <1>4, <1>13
<1> HIDE DEF L, M
<1>14. /\ f \in [1 .. M -> 1 .. L]
       /\ \A i \in 1 .. M : r[i] = s[f[i]] /\ s[f[i]] \in S
       /\ \A i, k \in 1 .. M : f[i] = f[k] => i = k
  BY <1>2, Zenon DEF Embeds, M
<1>15. DOMAIN r = 1 .. M /\ DOMAIN s = 1 .. L
  BY <1>1 DEF M, L
<1>16. \A i \in 1 .. M : f[i] \in 1 .. L
  BY ONLY <1>14, Zenon
<1>17. Range(r) \subseteq Range(s) /\ Range(r) \subseteq S
  BY ONLY <1>14, <1>15, <1>16 DEF Range
<1>18. ASSUME Distinct(s)
       PROVE  Distinct(r)
  <2> SUFFICES ASSUME NEW i \in 1 .. M, NEW j \in 1 .. M, r[i].txid = r[j].txid
               PROVE  i = j
    BY Zenon DEF Distinct, M
  <2>1. s[f[i]].txid = s[f[j]].txid /\ f[i] \in 1 .. L /\ f[j] \in 1 .. L
    BY ONLY <1>14, <1>16, r[i].txid = r[j].txid, i \in 1 .. M, j \in 1 .. M, Zenon
  <2>2. f[i] = f[j]
    BY ONLY <1>18, <2>1, Zenon DEF Distinct, L
  <2> QED
    BY ONLY <1>14, <2>2, i \in 1 .. M, j \in 1 .. M, Zenon
<1> QED
  BY ONLY <1>1, <1>12, <1>13, <1>17, <1>18, Zenon DEF Part, r, L, M

\* A part of a part is a part.
LEMMA PartOfPart ==
    ASSUME NEW a, NEW b, NEW c \in Seq(Entry), Part(a, b), Part(b, c)
    PROVE  Part(a, c)
<1>1. a \in Seq(Entry) /\ b \in Seq(Entry)
  BY Zenon DEF Part
<1>2. Len(a) \in Nat /\ Len(b) \in Nat /\ Len(c) \in Nat
  BY <1>1
<1>3. Total(a) \in Nat /\ Total(b) \in Nat /\ Total(c) \in Nat
  BY <1>1, EntriesTotal, Zenon
<1>4. /\ Len(a) <= Len(b) /\ Len(b) <= Len(c) /\ Total(a) <= Total(b) /\ Total(b) <= Total(c)
      /\ Range(a) \subseteq Range(b) /\ Range(b) \subseteq Range(c)
      /\ (Distinct(b) => Distinct(a)) /\ (Distinct(c) => Distinct(b))
  BY Zenon DEF Part
<1>5. Len(a) <= Len(c)
  BY ONLY <1>2, <1>4
<1>6. Total(a) <= Total(c)
  BY ONLY <1>3, <1>4
<1> QED
  BY ONLY <1>1, <1>3, <1>4, <1>5, <1>6, Zenon DEF Part

\* A store whose running count is the sum over its entries.
Exact(c) == c.entries \in Seq(Entry) /\ c.bytes = Total(c.entries)

\* c is what erasures have left of s, and its count is exact again.
Shrunk(c, s) == Exact(c) /\ Part(c.entries, s)

\* What is taken off the sum of two parts leaves the other part.
LEMMA TakenOff ==
    ASSUME NEW b, NEW x \in Nat, NEW y \in Nat, b = x + y
    PROVE  b - x = y
OBVIOUS

\* Expire and the eviction loop erase a prefix and take its bytes off.
LEMMA OldestErased ==
    ASSUME NEW c, Exact(c), NEW k \in 0 .. Len(c.entries)
    PROVE  Shrunk(EraseOldest(c, k), c.entries)
<1> DEFINE s == c.entries
           p == SubSeq(s, 1, k)
           r == SubSeq(s, k + 1, Len(s))
           g == EraseOldest(c, k)
<1>1. s \in Seq(Entry) /\ c.bytes = Total(s)
  BY Zenon DEF Exact
<1>2. k + 1 \in 1 .. Len(s) + 1
  BY <1>1
<1>3. Part(r, s)
  BY <1>1, <1>2, SuffixPart, Zenon
<1>4. p \in Seq(Entry)
  BY <1>1
<1>5. Total(s) = Total(p) + Total(r)
  BY <1>1, BytesWeigh, WeightSplit, Zenon DEF Total
<1>6. g.entries = r /\ g.bytes = c.bytes - Total(p)
  BY Zenon DEF EraseOldest
<1> HIDE DEF s, p, r, g
<1>7. r \in Seq(Entry) /\ Total(r) \in Nat /\ Total(p) \in Nat
  BY <1>3, <1>4, EntriesTotal, Zenon DEF Part
<1>8. c.bytes - Total(p) = Total(r)
  BY <1>1, <1>5, <1>7, TakenOff, Zenon
<1> QED
  BY <1>3, <1>6, <1>7, <1>8, Zenon DEF Shrunk, Exact, s, g

\* Erase takes the bytes of what it erases off.
LEMMA TxidsErased ==
    ASSUME NEW c, Exact(c), NEW txids
    PROVE  /\ Shrunk(Erase(c, txids), c.entries)
           /\ \A e \in Range(Erase(c, txids).entries) : e.txid \notin txids
<1> DEFINE s == c.entries
           S == {e \in Range(s) : e.txid \notin txids}
           G == {e \in Range(s) : e.txid \in txids}
           r == Kept(s, S)
           q == Kept(s, G)
           g == Erase(c, txids)
<1>1. s \in Seq(Entry) /\ c.bytes = Total(s)
  BY Zenon DEF Exact
<1>2. Part(r, s) /\ Range(r) \subseteq S
  BY <1>1, KeptPart, Zenon
<1>3. q \in Seq(Entry)
  BY <1>1, KeptEmbeds, Zenon
<1>4. Total(s) = Total(q) + Total(r)
  <2>1. \A x \in Range(s) : x \in S <=> x \notin G
    BY Zenon
  <2> HIDE DEF S, G
  <2> QED
    BY <1>1, <2>1, BytesWeigh, KeptWeight, Zenon DEF Total
<1>5. g.entries = r /\ g.bytes = c.bytes - Total(q)
  BY Zenon DEF Erase
<1>6. \A e \in S : e.txid \notin txids
  BY Zenon
<1> HIDE DEF s, S, r, q, g
<1>7. r \in Seq(Entry) /\ Total(r) \in Nat /\ Total(q) \in Nat
  BY <1>2, <1>3, EntriesTotal, Zenon DEF Part
<1>8. c.bytes - Total(q) = Total(r)
  BY <1>1, <1>4, <1>7, TakenOff, Zenon
<1>9. Shrunk(g, s)
  BY <1>2, <1>5, <1>7, <1>8, Zenon DEF Shrunk, Exact
<1> QED
  BY <1>2, <1>5, <1>6, <1>9, Zenon DEF s, g

\* Erasures one after the other.
LEMMA ShrunkTwice ==
    ASSUME NEW c, NEW d, NEW s \in Seq(Entry), Shrunk(c, d.entries), Shrunk(d, s)
    PROVE  Shrunk(c, s)
BY PartOfPart, Zenon DEF Shrunk, Exact

\* Publish evicts the oldest entries until the new one fits.
LEMMA EvictedFits ==
    ASSUME NEW c, Exact(c), NEW n \in Nat
    PROVE  Shrunk(Evicted(c, n), c.entries) /\ (n <= MaxBytes => Fits(Evicted(c, n), n))
<1> DEFINE es == c.entries
           L == Len(es)
           F(k) == Fits(EraseOldest(c, k), n)
           Q(k) == (F(k) \/ k = Len(es)) /\ \A j \in 0 .. (k - 1) : ~ F(j)
<1>0. L \in Nat
  BY DEF Exact
<1>1. \E k \in 0 .. Len(es) : Q(k)
  <2> SUFFICES ASSUME \A k \in 0 .. L : ~ Q(k) PROVE FALSE
    BY Zenon
  <2> DEFINE G == {k \in 0 .. L : \A j \in 0 .. (k - 1) : ~ F(j)}
  <2>1. 0 \in G
    BY <1>0
  <2>2. ASSUME NEW k \in 1 .. L, k - 1 \in G
        PROVE  k \in G
    <3> HIDE DEF F
    <3>1. k - 1 \in 0 .. L /\ k \in 0 .. L
      BY <1>0
    <3>2. ~ F(k - 1)
      BY <2>2, <3>1, Zenon
    <3>3. \A j \in 0 .. (k - 1) : j = k - 1 \/ j \in 0 .. ((k - 1) - 1)
      BY <1>0
    <3> QED
      BY <2>2, <3>1, <3>2, <3>3, Zenon
  <2> HIDE DEF F
  <2>3. \A k \in 0 .. L : k \in G
    <3> HIDE DEF G, L
    <3> QED
      BY <1>0, <2>1, <2>2, UpTo, Zenon
  <2>4. L \in 0 .. L
    BY <1>0
  <2> QED
    BY <2>3, <2>4, Zenon
<1> DEFINE k == CHOOSE k \in 0 .. Len(es) : Q(k)
<1>2. k \in 0 .. Len(es) /\ Q(k)
  BY <1>1, Zenon
<1>3. Evicted(c, n) = EraseOldest(c, k)
  BY Zenon DEF Evicted
<1> HIDE DEF k
<1>5. Shrunk(Evicted(c, n), c.entries)
  BY <1>2, <1>3, OldestErased, Zenon
<1>6. ASSUME n <= MaxBytes, ~ F(k)
      PROVE  Fits(Evicted(c, n), n)
  <2> DEFINE v == Evicted(c, n)
             r == v.entries
  <2>1. k = Len(es)
    BY <1>2, <1>6, Zenon
  <2>2. Len(SubSeq(es, k + 1, Len(es))) = 0
    BY <1>0, <2>1 DEF Exact
  <2>3. r = SubSeq(es, k + 1, Len(es)) /\ r \in Seq(Entry) /\ v.bytes = Total(r)
    <3>1. EraseOldest(c, k).entries = SubSeq(es, k + 1, Len(es))
      BY Zenon DEF EraseOldest
    <3>2. Exact(v)
      BY <1>5, Zenon DEF Shrunk
    <3> QED
      BY <1>3, <3>1, <3>2, Zenon DEF Exact
  <2> HIDE DEF v, es, L
  <2>4. Len(r) = 0 /\ v.bytes = 0
    BY <2>2, <2>3, TotalEmpty, Zenon
  <2> HIDE DEF r
  <2>5. Len(r) < MaxEntries /\ n + v.bytes <= MaxBytes
    BY ONLY <1>6, <2>4, n \in Nat, CacheConfig
  <2> QED
    BY <2>5, Zenon DEF Fits, v, r
<1> QED
  BY <1>3, <1>5, <1>6, Zenon

\* The entry Publish makes.
NewEntry(pt, t, d) ==
    [txid |-> t, point |-> pt, bytes |-> EntryBytes[t], identity |-> Identity(epoch, d)]

\* Publish replaces the transaction's entry and stays within the limits.
LEMMA PublishedFits ==
    ASSUME NEW c, Exact(c), Distinct(c.entries), NEW pt \in Tip, NEW t \in Txid, NEW d \in Digest,
           epoch \in Nat, EntryBytes[t] <= MaxBytes
    PROVE  LET g == Published(c, pt, t, d)
               P == g.entries
           IN  /\ Exact(g) /\ Len(P) <= MaxEntries /\ g.bytes <= MaxBytes /\ Distinct(P)
               /\ Range(P) \subseteq Range(c.entries) \cup {NewEntry(pt, t, d)}
<1> DEFINE es == c.entries
           a == Erase(c, {t})
           w == a.entries
           n == EntryBytes[t]
           b == Evicted(a, n)
           v == b.entries
           e == NewEntry(pt, t, d)
           P == Append(v, e)
           g == Published(c, pt, t, d)
<1>0. n \in Nat /\ MaxBytes \in Nat /\ MaxEntries \in Nat
  BY CacheConfig, Zenon
<1>1. e \in Entry /\ e.bytes = n /\ e.txid = t
  BY <1>0, Zenon DEF NewEntry, Entry, Id, Identity
<1>2. Shrunk(a, es) /\ \A x \in Range(w) : x.txid \notin {t}
  BY TxidsErased, Zenon
<1>17. g.entries = P /\ g.bytes = b.bytes + n
  BY Zenon DEF Published, NewEntry
<1> HIDE DEF a, e, n, g
<1>3. Exact(a) /\ w \in Seq(Entry) /\ Range(w) \subseteq Range(es) /\ Distinct(w)
  BY <1>2, Zenon DEF Shrunk, Exact, Part
<1>4. Shrunk(b, w) /\ Part(v, w) /\ Fits(b, n) /\ b.bytes = Total(v)
  BY <1>0, <1>3, EvictedFits, Zenon DEF n, Shrunk, Exact
<1> HIDE DEF b, es
<1>5. v \in Seq(Entry) /\ Range(v) \subseteq Range(w) /\ Distinct(v)
  BY <1>3, <1>4, Zenon DEF Part
<1>6. Len(v) \in Nat /\ Len(v) < MaxEntries /\ n + Total(v) <= MaxBytes
  <2>1. Len(v) \in Nat
    BY <1>5
  <2> QED
    BY <1>4, <2>1, Zenon DEF Fits
<1> HIDE DEF v
<1>7. /\ P \in Seq(Entry) /\ Len(P) = Len(v) + 1 /\ DOMAIN P = 1 .. Len(v) + 1
      /\ P[Len(v) + 1] = e /\ \A i \in 1 .. Len(v) : P[i] = v[i]
  BY <1>1, <1>5
<1>8. Total(P) = Total(v) + n /\ Total(v) \in Nat
  BY <1>1, <1>5, TotalAppend, Zenon
<1>9. DOMAIN v = 1 .. Len(v)
  BY <1>5
<1> HIDE DEF P
<1> DEFINE L == Len(v)
<1>10. L \in Nat /\ Len(P) = L + 1
  BY <1>6, <1>7, Zenon
<1>11. Len(P) <= MaxEntries /\ Total(P) <= MaxBytes
  <2>1. Len(P) <= MaxEntries
    BY <1>0, <1>6, <1>10
  <2>2. Total(P) <= MaxBytes
    BY ONLY <1>0, <1>6, <1>8
  <2> QED
    BY <2>1, <2>2, Zenon
<1>12. \A i \in 1 .. L : P[i] = v[i] /\ v[i].txid # t
  <2>1. \A i \in 1 .. L : v[i] \in Range(w)
    BY <1>5, <1>9, Zenon DEF Range
  <2>2. \A x \in Range(w) : x.txid # t
    BY <1>2, Zenon
  <2> QED
    BY <1>7, <2>1, <2>2, Zenon
<1>13. P[L + 1] = e
  BY <1>7, Zenon
<1> HIDE DEF L
<1>14. \A i \in 1 .. L + 1 : i = L + 1 \/ i \in 1 .. L
  BY ONLY <1>10
<1>15. Distinct(P)
  <2>1. \A i, k \in 1 .. L : v[i].txid = v[k].txid => i = k
    BY <1>5, Zenon DEF Distinct, L
  <2> SUFFICES ASSUME NEW i \in 1 .. L + 1, NEW k \in 1 .. L + 1, P[i].txid = P[k].txid
               PROVE  i = k
    BY <1>10, Zenon DEF Distinct
  <2> QED
    BY ONLY <1>1, <1>12, <1>13, <1>14, <2>1, P[i].txid = P[k].txid, i \in 1 .. L + 1, k \in 1 .. L + 1, Zenon
<1>16. Range(P) \subseteq Range(es) \cup {e}
  <2>1. \A i \in 1 .. L : v[i] \in Range(es)
    BY <1>3, <1>5, <1>9, Zenon DEF Range, L
  <2>2. \A x \in Range(P) : \E i \in 1 .. L + 1 : x = P[i]
    BY <1>7, Zenon DEF Range, L
  <2> SUFFICES ASSUME NEW x \in Range(P) PROVE x \in Range(es) \cup {e}
    BY Zenon
  <2>3. PICK i \in 1 .. L + 1 : x = P[i]
    BY <2>2, Zenon
  <2>4. CASE i = L + 1
    BY <1>13, <2>3, <2>4, Zenon
  <2>5. CASE i \in 1 .. L
    BY ONLY <1>12, <2>1, <2>3, <2>5, Zenon
  <2> QED
    BY <1>14, <2>4, <2>5, Zenon
<1>18. Exact(g) /\ g.bytes <= MaxBytes
  BY <1>4, <1>7, <1>8, <1>11, <1>17, Zenon DEF Exact
<1> QED
  BY <1>11, <1>15, <1>16, <1>17, <1>18, Zenon DEF e, g, es

-----------------------------------------------------------------------------
(* AnnouncedAll: what a connection remembers of what it was offered.       *)

\* b is a after announcements: only the history has changed, and if it knew
\* all that was told, then it still does or is known to be truncated.
Informs(a, b) ==
    /\ b \in PeerState
    /\ b.pc = a.pc /\ b.txid = a.txid /\ b.entry = a.entry /\ b.job = a.job
    /\ b.tx_epoch = a.tx_epoch
    /\ (~ a.truncated => \A t \in a.told : a.announced[t] # NONE) =>
         (~ b.truncated => \A t \in b.told : b.announced[t] # NONE)

\* One announcement.
LEMMA AnnouncedInforms ==
    ASSUME NEW s \in PeerState, NEW e \in Entry
    PROVE  Informs(s, Announced(s, e))
<1> DEFINE known == {t \in Txid : s.announced[t] # NONE}
           full == e.txid \notin known /\ Cardinality(known) >= MaxEntries
           dropped == IF full THEN {CHOOSE t \in known : TRUE} ELSE {}
           ann == [t \in Txid |-> IF t = e.txid THEN e.identity
                                  ELSE IF t \in dropped THEN NONE ELSE s.announced[t]]
           b == [s EXCEPT !.announced = ann, !.truncated = s.truncated \/ full,
                          !.told = s.told \cup {e.txid}]
<1>1. Announced(s, e) = b
  BY Zenon DEF Announced, PeerState
<1>2. /\ s.announced \in [Txid -> Id \cup {NONE}] /\ s.truncated \in BOOLEAN
      /\ s.told \in SUBSET Txid
  BY Zenon DEF PeerState
<1>3. e.txid \in Txid /\ e.identity \in Id /\ e.identity # NONE
  BY NoneIsNoValue, Zenon DEF Entry
<1>4. full \in BOOLEAN
  BY Zenon
<1>5. ~ full => dropped = {}
  BY Zenon
<1> HIDE DEF full, dropped
<1>6. ann \in [Txid -> Id \cup {NONE}]
  BY <1>2, <1>3, Zenon
<1>7. \A t \in Txid : ann[t] = IF t = e.txid THEN e.identity
                               ELSE IF t \in dropped THEN NONE ELSE s.announced[t]
  BY Zenon
<1> HIDE DEF ann
<1>8. /\ b \in PeerState /\ b.pc = s.pc /\ b.txid = s.txid /\ b.entry = s.entry /\ b.job = s.job
      /\ b.tx_epoch = s.tx_epoch /\ b.announced = ann /\ b.truncated = (s.truncated \/ full)
      /\ b.told = s.told \cup {e.txid}
  BY <1>2, <1>3, <1>4, <1>6, Zenon DEF PeerState
<1>9. ASSUME ~ s.truncated => \A t \in s.told : s.announced[t] # NONE,
             ~ b.truncated, NEW t \in b.told
      PROVE  b.announced[t] # NONE
  <2>1. dropped = {} /\ ~ s.truncated
    BY <1>5, <1>8, <1>9, Zenon
  <2>2. t \in Txid
    BY <1>2, <1>3, <1>8, Zenon
  <2>3. ann[t] = IF t = e.txid THEN e.identity ELSE s.announced[t]
    BY ONLY <1>7, <2>1, <2>2, Zenon
  <2> QED
    BY ONLY <1>3, <1>8, <1>9, <2>1, <2>3, Zenon
<1> QED
  BY <1>1, <1>8, <1>9, Zenon DEF Informs

\* The function AnnouncedAll is defined by.
AfterOf(s, es) ==
    CHOOSE f : f = [n \in 0 .. Len(es) |-> IF n = 0 THEN s ELSE Announced(f[n - 1], es[n])]

\* A batch of announcements.
LEMMA AnnouncedAllInforms ==
    ASSUME NEW s \in PeerState, NEW es \in Seq(Entry)
    PROVE  Informs(s, AnnouncedAll(s, es))
<1> DEFINE L == Len(es)
           g == [ix \in (1 .. L) \X PeerState |-> Announced(ix[2], es[ix[1]])]
           H(f) == f = [n \in 0 .. L |-> IF n = 0 THEN s ELSE Announced(f[n - 1], es[n])]
<1>0. L \in Nat /\ \A n \in 1 .. L : es[n] \in Entry
  OBVIOUS
<1>1. PICK f : Computes(f, L, s, g)
  <2> HIDE DEF g, L
  <2> QED
    BY <1>0, RecursionExists, Zenon
<1>2. /\ \A n \in 0 .. L : f[n] = IF n = 0 THEN s ELSE g[<<n, f[n - 1]>>]
      /\ f = [n \in 0 .. L |-> f[n]]
  <2> HIDE DEF g, L
  <2> QED
    BY <1>1, Zenon DEF Computes
<1>3. ASSUME NEW n \in 1 .. L, f[n - 1] \in PeerState
      PROVE  f[n] = Announced(f[n - 1], es[n]) /\ f[n] \in PeerState
  <2>1. n \in 0 .. L /\ n # 0
    BY <1>0
  <2>2. f[n] = g[<<n, f[n - 1]>>]
    BY ONLY <1>2, <2>1, Zenon
  <2>3. <<n, f[n - 1]>> \in (1 .. L) \X PeerState
    BY <1>3, Zenon
  <2>4. g[<<n, f[n - 1]>>] = Announced(f[n - 1], es[n])
    BY ONLY <2>3, Zenon
  <2>5. Informs(f[n - 1], Announced(f[n - 1], es[n]))
    BY <1>0, <1>3, AnnouncedInforms, Zenon
  <2> QED
    BY <2>2, <2>4, <2>5, Zenon DEF Informs
<1> HIDE DEF L, g
<1>4. \A n \in 0 .. L : f[n] \in PeerState
  <2> DEFINE G == {n \in 0 .. L : f[n] \in PeerState}
  <2>1. 0 \in 0 .. L
    BY <1>0
  <2>2. 0 \in G
    BY <1>2, <2>1, Zenon
  <2>3. ASSUME NEW n \in 1 .. L, n - 1 \in G
        PROVE  n \in G
    <3>1. n \in 0 .. L
      BY <1>0
    <3> QED
      BY ONLY <1>3, <2>3, <3>1, Zenon
  <2>4. \A n \in 0 .. L : n \in G
    <3> HIDE DEF G
    <3> QED
      BY <1>0, <2>2, <2>3, UpTo, Zenon
  <2> QED
    BY <2>4, Zenon
<1>5. ASSUME NEW n \in 0 .. L
      PROVE  f[n] = IF n = 0 THEN s ELSE Announced(f[n - 1], es[n])
  <2>1. CASE n = 0
    BY <1>2, <2>1, Zenon
  <2>2. CASE n # 0
    <3>1. n \in 1 .. L /\ n - 1 \in 0 .. L
      BY <1>0, <2>2
    <3>2. f[n - 1] \in PeerState
      BY <1>4, <3>1, Zenon
    <3> QED
      BY ONLY <1>3, <2>2, <3>1, <3>2, Zenon
  <2> QED
    BY <2>1, <2>2, Zenon
<1>6. H(f)
  BY ONLY <1>2, <1>5, Zenon
<1> DEFINE F == AfterOf(s, es)
<1>7. H(F)
  BY <1>6, Zenon DEF AfterOf, L
<1>8. AnnouncedAll(s, es) = F[L]
  BY Zenon DEF AnnouncedAll, AfterOf, L
<1> HIDE DEF F
<1>9. \A n \in 0 .. L : Informs(s, F[n])
  <2> DEFINE G == {n \in 0 .. L : Informs(s, F[n])}
  <2>1. 0 \in 0 .. L
    BY <1>0
  <2>2. F[0] = s
    BY ONLY <1>7, <2>1, Zenon
  <2>3. 0 \in G
    <3>1. Informs(s, s)
      BY Zenon DEF Informs
    <3> QED
      BY <2>1, <2>2, <3>1, Zenon
  <2>4. ASSUME NEW n \in 1 .. L, n - 1 \in G
        PROVE  n \in G
    <3>1. n \in 0 .. L /\ n # 0
      BY <1>0
    <3>2. F[n] = Announced(F[n - 1], es[n])
      BY ONLY <1>7, <3>1, Zenon
    <3>3. Informs(s, F[n - 1])
      BY <2>4, Zenon
    <3>4. F[n - 1] \in PeerState /\ es[n] \in Entry
      BY <1>0, <3>3, Zenon DEF Informs
    <3>5. Informs(F[n - 1], F[n])
      BY <3>2, <3>4, AnnouncedInforms, Zenon
    <3>6. Informs(s, F[n])
      BY ONLY <3>3, <3>5, Zenon DEF Informs
    <3> QED
      BY ONLY <3>1, <3>6, Zenon
  <2>5. \A n \in 0 .. L : n \in G
    <3> HIDE DEF G
    <3> QED
      BY <1>0, <2>3, <2>4, UpTo, Zenon
  <2> QED
    BY <2>5, Zenon
<1>10. L \in 0 .. L
  BY <1>0
<1> QED
  BY <1>8, <1>9, <1>10, Zenon

-----------------------------------------------------------------------------
(* The job objects.                                                        *)

\* There are as many job objects as connections and places in the map.
LEMMA JobFacts ==
    /\ Cardinality(Peer) \in Nat /\ MaxRegenerations \in Nat \ {0}
    /\ IsFiniteSet(Job) /\ Cardinality(Job) = Cardinality(Peer) + MaxRegenerations
    /\ Job \subseteq Nat /\ 0 \notin Job
<1> DEFINE N == Cardinality(Waiter)
           M == MaxRegenerations
<1>1. N \in Nat /\ M \in Nat \ {0}
  BY CacheConfig, FS_CardinalityType, Zenon
<1>2. Job = 1 .. (N + M)
  BY Zenon DEF Job
<1> HIDE DEF N, M
<1>3. 1 \in Int /\ N + M \in Int /\ ~(1 > N + M) /\ ((N + M) - 1) + 1 = N + M
  BY <1>1
<1>4. IsFiniteSet(1 .. (N + M)) /\ Cardinality(1 .. (N + M)) = ((N + M) - 1) + 1
  BY <1>3, FS_Interval, Zenon
<1>5. 1 .. (N + M) \subseteq Nat /\ 0 \notin 1 .. (N + M)
  BY <1>1
<1> QED
  BY <1>1, <1>2, <1>3, <1>4, <1>5, Zenon DEF N, M, Peer

\* A nonempty set of jobs has a first one.
LEMMA MinJob ==
    ASSUME NEW S, S \subseteq Job, S # {}
    PROVE  Min(S) \in S
<1> DEFINE N == Cardinality(Waiter) + MaxRegenerations
<1>1. N \in Nat
  BY JobFacts DEF Peer
<1>2. S \subseteq 1 .. N
  BY Zenon DEF Job
<1> HIDE DEF N
<1>3. \E x \in S : \A y \in S : x <= y
  <2> SUFFICES ASSUME \A x \in S : \E y \in S : ~(x <= y) PROVE FALSE
    BY Zenon
  <2> DEFINE G == {k \in 0 .. N : \A j \in S : k < j}
  <2>1. 0 \in G
    BY <1>1, <1>2
  <2>2. ASSUME NEW k \in 1 .. N, k - 1 \in G
        PROVE  k \in G
    <3>1. \A j \in S : k - 1 < j
      BY <2>2, Zenon
    <3>2. \A j \in S : k <= j
      BY ONLY <1>1, <1>2, <3>1, k \in 1 .. N
    <3>3. k \notin S
      BY <3>2, Zenon
    <3>4. \A j \in S : k < j
      BY ONLY <1>1, <1>2, <3>2, <3>3, k \in 1 .. N
    <3>5. k \in 0 .. N
      BY <1>1
    <3> QED
      BY <3>4, <3>5, Zenon
  <2>3. \A k \in 0 .. N : k \in G
    <3> HIDE DEF G
    <3> QED
      BY <1>1, <2>1, <2>2, UpTo, Zenon
  <2>4. N \in 0 .. N
    BY <1>1
  <2>5. \A j \in S : N < j
    BY <2>3, <2>4, Zenon
  <2>6. PICK j \in S : TRUE
    BY Zenon
  <2>7. N < j /\ j \in 1 .. N
    BY ONLY <1>2, <2>5, j \in S, Zenon
  <2> QED
    BY ONLY <1>1, <2>7
<1> QED
  BY <1>3, Zenon DEF Min

\* While somebody is not waiting and the map has room, WaitFor finds a job
\* object that nobody refers to.
LEMMA FreeJob ==
    ASSUME WorkType, peer \in [Peer -> PeerState], NEW p \in Peer, peer[p].job = 0,
           \A j \in Job : jobs[j].waiters = Cardinality({q \in Peer : peer[q].job = j}),
           \A j \in Job : jobs[j] = FREE \/ jobs[j].waiters > 0 \/ j \in Range(regeneration),
           Cardinality(DOMAIN regeneration) < MaxRegenerations
    PROVE  Min({j \in Job : jobs[j] = FREE}) \in {j \in Job : jobs[j] = FREE}
<1> DEFINE S == {j \in Job : jobs[j] = FREE}
<1> SUFFICES S # {}
  BY MinJob, Zenon
<1> SUFFICES ASSUME S = {} PROVE FALSE
  BY Zenon
<1> DEFINE P == Peer \ {p}
           f == [q \in P |-> peer[q].job]
           D == DOMAIN regeneration
           R == Range(regeneration)
           F == Range(f)
<1>1. IsFiniteSet(P) /\ Cardinality(P) = Cardinality(Peer) - 1
  BY CacheConfig, FS_RemoveElement, Zenon DEF Peer
<1>2. DOMAIN f = P /\ f = [q \in DOMAIN f |-> f[q]]
  BY Zenon
<1>3. IsFiniteSet(D) /\ regeneration = [r \in D |-> regeneration[r]]
  BY Zenon DEF WorkType
<1>4. IsFiniteSet(R) /\ Cardinality(R) \in Nat /\ Cardinality(R) <= Cardinality(D)
  BY <1>3, RangeBound, Zenon
<1>5. IsFiniteSet(F) /\ Cardinality(F) \in Nat /\ Cardinality(F) <= Cardinality(P)
  <2> HIDE DEF f, P
  <2> QED
    BY <1>1, <1>2, RangeBound, Zenon
<1>6. ASSUME NEW j \in Job
      PROVE  j \in R \cup F
  <2>1. jobs[j].waiters > 0 \/ j \in R
    BY <1>6, Zenon
  <2>2. CASE jobs[j].waiters > 0
    <3> DEFINE Q == {q \in Peer : peer[q].job = j}
    <3>1. Cardinality(Q) > 0
      BY <2>2, Zenon
    <3>2. Q # {}
      <4>1. Cardinality({}) = 0
        BY FS_EmptySet, Zenon
      <4> QED
        BY <3>1, <4>1, SMTT(30)
    <3>3. PICK q \in Peer : peer[q].job = j
      BY <3>2, Zenon
    <3>4. q # p
      BY <3>3, JobFacts, Zenon
    <3> QED
      BY <3>3, <3>4, Zenon DEF Range
  <2> QED
    BY <2>1, <2>2, Zenon
<1> HIDE DEF R, F, D, P
<1>7. /\ IsFiniteSet(R \cup F)
      /\ Cardinality(R \cup F) = Cardinality(R) + Cardinality(F) - Cardinality(R \cap F)
  BY <1>4, <1>5, FS_Union, Zenon
<1>8. Cardinality(R \cap F) \in Nat
  BY <1>4, FS_Intersection, FS_CardinalityType, Zenon
<1>9. Cardinality(Job) <= Cardinality(R \cup F)
  BY <1>6, <1>7, FS_Subset, Zenon
<1>10. Cardinality(D) \in Nat /\ Cardinality(D) < MaxRegenerations
  BY <1>3, FS_CardinalityType, Zenon DEF D
<1> DEFINE cj == Cardinality(Job)
           cr == Cardinality(R)
           cf == Cardinality(F)
           ci == Cardinality(R \cap F)
           cu == Cardinality(R \cup F)
           cd == Cardinality(D)
           cp == Cardinality(P)
           cw == Cardinality(Peer)
<1>11. /\ cj = cw + MaxRegenerations /\ cw \in Nat /\ MaxRegenerations \in Nat /\ cp = cw - 1
       /\ cr <= cd /\ cf <= cp /\ cu = cr + cf - ci /\ cj <= cu /\ cd < MaxRegenerations
       /\ cr \in Nat /\ cf \in Nat /\ ci \in Nat /\ cd \in Nat
  BY <1>1, <1>4, <1>5, <1>7, <1>8, <1>9, <1>10, JobFacts, Zenon
<1> HIDE DEF cj, cr, cf, ci, cu, cd, cp, cw
<1> QED
  BY ONLY <1>11

-----------------------------------------------------------------------------
(* Lookups.                                                                *)

\* Expire leaves a part of the entries.
LEMMA UnexpiredPart ==
    ASSUME entries \in Seq(Entry), NEW c \in Unexpired
    PROVE  /\ Part(c.entries, entries) /\ c.entries \in Seq(Entry)
           /\ Range(c.entries) \subseteq Range(entries)
<1>1. PICK k \in 0 .. Len(entries) : c = EraseOldest([entries |-> entries, bytes |-> bytes], k)
  BY Zenon DEF Unexpired
<1>2. c.entries = SubSeq(entries, k + 1, Len(entries))
  BY <1>1, Zenon DEF EraseOldest
<1>3. k + 1 \in 1 .. Len(entries) + 1
  OBVIOUS
<1>4. Part(c.entries, entries)
  BY <1>2, <1>3, SuffixPart, Zenon
<1> QED
  BY <1>4, Zenon DEF Part

\* If the running count was exact, Expire keeps it so.
LEMMA UnexpiredShrunk ==
    ASSUME entries \in Seq(Entry), bytes = Total(entries), NEW c \in Unexpired
    PROVE  Shrunk(c, entries)
<1> DEFINE s == [entries |-> entries, bytes |-> bytes]
<1>1. PICK k \in 0 .. Len(entries) : c = EraseOldest(s, k)
  BY Zenon DEF Unexpired
<1>2. s.entries = entries /\ Exact(s)
  BY Zenon DEF Exact
<1> HIDE DEF s
<1>3. k \in 0 .. Len(s.entries)
  BY <1>2, Zenon
<1>4. Shrunk(EraseOldest(s, k), s.entries)
  BY <1>2, <1>3, OldestErased, Zenon
<1> QED
  BY <1>1, <1>2, <1>4, Zenon

\* Match returns an entry of the requested transaction and identity.
LEMMA MatchFacts ==
    ASSUME NEW es \in Seq(Entry), NEW request, Match(es, request) # NONE
    PROVE  LET e == Match(es, request) IN
           e \in Range(es) /\ e \in Entry /\ e.txid = request.txid /\ e.identity = request.identity
<1> DEFINE i == CHOOSE i \in IndexOf(es, request.txid) : TRUE
<1>1. IndexOf(es, request.txid) # {}
  BY Zenon DEF Match, Has
<1>2. Match(es, request) = EntryOf(es, request.txid) /\ EntryOf(es, request.txid).identity = request.identity
  BY Zenon DEF Match
<1>3. EntryOf(es, request.txid) = es[i]
  BY Zenon DEF EntryOf
<1>4. i \in IndexOf(es, request.txid)
  BY <1>1, Zenon
<1> HIDE DEF i
<1>5. i \in 1 .. Len(es) /\ es[i].txid = request.txid
  BY <1>4, Zenon DEF IndexOf
<1>6. es[i] \in Entry /\ es[i] \in Range(es)
  BY <1>5 DEF Range
<1> QED
  BY <1>2, <1>3, <1>5, <1>6, Zenon

-----------------------------------------------------------------------------
(* The connections.                                                        *)

AsPeer(s) == s \in PeerState /\ PeerControl(s) /\ PeerHistory(s)

\* A connection that is not there.
LEMMA OffAsPeer == AsPeer(Off)
<1>1. Off \in PeerState
  BY DEF Off, PeerState
<1>2. PeerControl(Off)
  BY Zenon DEF Off, PeerControl, Holding
<1>3. PeerHistory(Off)
  BY Zenon DEF Off, PeerHistory
<1> QED
  BY <1>1, <1>2, <1>3, Zenon DEF AsPeer

\* One connection changes.
LEMMA PeersStep ==
    ASSUME PeersInv, NEW p \in Peer, NEW s, AsPeer(s), Be(p, s)
    PROVE  /\ PeersInv' /\ peer'[p] = s
           /\ \A q \in Peer : q # p => peer'[q] = peer[q]
<1>1. peer \in [Peer -> PeerState] /\ s \in PeerState /\ peer' = [peer EXCEPT ![p] = s]
  BY Zenon DEF PeersInv, AsPeer, Be
<1>2. peer' \in [Peer -> PeerState] /\ peer'[p] = s /\ \A q \in Peer : q # p => peer'[q] = peer[q]
  BY ONLY <1>1, p \in Peer, Zenon
<1>3. \A q \in Peer : PeerControl(peer'[q]) /\ PeerHistory(peer'[q])
  BY ONLY <1>2, AsPeer(s), PeersInv, Zenon DEF PeersInv, AsPeer
<1>4. PeersInv'
  BY ONLY <1>2, <1>3, Zenon DEF PeersInv, PeerControl, PeerHistory
<1> QED
  BY <1>2, <1>4, Zenon

\* A request a connection is waiting for is the one it was announced.
LEMMA IdentifiedReq ==
    ASSUME PeersInv, NEW p \in Peer,
           peer[p].pc \in {"find", "wait", "waiting"} \cup Holding
    PROVE  /\ Identified(p) \in Req /\ Identified(p).txid = peer[p].txid
           /\ Identified(p).identity = peer[p].announced[peer[p].txid]
           /\ peer[p].txid \in Txid /\ peer[p].announced[peer[p].txid] \in Id
<1>1. peer[p] \in PeerState /\ PeerControl(peer[p])
  BY Zenon DEF PeersInv
<1>2. peer[p].announced \in [Txid -> Id \cup {NONE}]
  BY <1>1, Zenon DEF PeerState
<1>3. peer[p].txid \in Txid /\ peer[p].announced[peer[p].txid] # NONE
  BY <1>1, Zenon DEF PeerControl
<1>4. peer[p].announced[peer[p].txid] \in Id
  BY <1>2, <1>3, Zenon
<1> QED
  BY <1>3, <1>4, Zenon DEF Identified, Request, Req

\* A connection changes without joining or leaving a job, and holds no proof
\* it has not got from the cache.
Change(p, s) ==
    /\ AsPeer(s) /\ Be(p, s) /\ peer[p].job = 0 /\ s.job = 0
    /\ s.entry = NONE \/ s.entry = peer[p].entry \/ s.entry \in Range(entries)

\* What a connection is, by its fields.
LEMMA PeerFields ==
    ASSUME PeersInv, NEW p \in Peer
    PROVE  /\ peer[p] \in PeerState /\ PeerControl(peer[p]) /\ PeerHistory(peer[p])
           /\ peer[p].pc # "waiting" => peer[p].job = 0
           /\ peer[p].pc \notin Holding => peer[p].entry = NONE
<1>1. peer[p] \in PeerState /\ PeerControl(peer[p]) /\ PeerHistory(peer[p])
  BY Zenon DEF PeersInv
<1> QED
  BY <1>1, Zenon DEF PeerControl

\* Hanging up.
LEMMA HangUpChange ==
    ASSUME PeersInv, NEW p \in Peer, peer[p].pc # "waiting", HangUp(p)
    PROVE  Change(p, Off)
<1>1. peer[p].job = 0
  BY PeerFields, Zenon
<1> QED
  BY <1>1, OffAsPeer, Zenon DEF HangUp, Change, Off

\* A step that only moves on.
LEMMA StepChange ==
    ASSUME PeersInv, NEW p \in Peer, NEW step, Step(p, step),
           \/ peer[p].pc = "off" /\ step = "idle"
           \/ peer[p].pc = "find" /\ step = "wait"
           \/ peer[p].pc = "wait" /\ step = "check"
           \/ peer[p].pc = "check" /\ peer[p].entry # NONE /\ step = "work"
           \/ peer[p].pc = "work" /\ step = "send"
    PROVE  Change(p, [peer[p] EXCEPT !.pc = step])
<1> DEFINE x == peer[p]
           s == [x EXCEPT !.pc = step]
<1>1. /\ x \in PeerState /\ PeerControl(x) /\ PeerHistory(x)
      /\ x.pc # "waiting" => x.job = 0
      /\ x.pc \notin Holding => x.entry = NONE
  BY PeerFields, Zenon
<1>2. Be(p, s)
  BY Zenon DEF Step
<1> HIDE DEF x
<1>3. /\ s \in PeerState /\ s.pc = step /\ s.announced = x.announced /\ s.truncated = x.truncated
      /\ s.txid = x.txid /\ s.entry = x.entry /\ s.job = x.job /\ s.told = x.told
  BY <1>1, SMTT(30) DEF PeerState, Holding, x
<1> HIDE DEF s
<1>4. PeerControl(s)
  BY <1>1, <1>3, Zenon DEF PeerControl, Holding, x
<1>5. PeerHistory(s)
  BY <1>1, <1>3, Zenon DEF PeerHistory, x
<1>6. x.job = 0 /\ s.job = 0
  BY <1>1, <1>3, Zenon DEF x
<1> QED
  BY <1>2, <1>3, <1>4, <1>5, <1>6, SMTT(30) DEF Change, AsPeer, s, x

\* PeerConnects, PeerDrops, PeerSeesStop, PeerChecks, PeerRechecks.
LEMMA MovesChange ==
    ASSUME PeersInv, NEW p \in Peer,
           PeerConnects(p) \/ PeerDrops(p) \/ PeerSeesStop(p) \/ PeerChecks(p) \/ PeerRechecks(p)
    PROVE  \E s : Change(p, s)
<1>1. CASE PeerConnects(p)
  BY <1>1, StepChange, Zenon DEF PeerConnects
<1>2. CASE PeerDrops(p)
  BY <1>2, HangUpChange, Zenon DEF PeerDrops
<1>3. CASE PeerSeesStop(p)
  BY <1>3, HangUpChange, Zenon DEF PeerSeesStop
<1>4. CASE PeerChecks(p)
  <2>1. CASE HangUp(p)
    BY <1>4, <2>1, HangUpChange, Zenon DEF PeerChecks
  <2>2. CASE ~ HangUp(p)
    <3>1. peer[p].pc = "check" /\ peer[p].entry # NONE /\ Step(p, "work")
      BY <1>4, <2>2, Zenon DEF PeerChecks
    <3> QED
      BY <3>1, StepChange, Zenon
  <2> QED
    BY <2>1, <2>2, Zenon
<1>5. CASE PeerRechecks(p)
  <2>1. CASE HangUp(p)
    BY <1>5, <2>1, HangUpChange, Zenon DEF PeerRechecks
  <2>2. CASE ~ HangUp(p)
    <3>1. peer[p].pc = "work" /\ Step(p, "send")
      BY <1>5, <2>2, Zenon DEF PeerRechecks
    <3> QED
      BY <3>1, StepChange, Zenon
  <2> QED
    BY <2>1, <2>2, Zenon
<1> QED
  BY <1>1, <1>2, <1>3, <1>4, <1>5, Zenon

\* PeerSeesEpoch, PeerRequests, PeerSends.
LEMMA AsksChange ==
    ASSUME PeersInv, epoch \in Nat, NEW p \in Peer,
           PeerSeesEpoch(p) \/ PeerRequests(p) \/ PeerSends(p)
    PROVE  \E s : Change(p, s)
<1> DEFINE x == peer[p]
<1>1. /\ x \in PeerState /\ PeerControl(x) /\ PeerHistory(x)
      /\ x.pc # "waiting" => x.job = 0
      /\ x.pc \notin Holding => x.entry = NONE
  BY PeerFields, Zenon
<1>2. CASE PeerSeesEpoch(p)
  <2>1. CASE HangUp(p)
    BY <1>2, <2>1, HangUpChange, Zenon DEF PeerSeesEpoch
  <2>2. CASE ~ HangUp(p)
    <3> DEFINE s == [x EXCEPT !.tx_epoch = epoch, !.pc = "announce"]
    <3>1. x.pc = "idle" /\ Be(p, s)
      BY <1>2, <2>2, Zenon DEF PeerSeesEpoch
    <3> HIDE DEF x
    <3>0. x.entry = NONE /\ x.job = 0 /\ epoch \in Int
      BY <1>1, <3>1 DEF Holding
    <3>2. /\ s \in PeerState /\ s.pc = "announce" /\ s.announced = x.announced
          /\ s.truncated = x.truncated /\ s.entry = NONE /\ s.job = 0 /\ s.told = x.told
      BY ONLY <1>1, <3>0, Zenon DEF PeerState
    <3> HIDE DEF s
    <3>3. PeerControl(s) /\ PeerHistory(s)
      BY <1>1, <3>2, Zenon DEF PeerControl, PeerHistory, Holding
    <3>4. x.job = 0
      BY <1>1, <3>1, Zenon
    <3> QED
      BY <3>1, <3>2, <3>3, <3>4, Zenon DEF Change, AsPeer, x
  <2> QED
    BY <2>1, <2>2, Zenon
<1>3. CASE PeerRequests(p)
  <2>1. x.pc = "idle"
    BY <1>3, Zenon DEF PeerRequests
  <2>2. PICK t \in Txid :
          IF x.announced[t] = NONE
          THEN IF x.truncated THEN HangUp(p)
               ELSE Be(p, [x EXCEPT !.pc = "notfound", !.txid = t])
          ELSE Be(p, [x EXCEPT !.pc = "find", !.txid = t])
    BY <1>3, Zenon DEF PeerRequests
  <2>3. CASE HangUp(p)
    BY <2>1, <2>3, HangUpChange, Zenon
  <2>4. CASE x.announced[t] = NONE /\ ~ x.truncated
    <3> DEFINE s == [x EXCEPT !.pc = "notfound", !.txid = t]
    <3>1. Be(p, s)
      BY <2>2, <2>4, Zenon
    <3> HIDE DEF x
    <3>2. /\ s \in PeerState /\ s.pc = "notfound" /\ s.announced = x.announced /\ s.txid = t
          /\ s.truncated = x.truncated /\ s.entry = NONE /\ s.job = 0 /\ s.told = x.told
      BY <1>1, <2>1, Zenon DEF PeerState, Holding
    <3> HIDE DEF s
    <3>3. PeerControl(s)
      BY <3>2, Zenon DEF PeerControl, Holding
    <3>4. PeerHistory(s)
      BY <1>1, <2>4, <3>2, Zenon DEF PeerHistory
    <3>5. x.job = 0
      BY <1>1, <2>1, Zenon
    <3> QED
      BY <3>1, <3>2, <3>3, <3>4, <3>5, Zenon DEF Change, AsPeer, x
  <2>5. CASE x.announced[t] # NONE
    <3> DEFINE s == [x EXCEPT !.pc = "find", !.txid = t]
    <3>1. Be(p, s)
      BY <2>2, <2>5, Zenon
    <3> HIDE DEF x
    <3>2. /\ s \in PeerState /\ s.pc = "find" /\ s.announced = x.announced /\ s.txid = t
          /\ s.truncated = x.truncated /\ s.entry = NONE /\ s.job = 0 /\ s.told = x.told
      BY <1>1, <2>1, Zenon DEF PeerState, Holding
    <3> HIDE DEF s
    <3>3. PeerControl(s)
      BY <2>5, <3>2, Zenon DEF PeerControl, Holding
    <3>4. PeerHistory(s)
      BY <1>1, <3>2, Zenon DEF PeerHistory
    <3>5. x.job = 0
      BY <1>1, <2>1, Zenon
    <3> QED
      BY <3>1, <3>2, <3>3, <3>4, <3>5, Zenon DEF Change, AsPeer, x
  <2> QED
    BY <2>2, <2>3, <2>4, <2>5, Zenon
<1>4. CASE PeerSends(p)
  <2> DEFINE s == [x EXCEPT !.pc = "idle", !.txid = NONE, !.entry = NONE]
  <2>1. x.pc \in {"send", "notfound"} /\ Be(p, s)
    BY <1>4, Zenon DEF PeerSends
  <2> HIDE DEF x
  <2>2. /\ s \in PeerState /\ s.pc = "idle" /\ s.announced = x.announced
        /\ s.truncated = x.truncated /\ s.entry = NONE /\ s.job = 0 /\ s.told = x.told
    BY <1>1, <2>1, Zenon DEF PeerState
  <2> HIDE DEF s
  <2>3. PeerControl(s) /\ PeerHistory(s)
    BY <1>1, <2>2, Zenon DEF PeerControl, PeerHistory, Holding
  <2>4. x.job = 0
    BY <1>1, <2>1, Zenon
  <2> QED
    BY <2>1, <2>2, <2>3, <2>4, Zenon DEF Change, AsPeer, x
<1> QED
  BY <1>2, <1>3, <1>4, Zenon

\* PeerAnnounces.
LEMMA AnnouncesChange ==
    ASSUME PeersInv, entries \in Seq(Entry), NEW p \in Peer, PeerAnnounces(p)
    PROVE  \E s : Change(p, s)
<1> DEFINE x == peer[p]
           Off1(es, i, j) == IF ready /\ epoch = x.tx_epoch THEN SubSeq(es, i, j) ELSE <<>>
           New(es, i, j) == [AnnouncedAll(x, Off1(es, i, j)) EXCEPT !.pc = "idle"]
<1>1. x.pc = "announce" /\ x \in PeerState /\ PeerControl(x) /\ PeerHistory(x)
      /\ x.job = 0 /\ x.entry = NONE
  BY PeerFields, Zenon DEF PeerAnnounces, Holding
<1>2. PICK c \in Unexpired : \E i \in 1 .. (Len(c.entries) + 1), j \in 0 .. Len(c.entries) :
        HangUp(p) \/ Be(p, New(c.entries, i, j))
  BY Zenon DEF PeerAnnounces
<1> DEFINE es == c.entries
<1>5. PICK i \in 1 .. (Len(es) + 1), j \in 0 .. Len(es) : HangUp(p) \/ Be(p, New(es, i, j))
  BY <1>2, Zenon
<1>3. CASE HangUp(p)
  BY <1>1, <1>3, HangUpChange, Zenon
<1>4. CASE Be(p, New(es, i, j))
  <2> DEFINE o == Off1(es, i, j)
             a == AnnouncedAll(x, o)
             s == [a EXCEPT !.pc = "idle"]
  <2>1. es \in Seq(Entry)
    BY UnexpiredPart, Zenon
  <2>2. o \in Seq(Entry)
    <3>1. SubSeq(es, i, j) \in Seq(Entry)
      BY <2>1
    <3>2. <<>> \in Seq(Entry)
      OBVIOUS
    <3> QED
      BY <3>1, <3>2, Zenon
  <2> HIDE DEF x, o
  <2>3. Informs(x, a)
    BY <1>1, <2>2, AnnouncedAllInforms, Zenon
  <2> HIDE DEF a
  <2>4. /\ a \in PeerState /\ a.entry = NONE /\ a.job = 0
        /\ (~ a.truncated => \A t \in a.told : a.announced[t] # NONE)
    BY <1>1, <2>3, Zenon DEF Informs, PeerHistory
  <2>5. /\ s \in PeerState /\ s.pc = "idle" /\ s.entry = NONE /\ s.job = 0
        /\ s.truncated = a.truncated /\ s.told = a.told /\ s.announced = a.announced
    BY ONLY <2>4, Zenon DEF PeerState
  <2>6. Be(p, s)
    BY <1>4, Zenon DEF a, o
  <2> HIDE DEF s
  <2>7. PeerControl(s) /\ PeerHistory(s)
    BY ONLY <2>4, <2>5, Zenon DEF PeerControl, PeerHistory, Holding
  <2> QED
    BY <1>1, <2>5, <2>6, <2>7, Zenon DEF Change, AsPeer, x
<1> QED
  BY <1>3, <1>4, <1>5, SMTT(30)

\* FindMatching: the entry found is the one announced.
LEMMA FoundAsPeer ==
    ASSUME PeersInv, NEW p \in Peer, peer[p].pc \in {"find", "wait", "waiting"}, NEW e \in Entry,
           e.txid = Identified(p).txid, e.identity = Identified(p).identity
    PROVE  LET s == [peer[p] EXCEPT !.pc = "check", !.job = 0, !.entry = e] IN
           AsPeer(s) /\ s.job = 0 /\ s.entry = e
<1> DEFINE x == peer[p]
           s == [x EXCEPT !.pc = "check", !.job = 0, !.entry = e]
<1>1. x \in PeerState /\ PeerControl(x) /\ PeerHistory(x)
  BY PeerFields, Zenon
<1>2. e.txid = x.txid /\ e.identity = x.announced[x.txid]
  BY IdentifiedReq, Zenon
<1>3. x.txid \in Txid /\ x.announced[x.txid] # NONE
  BY <1>1, Zenon DEF PeerControl
<1> HIDE DEF x
<1>4. /\ s \in PeerState /\ s.pc = "check" /\ s.entry = e /\ s.job = 0 /\ s.txid = x.txid
      /\ s.truncated = x.truncated /\ s.told = x.told /\ s.announced = x.announced
  BY ONLY <1>1, e \in Entry, Zenon DEF PeerState, Holding
<1> HIDE DEF s
<1>5. PeerControl(s) /\ PeerHistory(s)
  BY ONLY <1>1, <1>2, <1>3, <1>4, Zenon DEF PeerControl, PeerHistory, Holding
<1> QED
  BY <1>4, <1>5, Zenon DEF AsPeer, s, x

\* Returning from WaitFor with nothing.
LEMMA EmptyAsPeer ==
    ASSUME PeersInv, NEW p \in Peer, peer[p].pc = "waiting"
    PROVE  LET s == [peer[p] EXCEPT !.pc = "check", !.job = 0, !.entry = NONE] IN
           AsPeer(s) /\ s.job = 0 /\ s.entry = NONE
<1> DEFINE x == peer[p]
           s == [x EXCEPT !.pc = "check", !.job = 0, !.entry = NONE]
<1>1. x \in PeerState /\ PeerControl(x) /\ PeerHistory(x)
  BY PeerFields, Zenon
<1>3. x.txid \in Txid /\ x.announced[x.txid] # NONE
  BY <1>1, Zenon DEF PeerControl
<1> HIDE DEF x
<1>4. /\ s \in PeerState /\ s.pc = "check" /\ s.entry = NONE /\ s.job = 0 /\ s.txid = x.txid
      /\ s.truncated = x.truncated /\ s.told = x.told /\ s.announced = x.announced
  BY ONLY <1>1, Zenon DEF PeerState, Holding
<1> HIDE DEF s
<1>5. PeerControl(s) /\ PeerHistory(s)
  BY ONLY <1>1, <1>3, <1>4, Zenon DEF PeerControl, PeerHistory, Holding
<1> QED
  BY <1>4, <1>5, Zenon DEF AsPeer, s, x

\* PeerFinds, PeerRefused.
LEMMA FindsChange ==
    ASSUME PeersInv, entries \in Seq(Entry), NEW p \in Peer, PeerFinds(p) \/ PeerRefused(p)
    PROVE  \E s : Change(p, s)
<1>1. CASE PeerRefused(p)
  BY <1>1, StepChange, Zenon DEF PeerRefused
<1>2. CASE PeerFinds(p)
  <2> DEFINE M(es) == Match(es, Identified(p))
             N(es) == [peer[p] EXCEPT !.pc = "check", !.entry = M(es)]
  <2>1. peer[p].pc \in {"find", "wait"}
    BY <1>2, Zenon DEF PeerFinds
  <2>2. PICK c \in Unexpired :
          \/ M(c.entries) # NONE /\ Be(p, N(c.entries))
          \/ peer[p].pc = "find" /\ Step(p, "wait")
    BY <1>2, Zenon DEF PeerFinds
  <2> DEFINE es == c.entries
  <2>3. CASE peer[p].pc = "find" /\ Step(p, "wait")
    BY <2>3, StepChange, Zenon
  <2>4. CASE M(es) # NONE /\ Be(p, N(es))
    <3>1. es \in Seq(Entry) /\ Range(es) \subseteq Range(entries)
      BY UnexpiredPart, Zenon
    <3>2. /\ M(es) \in Range(es) /\ M(es) \in Entry
          /\ M(es).txid = Identified(p).txid /\ M(es).identity = Identified(p).identity
      BY <2>4, <3>1, MatchFacts, Zenon
    <3> DEFINE e == M(es)
               s == [peer[p] EXCEPT !.pc = "check", !.job = 0, !.entry = e]
    <3> HIDE DEF e
    <3>3. AsPeer(s) /\ s.job = 0 /\ s.entry = e
      BY <2>1, <3>2, FoundAsPeer, Zenon DEF e
    <3>4. peer[p] \in PeerState /\ peer[p].job = 0
      BY <2>1, PeerFields, Zenon
    <3>5. s = [peer[p] EXCEPT !.pc = "check", !.entry = e]
      BY ONLY <3>4, Zenon DEF PeerState
    <3>6. Be(p, s)
      BY <2>4, <3>5, Zenon DEF e
    <3> HIDE DEF s
    <3> QED
      BY <3>1, <3>2, <3>3, <3>4, <3>6, Zenon DEF Change, e
  <2> QED
    BY <2>2, <2>3, <2>4, Zenon
<1> QED
  BY <1>1, <1>2, Zenon

-----------------------------------------------------------------------------
(* The jobs of WaitFor.                                                    *)

WorkInv == WorkType /\ JobsInv /\ MapInv
Waits(j) == {q \in Peer : peer[q].job = j}

\* The waiters of a job can be counted.
LEMMA WaitsFinite ==
    ASSUME NEW j
    PROVE  IsFiniteSet(Waits(j)) /\ Cardinality(Waits(j)) \in Nat
<1>1. IsFiniteSet(Peer) /\ Waits(j) \in SUBSET Peer
  BY CacheConfig, Zenon DEF Peer, Waits
<1> QED
  BY <1>1, FS_Subset, FS_CardinalityType, Zenon

\* A connection inside WaitFor is counted by the job of its request.
LEMMA WaitingJob ==
    ASSUME JobsInv, PeersInv, NEW q \in Peer, peer[q].pc = "waiting"
    PROVE  LET j == peer[q].job IN
           /\ j \in Job /\ j # 0 /\ jobs[j].request = Identified(q) /\ q \in Waits(j)
           /\ jobs[j].waiters = Cardinality(Waits(j)) /\ jobs[j].waiters \in Nat
           /\ jobs[j].waiters > 0
<1> DEFINE j == peer[q].job
<1>1. j # 0 /\ j \in Job \cup {0}
  BY PeerFields, Zenon DEF PeerControl, PeerState
<1>2. j \in Job
  BY <1>1, Zenon
<1>3. q \in Waits(j)
  BY Zenon DEF Waits
<1>4. Cardinality(Waits(j)) \in Nat /\ Cardinality(Waits(j)) # 0
  BY <1>3, WaitsFinite, FS_EmptySet, Zenon
<1>5. jobs[j].waiters = Cardinality(Waits(j))
  BY <1>2, Zenon DEF JobsInv, Waits
<1>6. jobs[j].waiters > 0
  BY ONLY <1>4, <1>5
<1>7. jobs[j].request = Identified(q)
  BY Zenon DEF JobsInv
<1> QED
  BY <1>1, <1>2, <1>3, <1>4, <1>5, <1>6, <1>7, SMTT(30)

\* Different requests have different jobs.
LEMMA MapInjective ==
    ASSUME MapInv, WorkType
    PROVE  /\ \A r, q \in DOMAIN regeneration : regeneration[r] = regeneration[q] => r = q
           /\ \A r \in DOMAIN regeneration :
                /\ r \in Req /\ regeneration[r] \in Job /\ jobs[regeneration[r]].request = r
                /\ jobs[regeneration[r]] # FREE /\ regeneration[r] \in Range(regeneration)
<1>1. \A r \in DOMAIN regeneration : jobs[regeneration[r]].request = r
  BY Zenon DEF MapInv
<1>2. \A r \in DOMAIN regeneration : r \in Req /\ regeneration[r] \in Job /\ r # NONE
  BY NoneIsNoValue, Zenon DEF WorkType
<1>3. FREE.request = NONE
  BY Zenon DEF FREE
<1>4. \A r \in DOMAIN regeneration : regeneration[r] \in Range(regeneration)
  BY Zenon DEF Range
<1> QED
  BY <1>1, <1>2, <1>3, <1>4, Zenon

\* Steps that touch neither the jobs nor who waits for them.
LEMMA WorkFrame ==
    ASSUME WorkInv, UNCHANGED <<regeneration, jobs, pending, epoch>>,
           relay'.request = relay.request,
           \A q \in Peer : /\ peer'[q].job = peer[q].job
                           /\ peer'[q].pc = "waiting" => peer'[q] = peer[q]
    PROVE  WorkInv'
<1>1. WorkType'
  BY Zenon DEF WorkInv, WorkType
<1>2. MapInv'
  BY Zenon DEF WorkInv, MapInv
<1>3. \A q \in Peer : peer'[q].pc = "waiting" => jobs'[peer'[q].job].request = Identified(q)'
  <2> SUFFICES ASSUME NEW q \in Peer, peer'[q].pc = "waiting"
               PROVE  jobs'[peer'[q].job].request = Identified(q)'
    BY Zenon
  <2>1. peer'[q] = peer[q]
    BY Zenon
  <2>2. Identified(q)' = Identified(q)
    BY <2>1, Zenon DEF Identified
  <2> QED
    BY <2>1, <2>2, Zenon DEF WorkInv, JobsInv
<1>4. ASSUME NEW j \in Job
      PROVE  {q \in Peer : peer'[q].job = j} = {q \in Peer : peer[q].job = j}
  BY Zenon
<1>5. \A j \in Job : /\ jobs'[j].waiters = Cardinality({q \in Peer : peer'[q].job = j})
                     /\ jobs'[j] = FREE \/ jobs'[j].waiters > 0 \/ j \in Range(regeneration')
                     /\ Answers(jobs'[j])
  BY <1>4, SMTT(30) DEF WorkInv, JobsInv
<1>6. JobsInv'
  BY <1>3, <1>5, SMTT(30) DEF JobsInv, Answers
<1> QED
  BY <1>1, <1>2, <1>6, Zenon DEF WorkInv

\* The jobs change, but neither who waits for what nor how many do.
LEMMA JobsKept ==
    ASSUME JobsInv, PeersInv, UNCHANGED peer,
           \A k \in Job :
             /\ jobs'[k].waiters = jobs[k].waiters /\ Answers(jobs'[k])
             /\ jobs'[k] = FREE \/ jobs'[k].waiters > 0 \/ k \in Range(regeneration')
             /\ jobs[k].waiters > 0 => jobs'[k].request = jobs[k].request
    PROVE  JobsInv'
<1>1. ASSUME NEW q \in Peer, peer'[q].pc = "waiting"
      PROVE  jobs'[peer'[q].job].request = Identified(q)'
  <2> DEFINE j == peer[q].job
  <2>1. peer' = peer /\ Identified(q)' = Identified(q)
    BY Zenon DEF Identified
  <2>2. j \in Job /\ jobs[j].waiters > 0 /\ jobs[j].request = Identified(q)
    BY <1>1, <2>1, WaitingJob, SMTT(30)
  <2> QED
    BY <2>1, <2>2, SMTT(30)
<1>2. \A j \in Job : /\ jobs'[j].waiters = Cardinality({q \in Peer : peer'[q].job = j})
                     /\ jobs'[j] = FREE \/ jobs'[j].waiters > 0 \/ j \in Range(regeneration')
                     /\ Answers(jobs'[j])
  BY Zenon DEF JobsInv
<1> QED
  BY <1>1, <1>2, SMTT(30) DEF JobsInv, Answers

\* Clear finishes every job in the map, for nothing.
LEMMA WorkClear ==
    ASSUME WorkInv, PeersInv, ClearWork, UNCHANGED peer
    PROVE  WorkInv'
<1>1. /\ jobs' = [j \in Job |-> ClearedJob(j)] /\ regeneration' = NoJobs /\ pending' = <<>>
      /\ jobs \in [Job -> JobObject]
  BY Zenon DEF ClearWork, WorkInv, WorkType
<1>2. DOMAIN NoJobs = {} /\ NoJobs \in [{} -> Job]
  BY Zenon DEF NoJobs
<1>3. FREE \in JobObject /\ FREE.waiters = 0 /\ FREE.result = NONE
  BY SMTT(30) DEF FREE, JobObject
<1>4. ASSUME NEW j \in Job
      PROVE  /\ jobs'[j] \in JobObject
             /\ jobs'[j].waiters = jobs[j].waiters
             /\ jobs'[j] = FREE \/ jobs'[j].waiters > 0
             /\ Answers(jobs'[j])
             /\ jobs[j].waiters > 0 => jobs'[j].request = jobs[j].request
  <2> DEFINE x == jobs[j]
  <2>1. /\ x \in JobObject /\ (x = FREE \/ x.waiters > 0 \/ j \in Range(regeneration))
        /\ Answers(x) /\ jobs'[j] = ClearedJob(j)
    BY <1>1, Zenon DEF WorkInv, JobsInv
  <2>2. CASE j \notin Range(regeneration)
    BY <2>1, <2>2, Zenon DEF ClearedJob
  <2>3. CASE j \in Range(regeneration) /\ x.waiters = 0
    BY <1>3, <2>1, <2>3 DEF ClearedJob, Answers
  <2>4. CASE j \in Range(regeneration) /\ x.waiters # 0
    <3> DEFINE y == [x EXCEPT !.done = TRUE, !.result = NONE]
    <3>1. jobs'[j] = y
      BY <2>1, <2>4, Zenon DEF ClearedJob
    <3> HIDE DEF x
    <3>2. y \in JobObject /\ y.waiters = x.waiters /\ y.result = NONE /\ y.request = x.request
      BY ONLY <2>1, Zenon DEF JobObject
    <3>3. x.waiters > 0
      BY ONLY <2>1, <2>4 DEF JobObject
    <3> QED
      BY <3>1, <3>2, <3>3, Zenon DEF Answers, x
  <2> QED
    BY <2>2, <2>3, <2>4, Zenon
<1>5. WorkType'
  <2>1. jobs' \in [Job -> JobObject]
    BY <1>1, <1>4, Zenon
  <2>2. IsFiniteSet({})
    BY FS_EmptySet, Zenon
  <2>3. pending' \in Seq(Req)
    BY <1>1
  <2> QED
    BY <1>1, <1>2, <2>1, <2>2, <2>3, Zenon DEF WorkType
<1>6. MapInv'
  <2>1. Cardinality({}) <= MaxRegenerations
    BY FS_EmptySet, JobFacts
  <2>2. Range(<<>>) = {} /\ IsInjective(<<>>)
    BY DEF Range, IsInjective
  <2> QED
    BY <1>1, <1>2, <2>1, <2>2, Zenon DEF MapInv
<1>7. JobsInv'
  BY <1>4, JobsKept, Zenon DEF WorkInv
<1> QED
  BY <1>5, <1>6, <1>7, Zenon DEF WorkInv

\* TakeRegeneration marks the job of the first request as running.
LEMMA WorkTake ==
    ASSUME WorkInv, PeersInv, UNCHANGED <<peer, epoch>>, pending # <<>>, TakeRegeneration,
           relay.request = NONE, relay'.request = Head(pending)
    PROVE  WorkInv'
<1> DEFINE h == Head(pending)
           j == regeneration[h]
           D == DOMAIN regeneration
<1>1. /\ pending' = Tail(pending) /\ regeneration' = regeneration
      /\ jobs' = [jobs EXCEPT ![j].running = TRUE]
  BY Zenon DEF TakeRegeneration
<1>2. /\ pending \in Seq(Req) /\ jobs \in [Job -> JobObject] /\ IsInjective(pending)
      /\ Range(pending) \subseteq D
  BY Zenon DEF WorkInv, WorkType, MapInv
<1>3. /\ pending' \in Seq(Req) /\ IsInjective(pending') /\ h \in Range(pending)
      /\ Range(pending') = Range(pending) \ {h}
  BY <1>1, <1>2, TailList, Zenon
<1>4. h \in D /\ j \in Job /\ j \in Range(regeneration) /\ h \in Req
  BY <1>2, <1>3, MapInjective, Zenon DEF WorkInv
<1> HIDE DEF h, j
<1>5. /\ jobs' \in [Job -> JobObject] /\ \A k \in Job : k # j => jobs'[k] = jobs[k]
      /\ jobs'[j].running = TRUE /\ jobs'[j].request = jobs[j].request
      /\ jobs'[j].waiters = jobs[j].waiters /\ jobs'[j].result = jobs[j].result
  <2>1. jobs[j] \in JobObject
    BY <1>2, <1>4, Zenon
  <2>2. [jobs[j] EXCEPT !.running = TRUE] \in JobObject
    BY ONLY <2>1, Zenon DEF JobObject
  <2> QED
    BY ONLY <1>1, <1>2, <1>4, <2>1, <2>2, Zenon DEF JobObject
<1>6. WorkType'
  BY <1>1, <1>3, <1>5, Zenon DEF WorkInv, WorkType
<1>7. JobsInv'
  <2>1. \A k \in Job : Answers(jobs[k]) /\ (jobs[k] = FREE \/ jobs[k].waiters > 0 \/ k \in Range(regeneration))
    BY Zenon DEF WorkInv, JobsInv
  <2>2. \A k \in Job : Answers(jobs'[k])
    BY <1>5, <2>1 DEF Answers
  <2>3. \A k \in Job :
          /\ jobs'[k].waiters = jobs[k].waiters /\ Answers(jobs'[k])
          /\ jobs'[k] = FREE \/ jobs'[k].waiters > 0 \/ k \in Range(regeneration')
          /\ jobs[k].waiters > 0 => jobs'[k].request = jobs[k].request
    BY ONLY <1>1, <1>4, <1>5, <2>1, <2>2, Zenon
  <2> QED
    BY <2>3, JobsKept, Zenon DEF WorkInv
<1>8. ASSUME NEW r \in D
      PROVE  LET x == jobs'[regeneration[r]] IN
             /\ r.identity.epoch = epoch /\ x.request = r
             /\ r \in Range(pending') <=> ~ x.running
             /\ x.running /\ ~ x.done => relay'.request = r
  <2> DEFINE y == jobs[regeneration[r]]
  <2>1. /\ r.identity.epoch = epoch /\ y.request = r /\ (r \in Range(pending) <=> ~ y.running)
        /\ (y.running /\ ~ y.done => relay.request = r)
    BY SMTT(30) DEF WorkInv, MapInv
  <2>2. CASE r = h
    BY ONLY <1>3, <1>5, <2>1, <2>2, relay'.request = Head(pending), SMTT(30) DEF j, h
  <2>3. CASE r # h
    <3>1. regeneration[r] # j /\ regeneration[r] \in Job /\ r \in Req
      BY <1>4, <2>3, MapInjective, SMTT(30) DEF WorkInv, j
    <3>2. jobs'[regeneration[r]] = y
      BY ONLY <1>5, <3>1, Zenon
    <3>3. relay.request # r
      BY <3>1, NoneIsNoValue, Zenon
    <3> QED
      BY ONLY <1>3, <2>1, <2>3, <3>2, <3>3, SMTT(30)
  <2> QED
    BY <2>2, <2>3, Zenon
<1>9. MapInv'
  <2>1. Range(pending') \subseteq D /\ Cardinality(D) <= MaxRegenerations
    BY <1>2, <1>3, Zenon DEF WorkInv, MapInv
  <2>2. epoch' = epoch
    BY Zenon
  <2> QED
    BY ONLY <1>1, <1>3, <1>8, <2>1, <2>2, SMTT(30) DEF MapInv
<1> QED
  BY <1>6, <1>7, <1>9, Zenon DEF WorkInv

\* Removing the place of a job in the map.
LEMMA MapRemoved ==
    ASSUME WorkInv, NEW q \in DOMAIN regeneration
    PROVE  LET N == Restrict(regeneration, DOMAIN regeneration \ {q}) IN
           /\ DOMAIN N = DOMAIN regeneration \ {q} /\ N \in [DOMAIN N -> Job]
           /\ DOMAIN N \subseteq Req /\ IsFiniteSet(DOMAIN N)
           /\ Cardinality(DOMAIN N) <= MaxRegenerations
           /\ \A r \in DOMAIN N : N[r] = regeneration[r] /\ r # q /\ N[r] # regeneration[q]
           /\ \A k \in Range(regeneration) : k # regeneration[q] => k \in Range(N)
<1> DEFINE D == DOMAIN regeneration
           N == Restrict(regeneration, D \ {q})
<1>1. /\ regeneration \in [D -> Job] /\ D \subseteq Req /\ IsFiniteSet(D)
      /\ Cardinality(D) <= MaxRegenerations
  BY Zenon DEF WorkInv, WorkType, MapInv
<1>2. DOMAIN N = D \ {q} /\ \A r \in D \ {q} : N[r] = regeneration[r]
  BY Zenon DEF Restrict
<1>3. N \in [D \ {q} -> Job]
  BY <1>1, Zenon DEF Restrict
<1>4. IsFiniteSet(D \ {q}) /\ Cardinality(D \ {q}) = Cardinality(D) - 1 /\ Cardinality(D) \in Nat
  BY <1>1, FS_RemoveElement, FS_CardinalityType, Zenon
<1>5. Cardinality(D \ {q}) <= MaxRegenerations
  BY <1>1, <1>4, JobFacts
<1>6. \A r \in D \ {q} : regeneration[r] # regeneration[q]
  BY MapInjective, Zenon DEF WorkInv
<1> HIDE DEF N
<1>7. ASSUME NEW k \in Range(regeneration), k # regeneration[q]
      PROVE  k \in Range(N)
  BY <1>2, <1>7, Zenon DEF Range
<1> QED
  BY <1>1, <1>2, <1>3, <1>4, <1>5, <1>6, <1>7, Zenon DEF N

\* CompleteRegeneration hands the result to the job of the request, and keeps
\* the job only for those who wait for it.
LEMMA WorkComplete ==
    ASSUME WorkInv, PeersInv, entries \in Seq(Entry), UNCHANGED <<peer, epoch>>,
           CompleteRegeneration(relay.request), relay'.request = NONE
    PROVE  WorkInv'
<1> DEFINE h == relay.request
           D == DOMAIN regeneration
<1>1. CASE ~ Completable(h)
  <2>1. UNCHANGED <<cache, work>>
    BY <1>1, Zenon DEF CompleteRegeneration
  <2>2. UNCHANGED <<regeneration, jobs, pending>>
    BY <2>1, Zenon DEF work
  <2>3. WorkType'
    BY <2>2, Zenon DEF WorkInv, WorkType
  <2>4. JobsInv'
    <3>1. \A k \in Job : Answers(jobs[k]) /\ (jobs[k] = FREE \/ jobs[k].waiters > 0 \/ k \in Range(regeneration))
      BY Zenon DEF WorkInv, JobsInv
    <3> QED
      BY <2>2, <3>1, JobsKept, Zenon DEF WorkInv
  <2>5. ASSUME NEW r \in D
        PROVE  ~ (jobs[regeneration[r]].running /\ ~ jobs[regeneration[r]].done)
    <3>1. jobs[regeneration[r]].running /\ ~ jobs[regeneration[r]].done => h = r
      BY SMTT(30) DEF WorkInv, MapInv
    <3> QED
      BY <1>1, <3>1, SMTT(30) DEF Completable
  <2>6. MapInv'
    BY <2>2, <2>5, Zenon DEF WorkInv, MapInv
  <2> QED
    BY <2>3, <2>4, <2>6, Zenon DEF WorkInv
<1>2. CASE Completable(h)
  <2> DEFINE j == regeneration[h]
             F(es) == [jobs EXCEPT ![j].done = TRUE, ![j].result = Match(es, h)]
  <2>1. PICK c \in Unexpired : jobs' = Released(F(c.entries), j)
    BY <1>2, Zenon DEF CompleteRegeneration
  <2> DEFINE es == c.entries
  <2>2. /\ regeneration' = IF jobs[j].waiters = 0 THEN Restrict(regeneration, D \ {h}) ELSE regeneration
        /\ pending' = pending
    BY <1>2, Zenon DEF CompleteRegeneration
  <2>3. h \in D /\ jobs[j].running /\ ~ jobs[j].done
    BY <1>2, Zenon DEF Completable
  <2>4. j \in Job /\ j \in Range(regeneration) /\ h \in Req /\ jobs[j].request = h
    BY <2>3, MapInjective, Zenon DEF WorkInv
  <2>5. jobs \in [Job -> JobObject] /\ jobs[j] \in JobObject
    BY <2>4, Zenon DEF WorkInv, WorkType
  <2> DEFINE m == Match(es, h)
             f == [jobs[j] EXCEPT !.done = TRUE, !.result = m]
  <2>6. m = NONE \/ (m \in Entry /\ m.txid = h.txid /\ m.identity = h.identity)
    BY UnexpiredPart, MatchFacts, Zenon
  <2> HIDE DEF m, j, h
  <2>7. f \in JobObject
    BY ONLY <2>5, <2>6, Zenon DEF JobObject
  <2>8. /\ f.done = TRUE /\ f.result = m /\ f.request = h /\ f.waiters = jobs[j].waiters
        /\ f.running = jobs[j].running
    BY ONLY <2>4, <2>5, Zenon DEF JobObject
  <2>9. Answers(f)
    BY ONLY <2>4, <2>6, <2>8, NoneIsNoValue, Zenon DEF Answers
  <2>10. F(es) = [jobs EXCEPT ![j] = f]
    BY ONLY <2>4, <2>5, Zenon DEF m, JobObject
  <2> HIDE DEF f
  <2>11. /\ F(es) \in [Job -> JobObject] /\ F(es)[j] = f /\ \A k \in Job : k # j => F(es)[k] = jobs[k]
    BY ONLY <2>4, <2>5, <2>7, <2>10, Zenon
  <2>12. /\ FREE \in JobObject /\ FREE.waiters = 0 /\ FREE.result = NONE
    BY Zenon DEF FREE, JobObject
  <2> HIDE DEF F
  <2>13. /\ jobs' \in [Job -> JobObject] /\ \A k \in Job : k # j => jobs'[k] = jobs[k]
         /\ jobs'[j] = IF f.waiters = 0 THEN FREE ELSE f
    BY ONLY <2>1, <2>4, <2>11, <2>12, SMTT(30) DEF Released
  <2>14. JobsInv'
    <3>1. \A k \in Job : Answers(jobs[k]) /\ (jobs[k] = FREE \/ jobs[k].waiters > 0 \/ k \in Range(regeneration))
      BY Zenon DEF WorkInv, JobsInv
    <3>2. \A k \in Range(regeneration) : k # j => k \in Range(regeneration')
      BY <2>2, <2>3, MapRemoved, Zenon DEF j
    <3>3. jobs[j].waiters # 0 => jobs[j].waiters > 0
      BY <2>5, SMTT(30) DEF JobObject
    <3>4. ASSUME NEW k \in Job
          PROVE  /\ jobs'[k].waiters = jobs[k].waiters /\ Answers(jobs'[k])
                 /\ jobs'[k] = FREE \/ jobs'[k].waiters > 0 \/ k \in Range(regeneration')
                 /\ jobs[k].waiters > 0 => jobs'[k].request = jobs[k].request
      <4>1. CASE k # j
        BY ONLY <2>13, <3>1, <3>2, <4>1, k \in Job, Zenon
      <4>2. CASE k = j /\ f.waiters = 0
        BY ONLY <2>8, <2>12, <2>13, <4>2, SMTT(30) DEF Answers
      <4>3. CASE k = j /\ f.waiters # 0
        BY ONLY <2>4, <2>8, <2>9, <2>13, <3>3, <4>3, SMTT(30)
      <4> QED
        BY <4>1, <4>2, <4>3, SMTT(30)
    <3> QED
      BY <3>4, JobsKept, Zenon DEF WorkInv
  <2>15. h \notin Range(pending)
    BY <2>3, Zenon DEF WorkInv, MapInv, j
  <2>16. ASSUME NEW r \in D, r # h
         PROVE  LET x == jobs'[regeneration[r]] IN
                /\ r.identity.epoch = epoch /\ x.request = r
                /\ r \in Range(pending) <=> ~ x.running
                /\ ~ (x.running /\ ~ x.done)
    <3>1. regeneration[r] # j /\ regeneration[r] \in Job
      BY <2>3, <2>16, MapInjective, Zenon DEF WorkInv, j
    <3>2. jobs'[regeneration[r]] = jobs[regeneration[r]]
      BY ONLY <2>13, <3>1, SMTT(30)
    <3>3. LET x == jobs[regeneration[r]] IN
          /\ r.identity.epoch = epoch /\ x.request = r
          /\ r \in Range(pending) <=> ~ x.running
          /\ x.running /\ ~ x.done => h = r
      BY Zenon DEF WorkInv, MapInv, h
    <3> QED
      BY ONLY <2>16, <3>2, <3>3, SMTT(30)
  <2>17. CASE jobs[j].waiters = 0
    <3>1. regeneration' = Restrict(regeneration, D \ {h})
      BY <2>2, <2>17, Zenon
    <3>2. /\ DOMAIN regeneration' = D \ {h} /\ regeneration' \in [DOMAIN regeneration' -> Job]
          /\ DOMAIN regeneration' \subseteq Req /\ IsFiniteSet(DOMAIN regeneration')
          /\ Cardinality(DOMAIN regeneration') <= MaxRegenerations
          /\ \A r \in DOMAIN regeneration' : regeneration'[r] = regeneration[r]
      BY <2>3, <3>1, MapRemoved, Zenon
    <3>3. WorkType'
      BY <2>2, <2>13, <3>2, Zenon DEF WorkInv, WorkType
    <3>4. Range(pending) \subseteq D \ {h} /\ IsInjective(pending)
      BY <2>15, Zenon DEF WorkInv, MapInv
    <3>5. epoch' = epoch
      BY Zenon
    <3>6. MapInv'
      BY ONLY <2>2, <2>16, <3>2, <3>4, <3>5, Zenon DEF MapInv
    <3> QED
      BY <2>14, <3>3, <3>6, Zenon DEF WorkInv
  <2>18. CASE jobs[j].waiters # 0
    <3>1. regeneration' = regeneration
      BY <2>2, <2>18, Zenon
    <3>2. WorkType'
      BY <2>2, <2>13, <3>1, Zenon DEF WorkInv, WorkType
    <3>3. jobs'[j] = f
      BY ONLY <2>8, <2>13, <2>18, Zenon
    <3>4. LET x == jobs'[regeneration[h]] IN
          /\ h.identity.epoch = epoch /\ x.request = h
          /\ h \in Range(pending) <=> ~ x.running
          /\ ~ (x.running /\ ~ x.done)
      <4>1. h.identity.epoch = epoch
        BY <2>3, Zenon DEF WorkInv, MapInv
      <4> QED
        BY ONLY <2>3, <2>8, <2>15, <3>3, <4>1, Zenon DEF j
    <3>5. epoch' = epoch
      BY Zenon
    <3>6. /\ Cardinality(D) <= MaxRegenerations
          /\ Range(pending) \subseteq D /\ IsInjective(pending)
      BY Zenon DEF WorkInv, MapInv
    <3>7. MapInv'
      BY ONLY <2>2, <2>16, <3>1, <3>4, <3>5, <3>6, Zenon DEF MapInv
    <3> QED
      BY <2>14, <3>2, <3>7, Zenon DEF WorkInv
  <2> QED
    BY <2>17, <2>18, Zenon
<1> QED
  BY <1>1, <1>2, Zenon

\* WaitFor finds the job of the request or a job object nobody refers to.
LEMMA JoinedJob ==
    ASSUME WorkInv, PeersInv, NEW p \in Peer, peer[p].job = 0, NEW rq, CanJoin(rq)
    PROVE  /\ Joined(rq) \in Job
           /\ rq \in DOMAIN regeneration => Joined(rq) = regeneration[rq]
           /\ rq \notin DOMAIN regeneration => jobs[Joined(rq)] = FREE
<1>1. CASE rq \in DOMAIN regeneration
  BY <1>1, MapInjective, Zenon DEF WorkInv, Joined
<1>2. CASE rq \notin DOMAIN regeneration
  <2>1. Cardinality(DOMAIN regeneration) < MaxRegenerations
    BY <1>2, Zenon DEF CanJoin
  <2>2. Min({j \in Job : jobs[j] = FREE}) \in {j \in Job : jobs[j] = FREE}
    <3>1. WorkType /\ peer \in [Peer -> PeerState]
      BY Zenon DEF WorkInv, PeersInv
    <3>2. /\ \A j \in Job : jobs[j].waiters = Cardinality({q \in Peer : peer[q].job = j})
          /\ \A j \in Job : jobs[j] = FREE \/ jobs[j].waiters > 0 \/ j \in Range(regeneration)
      BY Zenon DEF WorkInv, JobsInv
    <3> QED
      BY <2>1, <3>1, <3>2, FreeJob, Zenon
  <2>3. Joined(rq) = Min({j \in Job : jobs[j] = FREE})
    BY <1>2, Zenon DEF Joined
  <2> DEFINE m == Joined(rq)
  <2>4. m \in {j \in Job : jobs[j] = FREE}
    BY ONLY <2>2, <2>3, Zenon
  <2> HIDE DEF m
  <2>5. m \in Job /\ jobs[m] = FREE
    BY ONLY <2>4, Zenon
  <2> QED
    BY <1>2, <2>5, Zenon DEF m
<1> QED
  BY <1>1, <1>2, Zenon

\* Who waits for what, once p waits for j.
LEMMA WaitsJoin ==
    ASSUME PeersInv, NEW p \in Peer, peer[p].job = 0, NEW s \in PeerState, s.job \in Job, Be(p, s)
    PROVE  /\ \A k \in Job : k # s.job => {q \in Peer : peer'[q].job = k} = Waits(k)
           /\ Cardinality({q \in Peer : peer'[q].job = s.job}) = Cardinality(Waits(s.job)) + 1
<1>1. peer'[p] = s /\ \A q \in Peer : q # p => peer'[q] = peer[q]
  BY Zenon DEF PeersInv, Be
<1>2. \A k \in Job : peer[p].job # k
  BY JobFacts, Zenon
<1>3. ASSUME NEW k \in Job, k # s.job
      PROVE  {q \in Peer : peer'[q].job = k} = Waits(k)
  BY <1>1, <1>2, <1>3, Zenon DEF Waits
<1>4. {q \in Peer : peer'[q].job = s.job} = Waits(s.job) \cup {p}
  BY <1>1, Zenon DEF Waits
<1>5. p \notin Waits(s.job)
  BY <1>2, Zenon DEF Waits
<1>6. IsFiniteSet(Waits(s.job))
  BY WaitsFinite, Zenon
<1>7. Cardinality(Waits(s.job) \cup {p}) = Cardinality(Waits(s.job)) + 1
  BY <1>5, <1>6, FS_AddElement, Zenon
<1> QED
  BY <1>3, <1>4, <1>7, Zenon

\* PeerWaits.
LEMMA WorkJoin ==
    ASSUME WorkInv, PeersInv, UNCHANGED <<epoch, relay>>, NEW p \in Peer, PeerWaits(p)
    PROVE  /\ WorkInv' /\ PeersInv' /\ \A q \in Peer : peer'[q].entry = peer[q].entry
           /\ \A k \in Job : jobs'[k].result \in {NONE, jobs[k].result}
<1> DEFINE rq == Identified(p)
           j == Joined(rq)
           x == peer[p]
           s == [x EXCEPT !.pc = "waiting", !.job = j]
           D == DOMAIN regeneration
<1>1. /\ x.pc = "wait" /\ ready /\ rq.identity.epoch = epoch /\ CanJoin(rq) /\ Be(p, s)
  BY Zenon DEF PeerWaits, Refused, WaitBegin
<1>2. /\ x \in PeerState /\ PeerControl(x) /\ PeerHistory(x) /\ x.job = 0 /\ x.entry = NONE
  BY <1>1, PeerFields, Zenon DEF Holding
<1>3. rq \in Req /\ x.txid \in Txid /\ x.announced[x.txid] # NONE
  BY <1>1, <1>2, IdentifiedReq, Zenon DEF PeerControl
<1>4. /\ j \in Job /\ (rq \in D => j = regeneration[rq]) /\ (rq \notin D => jobs[j] = FREE)
  BY <1>1, <1>2, JoinedJob, Zenon
<1>5. IF rq \in D
      THEN jobs' = [jobs EXCEPT ![j].waiters = @ + 1] /\ UNCHANGED <<regeneration, pending>>
      ELSE /\ jobs' = [jobs EXCEPT ![j] = [FREE EXCEPT !.request = rq, !.waiters = 1]]
           /\ regeneration' = [r \in D \cup {rq} |-> IF r = rq THEN j ELSE regeneration[r]]
           /\ pending' = Append(pending, rq)
  BY Zenon DEF PeerWaits, WaitBegin
<1>6. Identified(p)' = Request(peer'[p].txid, peer'[p].announced[peer'[p].txid])
  BY Zenon DEF Identified
<1> HIDE DEF rq, j, x
<1>7. /\ s \in PeerState /\ s.pc = "waiting" /\ s.job = j /\ s.entry = NONE /\ s.txid = x.txid
      /\ s.announced = x.announced /\ s.truncated = x.truncated /\ s.told = x.told
  BY ONLY <1>2, <1>4, Zenon DEF PeerState
<1> HIDE DEF s
<1>8. AsPeer(s)
  <2>1. j # 0
    BY <1>4, JobFacts, Zenon
  <2>2. PeerControl(s)
    BY ONLY <1>3, <1>7, <2>1, Zenon DEF PeerControl, Holding
  <2>3. PeerHistory(s)
    BY ONLY <1>2, <1>7, Zenon DEF PeerHistory
  <2> QED
    BY <1>7, <2>2, <2>3, Zenon DEF AsPeer
<1>9. PeersInv' /\ peer'[p] = s /\ \A q \in Peer : q # p => peer'[q] = peer[q]
  BY <1>1, <1>8, PeersStep, SMTT(30) DEF x
<1>10. \A q \in Peer : peer'[q].entry = peer[q].entry
  BY <1>2, <1>7, <1>9, SMTT(30) DEF x
<1>11. Identified(p)' = rq
  BY <1>6, <1>7, <1>9, SMTT(30) DEF Identified, rq, x
<1>12. \A q \in Peer : q # p => Identified(q)' = Identified(q)
  BY <1>9, SMTT(30) DEF Identified
<1>13. /\ \A k \in Job : k # j => {q \in Peer : peer'[q].job = k} = Waits(k)
       /\ Cardinality({q \in Peer : peer'[q].job = j}) = Cardinality(Waits(j)) + 1
  BY <1>1, <1>2, <1>4, <1>7, WaitsJoin, Zenon DEF x
<1>14. /\ jobs \in [Job -> JobObject] /\ jobs[j] \in JobObject /\ jobs[j].waiters \in Nat
  BY <1>4, Zenon DEF WorkInv, WorkType, JobObject
<1>15. \A k \in Job : /\ jobs[k].waiters = Cardinality(Waits(k)) /\ Answers(jobs[k])
                      /\ jobs[k] = FREE \/ jobs[k].waiters > 0 \/ k \in Range(regeneration)
  BY SMTT(30) DEF WorkInv, JobsInv, Waits
\* Both ways of joining.
<1> DEFINE y == jobs'[j]
<1>16. /\ jobs' \in [Job -> JobObject] /\ \A k \in Job : k # j => jobs'[k] = jobs[k]
       /\ y.waiters = jobs[j].waiters + 1 /\ y.request = rq
       /\ y.result \in {NONE, jobs[j].result} /\ Answers(y)
       /\ rq \in D => y.running = jobs[j].running /\ y.done = jobs[j].done
       /\ rq \notin D => ~ y.running
  <2>1. CASE rq \in D
    <3> DEFINE u == [jobs[j] EXCEPT !.waiters = jobs[j].waiters + 1]
    <3>1. jobs' = [jobs EXCEPT ![j] = u]
      BY ONLY <1>4, <1>5, <1>14, <2>1, SMTT(30) DEF JobObject
    <3>2. jobs[j].request = rq
      BY <1>4, <2>1, MapInjective, Zenon DEF WorkInv
    <3>3. /\ u \in JobObject /\ u.waiters = jobs[j].waiters + 1 /\ u.request = jobs[j].request
          /\ u.result = jobs[j].result /\ u.running = jobs[j].running /\ u.done = jobs[j].done
      BY ONLY <1>14, SMTT(30) DEF JobObject
    <3> HIDE DEF u
    <3>4. Answers(u)
      BY ONLY <1>4, <1>15, <3>3, SMTT(30) DEF Answers
    <3> QED
      BY ONLY <1>4, <1>14, <2>1, <3>1, <3>2, <3>3, <3>4, Zenon
  <2>2. CASE rq \notin D
    <3> DEFINE u == [FREE EXCEPT !.request = rq, !.waiters = 1]
    <3>1. jobs' = [jobs EXCEPT ![j] = u] /\ jobs[j] = FREE
      BY <1>4, <1>5, <2>2, Zenon
    <3>2. /\ u \in JobObject /\ u.waiters = 1 /\ u.request = rq /\ u.result = NONE /\ u.running = FALSE
          /\ FREE.waiters = 0
      BY ONLY <1>3, Zenon DEF FREE, JobObject
    <3> HIDE DEF u
    <3>3. Answers(u)
      BY ONLY <3>2, SMTT(30) DEF Answers
    <3> QED
      BY ONLY <1>4, <1>14, <2>2, <3>1, <3>2, <3>3
  <2> QED
    BY <2>1, <2>2, SMTT(30)
<1> HIDE DEF y
<1>17. JobsInv'
  <2>1. ASSUME NEW q \in Peer, peer'[q].pc = "waiting"
        PROVE  jobs'[peer'[q].job].request = Identified(q)'
    <3>1. CASE q = p
      BY <1>7, <1>9, <1>11, <1>16, <3>1, Zenon DEF y
    <3>2. CASE q # p
      <4>1. peer[q].pc = "waiting" /\ peer'[q] = peer[q]
        BY <1>9, <2>1, <3>2, Zenon
      <4>2. peer[q].job \in Job /\ jobs[peer[q].job].request = Identified(q)
            /\ jobs[peer[q].job].waiters > 0
        BY <4>1, WaitingJob, Zenon DEF WorkInv
      <4>3. CASE peer[q].job # j
        BY <1>12, <1>16, <3>2, <4>1, <4>2, <4>3, Zenon
      <4>4. CASE peer[q].job = j
        <5>1. jobs[j] # FREE
          BY <4>2, <4>4 DEF FREE
        <5>2. rq \in D /\ j = regeneration[rq]
          BY <1>4, <5>1, Zenon
        <5>3. jobs[j].request = rq
          BY <5>2, MapInjective, SMTT(30) DEF WorkInv
        <5> QED
          BY <1>12, <1>16, <3>2, <4>1, <4>2, <4>4, <5>3, Zenon DEF y
      <4> QED
        BY <4>3, <4>4, Zenon
    <3> QED
      BY <3>1, <3>2, Zenon
  <2>2. ASSUME NEW k \in Job
        PROVE  /\ jobs'[k].waiters = Cardinality({q \in Peer : peer'[q].job = k})
               /\ jobs'[k] = FREE \/ jobs'[k].waiters > 0 \/ k \in Range(regeneration')
               /\ Answers(jobs'[k])
    <3>1. CASE k = j
      <4>1. jobs'[j].waiters = Cardinality(Waits(j)) + 1
        BY <1>4, <1>15, <1>16, SMTT(30) DEF y
      <4>2. y.waiters > 0
        BY ONLY <1>14, <1>16
      <4> QED
        BY <1>13, <1>16, <3>1, <4>1, <4>2, Zenon DEF y
    <3>2. CASE k # j
      <4>1. k \in Range(regeneration) => k \in Range(regeneration')
        BY <1>5, Zenon DEF Range
      <4> QED
        BY <1>13, <1>15, <1>16, <3>2, <4>1, Zenon
    <3> QED
      BY <3>1, <3>2, Zenon
  <2> QED
    BY <2>1, <2>2, Zenon DEF JobsInv, Answers
<1>18. /\ pending \in Seq(Req) /\ IsInjective(pending) /\ Range(pending) \subseteq D
       /\ Cardinality(D) <= MaxRegenerations /\ IsFiniteSet(D) /\ D \subseteq Req
       /\ regeneration \in [D -> Job]
  BY SMTT(30) DEF WorkInv, WorkType, MapInv
<1>19. ASSUME NEW r \in D
       PROVE  LET z == jobs[regeneration[r]] IN
              /\ r.identity.epoch = epoch /\ z.request = r
              /\ r \in Range(pending) <=> ~ z.running
              /\ z.running /\ ~ z.done => relay.request = r
  BY SMTT(30) DEF WorkInv, MapInv
<1>20. CASE rq \in D
  <2>1. regeneration' = regeneration /\ pending' = pending
    BY <1>5, <1>20, Zenon
  <2>2. WorkType'
    BY <1>16, <1>18, <2>1, SMTT(30) DEF WorkType
  <2>3. ASSUME NEW r \in D
        PROVE  LET z == jobs'[regeneration[r]] IN
               /\ r.identity.epoch = epoch /\ z.request = r
               /\ r \in Range(pending) <=> ~ z.running
               /\ z.running /\ ~ z.done => relay.request = r
    <3>1. CASE r = rq
      BY ONLY <1>4, <1>16, <1>19, <1>20, <3>1, SMTT(30) DEF y
    <3>2. CASE r # rq
      <4>1. regeneration[r] # j /\ regeneration[r] \in Job
        BY <1>4, <1>20, <3>2, MapInjective, Zenon DEF WorkInv
      <4> QED
        BY ONLY <1>16, <1>19, <4>1, r \in D, Zenon
    <3> QED
      BY <3>1, <3>2, SMTT(30)
  <2>4. epoch' = epoch /\ relay' = relay
    BY Zenon
  <2>5. MapInv'
    BY ONLY <1>18, <2>1, <2>3, <2>4, ZenonT(40) DEF MapInv
  <2> QED
    BY <1>9, <1>10, <1>16, <1>17, <2>2, <2>5, Zenon DEF WorkInv, y
<1>21. CASE rq \notin D
  <2>1. /\ regeneration' = [r \in D \cup {rq} |-> IF r = rq THEN j ELSE regeneration[r]]
        /\ pending' = Append(pending, rq)
    BY <1>5, <1>21, Zenon
  <2>2. /\ DOMAIN regeneration' = D \cup {rq} /\ regeneration'[rq] = j
        /\ \A r \in D : regeneration'[r] = regeneration[r]
        /\ regeneration' \in [D \cup {rq} -> Job]
    BY ONLY <1>4, <1>18, <1>21, <2>1, SMTT(30)
  <2>3. /\ pending' \in Seq(Req) /\ IsInjective(pending') /\ Range(pending') = Range(pending) \cup {rq}
    <3>1. rq \notin Range(pending)
      BY <1>18, <1>21, Zenon
    <3> QED
      BY <1>3, <1>18, <2>1, <3>1, AppendList, SMTT(30)
  <2>4. IsFiniteSet(D \cup {rq}) /\ Cardinality(D \cup {rq}) = Cardinality(D) + 1 /\ Cardinality(D) \in Nat
    BY <1>18, <1>21, FS_AddElement, FS_CardinalityType, Zenon
  <2>5. Cardinality(D \cup {rq}) <= MaxRegenerations
    <3>1. Cardinality(D) < MaxRegenerations
      BY <1>1, <1>21, SMTT(30) DEF CanJoin
    <3> QED
      BY <2>4, <3>1, JobFacts
  <2>6. WorkType'
    BY <1>3, <1>16, <1>18, <2>2, <2>3, <2>4, Zenon DEF WorkType
  <2>7. ASSUME NEW r \in D \cup {rq}
        PROVE  LET z == jobs'[regeneration'[r]] IN
               /\ r.identity.epoch = epoch /\ z.request = r
               /\ r \in Range(pending') <=> ~ z.running
               /\ z.running /\ ~ z.done => relay.request = r
    <3>1. CASE r = rq
      BY ONLY <1>1, <1>16, <1>21, <2>2, <2>3, <3>1, Zenon DEF y
    <3>2. CASE r # rq
      <4>1. r \in D
        BY <3>2, SMTT(30)
      <4>2. regeneration[r] # j /\ regeneration[r] \in Job
        BY <1>4, <1>21, <4>1, MapInjective, SMTT(30) DEF WorkInv
      <4>3. jobs'[regeneration'[r]] = jobs[regeneration[r]]
        BY ONLY <1>16, <2>2, <4>1, <4>2, Zenon
      <4> QED
        BY ONLY <1>19, <2>3, <3>2, <4>1, <4>3, Zenon
    <3> QED
      BY <3>1, <3>2, Zenon
  <2>8. epoch' = epoch /\ relay' = relay
    BY Zenon
  <2>9. Range(pending') \subseteq D \cup {rq}
    BY <1>18, <2>3, SMTT(30)
  <2>10. MapInv'
    BY ONLY <2>2, <2>3, <2>5, <2>7, <2>8, <2>9, Zenon DEF MapInv
  <2> QED
    BY <1>9, <1>10, <1>16, <1>17, <2>6, <2>10, Zenon DEF WorkInv, y
<1> QED
  BY <1>20, <1>21, Zenon

\* Who waits for what, once p waits no longer.
LEMMA WaitsLeave ==
    ASSUME PeersInv, NEW p \in Peer, NEW s \in PeerState, s.job = 0, Be(p, s)
    PROVE  LET j == peer[p].job IN
           /\ \A k \in Job : k # j => {q \in Peer : peer'[q].job = k} = Waits(k)
           /\ j \in Job =>
                /\ {q \in Peer : peer'[q].job = j} = Waits(j) \ {p}
                /\ Cardinality({q \in Peer : peer'[q].job = j}) = Cardinality(Waits(j)) - 1
<1> DEFINE j == peer[p].job
<1>1. peer'[p] = s /\ \A q \in Peer : q # p => peer'[q] = peer[q]
  BY Zenon DEF PeersInv, Be
<1>2. \A k \in Job : s.job # k
  BY JobFacts, Zenon
<1>3. ASSUME NEW k \in Job, k # j
      PROVE  {q \in Peer : peer'[q].job = k} = Waits(k)
  BY <1>1, <1>2, <1>3, Zenon DEF Waits
<1>4. ASSUME j \in Job
      PROVE  {q \in Peer : peer'[q].job = j} = Waits(j) \ {p}
  BY <1>1, <1>2, <1>4, Zenon DEF Waits
<1>5. p \in Waits(j)
  BY Zenon DEF Waits
<1>6. IsFiniteSet(Waits(j))
  BY WaitsFinite, Zenon
<1>7. Cardinality(Waits(j) \ {p}) = Cardinality(Waits(j)) - 1
  BY <1>5, <1>6, FS_RemoveElement, Zenon
<1> QED
  BY <1>3, <1>4, <1>7, Zenon

\* Return: the waiter takes the result of its job, and the last one removes
\* the job.
LEMMA WorkReturn ==
    ASSUME WorkInv, PeersInv, UNCHANGED <<epoch, relay>>, NEW p \in Peer, peer[p].pc = "waiting",
           Return(p)
    PROVE  /\ WorkInv' /\ PeersInv'
           /\ \A q \in Peer : q # p => peer'[q].entry = peer[q].entry
           /\ peer'[p].entry \in {NONE, jobs[peer[p].job].result}
           /\ \A k \in Job : jobs'[k].result \in {NONE, jobs[k].result}
<1> DEFINE rq == Identified(p)
           x == peer[p]
           j == x.job
           e == WaitResult(j, rq, stopping)
           s == [x EXCEPT !.pc = "check", !.job = 0, !.entry = e]
           D == DOMAIN regeneration
           mapped == rq \in D /\ regeneration[rq] = j
           left == [jobs EXCEPT ![j].waiters = @ - 1]
<1>1. Be(p, s) /\ WaitEnd(p, j, rq)
  BY Zenon DEF Return
<1>2. /\ x \in PeerState /\ PeerControl(x) /\ PeerHistory(x)
  BY PeerFields, Zenon
<1>3. rq \in Req
  BY IdentifiedReq, SMTT(30)
<1>4. /\ j \in Job /\ j # 0 /\ jobs[j].request = rq /\ p \in Waits(j)
      /\ jobs[j].waiters = Cardinality(Waits(j)) /\ jobs[j].waiters \in Nat /\ jobs[j].waiters > 0
  BY WaitingJob, Zenon DEF WorkInv
<1>5. /\ jobs \in [Job -> JobObject] /\ jobs[j] \in JobObject
  BY <1>4, SMTT(30) DEF WorkInv, WorkType
<1>6. \A k \in Job : /\ jobs[k].waiters = Cardinality(Waits(k)) /\ Answers(jobs[k])
                     /\ jobs[k] = FREE \/ jobs[k].waiters > 0 \/ k \in Range(regeneration)
  BY Zenon DEF WorkInv, JobsInv, Waits
<1>7. e = NONE \/ (e = jobs[j].result /\ e \in Entry /\ e.txid = rq.txid /\ e.identity = rq.identity)
  <2>1. e = NONE \/ e = jobs[j].result
    BY Zenon DEF WaitResult
  <2>2. jobs[j].result \in Entry \cup {NONE}
    BY <1>5, Zenon DEF JobObject
  <2> QED
    BY <1>4, <1>6, <2>1, <2>2, Zenon DEF Answers
<1>8. AsPeer(s) /\ s.job = 0 /\ s.entry = e
  <2>1. CASE e = NONE
    BY <2>1, EmptyAsPeer, ZenonT(40)
  <2>2. CASE e # NONE
    <3>1. e \in Entry /\ e.txid = rq.txid /\ e.identity = rq.identity
      BY <1>7, <2>2, Zenon
    <3> HIDE DEF e
    <3> QED
      BY <3>1, FoundAsPeer, Zenon
  <2> QED
    BY <2>1, <2>2, Zenon
<1>9. IF Abandoned(j, rq)
      THEN /\ jobs' = [jobs EXCEPT ![j] = FREE]
           /\ regeneration' = Restrict(regeneration, D \ {rq})
           /\ pending' = Kept(pending, Range(pending) \ {rq})
      ELSE /\ jobs' = IF mapped THEN left ELSE Released(left, j)
           /\ UNCHANGED <<regeneration, pending>>
  BY <1>1, Zenon DEF WaitEnd
<1>10. Abandoned(j, rq) => mapped /\ jobs[j].waiters = 1
  BY Zenon DEF Abandoned
<1> HIDE DEF s, e
<1>11. PeersInv' /\ peer'[p] = s /\ \A q \in Peer : q # p => peer'[q] = peer[q]
  BY <1>1, <1>8, PeersStep, SMTT(30)
<1>12. \A q \in Peer : q # p => Identified(q)' = Identified(q)
  BY <1>11, Zenon DEF Identified
<1>13. /\ \A k \in Job : k # j => {q \in Peer : peer'[q].job = k} = Waits(k)
       /\ Cardinality({q \in Peer : peer'[q].job = j}) = Cardinality(Waits(j)) - 1
  BY <1>1, <1>4, <1>8, WaitsLeave, Zenon DEF AsPeer
<1>14. s.pc = "check"
  BY <1>2, Zenon DEF s, PeerState
<1> HIDE DEF rq, x, j
<1> DEFINE u == [jobs[j] EXCEPT !.waiters = jobs[j].waiters - 1]
<1>15. /\ u \in JobObject /\ u.waiters = jobs[j].waiters - 1 /\ u.request = jobs[j].request
       /\ u.result = jobs[j].result /\ u.running = jobs[j].running /\ u.done = jobs[j].done
  <2>1. jobs[j].waiters - 1 \in Nat
    BY ONLY <1>4
  <2> QED
    BY ONLY <1>5, <2>1, Zenon DEF JobObject
<1>16. left = [jobs EXCEPT ![j] = u]
  BY ONLY <1>4, <1>5, Zenon DEF JobObject
<1> HIDE DEF u
<1>17. left \in [Job -> JobObject] /\ left[j] = u /\ \A k \in Job : k # j => left[k] = jobs[k]
  BY ONLY <1>4, <1>5, <1>15, <1>16, SMTT(30)
<1>18. FREE \in JobObject /\ FREE.waiters = 0 /\ FREE.result = NONE
  BY SMTT(30) DEF FREE, JobObject
<1> HIDE DEF left
<1> DEFINE gone == Abandoned(j, rq) \/ (~ mapped /\ u.waiters = 0)
<1>19. /\ jobs' \in [Job -> JobObject] /\ \A k \in Job : k # j => jobs'[k] = jobs[k]
       /\ jobs'[j] = IF gone THEN FREE ELSE u
  <2>1. CASE Abandoned(j, rq)
    BY ONLY <1>4, <1>5, <1>9, <1>18, <2>1, Zenon
  <2>2. CASE ~ Abandoned(j, rq) /\ mapped
    BY ONLY <1>9, <1>17, <2>2, Zenon
  <2>3. CASE ~ Abandoned(j, rq) /\ ~ mapped
    BY ONLY <1>4, <1>9, <1>17, <1>18, <2>3, Zenon DEF Released
  <2> QED
    BY <2>1, <2>2, <2>3, Zenon
<1>20. gone => u.waiters = 0
  BY ONLY <1>10, <1>15, SMTT(30)
<1>21. ~ gone => u.waiters > 0 \/ mapped
  BY ONLY <1>15, <1>4, SMTT(30)
<1>22. \A k \in Range(regeneration) : k # j => k \in Range(regeneration')
  <2>1. CASE Abandoned(j, rq)
    BY <1>9, <1>10, <2>1, MapRemoved, SMTT(30)
  <2>2. CASE ~ Abandoned(j, rq)
    BY <1>9, <2>2, Zenon
  <2> QED
    BY <2>1, <2>2, Zenon
<1>23. JobsInv'
  <2>1. ASSUME NEW q \in Peer, peer'[q].pc = "waiting"
        PROVE  jobs'[peer'[q].job].request = Identified(q)'
    <3>1. q # p
      BY <1>11, <1>14, <2>1, Zenon
    <3>2. peer[q].pc = "waiting" /\ peer'[q] = peer[q]
      BY <1>11, <2>1, <3>1, Zenon
    <3>3. peer[q].job \in Job /\ jobs[peer[q].job].request = Identified(q)
      BY <3>2, WaitingJob, Zenon DEF WorkInv
    <3>4. CASE peer[q].job # j
      BY <1>12, <1>19, <3>1, <3>2, <3>3, <3>4, Zenon
    <3>5. CASE peer[q].job = j
      <4>1. u.waiters # 0
        <5> DEFINE V == {o \in Peer : peer'[o].job = j}
        <5>1. q \in V
          BY <3>2, <3>5, Zenon
        <5>2. IsFiniteSet(V)
          BY CacheConfig, FS_Subset, SMTT(30) DEF Peer
        <5>3. Cardinality(V) # 0
          BY <5>1, <5>2, FS_EmptySet, Zenon
        <5>4. u.waiters = Cardinality(V)
          BY <1>4, <1>13, <1>15, Zenon
        <5> QED
          BY <5>3, <5>4, Zenon
      <4>2. jobs'[j].request = jobs[j].request
        BY ONLY <1>15, <1>19, <1>20, <4>1, SMTT(30)
      <4> QED
        BY <1>12, <3>1, <3>2, <3>3, <3>5, <4>2, Zenon
    <3> QED
      BY <3>4, <3>5, Zenon
  <2>2. ASSUME NEW k \in Job
        PROVE  /\ jobs'[k].waiters = Cardinality({q \in Peer : peer'[q].job = k})
               /\ jobs'[k] = FREE \/ jobs'[k].waiters > 0 \/ k \in Range(regeneration')
               /\ Answers(jobs'[k])
    <3>1. CASE k # j
      BY ONLY <1>6, <1>13, <1>19, <1>22, <3>1, k \in Job, ZenonT(40)
    <3>2. CASE k = j /\ gone
      <4>1. jobs'[j] = FREE /\ Cardinality({q \in Peer : peer'[q].job = j}) = 0
        BY ONLY <1>4, <1>13, <1>15, <1>19, <1>20, <3>2, Zenon
      <4> QED
        BY ONLY <1>18, <3>2, <4>1, Zenon DEF Answers
    <3>3. CASE k = j /\ ~ gone
      <4>1. jobs'[j] = u /\ u.waiters = Cardinality({q \in Peer : peer'[q].job = j})
        BY ONLY <1>4, <1>13, <1>15, <1>19, <3>3, Zenon
      <4>2. Answers(u)
        BY ONLY <1>4, <1>6, <1>15, Zenon DEF Answers
      <4>3. mapped => j \in Range(regeneration')
        BY <1>9, <3>3, SMTT(30) DEF Range
      <4> QED
        BY ONLY <1>21, <3>3, <4>1, <4>2, <4>3, Zenon
    <3> QED
      BY <3>1, <3>2, <3>3, Zenon
  <2> QED
    BY <2>1, <2>2, Zenon DEF JobsInv, Answers
<1>24. /\ pending \in Seq(Req) /\ IsInjective(pending) /\ Range(pending) \subseteq D
       /\ Cardinality(D) <= MaxRegenerations /\ IsFiniteSet(D) /\ D \subseteq Req
       /\ regeneration \in [D -> Job]
  BY SMTT(30) DEF WorkInv, WorkType, MapInv
<1>25. ASSUME NEW r \in D
       PROVE  LET z == jobs[regeneration[r]] IN
              /\ r.identity.epoch = epoch /\ z.request = r
              /\ r \in Range(pending) <=> ~ z.running
              /\ z.running /\ ~ z.done => relay.request = r
  BY Zenon DEF WorkInv, MapInv
<1>26. ASSUME NEW r \in D, r # rq
       PROVE  jobs'[regeneration[r]] = jobs[regeneration[r]]
  <2>1. regeneration[r] # j /\ regeneration[r] \in Job
    BY <1>4, <1>26, MapInjective, Zenon DEF WorkInv
  <2> QED
    BY ONLY <1>19, <2>1, SMTT(30)
<1>27. epoch' = epoch /\ relay' = relay
  BY SMTT(30)
<1>28. /\ \A q \in Peer : q # p => peer'[q].entry = peer[q].entry
       /\ peer'[p].entry \in {NONE, jobs[j].result}
       /\ \A k \in Job : jobs'[k].result \in {NONE, jobs[k].result}
  <2>1. \A k \in Job : jobs'[k].result \in {NONE, jobs[k].result}
    BY ONLY <1>15, <1>18, <1>19, Zenon
  <2> QED
    BY <1>7, <1>8, <1>11, <2>1, Zenon
<1>29. CASE Abandoned(j, rq)
  <2>1. /\ regeneration' = Restrict(regeneration, D \ {rq}) /\ mapped
        /\ pending' = Kept(pending, Range(pending) \ {rq})
    BY <1>9, <1>10, <1>29, Zenon
  <2>2. /\ DOMAIN regeneration' = D \ {rq} /\ regeneration' \in [DOMAIN regeneration' -> Job]
        /\ DOMAIN regeneration' \subseteq Req /\ IsFiniteSet(DOMAIN regeneration')
        /\ Cardinality(DOMAIN regeneration') <= MaxRegenerations
        /\ \A r \in DOMAIN regeneration' : regeneration'[r] = regeneration[r]
    BY <2>1, MapRemoved, Zenon
  <2>3. /\ pending' \in Seq(Req) /\ IsInjective(pending') /\ Range(pending') = Range(pending) \ {rq}
    BY <1>24, <2>1, EraseList, Zenon
  <2>4. WorkType'
    BY <1>19, <2>2, <2>3, Zenon DEF WorkType
  <2>5. Range(pending') \subseteq D \ {rq}
    BY <1>24, <2>3, Zenon
  <2>6. ASSUME NEW r \in D \ {rq}
        PROVE  LET z == jobs'[regeneration[r]] IN
               /\ r.identity.epoch = epoch /\ z.request = r
               /\ r \in Range(pending') <=> ~ z.running
               /\ z.running /\ ~ z.done => relay.request = r
    BY ONLY <1>25, <1>26, <2>3, r \in D \ {rq}, Zenon
  <2>7. MapInv'
    BY ONLY <1>27, <2>2, <2>3, <2>5, <2>6, ZenonT(40) DEF MapInv
  <2> QED
    BY <1>11, <1>23, <1>28, <2>4, <2>7, Zenon DEF WorkInv, j, x
<1>30. CASE ~ Abandoned(j, rq)
  <2>1. regeneration' = regeneration /\ pending' = pending
    BY <1>9, <1>30, Zenon
  <2>2. WorkType'
    BY <1>19, <1>24, <2>1, Zenon DEF WorkType
  <2>3. ASSUME NEW r \in D
        PROVE  LET z == jobs'[regeneration[r]] IN
               /\ r.identity.epoch = epoch /\ z.request = r
               /\ r \in Range(pending) <=> ~ z.running
               /\ z.running /\ ~ z.done => relay.request = r
    <3>1. CASE r # rq
      BY ONLY <1>25, <1>26, <3>1, r \in D, Zenon
    <3>2. CASE r = rq /\ regeneration[r] = j
      <4>1. jobs'[j] = u
        BY ONLY <1>19, <1>30, <3>2, r \in D, Zenon
      <4> QED
        BY ONLY <1>15, <1>25, <3>2, <4>1, r \in D, Zenon
    <3>3. CASE r = rq /\ regeneration[r] # j
      <4>1. regeneration[r] \in Job
        BY <1>24, Zenon
      <4>2. jobs'[regeneration[r]] = jobs[regeneration[r]]
        BY ONLY <1>19, <3>3, <4>1, Zenon
      <4> QED
        BY ONLY <1>25, <4>2, r \in D, Zenon
    <3> QED
      BY <3>1, <3>2, <3>3, Zenon
  <2>4. MapInv'
    BY ONLY <1>24, <1>27, <2>1, <2>3, Zenon DEF MapInv
  <2> QED
    BY <1>11, <1>23, <1>28, <2>2, <2>4, Zenon DEF WorkInv, j, x
<1> QED
  BY <1>29, <1>30, Zenon


=============================================================================
