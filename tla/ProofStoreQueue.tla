--------------------------- MODULE ProofStoreQueue ---------------------------
(*****************************************************************************)
(* The queue of ProofStore, for any number of threads, any limits and any    *)
(* sizes: the counters account for exactly the blocks in the pipeline.       *)
(*****************************************************************************)
EXTENDS ProofStoreLemmas, WellFoundedInduction, FiniteSetTheorems

-----------------------------------------------------------------------------
(* Sums of accounted bytes.  Induction is over the least counterexample, a *)
(* set of naturals.                                                        *)

\* A nonempty set of naturals has a least element.
LEMMA LeastNat ==
    ASSUME NEW T, T \subseteq Nat, T # {}
    PROVE  \E m \in T : \A k \in T : m <= k
<1> DEFINE R == {ss \in Nat \X Nat : ss[1] < ss[2]}
<1>1. IsWellFoundedOn(R, Nat)
  BY NatLessThanWellFounded, Zenon DEF OpToRel
<1>2. ASSUME NEW k \in Nat, NEW m \in Nat, <<k, m>> \notin R
      PROVE  m <= k
  <2>1. <<k, m>> \in Nat \X Nat /\ <<k, m>>[1] = k /\ <<k, m>>[2] = m
    BY Zenon
  <2>2. ~(k < m)
    BY ONLY <1>2, <2>1, Zenon
  <2> QED
    BY ONLY <2>2, k \in Nat, m \in Nat, SMTT(30)
<1> HIDE DEF R
<1>3. \E m \in T : \A k \in T : ~(<<k, m>> \in R)
  BY <1>1, WFMin, Zenon
<1> QED
  BY <1>2, <1>3, Zenon

\* f[n] is the size of the first n points of b.
Sums(b, f, n) == f = [i \in 0 .. n |-> IF i = 0 THEN 0 ELSE f[i - 1] + Bytes(b[i])]

\* There is such a function for every batch.
LEMMA SumsExist ==
    ASSUME NEW b, NEW n \in Nat
    PROVE  \E f : Sums(b, f, n)
<1> DEFINE T == {k \in Nat : ~\E f : Sums(b, f, k)}
<1> SUFFICES ASSUME T # {} PROVE FALSE
  BY Zenon
<1>1. PICK m \in T : \A k \in T : m <= k
  BY LeastNat, Zenon
<1>2. m \in Nat /\ ~\E f : Sums(b, f, m)
  BY Zenon
<1>3. m # 0
  <2>1. Sums(b, [i \in 0 .. 0 |-> 0], 0)
    BY DEF Sums
  <2> QED
    BY <1>2, <2>1, Zenon
<1>4. m - 1 \in Nat /\ m - 1 \notin T
  BY <1>1, <1>2, <1>3, SMTT(30)
<1>5. PICK f : Sums(b, f, m - 1)
  BY <1>4, Zenon
<1> DEFINE g == [i \in 0 .. m |-> IF i = m THEN f[m - 1] + Bytes(b[m]) ELSE f[i]]
<1> HIDE DEF T
<1>6. ASSUME NEW i \in 0 .. m
      PROVE  g[i] = IF i = 0 THEN 0 ELSE g[i - 1] + Bytes(b[i])
  <2>1. CASE i = 0
    BY <1>2, <1>3, <1>4, <1>5, <2>1, SMTT(30) DEF Sums
  <2>2. CASE i = m
    <3>1. g[i - 1] = f[m - 1]
      BY <1>2, <1>3, <2>2, SMTT(30)
    <3> QED
      BY <1>3, <2>2, <3>1, Zenon
  <2>3. CASE i # 0 /\ i # m
    <3>1. g[i] = f[i] /\ g[i - 1] = f[i - 1]
      BY <1>2, <2>3, SMTT(30)
    <3>2. i \in 0 .. m - 1
      BY <1>2, <2>3, SMTT(30)
    <3>3. f[i] = f[i - 1] + Bytes(b[i])
      BY <1>5, <2>3, <3>2, Zenon DEF Sums
    <3> QED
      BY <2>3, <3>1, <3>3, Zenon
  <2> QED
    BY <2>1, <2>2, <2>3, Zenon
<1>7. Sums(b, g, m)
  <2>1. g = [i \in 0 .. m |-> g[i]]
    BY Zenon
  <2> QED
    BY <1>6, <2>1, Zenon DEF Sums
<1> QED
  BY <1>2, <1>7, Zenon

\* The function BatchBytes is defined by.
SumsOf(b) == CHOOSE f : Sums(b, f, Len(b))

\* BatchBytes adds up the sizes of the points of the batch, which are numbers.
LEMMA BatchBytesSum ==
    ASSUME NEW b, Len(b) \in Nat
    PROVE  /\ BatchBytes(b) = SumsOf(b)[Len(b)]
           /\ SumsOf(b)[0] = 0
           /\ \A i \in 1 .. Len(b) : SumsOf(b)[i] = SumsOf(b)[i - 1] + Bytes(b[i])
<1>1. \E f : Sums(b, f, Len(b))
  BY SumsExist, Zenon
<1>2. Sums(b, SumsOf(b), Len(b))
  BY <1>1, Zenon DEF SumsOf
<1>3. BatchBytes(b) = SumsOf(b)[Len(b)]
  BY Zenon DEF BatchBytes, SumsOf, Sums
<1> DEFINE F == SumsOf(b)
<1> HIDE DEF F
<1>4. F = [i \in 0 .. Len(b) |-> IF i = 0 THEN 0 ELSE F[i - 1] + Bytes(b[i])]
  BY <1>2, Zenon DEF F, Sums
<1>5. F[0] = 0 /\ \A i \in 1 .. Len(b) : F[i] = F[i - 1] + Bytes(b[i])
  BY <1>4
<1> QED
  BY <1>3, <1>5, Zenon DEF F

\* Every partial sum is a number.
LEMMA SumsType ==
    ASSUME NEW b, Len(b) \in Nat, \A i \in 1 .. Len(b) : Bytes(b[i]) \in Nat
    PROVE  \A n \in 0 .. Len(b) : SumsOf(b)[n] \in Nat
<1> DEFINE T == {k \in 0 .. Len(b) : SumsOf(b)[k] \notin Nat}
<1> SUFFICES ASSUME T # {} PROVE FALSE
  BY Zenon
<1>0. T \subseteq Nat
  OBVIOUS
<1>1. PICK m \in T : \A k \in T : m <= k
  BY <1>0, LeastNat, Zenon
<1>2. m \in 0 .. Len(b) /\ SumsOf(b)[m] \notin Nat
  BY Zenon
<1>3. m # 0
  BY <1>2, BatchBytesSum, SMTT(30)
<1>4. m \in 1 .. Len(b) /\ m - 1 \in 0 .. Len(b) /\ m - 1 \notin T
  BY <1>1, <1>2, <1>3, SMTT(30)
<1>5. SumsOf(b)[m - 1] \in Nat
  BY <1>4, Zenon
<1>6. SumsOf(b)[m] = SumsOf(b)[m - 1] + Bytes(b[m]) /\ Bytes(b[m]) \in Nat
  BY <1>4, BatchBytesSum, Zenon
<1> QED
  BY ONLY <1>2, <1>5, <1>6, SMTT(30)

\* b is a followed by c, all of them blocks.
Splits(a, b, c) ==
    /\ Len(a) \in Nat /\ Len(c) \in Nat /\ Len(b) = Len(a) + Len(c)
    /\ \A i \in 1 .. Len(a) : b[i] = a[i] /\ Bytes(a[i]) \in Nat
    /\ \A i \in 1 .. Len(c) : b[Len(a) + i] = c[i] /\ Bytes(c[i]) \in Nat

\* The size of a batch is that of its two parts: with the first part a whole
\* queue and the second one block, what Push adds; with the first part a batch
\* and the second the rest of the queue, what Publish subtracts.
LEMMA BatchBytesSplit ==
    ASSUME NEW a, NEW b, NEW c, Splits(a, b, c)
    PROVE  /\ BatchBytes(b) = BatchBytes(a) + BatchBytes(c)
           /\ BatchBytes(a) \in Nat /\ BatchBytes(c) \in Nat
<1> USE DEF Splits
<1>0. Len(b) \in Nat /\ \A i \in 1 .. Len(b) : Bytes(b[i]) \in Nat
  <2>1. ASSUME NEW i \in 1 .. Len(b)
        PROVE  Bytes(b[i]) \in Nat
    <3>1. CASE i <= Len(a)
      BY <3>1, SMTT(30)
    <3>2. CASE i > Len(a)
      <4>1. i - Len(a) \in 1 .. Len(c) /\ Len(a) + (i - Len(a)) = i
        BY <3>2
      <4> QED
        BY <4>1, Zenon
    <3> QED
      BY <3>1, <3>2
  <2> QED
    BY <2>1
<1> DEFINE A == SumsOf(a)
           B == SumsOf(b)
           C == SumsOf(c)
<1>1. /\ \A n \in 0 .. Len(a) : A[n] \in Nat
      /\ \A n \in 0 .. Len(b) : B[n] \in Nat
      /\ \A n \in 0 .. Len(c) : C[n] \in Nat
  BY <1>0, SumsType, Zenon
<1>2. /\ BatchBytes(a) = A[Len(a)] /\ A[0] = 0 /\ \A i \in 1 .. Len(a) : A[i] = A[i - 1] + Bytes(a[i])
      /\ BatchBytes(b) = B[Len(b)] /\ B[0] = 0 /\ \A i \in 1 .. Len(b) : B[i] = B[i - 1] + Bytes(b[i])
      /\ BatchBytes(c) = C[Len(c)] /\ C[0] = 0 /\ \A i \in 1 .. Len(c) : C[i] = C[i - 1] + Bytes(c[i])
  BY <1>0, BatchBytesSum, Zenon
<1> HIDE DEF A, B, C
<1>3. \A k \in 0 .. Len(a) : B[k] = A[k]
  <2> DEFINE T == {k \in 0 .. Len(a) : B[k] # A[k]}
  <2> SUFFICES ASSUME T # {} PROVE FALSE
    BY Zenon
  <2>0. T \subseteq Nat
    OBVIOUS
  <2>1. PICK m \in T : \A k \in T : m <= k
    BY <2>0, LeastNat, Zenon
  <2>2. m \in 0 .. Len(a) /\ B[m] # A[m]
    BY Zenon
  <2> HIDE DEF T
  <2>3. m # 0
    BY <1>2, <2>2, Zenon
  <2>4. m \in 1 .. Len(a) /\ m \in 1 .. Len(b) /\ m - 1 \in 0 .. Len(a) /\ m - 1 \notin T
    BY <1>0, <2>1, <2>2, <2>3, SMTT(30)
  <2>5. B[m - 1] = A[m - 1]
    BY <2>4, Zenon DEF T
  <2>6. B[m] = B[m - 1] + Bytes(b[m]) /\ A[m] = A[m - 1] + Bytes(a[m]) /\ b[m] = a[m]
    BY <1>2, <2>4, Zenon
  <2> QED
    BY ONLY <2>2, <2>5, <2>6, Zenon
<1>4. \A k \in 0 .. Len(c) : B[Len(a) + k] = B[Len(a)] + C[k]
  <2> DEFINE T == {k \in 0 .. Len(c) : B[Len(a) + k] # B[Len(a)] + C[k]}
  <2> SUFFICES ASSUME T # {} PROVE FALSE
    BY Zenon
  <2>0. T \subseteq Nat
    OBVIOUS
  <2>1. PICK m \in T : \A k \in T : m <= k
    BY <2>0, LeastNat, Zenon
  <2>2. m \in 0 .. Len(c) /\ B[Len(a) + m] # B[Len(a)] + C[m]
    BY Zenon
  <2> HIDE DEF T
  <2>3. B[Len(a)] \in Nat /\ Len(a) + 0 = Len(a)
    BY <1>0, <1>1, SMTT(30)
  <2>4. m # 0
    BY <1>2, <2>2, <2>3, SMTT(30)
  <2>5. /\ m \in 1 .. Len(c) /\ Len(a) + m \in 1 .. Len(b) /\ m - 1 \in 0 .. Len(c)
        /\ Len(a) + m - 1 = Len(a) + (m - 1) /\ Len(a) + (m - 1) \in 0 .. Len(b) /\ m - 1 \notin T
    BY <1>0, <2>1, <2>2, <2>4, SMTT(30)
  <2>6. B[Len(a) + (m - 1)] = B[Len(a)] + C[m - 1]
    BY <2>5, Zenon DEF T
  <2>7. B[Len(a) + m] = B[Len(a) + (m - 1)] + Bytes(b[Len(a) + m]) /\ b[Len(a) + m] = c[m]
    BY <1>2, <2>5, SMTT(30)
  <2>8. C[m] = C[m - 1] + Bytes(c[m]) /\ C[m - 1] \in Nat /\ Bytes(c[m]) \in Nat
    BY <1>1, <1>2, <2>5, Zenon
  <2> QED
    BY ONLY <2>2, <2>3, <2>6, <2>7, <2>8, SMTT(30)
<1>5. /\ A[Len(a)] \in Nat /\ C[Len(c)] \in Nat
      /\ B[Len(a)] = A[Len(a)] /\ B[Len(a) + Len(c)] = B[Len(a)] + C[Len(c)]
  BY <1>1, <1>3, <1>4, SMTT(30)
<1> QED
  BY <1>2, <1>3, <1>4, <1>5, Zenon

-----------------------------------------------------------------------------
(* What leaves each part of AccountInv alone.                              *)

\* A block has a size.
LEMMA BytesType ==
    ASSUME NEW p \in Chain, Height(p) > 0
    PROVE  Bytes(p) \in Nat
<1>1. p \in Seq(Label) /\ Len(p) \in 1 .. Len(p)
  BY DEF Chain, Height
<1>2. p[Len(p)] \in Label
  BY <1>1
<1> QED
  BY <1>2, ConfigAssumption, Zenon DEF Bytes

\* The queue holds blocks, in order.
LEMMA QueuedFacts ==
    ASSUME TypeOK, PipeInv
    PROVE  /\ Len(QueuedPoints) = queued_blocks
           /\ \A i \in 1 .. queued_blocks :
                /\ QueuedPoints[i] = At(enqueued_point, Height(durable_point) + i)
                /\ Bytes(QueuedPoints[i]) \in Nat
<1>1. /\ durable_point \in Chain /\ enqueued_point \in Chain /\ queued_blocks \in Nat
      /\ Height(durable_point) \in Nat /\ Height(enqueued_point) \in Nat
  BY PipeTypes, Zenon
<1>2. queued_blocks = Height(enqueued_point) - Height(durable_point)
  BY Zenon DEF PipeInv
<1>3. Len(QueuedPoints) = queued_blocks
  BY <1>1 DEF QueuedPoints
<1>4. ASSUME NEW i \in 1 .. queued_blocks
      PROVE  /\ QueuedPoints[i] = At(enqueued_point, Height(durable_point) + i)
             /\ Bytes(QueuedPoints[i]) \in Nat
  <2>1. QueuedPoints[i] = At(enqueued_point, Height(durable_point) + i)
    BY Zenon DEF QueuedPoints
  <2>2. Height(durable_point) + i \in 0 .. Height(enqueued_point) /\ Height(durable_point) + i > 0
    BY <1>1, <1>2, SMTT(30)
  <2>3. At(enqueued_point, Height(durable_point) + i) \in Chain
        /\ Height(At(enqueued_point, Height(durable_point) + i)) > 0
    BY <1>1, <2>2, AtType, Zenon
  <2> QED
    BY <2>1, <2>3, BytesType, Zenon
<1> QED
  BY <1>3, <1>4, Zenon

\* The size of the queue is a number.
LEMMA QueuedBytesType ==
    ASSUME TypeOK, PipeInv, BytesExact
    PROVE  queued_bytes \in Nat
<1>1. Len(QueuedPoints) \in Nat /\ \A i \in 1 .. Len(QueuedPoints) : Bytes(QueuedPoints[i]) \in Nat
  BY QueuedFacts, PipeTypes, Zenon
<1> QED
  BY <1>1, BatchBytesSum, SumsType, SMTT(30) DEF BytesExact

\* Sizes, limits and the flush request depend on the tips and their counters.
LEMMA CountersFrame ==
    ASSUME BytesExact, WithinLimits, FlushPending,
           UNCHANGED <<durable_point, enqueued_point, queued_blocks, queued_bytes, flush_height>>
    PROVE  BytesExact' /\ WithinLimits' /\ FlushPending'
<1>1. QueuedPoints' = QueuedPoints
  BY Zenon DEF QueuedPoints
<1>2. BytesExact'
  BY <1>1, Zenon DEF BytesExact, BatchBytes, Bytes
<1> QED
  BY <1>2, Zenon DEF WithinLimits, FlushPending

\* A step that moves no block keeps them covered.
LEMMA CoveredFrame ==
    ASSUME AllCovered, failed' = failed,
           UNCHANGED <<durable_point, enqueued_point, input, batch, ready, serializer>>
    PROVE  AllCovered'
<1>1. \A h : Covered(h)' <=> Covered(h)
  BY Zenon DEF Covered, IsReady, Working
<1> QED
  BY <1>1, Zenon DEF AllCovered

\* With one tip, no counter and no flush request there is nothing to account.
LEMMA AccountFresh ==
    ASSUME Height(durable_point') \in Nat, enqueued_point' = durable_point',
           queued_blocks' = 0, queued_bytes' = 0, flush_height' = 0, input' = <<>>, batch' = <<>>
    PROVE  AccountInv'
<1>1. AllCovered'
  BY DEF AllCovered
<1>2. BytesExact'
  <2>1. QueuedPoints' = [i \in 1 .. 0 |-> At(enqueued_point', Height(durable_point') + i)]
    BY Zenon DEF QueuedPoints
  <2>2. Len(QueuedPoints') = 0
    BY <2>1
  <2>3. BatchBytes(QueuedPoints') = 0
    BY <2>2, BatchBytesSum
  <2> QED
    BY <2>3, Zenon DEF BytesExact, BatchBytes, Bytes
<1>3. WithinLimits' /\ FlushPending'
  BY ConfigAssumption DEF WithinLimits, FlushPending
<1> QED
  BY <1>1, <1>2, <1>3, Zenon DEF AccountInv

\* An empty queue counts no bytes and nobody asks for a flush.
LEMMA AccountEmpty ==
    ASSUME TypeOK, PipeInv, AccountInv, durable_point = enqueued_point
    PROVE  queued_blocks = 0 /\ queued_bytes = 0 /\ flush_height = 0 /\ input = <<>> /\ batch = <<>>
<1>1. queued_blocks = 0 /\ input = <<>> /\ batch = <<>>
  BY EmptyPipe, Zenon
<1>2. Len(QueuedPoints) = 0
  BY <1>1 DEF QueuedPoints
<1>3. queued_bytes = 0
  BY <1>2, BatchBytesSum, SMTT(30) DEF AccountInv, BytesExact
<1>4. flush_height = 0
  BY PipeTypes DEF AccountInv, FlushPending, TypeOK
<1> QED
  BY <1>1, <1>3, <1>4, Zenon

-----------------------------------------------------------------------------
(* The threads.                                                            *)

\* A serializer takes the first block of the input queue and hands it to the
\* ready map; only a failure loses one.
LEMMA AccountSerializer ==
    ASSUME IndInv, AccountInv, NEW s \in Serializer, SerializerStep(s)
    PROVE  AccountInv'
<1> USE DEF queue, threads
<1>0. TypeOK /\ PipeInv /\ AllCovered
  BY Zenon DEF IndInv, AccountInv
<1>1. UNCHANGED <<durable_point, enqueued_point, queued_blocks, queued_bytes, flush_height, batch>>
  BY Zenon DEF SerializerStep, SerializerTake, SerializerSleep, SerializerExit, SerializerPublish,
    SerializerFail
<1>2. BytesExact' /\ WithinLimits' /\ FlushPending'
  BY <1>1, CountersFrame, Zenon DEF AccountInv
<1>3. AllCovered'
  <2>1. CASE SerializerTake(s)
    <3>1. /\ serializer[s].at = "wait" /\ input # <<>> /\ ~failed
          /\ input' = Tail(input) /\ ready' = ready
          /\ serializer' = [serializer EXCEPT ![s] = [at |-> "work", item |-> Head(input)]]
      BY <2>1, Zenon DEF SerializerTake
    <3>2. /\ Len(input) \in Nat /\ Len(input) >= 1 /\ Len(input') = Len(input) - 1
          /\ Head(input) = input[1]
      BY <1>0, <3>1, PipeTypes, SMTT(30)
    <3>3. /\ Height(durable_point) \in Nat /\ Height(enqueued_point) \in Nat /\ Len(batch) \in Nat
          /\ enqueued_point \in Chain
          /\ Height(durable_point) + Len(batch) + Len(input) <= Height(enqueued_point)
      BY <1>0, PipeTypes, Zenon DEF PipeInv
    <3>4. input[1] = At(enqueued_point, Height(enqueued_point) - Len(input) + 1)
      BY <1>0, <3>2, SMTT(30) DEF PipeInv
    <3>5. Height(Head(input)) = Height(enqueued_point) - Len(input) + 1
      <4>1. Height(enqueued_point) - Len(input) + 1 \in 0 .. Height(enqueued_point)
        BY <3>2, <3>3, SMTT(30)
      <4> QED
        BY <3>2, <3>3, <3>4, <4>1, AtType, Zenon
    <3>6. /\ serializer'[s].at = "work" /\ serializer'[s].item = Head(input)
          /\ \A t \in Serializer : Working(t) => t # s /\ serializer'[t] = serializer[t]
      BY <1>0, <3>1, Zenon DEF TypeOK, Working
    <3>7. ASSUME NEW h, Covered(h)
          PROVE  Covered(h)'
      <4>1. CASE IsReady(h)
        BY <3>1, <4>1, Zenon DEF Covered, IsReady
      <4>2. CASE \E t \in Serializer : Working(t) /\ Height(serializer[t].item) = h
        BY <3>6, <4>2, Zenon DEF Covered, Working
      <4> QED
        BY <3>7, <4>1, <4>2, Zenon DEF Covered
    <3>8. \A h : h = Height(Head(input)) => Covered(h)'
      BY <3>6, Zenon DEF Covered, Working
    <3>9. ASSUME NEW h \in Height(durable_point) + Len(batch) + 1 ..
                           Height(enqueued_point) - Len(input')
          PROVE  Covered(h)'
      <4>1. CASE h = Height(enqueued_point) - Len(input) + 1
        BY <3>5, <3>8, <4>1, Zenon
      <4>2. CASE h # Height(enqueued_point) - Len(input) + 1
        <5>1. h \in Height(durable_point) + Len(batch) + 1 .. Height(enqueued_point) - Len(input)
          BY <3>2, <3>3, <4>2, SMTT(30)
        <5> QED
          BY <1>0, <3>1, <3>7, <5>1, Zenon DEF AllCovered
      <4> QED
        BY <4>1, <4>2, Zenon
    <3> QED
      BY <1>1, <3>9, Zenon DEF AllCovered
  <2>2. CASE SerializerSleep(s)
    BY <1>0, <2>2, CoveredFrame, Zenon DEF SerializerSleep
  <2>3. CASE SerializerExit(s)
    <3>1. /\ failed' = failed /\ UNCHANGED <<input, ready>>
          /\ failed \/ serializer[s].at = "wait"
          /\ serializer' = [serializer EXCEPT ![s] = Exited]
      BY <2>3, Zenon DEF SerializerExit
    <3>2. ~failed => \A t \in Serializer : Working(t) => Working(t)' /\ serializer'[t] = serializer[t]
      BY <1>0, <3>1, Zenon DEF TypeOK, Working
    <3>3. ~failed => \A h : Covered(h) => Covered(h)'
      BY <3>1, <3>2, Zenon DEF Covered, IsReady
    <3> QED
      BY <1>0, <1>1, <3>1, <3>3, Zenon DEF AllCovered
  <2>4. CASE SerializerPublish(s)
    <3>1. /\ failed' = failed /\ input' = input
          /\ ready' = ready \cup {serializer[s].item}
          /\ serializer' = [serializer EXCEPT ![s] = Waiting]
      BY <2>4, Zenon DEF SerializerPublish
    <3>2. \A t \in Serializer : t # s => serializer'[t] = serializer[t]
      BY <1>0, <3>1, Zenon DEF TypeOK
    <3>3. ASSUME NEW h, Covered(h)
          PROVE  Covered(h)'
      <4>1. CASE IsReady(h)
        BY <3>1, <4>1, Zenon DEF Covered, IsReady
      <4>2. CASE \E t \in Serializer : Working(t) /\ Height(serializer[t].item) = h
        BY <3>1, <3>2, <4>2, Zenon DEF Covered, Working, IsReady
      <4> QED
        BY <3>3, <4>1, <4>2, Zenon DEF Covered
    <3> QED
      BY <1>0, <1>1, <3>1, <3>3, Zenon DEF AllCovered
  <2>5. CASE SerializerFail(s)
    BY <2>5, Zenon DEF SerializerFail, SetFailure, AllCovered
  <2> QED
    BY <2>1, <2>2, <2>3, <2>4, <2>5, Zenon DEF SerializerStep
<1> QED
  BY <1>2, <1>3, Zenon DEF AccountInv

\* The writer takes a batch of ready blocks: those above it stay covered.
LEMMA AccountTake ==
    ASSUME IndInv, AccountInv, NEW n \in 1 .. GroupCommitBlocks, batch = <<>>,
           batch' = [i \in 1 .. n |-> ReadyAt(Height(durable_point) + i)],
           ready' = {p \in ready : Height(p) > Height(durable_point) + n},
           UNCHANGED <<durable_point, enqueued_point, queued_blocks, queued_bytes, flush_height,
                       input, serializer, failed>>
    PROVE  AccountInv'
<1>1. BytesExact' /\ WithinLimits' /\ FlushPending'
  BY CountersFrame, Zenon DEF AccountInv
<1>2. Len(batch) = 0 /\ Len(batch') = n /\ n \in Nat
  BY ConfigAssumption
<1>3. /\ Height(durable_point) \in Nat /\ Height(enqueued_point) \in Nat /\ Len(input) \in Nat
  BY PipeTypes, Zenon DEF IndInv
<1>4. ASSUME NEW h \in Nat, h > Height(durable_point) + n, Covered(h)
      PROVE  Covered(h)'
  BY <1>4, Zenon DEF Covered, IsReady, Working
<1>5. ASSUME ~failed, NEW h \in Height(durable_point) + n + 1 .. Height(enqueued_point) - Len(input)
      PROVE  Covered(h)'
  <2>1. /\ h \in Height(durable_point) + 0 + 1 .. Height(enqueued_point) - Len(input)
        /\ h \in Nat /\ h > Height(durable_point) + n
    BY <1>2, <1>3, SMTT(30)
  <2>2. Covered(h)
    BY <1>2, <1>5, <2>1, Zenon DEF AccountInv, AllCovered
  <2> QED
    BY <1>4, <2>1, <2>2, Zenon
<1>6. AllCovered'
  BY <1>2, <1>5, Zenon DEF AllCovered
<1> QED
  BY <1>1, <1>6, Zenon DEF AccountInv

\* Publishing takes the batch out of the queue, with its bytes.
LEMMA AccountPublish ==
    ASSUME IndInv, AccountInv, Running, batch # <<>>, Publish, TypeOK', PipeInv'
    PROVE  AccountInv'
<1>0. TypeOK /\ PipeInv
  BY Zenon DEF IndInv
<1>1. /\ durable_point' = batch[Len(batch)] /\ queued_blocks' = queued_blocks - Len(batch)
      /\ queued_bytes' = queued_bytes - BatchBytes(batch)
      /\ flush_height' = FlushAfter(Height(batch[Len(batch)])) /\ batch' = <<>>
      /\ UNCHANGED <<enqueued_point, input, ready, serializer, failed>>
  BY Zenon DEF Publish
<1>2. /\ Height(durable_point) \in Nat /\ Height(enqueued_point) \in Nat /\ Len(input) \in Nat
      /\ Len(batch) \in Nat /\ batch \in Seq(Chain) /\ queued_blocks \in Nat /\ flush_height \in Nat
  BY <1>0, PipeTypes, Zenon DEF TypeOK
<1>3. Len(batch) >= 1
  BY <1>2
<1>4. Height(durable_point') = Height(durable_point) + Len(batch)
  BY <1>1, PublishType, Zenon
<1>5. AllCovered'
  <2>1. \A h : Covered(h) => Covered(h)'
    BY <1>1, Zenon DEF Covered, IsReady, Working
  <2>2. Height(durable_point') + Len(batch') + 1 = Height(durable_point) + Len(batch) + 1
    BY <1>1, <1>2, <1>4, SMTT(30)
  <2> QED
    BY <1>1, <2>1, <2>2, Zenon DEF AllCovered, AccountInv
<1>6. /\ BatchBytes(QueuedPoints) = BatchBytes(batch) + BatchBytes(QueuedPoints')
      /\ BatchBytes(batch) \in Nat /\ BatchBytes(QueuedPoints') \in Nat
  <2> DEFINE taken == batch
             before == QueuedPoints
             rest == QueuedPoints'
  <2>1. Len(before) = queued_blocks /\ \A i \in 1 .. queued_blocks :
          before[i] = At(enqueued_point, Height(durable_point) + i) /\ Bytes(before[i]) \in Nat
    BY <1>0, QueuedFacts, Zenon
  <2>2. queued_blocks' \in Nat /\ Len(rest) = queued_blocks' /\ \A i \in 1 .. queued_blocks' :
          rest[i] = At(enqueued_point, Height(durable_point') + i)
    BY <1>1, SMTT(30) DEF QueuedPoints, TypeOK
  <2>3. \A i \in 1 .. Len(taken) : taken[i] = At(enqueued_point, Height(durable_point) + i)
    BY <1>0, Zenon DEF PipeInv
  <2> HIDE DEF taken, before, rest
  <2>4. /\ Len(taken) = Len(batch) /\ Len(before) = queued_blocks /\ Len(rest) = queued_blocks'
        /\ Len(before) = Len(taken) + Len(rest) /\ Len(taken) \in Nat /\ Len(rest) \in Nat
    <3>1. Len(taken) = Len(batch)
      BY Zenon DEF taken
    <3> QED
      BY <1>1, <1>2, <2>1, <2>2, <3>1, SMTT(30)
  <2>5. \A i \in 1 .. Len(taken) : before[i] = taken[i] /\ Bytes(taken[i]) \in Nat
    <3>1. \A i \in 1 .. Len(taken) : i \in 1 .. queued_blocks
      BY <1>2, <2>1, <2>2, <2>4, SMTT(30)
    <3> QED
      BY <2>1, <2>3, <3>1, Zenon
  <2>6. \A i \in 1 .. Len(rest) : before[Len(taken) + i] = rest[i] /\ Bytes(rest[i]) \in Nat
    <3> SUFFICES ASSUME NEW i \in 1 .. Len(rest)
                 PROVE  before[Len(taken) + i] = rest[i] /\ Bytes(rest[i]) \in Nat
      BY Zenon
    <3>1. /\ i \in Nat /\ Len(taken) + i \in 1 .. queued_blocks /\ i \in 1 .. queued_blocks'
          /\ Height(durable_point) + (Len(taken) + i) = Height(durable_point') + i
      <4>1. i \in Nat /\ i >= 1 /\ i <= Len(rest)
        BY <2>4
      <4> QED
        BY ONLY <1>2, <1>4, <2>4, <4>1, SMTT(30)
    <3>2. before[Len(taken) + i] = At(enqueued_point, Height(durable_point) + (Len(taken) + i))
          /\ Bytes(before[Len(taken) + i]) \in Nat
      BY <2>1, <3>1, Zenon
    <3>3. rest[i] = At(enqueued_point, Height(durable_point') + i)
      BY <2>2, <3>1, Zenon
    <3> QED
      BY <3>1, <3>2, <3>3, Zenon
  <2>7. Splits(taken, before, rest)
    BY <2>4, <2>5, <2>6, Zenon DEF Splits
  <2>8. /\ BatchBytes(before) = BatchBytes(taken) + BatchBytes(rest)
        /\ BatchBytes(taken) \in Nat /\ BatchBytes(rest) \in Nat
    BY <2>7, BatchBytesSplit, Zenon
  <2> QED
    BY <2>8, Zenon DEF taken, before, rest
<1>7. BytesExact' /\ queued_bytes' \in Nat
  <2>1. queued_bytes = BatchBytes(QueuedPoints)
    BY Zenon DEF AccountInv, BytesExact
  <2>2. queued_bytes' = BatchBytes(QueuedPoints')
    BY <1>1, <1>6, <2>1, SMTT(30)
  <2> QED
    BY <1>6, <2>2, Zenon DEF BytesExact, BatchBytes, Bytes
<1>8. WithinLimits'
  <2>1. queued_bytes \in Nat
    BY <1>0, QueuedBytesType, Zenon DEF AccountInv
  <2>2. /\ queued_blocks <= MaxQueuedBlocks
        /\ queued_bytes <= MaxQueuedBytes \/ queued_blocks = 1
        /\ MaxQueuedBlocks \in Nat /\ MaxQueuedBytes \in Nat
    BY ConfigAssumption, Zenon DEF AccountInv, WithinLimits
  <2>3. queued_blocks' <= MaxQueuedBlocks
    BY <1>1, <1>2, <2>2, SMTT(30)
  <2>4. CASE queued_bytes <= MaxQueuedBytes
    <3>1. queued_bytes' <= MaxQueuedBytes
      BY <1>1, <1>6, <2>1, <2>2, <2>4, SMTT(30)
    <3> QED
      BY <2>3, <3>1, Zenon DEF WithinLimits
  <2>5. CASE queued_blocks = 1
    <3>1. queued_blocks' = 0
      <4> DEFINE L == Len(batch)
      <4>1. queued_blocks' \in Nat /\ queued_blocks' = queued_blocks - L
        BY <1>1, Zenon DEF TypeOK
      <4>2. L \in Nat /\ L >= 1 /\ queued_blocks = 1
        BY <1>2, <1>3, <2>5, Zenon
      <4> HIDE DEF L
      <4> QED
        BY ONLY <4>1, <4>2, SMTT(30)
    <3>2. Len(QueuedPoints') = 0
      BY <3>1 DEF QueuedPoints
    <3>3. BatchBytes(QueuedPoints') = 0
      BY <3>2, BatchBytesSum, SMTT(30)
    <3>4. queued_bytes = BatchBytes(QueuedPoints)
      BY Zenon DEF AccountInv, BytesExact
    <3>5. queued_bytes' = 0
      BY <1>1, <1>6, <3>3, <3>4, SMTT(30)
    <3> QED
      BY <2>2, <2>3, <3>5, SMTT(30) DEF WithinLimits
  <2> QED
    BY <2>2, <2>4, <2>5, Zenon
<1>9. FlushPending'
  <2>1. flush_height' = IF Height(durable_point') >= flush_height THEN 0 ELSE flush_height
    BY <1>1, Zenon DEF FlushAfter
  <2> QED
    BY <1>1, <1>2, <1>4, <2>1, SMTT(30) DEF AccountInv, FlushPending
<1> QED
  BY <1>5, <1>7, <1>8, <1>9, Zenon DEF AccountInv

\* The writer between commits.
LEMMA AccountWriterIdle ==
    ASSUME IndInv, AccountInv,
           WriterBegin \/ WriterGroup \/ WriterTimeout \/ WriterSleep \/ WriterExit
    PROVE  AccountInv'
<1> USE DEF queue, threads
<1>1. UNCHANGED <<durable_point, enqueued_point, queued_blocks, queued_bytes, flush_height, input,
                  serializer, failed>>
  BY Zenon DEF WriterBegin, WriterGroup, WriterTimeout, WriterSleep, WriterExit, TakeBatch
<1>2. writer \in {"wait", "group"} => batch = <<>>
  BY Zenon DEF IndInv, CtlInv, Holding
<1>3. CASE ready' = ready /\ batch' = batch
  <2>1. AllCovered'
    BY <1>1, <1>3, CoveredFrame, Zenon DEF AccountInv
  <2> QED
    BY <1>1, <2>1, CountersFrame, Zenon DEF AccountInv
<1>4. CASE \E n \in 1 .. GroupCommitBlocks :
             /\ batch' = [i \in 1 .. n |-> ReadyAt(Height(durable_point) + i)]
             /\ ready' = {p \in ready : Height(p) > Height(durable_point) + n}
  <2>1. CASE batch = <<>>
    BY <1>1, <1>4, <2>1, AccountTake, Zenon
  <2>2. CASE batch # <<>>
    <3>1. WriterExit
      BY <1>2, <2>2, Zenon DEF WriterBegin, WriterGroup, WriterTimeout, WriterSleep
    <3> QED
      BY <1>3, <3>1, Zenon DEF WriterExit
  <2> QED
    BY <2>1, <2>2, Zenon
<1> QED
  BY <1>3, <1>4, Zenon DEF WriterBegin, WriterGroup, WriterTimeout, WriterSleep, WriterExit, TakeBatch

\* The writer with a batch.
LEMMA AccountCommit ==
    ASSUME IndInv, AccountInv, TypeOK', PipeInv',
           WriteData \/ SyncData \/ WriteWal \/ SyncWal \/ CommitPublish
    PROVE  AccountInv'
<1> USE DEF queue, threads
<1>1. Running /\ batch # <<>>
  <2>1. writer \in Holding
    BY Zenon DEF WriteData, SyncData, WriteWal, SyncWal, CommitPublish, Holding
  <2>2. batch # <<>>
    BY <2>1, Zenon DEF IndInv, CtlInv
  <2> QED
    BY <2>2, CtlWriter, Zenon DEF WriterStep
<1>2. CASE WriterFails
  <2>1. /\ failed' /\ UNCHANGED <<durable_point, enqueued_point, queued_blocks, queued_bytes, flush_height>>
    BY <1>2, Zenon DEF WriterFails, SetFailure
  <2>2. AllCovered'
    BY <2>1, Zenon DEF AllCovered
  <2> QED
    BY <2>1, <2>2, CountersFrame, Zenon DEF AccountInv
<1>3. CASE \E at \in {"data_sync", "wal", "wal_sync", "publish"} : WriterGoesTo(at)
  <2>1. UNCHANGED <<durable_point, enqueued_point, queued_blocks, queued_bytes, flush_height, input,
                    batch, ready, serializer, failed>>
    BY <1>3, Zenon DEF WriterGoesTo
  <2>2. AllCovered'
    BY <2>1, CoveredFrame, Zenon DEF AccountInv
  <2> QED
    BY <2>1, <2>2, CountersFrame, Zenon DEF AccountInv
<1>4. CASE Publish
  BY <1>1, <1>4, AccountPublish, Zenon
<1> QED
  BY <1>2, <1>3, <1>4, Zenon DEF WriteData, SyncData, WriteWal, SyncWal, CommitPublish

-----------------------------------------------------------------------------
(* The client.                                                             *)

\* Opening and the end of the process leave an empty queue.
LEMMA AccountOpen ==
    ASSUME IndInv, AccountInv, TypeOK', OpenStep \/ Join \/ Kill \/ PowerLoss
    PROVE  AccountInv'
<1> USE DEF queue, threads
<1>1. Height(durable_point') \in Nat
  BY BaseFacts, Zenon DEF TypeOK
<1>2. CASE Join \/ Kill \/ PowerLoss
  BY <1>1, <1>2, AccountFresh, Zenon DEF Join, Kill, PowerLoss, ProcessGone
<1>3. CASE OpenStep
  <2>1. /\ ~Running /\ UNCHANGED <<queued_blocks, queued_bytes, flush_height, input, batch>>
        /\ enqueued_point' = durable_point' \/ UNCHANGED <<durable_point, enqueued_point>>
    BY <1>3, Zenon DEF OpenStep, OpenEmpty, CreateBaseData, SyncBaseData, CreateBaseWal, SyncBaseWal,
      OpenRecover, Running
  <2>2. durable_point = enqueued_point
    BY <2>1, Zenon DEF IndInv, CtlInv
  <2>3. /\ queued_blocks = 0 /\ queued_bytes = 0 /\ flush_height = 0 /\ input = <<>> /\ batch = <<>>
    BY <2>2, AccountEmpty, Zenon DEF IndInv
  <2> QED
    BY <1>1, <2>1, <2>2, <2>3, AccountFresh, Zenon
<1> QED
  BY <1>2, <1>3, Zenon

\* A client step that leaves the pipeline alone, with a flush request for a
\* height between the tips, or none.
LEMMA AccountClientFrame ==
    ASSUME AccountInv, UNCHANGED <<durable_point, enqueued_point, queued_blocks, queued_bytes, input,
                                   batch, ready, serializer, failed>>,
           \/ flush_height' = flush_height
           \/ flush_height' > Height(durable_point) /\ flush_height' <= Height(enqueued_point)
    PROVE  AccountInv'
<1>1. AllCovered'
  BY CoveredFrame, Zenon DEF AccountInv
<1>2. BytesExact'
  <2>1. QueuedPoints' = QueuedPoints
    BY Zenon DEF QueuedPoints
  <2> QED
    BY <2>1, Zenon DEF AccountInv, BytesExact, BatchBytes, Bytes
<1>3. WithinLimits'
  BY Zenon DEF AccountInv, WithinLimits
<1>4. FlushPending'
  BY Zenon DEF AccountInv, FlushPending
<1> QED
  BY <1>1, <1>2, <1>3, <1>4, Zenon DEF AccountInv

\* The larger of the old request and one between the tips is between the tips.
LEMMA RequestPending ==
    ASSUME TypeOK, AccountInv, NEW h \in Nat, h > Height(durable_point), h <= Height(enqueued_point)
    PROVE  MaxOf(flush_height, h) > Height(durable_point) /\ MaxOf(flush_height, h) <= Height(enqueued_point)
<1>1. Height(durable_point) \in Nat /\ Height(enqueued_point) \in Nat /\ flush_height \in Nat
  BY PipeTypes, Zenon DEF TypeOK
<1> QED
  BY <1>1, SMTT(30) DEF MaxOf, AccountInv, FlushPending

\* Push adds one block and its bytes, where HasCapacity saw room for both.
LEMMA AccountPush ==
    ASSUME IndInv, AccountInv, TypeOK', PipeInv', NEW p \in Chain, Push(p), HasCapacity(p),
           Height(p) = Height(enqueued_point) + 1, At(p, Height(enqueued_point)) = enqueued_point
    PROVE  AccountInv'
<1> USE DEF threads
<1>0. TypeOK /\ PipeInv
  BY Zenon DEF IndInv
<1>1. /\ input' = Append(input, p) /\ queued_blocks' = queued_blocks + 1
      /\ queued_bytes' = queued_bytes + Bytes(p) /\ enqueued_point' = p
      /\ UNCHANGED <<durable_point, flush_height, batch, ready, serializer, failed>>
  BY Zenon DEF Push
<1>2. /\ Height(durable_point) \in Nat /\ Height(enqueued_point) \in Nat /\ Len(input) \in Nat
      /\ input \in Seq(Chain) /\ queued_blocks \in Nat /\ flush_height \in Nat
      /\ enqueued_point \in Chain /\ queued_blocks = Height(enqueued_point) - Height(durable_point)
  BY <1>0, PipeTypes, Zenon DEF TypeOK, PipeInv
<1>3. Bytes(p) \in Nat /\ queued_bytes \in Nat
  BY <1>0, <1>2, BytesType, QueuedBytesType, SMTT(30) DEF AccountInv
<1>4. AllCovered'
  <2>1. \A h : Covered(h) => Covered(h)'
    BY <1>1, Zenon DEF Covered, IsReady, Working
  <2>2. Len(input') = Len(input) + 1
    BY <1>1, <1>2, SMTT(30)
  <2>3. Height(enqueued_point') - Len(input') = Height(enqueued_point) - Len(input)
    BY <1>1, <1>2, <2>2, SMTT(30)
  <2> QED
    BY <1>1, <2>1, <2>3, Zenon DEF AllCovered, AccountInv
<1>5. BytesExact'
  <2> DEFINE before == QueuedPoints
             all == QueuedPoints'
  <2>1. Len(before) = queued_blocks /\ \A i \in 1 .. queued_blocks :
          before[i] = At(enqueued_point, Height(durable_point) + i) /\ Bytes(before[i]) \in Nat
    BY <1>0, QueuedFacts, Zenon
  <2>2. queued_blocks' \in Nat /\ Len(all) = queued_blocks' /\ \A i \in 1 .. queued_blocks' :
          all[i] = At(p, Height(durable_point) + i)
    BY <1>1, SMTT(30) DEF QueuedPoints, TypeOK
  <2> HIDE DEF before, all
  <2>3. \A i \in 1 .. queued_blocks : all[i] = before[i]
    <3> SUFFICES ASSUME NEW i \in 1 .. queued_blocks
                 PROVE  all[i] = before[i]
      BY Zenon
    <3>1. /\ i \in 1 .. queued_blocks' /\ Height(durable_point) + i \in 0 .. Height(enqueued_point)
          /\ Height(enqueued_point) \in 0 .. Height(p)
      BY <1>1, <1>2, SMTT(30)
    <3>2. all[i] = At(p, Height(durable_point) + i)
          /\ before[i] = At(enqueued_point, Height(durable_point) + i)
      BY <2>1, <2>2, <3>1, Zenon
    <3>3. At(At(p, Height(enqueued_point)), Height(durable_point) + i) = At(p, Height(durable_point) + i)
      BY <3>1, AtAt, Zenon
    <3> QED
      BY <3>2, <3>3, Zenon
  <2>4. all[queued_blocks + 1] = p
    <3>1. queued_blocks + 1 \in 1 .. queued_blocks' /\ Height(durable_point) + (queued_blocks + 1) = Height(p)
      BY <1>1, <1>2, SMTT(30)
    <3> QED
      BY <2>2, <3>1, AtSelf, Zenon
  <2>5. Splits(before, all, <<p>>)
    <3>1. Len(<<p>>) = 1 /\ <<p>>[1] = p
      BY Zenon
    <3>2. Len(before) \in Nat /\ Len(<<p>>) \in Nat /\ Len(all) = Len(before) + Len(<<p>>)
      BY <1>1, <1>2, <2>1, <2>2, <3>1, Zenon
    <3>3. \A i \in 1 .. Len(before) : all[i] = before[i] /\ Bytes(before[i]) \in Nat
      BY <2>1, <2>3, Zenon
    <3>4. \A i \in 1 .. Len(<<p>>) : all[Len(before) + i] = <<p>>[i] /\ Bytes(<<p>>[i]) \in Nat
      <4>1. \A i \in 1 .. Len(<<p>>) : i = 1
        BY <3>1
      <4> QED
        BY <1>3, <2>1, <2>4, <3>1, <4>1, Zenon
    <3> QED
      BY <3>2, <3>3, <3>4, Zenon DEF Splits
  <2>6. BatchBytes(all) = BatchBytes(before) + BatchBytes(<<p>>)
    BY <2>5, BatchBytesSplit, Zenon
  <2>7. BatchBytes(<<p>>) = Bytes(p)
    <3> DEFINE one == <<p>>
    <3>1. Len(one) = 1 /\ one[1] = p
      BY Zenon
    <3> HIDE DEF one
    <3>2. /\ BatchBytes(one) = SumsOf(one)[1] /\ SumsOf(one)[0] = 0
          /\ SumsOf(one)[1] = SumsOf(one)[1 - 1] + Bytes(one[1])
      BY <3>1, BatchBytesSum, SMTT(30)
    <3>3. BatchBytes(one) = Bytes(p)
      BY <1>3, <3>1, <3>2, SMTT(30)
    <3> QED
      BY <3>3, Zenon DEF one
  <2>8. queued_bytes = BatchBytes(before)
    BY Zenon DEF AccountInv, BytesExact, before
  <2>9. queued_bytes' = BatchBytes(all)
    BY <1>1, <2>6, <2>7, <2>8, Zenon
  <2> QED
    BY <2>9, Zenon DEF BytesExact, BatchBytes, Bytes, all
<1>6. WithinLimits'
  <2>1. MaxQueuedBlocks \in Nat /\ MaxQueuedBlocks >= 1 /\ MaxQueuedBytes \in Nat
    BY ConfigAssumption, SMTT(30)
  <2>2. /\ queued_blocks \in Nat /\ queued_bytes \in Nat /\ Bytes(p) \in Nat
        /\ queued_blocks' = queued_blocks + 1 /\ queued_bytes' = queued_bytes + Bytes(p)
    BY <1>1, <1>2, <1>3, Zenon
  <2> QED
    BY ONLY HasCapacity(p), <2>1, <2>2, SMTT(30) DEF WithinLimits, HasCapacity
<1>7. FlushPending'
  BY <1>1, <1>2, SMTT(30) DEF AccountInv, FlushPending
<1> QED
  BY <1>4, <1>5, <1>6, <1>7, Zenon DEF AccountInv

\* The client's calls, and what it does inside them.
LEMMA AccountClient ==
    ASSUME IndInv, AccountInv, TypeOK', PipeInv', ClientStep \/ ClientCall, ~Join
    PROVE  AccountInv'
<1> USE DEF queue, threads
<1>0. TypeOK /\ PipeInv /\ CtlInv
  BY Zenon DEF IndInv
<1>1. /\ durable_point \in Chain /\ enqueued_point \in Chain /\ Height(durable_point) \in Nat
      /\ Height(enqueued_point) \in Nat
  BY <1>0, PipeTypes, Zenon
<1> DEFINE Still == UNCHANGED <<durable_point, enqueued_point, queued_blocks, queued_bytes, input,
                                batch, ready, serializer, failed>>
<1>2. CASE Still /\ flush_height' = flush_height
  BY <1>2, AccountClientFrame, Zenon
<1>3. ASSUME NEW h \in Nat, h > Height(durable_point), h <= Height(enqueued_point),
             Still, flush_height' = MaxOf(flush_height, h)
      PROVE  AccountInv'
  BY <1>0, <1>3, RequestPending, AccountClientFrame, Zenon
<1>4. IsAncestor(durable_point, enqueued_point)
  BY <1>0, Zenon DEF PipeInv
<1>5. enqueued_point # durable_point => Height(enqueued_point) > Height(durable_point)
  BY <1>1, <1>4, AtSelf, SMTT(30) DEF IsAncestor
<1>6. CASE EnqueueResume
  <2>1. CASE HasCapacity(arg) /\ Push(arg)
    <3>1. arg \in Chain /\ arg # Base /\ Parent(arg) = enqueued_point
      BY <1>0, <1>6, Zenon DEF EnqueueResume, CtlInv, TypeOK
    <3>2. Height(arg) \in Nat /\ Height(arg) # 0
      BY <3>1, BaseFacts, Zenon
    <3>3. Height(arg) - 1 \in 0 .. Height(arg)
      BY <3>2
    <3>4. Height(enqueued_point) = Height(arg) - 1
      BY <3>1, <3>3, AtType, Zenon DEF Parent
    <3>5. Height(arg) = Height(enqueued_point) + 1 /\ At(arg, Height(enqueued_point)) = enqueued_point
      BY <3>1, <3>2, <3>4, SMTT(30) DEF Parent
    <3> QED
      BY <2>1, <3>1, <3>5, AccountPush, Zenon
  <2> QED
    BY <1>2, <1>6, <2>1, Zenon DEF EnqueueResume, Return, SleepAgain
<1>7. CASE WaitResume \/ DrainResume \/ TruncateNothing \/ TruncateWrite
  BY <1>2, <1>7, Zenon DEF WaitResume, DrainResume, TruncateNothing, TruncateWrite, Return, SleepAgain
<1>8. CASE TruncateSync
  <2>1. CASE UNCHANGED <<durable_point, enqueued_point>>
    BY <1>2, <1>8, <2>1, Zenon DEF TruncateSync
  <2>2. CASE enqueued_point' = durable_point'
    <3>1. durable_point = enqueued_point
      BY <1>0, <1>8, Zenon DEF TruncateSync, CtlInv
    <3>2. queued_blocks = 0 /\ queued_bytes = 0 /\ flush_height = 0 /\ input = <<>> /\ batch = <<>>
      BY <1>0, <3>1, AccountEmpty, Zenon
    <3>3. UNCHANGED <<queued_blocks, queued_bytes, flush_height, input, batch>>
      BY <1>8, Zenon DEF TruncateSync
    <3>4. Height(durable_point') \in Nat
      BY BaseFacts, Zenon DEF TypeOK
    <3> QED
      BY <2>2, <3>2, <3>3, <3>4, AccountFresh, Zenon
  <2> QED
    BY <1>8, <2>1, <2>2, Zenon DEF TruncateSync
<1>9. CASE BeginClose
  <2>1. CASE flush_height' = flush_height
    BY <1>2, <1>9, <2>1, Zenon DEF BeginClose
  <2>2. CASE flush_height' = MaxOf(flush_height, Height(enqueued_point)) /\ enqueued_point # durable_point
    BY <1>1, <1>3, <1>5, <1>9, <2>2, SMTT(30) DEF BeginClose
  <2> QED
    BY <1>9, <2>1, <2>2, Zenon DEF BeginClose, RequestFlush
<1>10. CASE CloseResume
  BY <1>2, <1>10, Zenon DEF CloseResume, SleepAgain
<1>11. ASSUME NEW label \in Label, Enqueue(label)
       PROVE  AccountInv'
  <2> DEFINE p == Append(enqueued_point, label)
  <2>1. CASE HasCapacity(p) /\ Push(p)
    <3>1. p \in Chain /\ Height(p) = Height(enqueued_point) + 1
          /\ At(p, Height(enqueued_point)) = enqueued_point
      BY <1>1, AtAppend, AtSelf, SMTT(30)
    <3> HIDE DEF p
    <3> QED
      BY <2>1, <3>1, AccountPush, Zenon
  <2>2. CASE Still /\ flush_height' = BackpressureFlush
    BY <1>1, <1>2, <1>3, <2>2, SMTT(30) DEF BackpressureFlush
  <2> QED
    BY <1>11, <2>1, <2>2, Zenon DEF Enqueue
<1>12. ASSUME NEW h \in 0 .. Height(enqueued_point), WaitDurable(h)
       PROVE  AccountInv'
  <2>1. CASE h <= Height(durable_point)
    BY <1>1, <1>2, <1>12, <2>1, SMTT(30) DEF WaitDurable
  <2>2. CASE h > Height(durable_point)
    <3>1. Still /\ flush_height' = MaxOf(flush_height, h) /\ h \in Nat /\ h <= Height(enqueued_point)
      BY <1>1, <1>12, <2>2, SMTT(30) DEF WaitDurable, RequestFlush
    <3> HIDE DEF Still
    <3> QED
      BY <1>3, <2>2, <3>1, Zenon
  <2> QED
    BY <1>1, <2>1, <2>2, SMTT(30)
<1>13. ASSUME NEW h \in 0 .. Height(enqueued_point), Truncate(At(enqueued_point, h))
       PROVE  AccountInv'
  <2>1. Still
    BY <1>13, Zenon DEF Truncate
  <2>2. CASE flush_height' = flush_height
    BY <1>2, <2>1, <2>2, Zenon
  <2>3. CASE flush_height' = MaxOf(flush_height, Height(enqueued_point)) /\ enqueued_point # durable_point
    BY <1>1, <1>3, <1>5, <2>1, <2>3, SMTT(30)
  <2> QED
    BY <1>13, <2>2, <2>3, Zenon DEF Truncate, RequestFlush
<1> QED
  BY <1>6, <1>7, <1>8, <1>9, <1>10, <1>11, <1>12, <1>13, Zenon
     DEF ClientStep, ClientCall, Close, CloseAfterError

\* Every step keeps the accounting.
LEMMA AccountStep ==
    ASSUME IndInv, AccountInv, [Next]_vars
    PROVE  AccountInv'
<1>1. TypeOK' /\ PipeInv'
  BY TypeStep, PipeStep, Zenon
<1>2. CASE UNCHANGED vars
  BY <1>2, AccountClientFrame, Zenon DEF vars, queue, threads
<1>3. CASE Next
  BY <1>1, <1>3, AccountSerializer, AccountWriterIdle, AccountCommit, AccountOpen, AccountClient, Zenon
     DEF Next, WriterStep, ClientStep
<1> QED
  BY <1>2, <1>3, Zenon

-----------------------------------------------------------------------------
(* The blocks in the pipeline are counted.                                 *)

\* A set whose members are told apart by a height has as many members as there
\* are heights.
LEMMA CountByHeight ==
    ASSUME NEW S, NEW f, NEW a \in Int, NEW b \in Int, f \in [S -> a .. b],
           \A s, t \in S : f[s] = f[t] => s = t
    PROVE  LET H == {f[s] : s \in S}
           IN  /\ IsFiniteSet(H) /\ H \subseteq a .. b
               /\ IsFiniteSet(S) /\ Cardinality(S) = Cardinality(H)
<1> DEFINE H == {f[s] : s \in S}
<1>1. H \subseteq a .. b
  BY Zenon
<1>2. IsFiniteSet(H)
  BY <1>1, FS_Interval, FS_Subset, Zenon
<1>3. f \in Injection(S, H) /\ f \in Surjection(S, H)
  <2>1. f \in [S -> H] /\ DOMAIN f = S
    BY Zenon
  <2>2. \A h \in H : \E s \in S : f[s] = h
    BY Zenon
  <2> HIDE DEF H
  <2> QED
    BY <2>1, <2>2, Zenon DEF Injection, Surjection, IsInjective
<1>4. IsFiniteSet(S) /\ Cardinality(S) = Cardinality(H)
  <2> HIDE DEF H
  <2> QED
    BY <1>2, <1>3, FS_Injection, Zenon
<1> QED
  BY <1>1, <1>2, <1>4, Zenon

\* S and T, with heights f and g, share out the interval from a to b.
Share(S, T, f, g, a, b) ==
    /\ f \in [S -> a .. b] /\ g \in [T -> a .. b]
    /\ \A s, t \in S : f[s] = f[t] => s = t
    /\ \A s, t \in T : g[s] = g[t] => s = t
    /\ \A s \in S, t \in T : f[s] # g[t]
    /\ \A h \in a .. b : (\E s \in S : f[s] = h) \/ (\E t \in T : g[t] = h)

\* Together they have as many members as the interval.
LEMMA CountShared ==
    ASSUME NEW S, NEW T, NEW f, NEW g, NEW a \in Int, NEW b \in Int, a <= b + 1,
           Share(S, T, f, g, a, b)
    PROVE  /\ Cardinality(S) + Cardinality(T) = b - a + 1
           /\ Cardinality(S) \in Nat /\ Cardinality(T) \in Nat
<1> USE DEF Share
<1> DEFINE F == {f[s] : s \in S}
           G == {g[t] : t \in T}
<1>1. IsFiniteSet(F) /\ F \subseteq a .. b /\ Cardinality(S) = Cardinality(F)
  BY CountByHeight, SMTT(30)
<1>2. IsFiniteSet(G) /\ G \subseteq a .. b /\ Cardinality(T) = Cardinality(G)
  BY CountByHeight, SMTT(30)
<1>3. F \cup G = a .. b
  BY <1>1, <1>2, SMTT(30)
<1>4. F \cap G = {}
  BY SMTT(30)
<1> HIDE DEF F, G
<1>5. Cardinality(F \cup G) = Cardinality(F) + Cardinality(G) - Cardinality(F \cap G)
  BY <1>1, <1>2, FS_Union, Zenon
<1>6. Cardinality(F \cap G) = 0
  BY <1>4, FS_EmptySet, Zenon
<1>7. Cardinality(F) \in Nat /\ Cardinality(G) \in Nat
  BY <1>1, <1>2, FS_CardinalityType, Zenon
<1>8. Cardinality(a .. b) = IF a > b THEN 0 ELSE b - a + 1
  BY FS_Interval, Zenon
<1>9. Cardinality(F) + Cardinality(G) = Cardinality(a .. b)
  <2> DEFINE k == Cardinality(a .. b)
             z == Cardinality(F \cap G)
  <2>1. k = Cardinality(F) + Cardinality(G) - z
    BY <1>3, <1>5, Zenon
  <2> HIDE DEF k, z
  <2>2. z = 0
    BY <1>6, Zenon DEF z
  <2>3. Cardinality(F) + Cardinality(G) = k
    BY ONLY <1>7, <2>1, <2>2, SMTT(30)
  <2> QED
    BY <2>3, Zenon DEF k
<1> QED
  BY <1>1, <1>2, <1>7, <1>8, <1>9, SMTT(30)

-----------------------------------------------------------------------------
(* QueueAccounting.                                                        *)

\* Before a failure the blocks between the tips are those in the pipeline.
LEMMA PendingExact ==
    ASSUME TypeOK, PipeInv, AllCovered, ~failed
    PROVE  PendingPoints = {At(enqueued_point, h) :
                              h \in Height(durable_point) + 1 .. Height(enqueued_point)}
<1> DEFINE D == Height(durable_point)
           E == Height(enqueued_point)
           m == Len(batch)
           n == Len(input)
           Q == {At(enqueued_point, h) : h \in D + 1 .. E}
<1>1. /\ D \in Nat /\ E \in Nat /\ m \in Nat /\ n \in Nat /\ D + m + n <= E
      /\ input \in Seq(Chain) /\ batch \in Seq(Chain)
  BY PipeTypes, ZenonT(40) DEF PipeInv
<1>2. /\ \A i \in 1 .. n : input[i] = At(enqueued_point, E - n + i)
      /\ \A i \in 1 .. m : batch[i] = At(enqueued_point, D + i)
      /\ DOMAIN input = 1 .. n /\ DOMAIN batch = 1 .. m
  <2>1. DOMAIN input = 1 .. n /\ DOMAIN batch = 1 .. m
    BY ONLY <1>1
  <2> QED
    BY <2>1, Zenon DEF PipeInv
<1>3. ASSUME NEW p, InFlight(p), Height(p) \in Nat
      PROVE  p \in Q
  <2>1. p = At(enqueued_point, Height(p)) /\ Height(p) > D + m /\ Height(p) <= E - n
    BY <1>3, Zenon DEF InFlight
  <2>2. Height(p) \in D + 1 .. E
    BY ONLY <1>1, <1>3, <2>1, SMTT(30)
  <2> QED
    BY <2>1, <2>2, Zenon
<1>4. ready \subseteq Q /\ \A s \in Serializer : Working(s) => serializer[s].item \in Q
  <2> HIDE DEF Q
  <2> QED
    BY <1>3, PipeTypes, Zenon DEF PipeInv
<1>5. \A i \in DOMAIN input : input[i] \in Q
  <2> SUFFICES ASSUME NEW i \in 1 .. n PROVE input[i] \in Q
    BY <1>2, Zenon
  <2>1. E - n + i \in D + 1 .. E
    BY ONLY <1>1, i \in 1 .. n, SMTT(30)
  <2> QED
    BY <1>2, <2>1, Zenon
<1>6. \A i \in DOMAIN batch : batch[i] \in Q
  <2> SUFFICES ASSUME NEW i \in 1 .. m PROVE batch[i] \in Q
    BY <1>2, Zenon
  <2>1. D + i \in D + 1 .. E
    BY ONLY <1>1, i \in 1 .. m, SMTT(30)
  <2> QED
    BY <1>2, <2>1, Zenon
<1>7. ASSUME NEW h \in D + 1 .. E
      PROVE  At(enqueued_point, h) \in PendingPoints
  <2>0. h \in Nat
    BY <1>1, SMTT(30)
  <2>1. CASE h <= D + m
    <3>1. h - D \in 1 .. m /\ D + (h - D) = h
      BY <1>1, <2>1, SMTT(30)
    <3>2. batch[h - D] = At(enqueued_point, h)
      BY <1>2, <3>1, Zenon
    <3> QED
      BY <1>2, <3>1, <3>2, Zenon DEF PendingPoints
  <2>2. CASE h > E - n
    <3>1. h - (E - n) \in 1 .. n /\ E - n + (h - (E - n)) = h
      BY <1>1, <2>2, SMTT(30)
    <3>2. input[h - (E - n)] = At(enqueued_point, h)
      BY <1>2, <3>1, Zenon
    <3> QED
      BY <1>2, <3>1, <3>2, Zenon DEF PendingPoints
  <2>3. CASE h > D + m /\ h <= E - n
    <3>1. h \in D + m + 1 .. E - n
      BY <1>1, <2>0, <2>3, SMTT(30)
    <3>2. Covered(h)
      BY <3>1, Zenon DEF AllCovered
    <3>3. \A p : InFlight(p) /\ Height(p) = h => p = At(enqueued_point, h)
      BY Zenon DEF InFlight
    <3>4. CASE IsReady(h)
      BY <3>3, <3>4, ZenonT(40) DEF IsReady, PipeInv, PendingPoints
    <3>5. CASE \E s \in Serializer : Working(s) /\ Height(serializer[s].item) = h
      BY <3>3, <3>5, ZenonT(40) DEF Working, PipeInv, PendingPoints
    <3> QED
      BY <3>2, <3>4, <3>5, Zenon DEF Covered
  <2> QED
    BY <1>1, <2>0, <2>1, <2>2, <2>3, SMTT(30)
<1>8. PendingPoints \subseteq Q
  <2> HIDE DEF Q
  <2> QED
    BY <1>4, <1>5, <1>6, Zenon DEF PendingPoints, Working
<1> QED
  BY <1>7, <1>8, Zenon

\* Before a failure each of them is there once.
LEMMA PendingCounted ==
    ASSUME TypeOK, PipeInv, AllCovered, ~failed
    PROVE  PendingCount = Height(enqueued_point) - Height(durable_point)
<1> DEFINE a == Height(durable_point) + Len(batch) + 1
           b == Height(enqueued_point) - Len(input)
           W == {s \in Serializer : serializer[s].at = "work"}
           f == [s \in W |-> Height(serializer[s].item)]
           g == [p \in ready |-> Height(p)]
<1>1. /\ Height(durable_point) \in Nat /\ Height(enqueued_point) \in Nat
      /\ Len(batch) \in Nat /\ Len(input) \in Nat
      /\ Height(durable_point) + Len(batch) + Len(input) <= Height(enqueued_point)
  BY PipeTypes, Zenon DEF PipeInv
<1>2. a \in Int /\ b \in Int /\ a <= b + 1
  BY <1>1
<1>3. \A p : InFlight(p) /\ Height(p) \in Nat => Height(p) \in a .. b
  BY <1>1, SMTT(30) DEF InFlight
<1>4. f \in [W -> a .. b] /\ g \in [ready -> a .. b]
  <2>1. \A s \in W : Height(serializer[s].item) \in a .. b
    BY <1>3, PipeTypes, ZenonT(40) DEF PipeInv, Working
  <2>2. \A p \in ready : Height(p) \in a .. b
    BY <1>3, PipeTypes, ZenonT(40) DEF PipeInv
  <2> QED
    BY <2>1, <2>2, Zenon
<1>5. \A s, t \in W : f[s] = f[t] => s = t
  BY Zenon DEF PipeInv, Working
<1>6. \A p, q \in ready : g[p] = g[q] => p = q
  BY Zenon DEF PipeInv, InFlight
<1>7. \A s \in W, p \in ready : f[s] # g[p]
  BY Zenon DEF PipeInv, Working
<1>8. \A h \in a .. b : (\E s \in W : f[s] = h) \/ (\E p \in ready : g[p] = h)
  BY Zenon DEF AllCovered, Covered, IsReady, Working
<1>9. PendingCount = Len(input) + Cardinality(W) + Cardinality(ready) + Len(batch)
  BY Zenon DEF PendingCount
<1> HIDE DEF a, b, W, f, g
<1>10. Share(W, ready, f, g, a, b)
  BY <1>4, <1>5, <1>6, <1>7, <1>8, Zenon DEF Share
<1>11. /\ Cardinality(W) + Cardinality(ready) = b - a + 1
       /\ Cardinality(W) \in Nat /\ Cardinality(ready) \in Nat
  BY <1>2, <1>10, CountShared, Zenon
<1> DEFINE m == Len(batch)
           n == Len(input)
           x == Cardinality(W)
           y == Cardinality(ready)
<1>12. /\ a = Height(durable_point) + m + 1 /\ b = Height(enqueued_point) - n
       /\ Height(durable_point) \in Nat /\ Height(enqueued_point) \in Nat
       /\ m \in Nat /\ n \in Nat /\ x \in Nat /\ y \in Nat
       /\ x + y = b - a + 1 /\ PendingCount = n + x + y + m
  BY <1>1, <1>9, <1>11, Zenon DEF a, b
<1> HIDE DEF m, n, x, y
<1> QED
  BY ONLY <1>12

\* With any number of serializers, any limits and any sizes: until a failure
\* every block between the tips is in one place of the pipeline, and only there,
\* and queued_blocks and queued_bytes (Enqueue, CommitBatch) are their number
\* and size; the queue never exceeds its limits but for one oversized proof
\* alone in it, and a flush request is for a height between the tips.
THEOREM StoreQueueAccounting == Spec => []QueueAccounting
<1>1. Init => AccountInv
  <2> SUFFICES ASSUME Init PROVE AccountInv
    BY Zenon
  <2>1. /\ durable_point = enqueued_point /\ Height(durable_point) = 0 /\ queued_blocks = 0 /\ queued_bytes = 0
        /\ flush_height = 0 /\ Len(input) = 0 /\ Len(batch) = 0
    BY BaseFacts, Zenon DEF Init
  <2>2. AllCovered /\ WithinLimits /\ FlushPending
    BY <2>1, ConfigAssumption DEF AllCovered, WithinLimits, FlushPending
  <2>3. Len(QueuedPoints) = 0
    BY <2>1 DEF QueuedPoints
  <2>4. BytesExact
    BY <2>1, <2>3, BatchBytesSum, SMTT(30) DEF BytesExact
  <2> QED
    BY <2>2, <2>4, Zenon DEF AccountInv
<1>2. IndInv /\ AccountInv /\ [Next]_vars => AccountInv'
  BY AccountStep, Zenon
<1>3. IndInv /\ AccountInv => QueueAccounting
  <2> SUFFICES ASSUME IndInv, AccountInv PROVE QueueAccounting
    BY Zenon
  <2>1. TypeOK /\ PipeInv /\ AllCovered /\ BytesExact /\ WithinLimits /\ FlushPending
    BY Zenon DEF IndInv, AccountInv
  <2>2. /\ Height(durable_point) \in Nat /\ Height(enqueued_point) \in Nat /\ flush_height \in Nat
        /\ queued_blocks = Height(enqueued_point) - Height(durable_point)
    BY <2>1, PipeTypes, Zenon DEF PipeInv, TypeOK
  <2>3. flush_height # 0 => flush_height \in Height(durable_point) + 1 .. Height(enqueued_point)
    BY <2>1, <2>2, SMTT(30) DEF FlushPending
  <2>4. CASE failed
    BY <2>1, <2>3, <2>4, Zenon DEF QueueAccounting, WithinLimits
  <2>5. CASE ~failed
    <3>1. PendingPoints = {At(enqueued_point, h) : h \in Height(durable_point) + 1 .. Height(enqueued_point)}
      BY <2>1, <2>5, PendingExact, Zenon
    <3>2. PendingCount = Height(enqueued_point) - Height(durable_point) /\ queued_blocks = PendingCount
      BY <2>1, <2>2, <2>5, PendingCounted, Zenon
    <3>3. queued_bytes = BatchBytes([i \in 1 .. PendingCount |-> At(enqueued_point, Height(durable_point) + i)])
      BY <2>1, <3>2, Zenon DEF BytesExact, QueuedPoints
    <3> QED
      BY <2>1, <2>3, <3>1, <3>2, <3>3, Zenon DEF QueueAccounting, WithinLimits
  <2> QED
    BY <2>4, <2>5, Zenon
<1> QED
  BY <1>1, <1>2, <1>3, StoreInvariant, PTL DEF Spec
=============================================================================
