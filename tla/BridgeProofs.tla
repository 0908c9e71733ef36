------------------------------ MODULE BridgeProofs ------------------------------
(***************************************************************************)
(* BridgeInv is an inductive invariant of Bridge for every set of          *)
(* configurations: first the order of chain points, the end of a process,  *)
(* the steps that move the main thread and leave the durable states alone, *)
(* and the start; then the steps that change a durable state, Core's chain *)
(* or the checkpoint; last the safety properties of the main loop.         *)
(***************************************************************************)
EXTENDS BridgeInv, TLAPS, WellFoundedInduction

-----------------------------------------------------------------------------
(* The order of chain points.                                              *)

\* A point below another has its labels.
LEMMA PrefixLabels ==
    ASSUME NEW s \in Point, NEW t \in Point
    PROVE  IsPrefix(s, t) <=> Len(s) <= Len(t) /\ \A i \in 1 .. Len(s) : s[i] = t[i]
<1>1. s \in Seq(Label) /\ t \in Seq(Label) /\ Len(s) \in Nat /\ Len(t) \in Nat
  BY DEF Point
<1>2. ASSUME Len(s) <= Len(t)
      PROVE  SubSeq(s, 1, Len(s)) = SubSeq(t, 1, Len(s)) <=> \A i \in 1 .. Len(s) : s[i] = t[i]
  <2>1. /\ SubSeq(s, 1, Len(s)) \in Seq(Label) /\ SubSeq(t, 1, Len(s)) \in Seq(Label)
        /\ Len(SubSeq(s, 1, Len(s))) = Len(s) /\ Len(SubSeq(t, 1, Len(s))) = Len(s)
        /\ \A i \in 1 .. Len(s) : SubSeq(s, 1, Len(s))[i] = s[i] /\ SubSeq(t, 1, Len(s))[i] = t[i]
    BY <1>1, <1>2
  <2> QED
    BY <2>1
<1> QED
  BY <1>1, <1>2, Zenon DEF IsPrefix

\* Points with the same labels are the same.
LEMMA SamePoint ==
    ASSUME NEW s \in Point, NEW t \in Point, Len(s) = Len(t), \A i \in 1 .. Len(s) : s[i] = t[i]
    PROVE  s = t
BY DEF Point

\* The order is reflexive, has the root below everything and agrees with height.
LEMMA PrefixBasics ==
    ASSUME NEW s \in Point, NEW t \in Point
    PROVE  /\ Len(s) \in Nat /\ IsPrefix(s, s) /\ <<>> \in Point /\ IsPrefix(<<>>, s)
           /\ IsPrefix(s, t) => Len(s) <= Len(t)
           /\ IsPrefix(s, t) /\ Len(t) <= Len(s) => s = t
           /\ IsPrefix(s, <<>>) => s = <<>>
           /\ Len(s) = 0 <=> s = <<>>
<1>1. Len(s) \in Nat /\ Len(t) \in Nat /\ <<>> \in Point /\ Len(<<>>) = 0 /\ (Len(s) = 0 <=> s = <<>>)
  BY DEF Point
<1>2. IsPrefix(s, s)
  BY <1>1, PrefixLabels
<1>3. IsPrefix(<<>>, s)
  BY <1>1, PrefixLabels
<1>4. IsPrefix(s, t) => Len(s) <= Len(t)
  BY <1>1, PrefixLabels, Zenon
<1>5. IsPrefix(s, t) /\ Len(t) <= Len(s) => s = t
  BY <1>1, PrefixLabels, SamePoint
<1>6. IsPrefix(s, <<>>) => s = <<>>
  BY <1>1, PrefixLabels
<1> QED
  BY <1>1, <1>2, <1>3, <1>4, <1>5, <1>6, Zenon

\* It is transitive, and the points below one point are in line.
LEMMA PrefixOrder ==
    ASSUME NEW s \in Point, NEW t \in Point, NEW u \in Point
    PROVE  /\ IsPrefix(s, t) /\ IsPrefix(t, u) => IsPrefix(s, u)
           /\ IsPrefix(s, u) /\ IsPrefix(t, u) /\ Len(s) <= Len(t) => IsPrefix(s, t)
<1>1. Len(s) \in Nat /\ Len(t) \in Nat /\ Len(u) \in Nat
  BY DEF Point
<1>2. IsPrefix(s, t) /\ IsPrefix(t, u) => IsPrefix(s, u)
  BY <1>1, PrefixLabels
<1>3. IsPrefix(s, u) /\ IsPrefix(t, u) /\ Len(s) <= Len(t) => IsPrefix(s, t)
  BY <1>1, PrefixLabels
<1> QED
  BY <1>2, <1>3, Zenon

\* The part of a point up to a height.
LEMMA CutFacts ==
    ASSUME NEW t \in Point, NEW h \in 0 .. Len(t)
    PROVE  Prefix(t, h) \in Point /\ Len(Prefix(t, h)) = h /\ IsPrefix(Prefix(t, h), t)
<1>1. t \in Seq(Label) /\ Len(t) \in Nat
  BY DEF Point
<1>2. /\ SubSeq(t, 1, h) \in Seq(Label) /\ Len(SubSeq(t, 1, h)) = h
      /\ \A i \in 1 .. h : SubSeq(t, 1, h)[i] = t[i]
  BY <1>1
<1>3. /\ Prefix(t, h) \in Point /\ Len(Prefix(t, h)) = h /\ h <= Len(t)
      /\ \A i \in 1 .. h : Prefix(t, h)[i] = t[i]
  BY <1>1, <1>2 DEF Prefix, Point
<1> QED
  BY <1>3, PrefixLabels, Zenon

\* A point below t is the part of t up to its height.
LEMMA CutOf ==
    ASSUME NEW s \in Point, NEW t \in Point, IsPrefix(s, t)
    PROVE  Len(s) \in 0 .. Len(t) /\ Prefix(t, Len(s)) = s
<1>1. Len(s) \in 0 .. Len(t)
  BY PrefixBasics
<1>2. /\ Prefix(t, Len(s)) \in Point /\ Len(Prefix(t, Len(s))) = Len(s)
      /\ IsPrefix(Prefix(t, Len(s)), t)
  BY <1>1, CutFacts, Zenon
<1>3. IsPrefix(s, Prefix(t, Len(s)))
  BY <1>1, <1>2, PrefixBasics, PrefixOrder, Zenon
<1> QED
  BY <1>1, <1>2, <1>3, PrefixBasics, Zenon

\* The parent of a block.
LEMMA FrontFacts ==
    ASSUME NEW t \in Point, t # <<>>
    PROVE  /\ Front(t) \in Point /\ Len(t) \in Nat /\ Len(Front(t)) \in Nat
           /\ Len(t) = Len(Front(t)) + 1 /\ IsPrefix(Front(t), t) /\ ~ IsPrefix(t, Front(t))
<1>1. Len(t) \in Nat /\ Len(t) # 0
  BY PrefixBasics, Zenon
<1>2. Front(t) = Prefix(t, Len(t) - 1) /\ Len(t) - 1 \in 0 .. Len(t)
  BY <1>1 DEF Front, Prefix
<1>3. /\ Front(t) \in Point /\ Len(Front(t)) = Len(t) - 1 /\ IsPrefix(Front(t), t)
  BY <1>2, CutFacts, Zenon
<1> QED
  BY <1>1, <1>3, PrefixBasics

\* What is below a block, and not the block, is below its parent.
LEMMA PrefixFront ==
    ASSUME NEW s \in Point, NEW t \in Point, t # <<>>, IsPrefix(s, t), s # t
    PROVE  IsPrefix(s, Front(t))
<1>1. Len(s) \in Nat /\ Len(t) \in Nat /\ Len(s) <= Len(t) /\ ~ Len(t) <= Len(s)
  BY PrefixBasics, Zenon
<1>2. Len(s) <= Len(Front(t))
  BY <1>1, FrontFacts
<1> QED
  BY <1>2, FrontFacts, PrefixOrder, Zenon

\* Core's next block.
LEMMA AppendFacts ==
    ASSUME NEW t \in Point, NEW l \in Label
    PROVE  Append(t, l) \in Point /\ Len(Append(t, l)) = Len(t) + 1 /\ IsPrefix(t, Append(t, l))
<1>1. t \in Seq(Label) /\ Len(t) \in Nat
  BY DEF Point
<1>2. /\ Append(t, l) \in Seq(Label) /\ Len(Append(t, l)) = Len(t) + 1
      /\ \A i \in 1 .. Len(t) : Append(t, l)[i] = t[i]
  BY <1>1
<1>3. Append(t, l) \in Point
  BY <1>2, Zenon DEF Point
<1>4. Len(t) <= Len(Append(t, l))
  BY <1>1, <1>2
<1> QED
  BY <1>2, <1>3, <1>4, PrefixLabels, Zenon


-----------------------------------------------------------------------------
(* The last common block.                                                  *)

\* A set of numbers has a least one.
LEMMA LeastOf ==
    ASSUME NEW T, T \subseteq Nat, T # {}
    PROVE  \E m \in T : \A k \in T : m <= k
<1> DEFINE R == {ss \in Nat \X Nat : ss[1] < ss[2]}
<1>1. IsWellFoundedOn(R, Nat)
  BY NatLessThanWellFounded, Zenon DEF OpToRel
<1>2. ASSUME NEW k \in Nat, NEW m \in Nat, <<k, m>> \notin R
      PROVE  m <= k
  <2>1. <<k, m>> \in Nat \X Nat /\ <<k, m>>[1] = k /\ <<k, m>>[2] = m
    BY Zenon
  <2>2. ~(k < m)
    BY ONLY <1>2, <2>1, Zenon
  <2> QED
    BY ONLY <2>2, k \in Nat, m \in Nat
<1> HIDE DEF R
<1>3. \E m \in T : \A k \in T : ~(<<k, m>> \in R)
  BY <1>1, WFMin, Zenon
<1> QED
  BY <1>2, <1>3, Zenon

\* The smaller of two numbers.
LEMMA MinOfTwo ==
    ASSUME NEW a \in Nat, NEW b \in Nat
    PROVE  Min({a, b}) \in Nat /\ Min({a, b}) = IF a <= b THEN a ELSE b
<1>1. \E x \in {a, b} : \A y \in {a, b} : x <= y
  <2>1. CASE a <= b
    BY <2>1
  <2>2. CASE b <= a
    BY <2>2
  <2> QED
    BY <2>1, <2>2
<1>2. Min({a, b}) \in {a, b} /\ \A y \in {a, b} : Min({a, b}) <= y
  BY <1>1, Zenon DEF Min
<1> QED
  BY <1>2

\* A bounded set of numbers has a largest one.
LEMMA MaxOfBounded ==
    ASSUME NEW S, NEW n \in Nat, S \subseteq 0 .. n, S # {}
    PROVE  Max(S) \in S /\ \A y \in S : Max(S) >= y
<1> DEFINE U == {m \in Nat : \A y \in S : y <= m}
<1>1. n \in U /\ U \subseteq Nat
  OBVIOUS
<1>2. PICK m \in U : \A k \in U : m <= k
  <2> HIDE DEF U
  <2> QED
    BY <1>1, LeastOf, Zenon
<1>3. m \in Nat /\ \A y \in S : y <= m
  BY <1>2, Zenon
<1>4. m \in S
  <2> SUFFICES ASSUME m \notin S PROVE FALSE
    BY Zenon
  <2>1. \A y \in S : y \in Nat /\ y < m
    BY <1>3
  <2>2. m - 1 \in Nat /\ \A y \in S : y <= m - 1
    <3>1. PICK z \in S : TRUE
      BY Zenon
    <3>2. z \in Nat /\ z < m
      BY <2>1, Zenon
    <3>3. m - 1 \in Nat
      BY ONLY <1>3, <3>2
    <3>4. ASSUME NEW y \in S PROVE y <= m - 1
      <4>1. y \in Nat /\ y < m
        BY <2>1, Zenon
      <4> QED
        BY ONLY <1>3, <4>1
    <3> QED
      BY <3>3, <3>4, Zenon
  <2>3. m - 1 \in U
    BY <2>2, Zenon
  <2> QED
    BY <1>2, <1>3, <2>3
<1>5. \E x \in S : \A y \in S : x >= y
  BY <1>3, <1>4, Zenon
<1> QED
  BY <1>5, Zenon DEF Max

\* CommonPrefix is below both points, and above whatever else is.
LEMMA CommonFacts ==
    ASSUME NEW p \in Point, NEW q \in Point
    PROVE  /\ CommonPrefix(p, q) \in Point
           /\ IsPrefix(CommonPrefix(p, q), p) /\ IsPrefix(CommonPrefix(p, q), q)
           /\ \A r \in Point :
                IsPrefix(r, p) /\ IsPrefix(r, q) => IsPrefix(r, CommonPrefix(p, q))
<1> DEFINE n == Min({Len(p), Len(q)})
           agree == {h \in 0 .. n : Prefix(p, h) = Prefix(q, h)}
<1>1. /\ Len(p) \in Nat /\ Len(q) \in Nat /\ n \in Nat /\ n <= Len(p) /\ n <= Len(q)
      /\ \A h \in Nat : h <= Len(p) /\ h <= Len(q) => h <= n
  <2>1. Len(p) \in Nat /\ Len(q) \in Nat
    BY PrefixBasics, Zenon
  <2> QED
    BY <2>1, MinOfTwo
<1> HIDE DEF n
<1>2. ASSUME NEW r \in Point, IsPrefix(r, p), IsPrefix(r, q)
      PROVE  Len(r) \in agree /\ Prefix(p, Len(r)) = r
  <2>1. Len(r) \in Nat /\ Len(r) <= Len(p) /\ Len(r) <= Len(q)
    BY <1>2, PrefixBasics, Zenon
  <2>2. Prefix(p, Len(r)) = r /\ Prefix(q, Len(r)) = r
    BY <1>2, CutOf, Zenon
  <2> QED
    BY <1>1, <2>1, <2>2
<1>3. agree \subseteq 0 .. n /\ agree # {}
  <2>1. Len(<<>>) \in agree
    BY <1>2, PrefixBasics, Zenon
  <2> QED
    BY <2>1, Zenon
<1> DEFINE m == Max(agree)
<1>4. m \in agree /\ \A y \in agree : m >= y
  <2> HIDE DEF agree
  <2> QED
    BY <1>1, <1>3, MaxOfBounded, Zenon
<1>5. CommonPrefix(p, q) = Prefix(p, m)
  BY Zenon DEF CommonPrefix, n
<1> HIDE DEF m
<1>6. /\ m \in 0 .. n /\ m \in 0 .. Len(p) /\ m \in 0 .. Len(q) /\ Prefix(p, m) = Prefix(q, m)
  BY <1>1, <1>4
<1>7. /\ Prefix(p, m) \in Point /\ Len(Prefix(p, m)) = m
      /\ IsPrefix(Prefix(p, m), p) /\ IsPrefix(Prefix(p, m), q)
  BY <1>6, CutFacts, Zenon
<1>8. ASSUME NEW r \in Point, IsPrefix(r, p), IsPrefix(r, q)
      PROVE  IsPrefix(r, Prefix(p, m))
  <2>1. Len(r) <= Len(Prefix(p, m))
    <3>1. Len(r) \in agree
      BY <1>2, <1>8, Zenon
    <3>2. Len(r) \in Nat /\ m \in Nat /\ m >= Len(r)
      BY <1>4, <1>6, <3>1
    <3> QED
      BY <1>7, <3>2, Zenon
  <2> QED
    BY <1>7, <1>8, <2>1, PrefixOrder, Zenon
<1> QED
  BY <1>5, <1>7, <1>8, Zenon

-----------------------------------------------------------------------------
(* What the invariant says of the types.                                    *)

\* The conjuncts of the invariant, before and after a step.
LEMMA InvGives ==
    ASSUME BridgeInv
    PROVE  /\ ControlInv /\ FetchInv /\ ForestInv /\ JoinInv /\ ArchiveInv /\ FlawInv /\ TipInv
           /\ SyncInv /\ FollowInv /\ FilesInv /\ ChainInv /\ CoverInv /\ spent.reorgs \in Nat
BY ONLY BridgeInv DEF BridgeInv

\* The conjuncts of the invariant, to cite them one by one.
LEMMA InvParts ==
    ASSUME ControlInv', FetchInv', ForestInv', JoinInv', ArchiveInv', FlawInv', TipInv', SyncInv',
           FollowInv', FilesInv', ChainInv', CoverInv', spent'.reorgs \in Nat
    PROVE  BridgeInv'
BY ONLY ControlInv', FetchInv', ForestInv', JoinInv', ArchiveInv', FlawInv', TipInv', SyncInv',
        FollowInv', FilesInv', ChainInv', CoverInv', spent'.reorgs \in Nat DEF BridgeInv

\* The main thread and the forest it holds.
LEMMA MainFacts ==
    ASSUME BridgeInv
    PROVE  /\ main \in MainState
           /\ active \in Point /\ signal \in BOOLEAN /\ scope \in Scope
           /\ Alive => forest \in ForestState /\ point \in Point /\ Len(point) \in Nat
                         /\ forest.undo \in Nat /\ forest.online \in BOOLEAN
           /\ disk # NONE => disk \in DiskState /\ disk.point \in Point /\ disk.undo \in Nat
BY InvGives DEF ControlInv, FetchInv, ForestInv, ForestState, DiskState, point, Point

\* The archive, once there is one.
LEMMA ArchiveFacts ==
    ASSUME BridgeInv, archive.base # NONE
    PROVE  /\ archive \in ArchiveState /\ archive.base = <<>> /\ archive.tip \in Point
           /\ archive.durable \in Point /\ IsPrefix(archive.durable, archive.tip)
           /\ archive.flaw # NONE => /\ archive.flaw \in Flaw /\ archive.flaw.point \in Point
                                     /\ archive.flaw.point # <<>>
                                     /\ IsPrefix(archive.flaw.point, archive.durable)
BY InvGives DEF ArchiveInv, ArchiveState, NoArchive, Flaw

\* Once the archive is open, there is one.
LEMMA OpenedFacts ==
    ASSUME BridgeInv, Opened
    PROVE  archive.base # NONE
BY InvGives, Zenon DEF ArchiveInv

\* No archive: nothing is wrong in it.
LEMMA NoArchiveFacts ==
    ASSUME BridgeInv, archive.base = NONE
    PROVE  archive = NoArchive
<1>1. <<>> \in Seq(Label) /\ NONE \notin Seq(Label)
  BY NoValues
<1>2. NONE # <<>>
  BY ONLY <1>1, Zenon
<1> QED BY <1>2, InvGives, Zenon DEF ArchiveInv, ArchiveState

-----------------------------------------------------------------------------
(* The end of a process.                                                    *)

\* The durable states after the process is gone satisfy the invariant, whatever it
\* was doing: forest and queue are lost, the archive is at what it had committed or
\* was cut to, and of the checkpoint's directory entry either version is left.
LEMMA Ended ==
    ASSUME BridgeInv, main' = Down, forest' = NONE, prefetch' = NONE, signal' = FALSE,
           UNCHANGED <<active, scope, disk>>, spent'.reorgs = spent.reorgs,
           archive' = NoArchive \/ archive' \in ArchiveState, archive'.base = archive.base,
           archive'.tip = archive'.durable, archive'.flaw \in {archive.flaw, NONE},
           archive'.flaw # NONE => IsPrefix(archive'.flaw.point, archive'.durable),
           JoinInv', Unforked => \A f \in Saved : IsPrefix(f.point, archive'.durable),
           \/ chk' = chk
           \/ chk' = [now |-> chk.now, stable |-> chk.now]
           \/ chk' = [now |-> chk.stable, stable |-> chk.stable]
    PROVE  BridgeInv'
<1>1. /\ main'.pc = "down" /\ main'.phase = "sync" /\ main'.moved = FALSE /\ main'.target = 0
      /\ main' \in MainState
  BY Zenon DEF Down, MainState, SyncPc
<1>2. /\ ~ Running' /\ ~ Opened' /\ ~ Alive' /\ ~ InBatch' /\ ~ Following'
  BY <1>1, Zenon DEF Running, Opened, Alive, InBatch, Following, Saving
<1>3. ControlInv'
  BY <1>1, <1>2, Zenon DEF ControlInv, SyncPc, Saving, Following, Alive
<1>4. FetchInv'
  <2>1. active' \in Point /\ scope' \in Scope /\ signal' \in BOOLEAN /\ Len(active') \in Nat
    BY MainFacts, PrefixBasics, Zenon
  <2> QED BY <1>1, <1>2, <2>1 DEF FetchInv
<1>5. ForestInv'
  BY <1>2, InvGives, Zenon DEF ForestInv
<1>6. ArchiveInv'
  <2>1. archive'.base # NONE => IsPrefix(archive'.durable, archive'.durable)
    BY PrefixBasics DEF ArchiveState, NoArchive
  <2> QED BY <1>2, <2>1, InvGives, Zenon DEF ArchiveInv
<1>7. FlawInv'
  BY <1>1, <1>2, InvGives, Zenon DEF FlawInv, Exposed, Clean
<1>8. TipInv' /\ SyncInv' /\ FollowInv'
  BY <1>1, <1>2, Zenon DEF TipInv, SyncInv, FollowInv, Drained, SyncEnd, Saving, Starting
<1>9. /\ chk' \in [now : File \cup {NOFILE}, stable : File \cup {NOFILE}]
      /\ chk'.now = NOFILE => chk'.stable = NOFILE
      /\ Saved' \subseteq Saved
      /\ chk'.stable # NOFILE => IsPrefix(chk'.stable.point, chk'.now.point)
           \/ (chk'.now = chk.now /\ chk'.stable = chk.stable)
  <2>1. \A f \in File : IsPrefix(f.point, f.point)
    BY PrefixBasics, Zenon DEF File
  <2> QED BY <2>1, InvGives DEF FilesInv, Saved
<1>10. FilesInv'
  BY <1>1, <1>9, InvGives, Zenon DEF FilesInv, Clean
<1>11. ChainInv'
  BY <1>1, <1>2, InvGives, Zenon DEF ChainInv, Unforked, Active
<1>12. CoverInv'
  BY <1>1, <1>2, <1>9, InvGives, Zenon DEF CoverInv, Unforked, Active
<1>13. spent'.reorgs \in Nat
  BY InvGives, Zenon
<1> QED BY ONLY JoinInv', <1>3, <1>4, <1>5, <1>6, <1>7, <1>8, <1>10, <1>11, <1>12, <1>13, InvParts

\* What the archive had not committed is lost.
LEMMA LostFacts ==
    ASSUME BridgeInv, archive' = Lost, UNCHANGED <<scope, disk>>
    PROVE  /\ archive' = NoArchive \/ archive' \in ArchiveState
           /\ archive'.base = archive.base /\ archive'.tip = archive'.durable
           /\ archive'.flaw \in {archive.flaw, NONE}
           /\ archive'.flaw # NONE => IsPrefix(archive'.flaw.point, archive'.durable)
           /\ JoinInv' /\ (Unforked => \A f \in Saved : IsPrefix(f.point, archive'.durable))
<1>1. /\ archive'.base = archive.base /\ archive'.durable = archive.durable
      /\ archive'.tip = archive.durable /\ archive'.flaw = archive.flaw
      /\ archive' = NoArchive \/ archive' \in ArchiveState
  BY InvGives DEF Lost, ArchiveInv, NoArchive, ArchiveState
<1>2. JoinInv'
  BY <1>1, InvGives, Zenon DEF JoinInv
<1>3. archive.flaw # NONE => IsPrefix(archive.flaw.point, archive.durable)
  BY ArchiveFacts, NoArchiveFacts DEF NoArchive
<1> QED BY <1>1, <1>2, <1>3, InvGives, Zenon DEF CoverInv

\* An error, or a shutdown.
LEMMA ExitStep ==
    ASSUME BridgeInv, Exit
    PROVE  BridgeInv'
BY Ended, LostFacts, Zenon DEF Exit, Ends, KillCheckpoint

\* The process dies, or the power fails.
LEMMA CrashStep ==
    ASSUME BridgeInv, Crash
    PROVE  BridgeInv'
<1>1. spent'.reorgs = spent.reorgs
  BY DEF Crash, Dies
<1>2. \/ chk' = chk
      \/ chk' = [now |-> chk.now, stable |-> chk.now]
      \/ chk' = [now |-> chk.stable, stable |-> chk.stable]
  <2>1. CASE KillCheckpoint
    BY <2>1, Zenon DEF KillCheckpoint
  <2>2. CASE PowerLossCheckpoint
    <3>1. \A f \in {chk.now, chk.stable} : f # NOFILE => f.synced
      BY InvGives, Zenon DEF FilesInv, Saved
    <3> QED BY <2>2, <3>1, Zenon DEF PowerLossCheckpoint
  <2> QED BY <2>1, <2>2, Zenon DEF Crash
<1> QED BY <1>1, <1>2, Ended, LostFacts, Zenon DEF Crash, Dies

-----------------------------------------------------------------------------
(* Steps that only move the main thread.                                    *)

QueueActive(q) == q # NONE => \A i \in 1 .. Len(q.queue) : Active(q.queue[i])
Fetched(q) == q # NONE => q \in PrefetchState /\ q.target <= Len(active)

\* The durable states and the forest are as they were: what remains to be shown is
\* what the invariant says of the place the main thread is now at.
LEMMA MainMoves ==
    ASSUME BridgeInv, Alive, Alive',
           UNCHANGED <<active, chk, scope, forest, disk, archive, signal>>,
           spent'.reorgs = spent.reorgs,
           Fetched(prefetch'), Unforked => QueueActive(prefetch'),
           main'.target <= Len(active),
           InBatch' => prefetch' # NONE \/ signal \/ Len(point) >= main'.target,
           Opened' => archive.base # NONE,
           main'.pc \notin {"save_sync", "save_rename", "save_directory", "store"},
           main'.pc = "modify" => Exposed(main'.block) /\ (Unforked => Active(main'.block)),
           Running' /\ main'.pc \notin {"aligned", "mismatch"} => Clean(point),
           Unforked /\ main'.pc \in {"rollback", "mismatch"} =>
              \A f \in Saved : IsPrefix(f.point, main'.goal),
           ControlInv', TipInv', SyncInv', FollowInv'
    PROVE  BridgeInv'
<1>1. FetchInv'
  BY MainFacts, Zenon DEF FetchInv, Fetched, point
<1>2. ForestInv'
  BY InvGives, Zenon DEF ForestInv, point, Alive
<1>3. JoinInv'
  BY InvGives, Zenon DEF JoinInv
<1>4. ArchiveInv'
  BY InvGives, Zenon DEF ArchiveInv, Alive, point
<1>5. FlawInv'
  BY InvGives, Zenon DEF FlawInv, Exposed, Clean, point, Alive
<1>6. FilesInv'
  BY InvGives, Zenon DEF FilesInv, Saved, Clean
<1>7. ChainInv'
  BY InvGives, Zenon DEF ChainInv, Unforked, Active, point, Alive, QueueActive
<1>8. CoverInv'
  BY InvGives, Zenon DEF CoverInv, Unforked, Active, point, Alive, Saved
<1>9. spent'.reorgs \in Nat
  BY InvGives, Zenon
<1> QED BY ONLY <1>1, <1>2, <1>3, <1>4, <1>5, <1>6, <1>7, <1>8, <1>9,
                ControlInv', TipInv', SyncInv', FollowInv', InvParts

\* The prefetch thread's state is left alone.
LEMMA QueueKept ==
    ASSUME BridgeInv, prefetch' = prefetch
    PROVE  Fetched(prefetch') /\ (Unforked => QueueActive(prefetch'))
BY InvGives, Zenon DEF FetchInv, ChainInv, Fetched, QueueActive

\* RequestStop leaves the queue.
LEMMA QueueStopped ==
    ASSUME BridgeInv, RequestStop
    PROVE  Fetched(prefetch') /\ (Unforked => QueueActive(prefetch'))
<1>1. CASE prefetch = NONE
  BY <1>1, Zenon DEF RequestStop, Fetched, QueueActive
<1>2. CASE prefetch # NONE
  <2>1. prefetch \in PrefetchState /\ prefetch.target <= Len(active)
    BY <1>2, InvGives, Zenon DEF FetchInv
  <2>2. /\ prefetch' \in PrefetchState /\ prefetch'.queue = prefetch.queue
        /\ prefetch'.target = prefetch.target
    BY <1>2, <2>1, Zenon DEF RequestStop, PrefetchState
  <2> QED BY <1>2, <2>1, <2>2, InvGives, Zenon DEF ChainInv, Fetched, QueueActive
<1> QED BY <1>1, <1>2, Zenon

\* A new thread has an empty queue.
LEMMA QueueNew ==
    ASSUME BridgeInv, Alive, NEW t \in Nat, t <= Len(active), StartPrefetch(point, t)
    PROVE  /\ Fetched(prefetch') /\ QueueActive(prefetch')
           /\ prefetch' # NONE \/ Len(point) >= t
<1>1. point \in Point /\ Len(point) \in Nat
  BY MainFacts, Zenon
<1>2. CASE Len(point) > t
  BY <1>1, <1>2 DEF StartPrefetch, Fetched, QueueActive
<1>3. CASE ~ Len(point) > t
  <2>1. prefetch' = [height |-> Len(point) + 1, target |-> t, queue |-> <<>>,
                     stop |-> FALSE, done |-> FALSE]
    BY <1>3, Zenon DEF StartPrefetch
  <2>2. prefetch' \in PrefetchState /\ prefetch'.target = t /\ prefetch'.queue = <<>>
    BY <1>1, <2>1 DEF PrefetchState
  <2>3. <<>> \in Seq(Seq(Label))
    OBVIOUS
  <2>4. prefetch' \in [height : Nat, target : Nat, queue : Seq(Seq(Label)),
                       stop : BOOLEAN, done : BOOLEAN]
    BY <1>1, <2>1, <2>3
  <2>5. prefetch' # NONE
    BY <2>4, NoValues, Zenon
  <2> QED BY <2>2, <2>5 DEF Fetched, QueueActive
<1> QED BY <1>2, <1>3, Zenon


-----------------------------------------------------------------------------
(* The main thread moves on.                                                *)

\* Forest and archive agree up to the lower of their heights: the forest is below.
LEMMA AlignedBelow ==
    ASSUME BridgeInv, Alive, archive.base # NONE, ~ Mismatch, Height <= Len(archive.durable)
    PROVE  IsPrefix(point, archive.durable)
<1>1. /\ point \in Point /\ archive.durable \in Point
      /\ Len(point) \in Nat /\ Len(archive.durable) \in Nat
  BY MainFacts, ArchiveFacts, PrefixBasics, Zenon
<1>2. /\ Common \in Point /\ IsPrefix(Common, point) /\ IsPrefix(Common, archive.durable)
      /\ Len(Common) \in Nat
  BY <1>1, CommonFacts, PrefixBasics, Zenon DEF Common
<1>3. Overlap = Len(point)
  BY <1>1, MinOfTwo, Zenon DEF Overlap, Height, point
<1>4. Len(point) <= Len(Common)
  BY <1>1, <1>2, <1>3 DEF Mismatch
<1>5. Common = point
  BY <1>1, <1>2, <1>4, PrefixBasics, Zenon
<1> QED BY <1>2, <1>5, Zenon

\* The forest is below the archive, on its branch.
LEMMA AlignNothingStep ==
    ASSUME BridgeInv, AlignNothing
    PROVE  BridgeInv'
<1>1. /\ main \in MainState /\ main.pc = "align" /\ main.phase = "sync"
      /\ main' \in MainState /\ main'.pc = "aligned" /\ main'.phase = "sync" /\ main'.target = main.target
      /\ UNCHANGED <<active, chk, scope, forest, disk, archive, signal>>
      /\ spent'.reorgs = spent.reorgs /\ archive.base # NONE
  BY MainFacts, OpenedFacts, InvGives DEF AlignNothing, At, Goto, InLoop, stores, ControlInv,
     MainState, SyncPc, FollowPc, Starting, Saving, Following, Alive, Opened, Running
<1>2. IsPrefix(point, archive.tip) /\ Drained
  <2>1. Drained
    BY <1>1, InvGives, Zenon DEF TipInv, Starting, Following
  <2>2. archive.durable \in Point /\ Len(archive.durable) \in Nat /\ ~ Height < Len(archive.base)
        /\ Height \in Nat
    BY <1>1, MainFacts, ArchiveFacts, PrefixBasics DEF Alive, Height, point
  <2>3. ~ Mismatch /\ Height <= Len(archive.durable)
    BY <2>2 DEF AlignNothing
  <2> QED BY <1>1, <2>1, <2>3, AlignedBelow, Zenon DEF Drained, Alive
<1>3. ControlInv' /\ TipInv' /\ SyncInv' /\ FollowInv'
  BY <1>1, <1>2, InvGives, Zenon DEF ControlInv, TipInv, SyncInv, FollowInv, Following, Alive, Running,
     SyncPc, FollowPc, Saving, Starting, SyncEnd, Drained, point
<1>4. /\ Alive /\ Alive' /\ main'.target <= Len(active)
      /\ Fetched(prefetch') /\ (Unforked => QueueActive(prefetch'))
      /\ InBatch' => prefetch' # NONE \/ signal \/ Len(point) >= main'.target
      /\ Running' /\ main'.pc \notin {"aligned", "mismatch"} => Clean(point)
  BY <1>1, <1>2, QueueKept, InvGives, Zenon DEF AlignNothing, FetchInv, FlawInv, Alive, InBatch, Saving,
     Running, point
<1> QED BY <1>1, <1>3, <1>4, MainMoves, Zenon

\* The point is active, at the start.
LEMMA ReconciledStart ==
    ASSUME BridgeInv, Reconciled, main.phase = "sync"
    PROVE  BridgeInv'
<1>1. /\ main \in MainState /\ main.pc = "reconcile" /\ main.phase = "sync"
      /\ main' \in MainState /\ main'.pc = "open" /\ main'.phase = "sync" /\ main'.target = main.target
      /\ UNCHANGED <<active, chk, scope, forest, disk, archive, signal>>
      /\ spent'.reorgs = spent.reorgs /\ (Opened' => archive.base # NONE)
  <2>1. /\ main \in MainState /\ main.pc = "reconcile" /\ main.phase = "sync"
        /\ main' = [main EXCEPT !.moved = FALSE, !.pc = "open"]
        /\ UNCHANGED <<active, chk, scope, forest, disk, archive, signal>>
        /\ spent'.reorgs = spent.reorgs
    BY MainFacts, OpenedFacts, InvGives, Zenon DEF Reconciled, At, Goto, InLoop, stores, Opened, Running,
       ControlInv, MainState, SyncPc, FollowPc, Starting, Saving, Following
  <2> QED BY <2>1, Zenon DEF MainState, SyncPc, FollowPc, Starting, Saving, Opened, Running
<1>3. ControlInv' /\ TipInv' /\ SyncInv' /\ FollowInv'
  BY <1>1, InvGives, Zenon DEF ControlInv, TipInv, SyncInv, FollowInv, Following, Alive, Running, SyncPc,
     FollowPc, Saving, Starting, SyncEnd, Drained, point
<1>4. /\ Alive /\ Alive' /\ main'.target <= Len(active)
      /\ Fetched(prefetch') /\ (Unforked => QueueActive(prefetch'))
      /\ InBatch' => prefetch' # NONE \/ signal \/ Len(point) >= main'.target
      /\ Running' /\ main'.pc \notin {"aligned", "mismatch"} => Clean(point)
  BY <1>1, QueueKept, InvGives, Zenon DEF Reconciled, FetchInv, FlawInv, Alive, InBatch, Saving, Running,
     point
<1> QED BY <1>1, <1>3, <1>4, MainMoves, Zenon

\* The point is active after a rollback, in the follow loop.
LEMMA ReconciledMoved ==
    ASSUME BridgeInv, Reconciled, main.phase = "follow", main.moved
    PROVE  BridgeInv'
<1>1. /\ main \in MainState /\ main.pc = "reconcile" /\ main.phase = "follow"
      /\ main' \in MainState /\ main'.pc = "truncate" /\ main'.phase = "follow" /\ main'.target = main.target
      /\ UNCHANGED <<active, chk, scope, forest, disk, archive, signal>>
      /\ spent'.reorgs = spent.reorgs /\ archive.base # NONE
  <2>1. /\ main \in MainState /\ main.pc = "reconcile" /\ main.phase = "follow"
        /\ main' = [main EXCEPT !.moved = FALSE, !.pc = "truncate"]
        /\ UNCHANGED <<active, chk, scope, forest, disk, archive, signal>>
        /\ spent'.reorgs = spent.reorgs /\ archive.base # NONE
    BY MainFacts, OpenedFacts, InvGives, Zenon DEF Reconciled, At, Goto, InLoop, stores, Opened, Running,
       ControlInv, MainState, SyncPc, FollowPc, Starting, Saving, Following
  <2> QED BY <2>1, Zenon DEF MainState, SyncPc, FollowPc, Starting, Saving, Opened, Running
<1>3. ControlInv' /\ TipInv' /\ SyncInv' /\ FollowInv'
  BY <1>1, InvGives, Zenon DEF ControlInv, TipInv, SyncInv, FollowInv, Following, Alive, Running, SyncPc,
     FollowPc, Saving, Starting, SyncEnd, Drained, point
<1>4. /\ Alive /\ Alive' /\ main'.target <= Len(active)
      /\ Fetched(prefetch') /\ (Unforked => QueueActive(prefetch'))
      /\ InBatch' => prefetch' # NONE \/ signal \/ Len(point) >= main'.target
      /\ Running' /\ main'.pc \notin {"aligned", "mismatch"} => Clean(point)
  BY <1>1, QueueKept, InvGives, Zenon DEF Reconciled, FetchInv, FlawInv, Alive, InBatch, Saving, Running,
     point
<1> QED BY <1>1, <1>3, <1>4, MainMoves, Zenon

\* The point is still active, in the follow loop.
LEMMA ReconciledStill ==
    ASSUME BridgeInv, Reconciled, main.phase = "follow", ~ main.moved
    PROVE  BridgeInv'
<1>1. /\ main \in MainState /\ main.pc = "reconcile" /\ main.phase = "follow" /\ ~ main.moved
      /\ main' \in MainState /\ main'.pc = "poll" /\ main'.phase = "follow" /\ main'.target = main.target
      /\ UNCHANGED <<active, chk, scope, forest, disk, archive, signal>>
      /\ spent'.reorgs = spent.reorgs /\ archive.base # NONE
  <2>1. /\ main \in MainState /\ main.pc = "reconcile" /\ main.phase = "follow" /\ ~ main.moved
        /\ main' = [main EXCEPT !.moved = FALSE, !.pc = "poll"]
        /\ UNCHANGED <<active, chk, scope, forest, disk, archive, signal>>
        /\ spent'.reorgs = spent.reorgs /\ archive.base # NONE
    BY MainFacts, OpenedFacts, InvGives, Zenon DEF Reconciled, At, Goto, InLoop, stores, Opened, Running,
       ControlInv, MainState, SyncPc, FollowPc, Starting, Saving, Following
  <2> QED BY <2>1, Zenon DEF MainState, SyncPc, FollowPc, Starting, Saving, Opened, Running
<1>3. ControlInv' /\ TipInv' /\ SyncInv' /\ FollowInv'
  BY <1>1, InvGives, Zenon DEF ControlInv, TipInv, SyncInv, FollowInv, Following, Alive, Running, SyncPc,
     FollowPc, Saving, Starting, SyncEnd, Drained, point
<1>4. /\ Alive /\ Alive' /\ main'.target <= Len(active)
      /\ Fetched(prefetch') /\ (Unforked => QueueActive(prefetch'))
      /\ InBatch' => prefetch' # NONE \/ signal \/ Len(point) >= main'.target
      /\ Running' /\ main'.pc \notin {"aligned", "mismatch"} => Clean(point)
  BY <1>1, QueueKept, InvGives, Zenon DEF Reconciled, FetchInv, FlawInv, Alive, InBatch, Saving, Running,
     point
<1> QED BY <1>1, <1>3, <1>4, MainMoves, Zenon

\* The forest is to be rolled back to the last common block.
LEMMA AlignForestStep ==
    ASSUME BridgeInv, AlignForest, Len(Common) >= Len(archive.base) /\ forest.online
    PROVE  BridgeInv'
<1>0. /\ Common \in Point /\ IsPrefix(Common, point) /\ IsPrefix(Common, archive.durable)
      /\ \A r \in Point : IsPrefix(r, point) /\ IsPrefix(r, archive.durable) => IsPrefix(r, Common)
  BY MainFacts, ArchiveFacts, OpenedFacts, CommonFacts, Zenon DEF AlignForest, At, Alive, Opened, Common
<1>1. /\ main \in MainState /\ main.pc = "align" /\ main.phase = "sync"
      /\ main' \in MainState /\ main'.pc = "rollback" /\ main'.phase = "sync"
      /\ main'.target = main.target /\ main'.goal = Common
      /\ UNCHANGED <<active, chk, scope, forest, disk, archive, signal>>
      /\ spent'.reorgs = spent.reorgs /\ archive.base # NONE
  <2>1. /\ main \in MainState /\ main.pc = "align" /\ main.phase = "sync"
        /\ main' = [main EXCEPT !.pc = "rollback", !.goal = Common]
        /\ UNCHANGED <<active, chk, scope, forest, disk, archive, signal>>
        /\ spent'.reorgs = spent.reorgs /\ archive.base # NONE
    BY MainFacts, OpenedFacts, InvGives, Zenon DEF AlignForest, At, Goto, InLoop, stores, Opened, Running,
       ControlInv, MainState, SyncPc, FollowPc, Starting, Saving, Following
  <2> QED BY <2>1, <1>0, Zenon DEF MainState, SyncPc, FollowPc, Starting, Saving, Opened, Running
<1>3. ControlInv' /\ TipInv' /\ SyncInv' /\ FollowInv'
  BY <1>1, <1>0, InvGives, Zenon DEF ControlInv, TipInv, SyncInv, FollowInv, Following, Alive, Running,
     SyncPc, FollowPc, Saving, Starting, SyncEnd, Drained, point
<1>4. /\ Alive /\ Alive' /\ main'.target <= Len(active)
      /\ Fetched(prefetch') /\ (Unforked => QueueActive(prefetch'))
      /\ InBatch' => prefetch' # NONE \/ signal \/ Len(point) >= main'.target
      /\ Running' /\ main'.pc \notin {"aligned", "mismatch"} => Clean(point)
  BY <1>1, QueueKept, InvGives, Zenon DEF AlignForest, FetchInv, FlawInv, Alive, InBatch, Saving, Running,
     point
<1>5. Unforked => \A f \in Saved : IsPrefix(f.point, main'.goal)
  <2>1. \A f \in Saved : f.point \in Point
    BY InvGives DEF FilesInv, Saved, File
  <2>2. Unforked => \A f \in Saved : IsPrefix(f.point, point) /\ IsPrefix(f.point, archive.durable)
    BY <1>4, InvGives, Zenon DEF CoverInv
  <2> QED BY <1>0, <1>1, <2>1, <2>2, Zenon
<1> QED BY <1>1, <1>3, <1>4, MainMoves, <1>5, Zenon

\* The archive is ahead of the forest, on its branch.
LEMMA ScanBeginsStep ==
    ASSUME BridgeInv, ScanBegins, ~ Len(archive.durable) > Len(active)
    PROVE  BridgeInv'
<1>0. /\ archive.durable \in Point /\ IsPrefix(archive.durable, archive.durable)
      /\ IsPrefix(point, archive.durable) /\ forest.online
  <2>1. archive.base # NONE /\ Alive
    BY OpenedFacts, Zenon DEF ScanBegins, At, Opened, Alive
  <2>2. archive.durable \in Point /\ Len(archive.durable) \in Nat /\ Height \in Nat
    BY <2>1, MainFacts, ArchiveFacts, PrefixBasics, Zenon DEF Height, point
  <2>3. Height <= Len(archive.durable) /\ ~ Mismatch
    BY <2>2 DEF ScanBegins
  <2> QED BY <2>1, <2>2, <2>3, AlignedBelow, PrefixBasics, Zenon DEF ScanBegins
<1>1. /\ main \in MainState /\ main.pc = "align" /\ main.phase = "sync"
      /\ main' \in MainState /\ main'.pc = "scan" /\ main'.phase = "sync" /\ main'.target = main.target
      /\ main'.goal = archive.durable
      /\ UNCHANGED <<active, chk, scope, forest, disk, archive, signal>>
      /\ spent'.reorgs = spent.reorgs /\ archive.base # NONE
  <2>1. /\ main \in MainState /\ main.pc = "align" /\ main.phase = "sync"
        /\ main' = [main EXCEPT !.pc = "scan", !.goal = archive.durable]
        /\ UNCHANGED <<active, chk, scope, forest, disk, archive, signal>>
        /\ spent'.reorgs = spent.reorgs /\ archive.base # NONE
    BY MainFacts, OpenedFacts, InvGives, Zenon DEF ScanBegins, At, Goto, InLoop, stores, Opened, Running,
       ControlInv, MainState, SyncPc, FollowPc, Starting, Saving, Following
  <2> QED BY <2>1, <1>0, Zenon DEF MainState, SyncPc, FollowPc, Starting, Saving, Opened, Running
<1>3. ControlInv' /\ TipInv' /\ SyncInv' /\ FollowInv'
  BY <1>1, <1>0, InvGives, Zenon DEF ControlInv, TipInv, SyncInv, FollowInv, Following, Alive, Running,
     SyncPc, FollowPc, Saving, Starting, SyncEnd, Drained, point
<1>4. /\ Alive /\ Alive' /\ main'.target <= Len(active)
      /\ Fetched(prefetch') /\ (Unforked => QueueActive(prefetch'))
      /\ InBatch' => prefetch' # NONE \/ signal \/ Len(point) >= main'.target
      /\ Running' /\ main'.pc \notin {"aligned", "mismatch"} => Clean(point)
  BY <1>1, QueueKept, InvGives, Zenon DEF ScanBegins, FetchInv, FlawInv, Alive, InBatch, Saving, Running,
     point
<1> QED BY <1>1, <1>3, <1>4, MainMoves, Zenon

\* A candidate is on the active chain.
LEMMA ScanFound ==
    ASSUME BridgeInv, ScanStep, Active(main.goal)
    PROVE  BridgeInv'
<1>1. /\ main \in MainState /\ main.pc = "scan" /\ main.phase = "sync"
      /\ main' \in MainState /\ main'.pc = "confirm" /\ main'.phase = "sync"
      /\ main'.target = main.target /\ main'.goal = main.goal
      /\ UNCHANGED <<active, chk, scope, forest, disk, archive, signal>>
      /\ spent'.reorgs = spent.reorgs /\ archive.base # NONE
  BY MainFacts, OpenedFacts, InvGives DEF ScanStep, At, Goto, InLoop, stores, ControlInv, MainState,
     SyncPc, FollowPc, Starting, Saving, Following, Alive, Opened, Running
<1>3. ControlInv' /\ TipInv' /\ SyncInv' /\ FollowInv'
  BY <1>1, InvGives, Zenon DEF ControlInv, TipInv, SyncInv, FollowInv, Following, Alive, Running, SyncPc,
     FollowPc, Saving, Starting, SyncEnd, Drained, point
<1>4. /\ Alive /\ Alive' /\ main'.target <= Len(active)
      /\ Fetched(prefetch') /\ (Unforked => QueueActive(prefetch'))
      /\ InBatch' => prefetch' # NONE \/ signal \/ Len(point) >= main'.target
      /\ Running' /\ main'.pc \notin {"aligned", "mismatch"} => Clean(point)
  BY <1>1, QueueKept, InvGives, Zenon DEF ScanStep, FetchInv, FlawInv, Alive, InBatch, Saving, Running,
     point
<1> QED BY <1>1, <1>3, <1>4, MainMoves, Zenon

\* A candidate is not: the next one is its parent.
LEMMA ScanDown ==
    ASSUME BridgeInv, ScanStep, ~ Active(main.goal) /\ Len(main.goal) > Height
    PROVE  BridgeInv'
<1>0. /\ Front(main.goal) \in Point /\ IsPrefix(point, Front(main.goal))
      /\ IsPrefix(Front(main.goal), archive.durable)
  <2>1. archive.base # NONE /\ Alive /\ At("scan")
    BY OpenedFacts, Zenon DEF ScanStep, At, Opened, Alive
  <2>2. /\ main.goal \in Point /\ IsPrefix(point, main.goal) /\ IsPrefix(main.goal, archive.durable)
        /\ archive.durable \in Point /\ point \in Point
    BY <2>1, MainFacts, ArchiveFacts, InvGives, Zenon DEF TipInv, At
  <2>3. main.goal # <<>> /\ main.goal # point
    BY <2>2, PrefixBasics DEF Height, point
  <2>4. Front(main.goal) \in Point /\ IsPrefix(Front(main.goal), main.goal)
    BY <2>2, <2>3, FrontFacts, Zenon
  <2> QED BY <2>2, <2>3, <2>4, PrefixFront, PrefixOrder, Zenon
<1>1. /\ main \in MainState /\ main.pc = "scan" /\ main.phase = "sync"
      /\ main' \in MainState /\ main'.pc = "scan" /\ main'.phase = "sync" /\ main'.target = main.target
      /\ main'.goal = Front(main.goal)
      /\ UNCHANGED <<active, chk, scope, forest, disk, archive, signal>>
      /\ spent'.reorgs = spent.reorgs /\ archive.base # NONE
  BY MainFacts, OpenedFacts, <1>0, InvGives DEF ScanStep, At, Goto, InLoop, stores, ControlInv,
     MainState, SyncPc, FollowPc, Starting, Saving, Following, Alive, Opened, Running
<1>3. ControlInv' /\ TipInv' /\ SyncInv' /\ FollowInv'
  BY <1>1, <1>0, InvGives, Zenon DEF ControlInv, TipInv, SyncInv, FollowInv, Following, Alive, Running,
     SyncPc, FollowPc, Saving, Starting, SyncEnd, Drained, point
<1>4. /\ Alive /\ Alive' /\ main'.target <= Len(active)
      /\ Fetched(prefetch') /\ (Unforked => QueueActive(prefetch'))
      /\ InBatch' => prefetch' # NONE \/ signal \/ Len(point) >= main'.target
      /\ Running' /\ main'.pc \notin {"aligned", "mismatch"} => Clean(point)
  BY <1>1, QueueKept, InvGives DEF ScanStep, FetchInv, FlawInv, Alive, InBatch, Saving, Running,
     point
<1> QED BY <1>1, <1>3, <1>4, MainMoves, Zenon

\* No thread, no queue.
LEMMA QueueGone ==
    ASSUME prefetch' = NONE
    PROVE  Fetched(prefetch') /\ (Unforked => QueueActive(prefetch'))
BY Zenon DEF Fetched, QueueActive

\* A block whose archived state is not wrong has no wrong record up to it.
LEMMA StateChecked ==
    ASSUME BridgeInv, Alive, archive.base # NONE, ~ FlawAt(point, "state")
    PROVE  Clean(point)
<1>1. archive.flaw # NONE => archive.flaw = [point |-> archive.flaw.point, kind |-> archive.flaw.kind]
  BY ArchiveFacts, Zenon DEF Flaw
<1>2. Exposed(point)
  BY InvGives, Zenon DEF FlawInv
<1> QED BY <1>1, <1>2, Zenon DEF Exposed, Clean, FlawAt

\* The archive is durable up to its tip when it is durable up to the forest's block.
LEMMA DurableAtTip ==
    ASSUME BridgeInv, Alive, archive.base # NONE, DurableTo(Height), archive.tip = point
    PROVE  Drained
<1>1. /\ archive.durable \in Point /\ archive.tip \in Point /\ IsPrefix(archive.durable, archive.tip)
      /\ Len(archive.tip) <= Len(archive.durable)
  BY ArchiveFacts, Zenon DEF DurableTo, Height, point
<1> QED BY <1>1, PrefixBasics, Zenon DEF Drained

\* The archived state at the forest's point is the forest's, and Core covers the archive.
LEMMA CheckTipStep ==
    ASSUME BridgeInv, CheckTip, ~ FlawAt(point, "state"), ~ Len(archive.durable) > Len(active)
    PROVE  BridgeInv'
<1>0. Len(active) \in Nat
  BY MainFacts, PrefixBasics, Zenon
<1>1. /\ main \in MainState /\ main.pc = "aligned" /\ main.phase = "sync"
      /\ main' \in MainState /\ main'.pc = "launch" /\ main'.phase = "sync" /\ main'.target = Len(active)
      /\ UNCHANGED <<active, chk, scope, forest, disk, archive, signal>>
      /\ spent'.reorgs = spent.reorgs /\ archive.base # NONE
  <2>1. /\ main \in MainState /\ main.pc = "aligned" /\ main.phase = "sync"
        /\ main' = [main EXCEPT !.pc = "launch", !.target = Len(active)]
        /\ UNCHANGED <<active, chk, scope, forest, disk, archive, signal>>
        /\ spent'.reorgs = spent.reorgs /\ archive.base # NONE
    BY MainFacts, OpenedFacts, InvGives, Zenon DEF CheckTip, At, Goto, InLoop, stores, Opened, Running,
       ControlInv, MainState, SyncPc, FollowPc, Starting, Saving, Following
  <2> QED BY <2>1, <1>0, Zenon DEF MainState, SyncPc, FollowPc, Starting, Saving, Opened, Running
<1>2. Clean(point) /\ Drained /\ Len(archive.durable) <= Len(active)
  <2>1. Len(archive.durable) \in Nat
    BY <1>1, ArchiveFacts, PrefixBasics, Zenon
  <2> QED BY <1>0, <1>1, <2>1, StateChecked, InvGives DEF TipInv, Following, Alive
<1>3. ControlInv' /\ TipInv' /\ SyncInv' /\ FollowInv'
  BY <1>1, <1>2, <1>0, InvGives, Zenon DEF ControlInv, TipInv, SyncInv, FollowInv, Following, Alive,
     Running, SyncPc, FollowPc, Saving, Starting, SyncEnd, Drained, point
<1>4. /\ Alive /\ Alive' /\ main'.target <= Len(active)
      /\ Fetched(prefetch') /\ (Unforked => QueueActive(prefetch'))
      /\ InBatch' => prefetch' # NONE \/ signal \/ Len(point) >= main'.target
      /\ Running' /\ main'.pc \notin {"aligned", "mismatch"} => Clean(point)
  BY <1>1, <1>2, <1>0, QueueKept, InvGives DEF CheckTip, FetchInv, FlawInv, Alive, InBatch, Saving,
     Running, point
<1> QED BY <1>1, <1>3, <1>4, MainMoves, Zenon

\* The prefetch thread is started.
LEMMA LaunchStep ==
    ASSUME BridgeInv, Launch, Active(archive.base)
    PROVE  BridgeInv'
<1>1. /\ main \in MainState /\ main.pc = "launch" /\ main.phase = "sync" /\ main.target \in Nat
      /\ main.target <= Len(active)
      /\ main' \in MainState /\ main'.pc = "loop" /\ main'.phase = "sync" /\ main'.target = main.target
      /\ UNCHANGED <<active, chk, scope, forest, disk, archive, signal>>
      /\ spent'.reorgs = spent.reorgs /\ archive.base # NONE
  BY MainFacts, OpenedFacts, InvGives DEF Launch, At, Goto, InLoop, stores, ControlInv, MainState,
     SyncPc, FollowPc, Starting, Saving, Following, Alive, Opened, Running, FetchInv
<1>2. /\ Fetched(prefetch') /\ (Unforked => QueueActive(prefetch'))
      /\ prefetch' # NONE \/ signal \/ Len(point) >= main.target
  <2>1. CASE signal
    BY <1>1, <2>1, QueueKept, Zenon DEF Launch
  <2>2. CASE ~ signal
    BY <1>1, <2>2, QueueNew, Zenon DEF Launch, Alive
  <2> QED BY <2>1, <2>2, Zenon
<1>3. ControlInv' /\ TipInv' /\ SyncInv' /\ FollowInv'
  BY <1>1, <1>2, InvGives, Zenon DEF ControlInv, TipInv, SyncInv, FollowInv, Following, Alive, Running,
     SyncPc, FollowPc, Saving, Starting, SyncEnd, Drained, point
<1>4. /\ Alive /\ Alive' /\ main'.target <= Len(active)
      /\ Fetched(prefetch') /\ (Unforked => QueueActive(prefetch'))
      /\ InBatch' => prefetch' # NONE \/ signal \/ Len(point) >= main'.target
      /\ Running' /\ main'.pc \notin {"aligned", "mismatch"} => Clean(point)
  BY <1>1, <1>2, MainFacts, InvGives, Zenon DEF Launch, FetchInv, FlawInv, Alive, InBatch, Saving, Running,
     point
<1> QED BY <1>1, <1>3, <1>4, MainMoves, Zenon

\* The lag is within the window.
LEMMA RecoveryWindowStep ==
    ASSUME BridgeInv, RecoveryWindow
    PROVE  BridgeInv'
<1>1. /\ main \in MainState /\ main.pc = "window" /\ main.phase = "sync"
      /\ main' \in MainState /\ main'.pc = "stored" /\ main'.phase = "sync" /\ main'.target = main.target
      /\ UNCHANGED <<active, chk, scope, forest, disk, archive, signal>>
      /\ spent'.reorgs = spent.reorgs /\ archive.base # NONE
  BY MainFacts, OpenedFacts, InvGives DEF RecoveryWindow, At, Goto, InLoop, stores, ControlInv,
     MainState, SyncPc, FollowPc, Starting, Saving, Following, Alive, Opened, Running
<1>3. ControlInv' /\ TipInv' /\ SyncInv' /\ FollowInv'
  BY <1>1, InvGives, Zenon DEF ControlInv, TipInv, SyncInv, FollowInv, Following, Alive, Running, SyncPc,
     FollowPc, Saving, Starting, SyncEnd, Drained, point
<1>4. /\ Alive /\ Alive' /\ main'.target <= Len(active)
      /\ Fetched(prefetch') /\ (Unforked => QueueActive(prefetch'))
      /\ InBatch' => prefetch' # NONE \/ signal \/ Len(point) >= main'.target
      /\ Running' /\ main'.pc \notin {"aligned", "mismatch"} => Clean(point)
  BY <1>1, QueueKept, InvGives, Zenon DEF RecoveryWindow, FetchInv, FlawInv, Alive, InBatch, Saving,
     Running, point
<1> QED BY <1>1, <1>3, <1>4, MainMoves, Zenon

\* The proof of a followed block is durable.
LEMMA CommitProofStep ==
    ASSUME BridgeInv, CommitProof
    PROVE  BridgeInv'
<1>1. /\ main \in MainState /\ main.pc = "commit" /\ main.phase = "follow"
      /\ main' \in MainState /\ main'.pc = "loop" /\ main'.phase = "follow" /\ main'.target = main.target
      /\ UNCHANGED <<active, chk, scope, forest, disk, archive, signal>>
      /\ spent'.reorgs = spent.reorgs /\ archive.base # NONE
  BY MainFacts, OpenedFacts, InvGives DEF CommitProof, At, Goto, InLoop, stores, ControlInv,
     MainState, SyncPc, FollowPc, Starting, Saving, Following, Alive, Opened, Running
<1>2. Drained
  BY <1>1, DurableAtTip, InvGives, Zenon DEF CommitProof, FollowInv, Following, Alive
<1>3. ControlInv' /\ TipInv' /\ SyncInv' /\ FollowInv'
  BY <1>1, <1>2, InvGives, Zenon DEF ControlInv, TipInv, SyncInv, FollowInv, Following, Alive, Running,
     SyncPc, FollowPc, Saving, Starting, SyncEnd, Drained, point
<1>4. /\ Alive /\ Alive' /\ main'.target <= Len(active)
      /\ Fetched(prefetch') /\ (Unforked => QueueActive(prefetch'))
      /\ InBatch' => prefetch' # NONE \/ signal \/ Len(point) >= main'.target
      /\ Running' /\ main'.pc \notin {"aligned", "mismatch"} => Clean(point)
  BY <1>1, <1>2, QueueKept, InvGives, Zenon DEF CommitProof, FetchInv, FlawInv, Alive, InBatch, Saving,
     Running, point
<1> QED BY <1>1, <1>3, <1>4, MainMoves, Zenon

\* The reused record's state is the forest's.
LEMMA ReuseChecked ==
    ASSUME BridgeInv, ReuseProof, main.phase # "follow", ~ FlawAt(point, "state")
    PROVE  BridgeInv'
<1>1. /\ main \in MainState /\ main.pc = "store" /\ main.phase = "sync" /\ ~ main.generate
      /\ main' \in MainState /\ main'.pc = "stored" /\ main'.phase = "sync" /\ main'.target = main.target
      /\ UNCHANGED <<active, chk, scope, forest, disk, archive, signal>>
      /\ spent'.reorgs = spent.reorgs /\ archive.base # NONE
  BY MainFacts, OpenedFacts, InvGives DEF ReuseProof, At, Goto, InLoop, stores, ControlInv,
     MainState, SyncPc, FollowPc, Starting, Saving, Following, Alive, Opened, Running
<1>2. Clean(point)
  BY <1>1, StateChecked, Zenon DEF Alive
<1>3. ControlInv' /\ TipInv' /\ SyncInv' /\ FollowInv'
  BY <1>1, <1>2, InvGives, Zenon DEF ControlInv, TipInv, SyncInv, FollowInv, Following, Alive, Running,
     SyncPc, FollowPc, Saving, Starting, SyncEnd, Drained, point
<1>4. /\ Alive /\ Alive' /\ main'.target <= Len(active)
      /\ Fetched(prefetch') /\ (Unforked => QueueActive(prefetch'))
      /\ InBatch' => prefetch' # NONE \/ signal \/ Len(point) >= main'.target
      /\ Running' /\ main'.pc \notin {"aligned", "mismatch"} => Clean(point)
  BY <1>1, <1>2, QueueKept, InvGives, Zenon DEF ReuseProof, FetchInv, FlawInv, Alive, InBatch, Saving,
     Running, point
<1> QED BY <1>1, <1>3, <1>4, MainMoves, Zenon

\* The reused record's state is not the forest's.
LEMMA ReuseMismatch ==
    ASSUME BridgeInv, ReuseProof, main.phase # "follow", FlawAt(point, "state")
    PROVE  BridgeInv'
<1>0. /\ point \in Point \ {<<>>} /\ Front(point) \in Point /\ IsPrefix(Front(point), point)
      /\ IsPrefix(Front(point), archive.durable)
  <2>1. Alive /\ archive.base # NONE
    BY OpenedFacts, Zenon DEF ReuseProof, At, Opened, Running, Alive
  <2>2. point \in Point \ {<<>>} /\ IsPrefix(point, archive.durable) /\ archive.durable \in Point
    BY <2>1, MainFacts, ArchiveFacts, InvGives, Zenon DEF TipInv, ReuseProof, At, Drained
  <2> QED BY <2>2, FrontFacts, PrefixOrder, Zenon
<1>1. /\ main \in MainState /\ main.pc = "store" /\ main.phase = "sync" /\ ~ main.generate
      /\ main' \in MainState /\ main'.pc = "mismatch" /\ main'.phase = "sync"
      /\ main'.target = main.target /\ main'.goal = Front(point)
      /\ UNCHANGED <<active, chk, scope, forest, disk, archive, signal>>
      /\ spent'.reorgs = spent.reorgs /\ archive.base # NONE
  <2>1. /\ main \in MainState /\ main.pc = "store" /\ main.phase = "sync" /\ ~ main.generate
        /\ main' = [main EXCEPT !.pc = "mismatch", !.goal = Front(point)]
        /\ UNCHANGED <<active, chk, scope, forest, disk, archive, signal>>
        /\ spent'.reorgs = spent.reorgs /\ archive.base # NONE
    BY MainFacts, OpenedFacts, InvGives, Zenon DEF ReuseProof, At, Goto, InLoop, stores, Opened, Running,
       ControlInv, MainState, SyncPc, FollowPc, Starting, Saving, Following
  <2> QED BY <2>1, <1>0, Zenon DEF MainState, SyncPc, FollowPc, Starting, Saving, Opened, Running
<1>3. ControlInv' /\ TipInv' /\ SyncInv' /\ FollowInv'
  BY <1>1, <1>0, InvGives, Zenon DEF ControlInv, TipInv, SyncInv, FollowInv, Following, Alive, Running,
     SyncPc, FollowPc, Saving, Starting, SyncEnd, Drained, point
<1>4. /\ Alive /\ Alive' /\ main'.target <= Len(active)
      /\ Fetched(prefetch') /\ (Unforked => QueueActive(prefetch'))
      /\ InBatch' => prefetch' # NONE \/ signal \/ Len(point) >= main'.target
      /\ Running' /\ main'.pc \notin {"aligned", "mismatch"} => Clean(point)
  BY <1>1, QueueKept, InvGives, Zenon DEF ReuseProof, FetchInv, FlawInv, Alive, InBatch, Saving, Running,
     point
<1>5. Unforked => \A f \in Saved : IsPrefix(f.point, main'.goal)
  <2>1. \A f \in Saved : f.point \in Point
    BY InvGives DEF FilesInv, Saved, File
  <2>2. Unforked => \A f \in Saved : IsPrefix(f.point, point) /\ f.point # point
    BY <1>1, <1>4, InvGives, Zenon DEF CoverInv
  <2> QED BY <1>0, <1>1, <2>1, <2>2, PrefixFront, Zenon
<1> QED BY <1>1, <1>3, <1>4, MainMoves, <1>5, Zenon

\* The next block.
LEMMA StoredNext ==
    ASSUME BridgeInv, BlockStored, Goto("loop")
    PROVE  BridgeInv'
<1>1. /\ main \in MainState /\ main.pc = "stored" /\ main.phase = "sync"
      /\ main' \in MainState /\ main'.pc = "loop" /\ main'.phase = "sync" /\ main'.target = main.target
      /\ UNCHANGED <<active, chk, scope, forest, disk, archive, signal>>
      /\ spent'.reorgs = spent.reorgs /\ archive.base # NONE
  BY MainFacts, OpenedFacts, InvGives DEF BlockStored, At, Goto, InLoop, stores, ControlInv,
     MainState, SyncPc, FollowPc, Starting, Saving, Following, Alive, Opened, Running
<1>3. ControlInv' /\ TipInv' /\ SyncInv' /\ FollowInv'
  BY <1>1, InvGives, Zenon DEF ControlInv, TipInv, SyncInv, FollowInv, Following, Alive, Running, SyncPc,
     FollowPc, Saving, Starting, SyncEnd, Drained, point
<1>4. /\ Alive /\ Alive' /\ main'.target <= Len(active)
      /\ Fetched(prefetch') /\ (Unforked => QueueActive(prefetch'))
      /\ InBatch' => prefetch' # NONE \/ signal \/ Len(point) >= main'.target
      /\ Running' /\ main'.pc \notin {"aligned", "mismatch"} => Clean(point)
  BY <1>1, QueueKept, InvGives, Zenon DEF BlockStored, FetchInv, FlawInv, Alive, InBatch, Saving, Running,
     point
<1> QED BY <1>1, <1>3, <1>4, MainMoves, Zenon

\* A RAM forest is saved.
LEMMA StoredSave ==
    ASSUME BridgeInv, BlockStored, ~ Goto("loop")
    PROVE  BridgeInv'
<1>1. /\ main \in MainState /\ main.pc = "stored" /\ main.phase = "sync" /\ ~ forest.online
      /\ main' \in MainState /\ main'.pc = "save" /\ main'.phase = "sync" /\ main'.target = main.target
      /\ main'.then = "loop"
      /\ UNCHANGED <<active, chk, scope, forest, disk, archive, signal>>
      /\ spent'.reorgs = spent.reorgs /\ archive.base # NONE
  <2>1. /\ main \in MainState /\ main.pc = "stored" /\ main.phase = "sync" /\ ~ forest.online
        /\ main' = [main EXCEPT !.pc = "save", !.then = "loop"]
        /\ UNCHANGED <<active, chk, scope, forest, disk, archive, signal>>
        /\ spent'.reorgs = spent.reorgs /\ archive.base # NONE
    BY MainFacts, OpenedFacts, InvGives, Zenon DEF BlockStored, At, Goto, InLoop, stores, Opened, Running,
       ControlInv, MainState, SyncPc, FollowPc, Starting, Saving, Following
  <2> QED BY <2>1, ZenonT(40) DEF MainState, SyncPc, FollowPc, Starting, Saving, Opened, Running
<1>3. ControlInv' /\ TipInv' /\ SyncInv' /\ FollowInv'
  BY <1>1, InvGives, Zenon DEF ControlInv, TipInv, SyncInv, FollowInv, Following, Alive, Running, SyncPc,
     FollowPc, Saving, Starting, SyncEnd, Drained, point
<1>4. /\ Alive /\ Alive' /\ main'.target <= Len(active)
      /\ Fetched(prefetch') /\ (Unforked => QueueActive(prefetch'))
      /\ InBatch' => prefetch' # NONE \/ signal \/ Len(point) >= main'.target
      /\ Running' /\ main'.pc \notin {"aligned", "mismatch"} => Clean(point)
  BY <1>1, QueueKept, InvGives, Zenon DEF BlockStored, FetchInv, FlawInv, Alive, InBatch, Saving, Running,
     point
<1> QED BY <1>1, <1>3, <1>4, MainMoves, Zenon

\* Memory runs out: the RAM forest is to be saved.
LEMMA MemoryExhaustedStep ==
    ASSUME BridgeInv, MemoryExhausted
    PROVE  BridgeInv'
<1>1. /\ main \in MainState /\ main.pc = "loop" /\ main.phase = "sync" /\ ~ forest.online
      /\ main' \in MainState /\ main'.pc = "join" /\ main'.phase = "sync" /\ main'.target = main.target
      /\ main'.next = "save" /\ main'.then = "exit"
      /\ UNCHANGED <<active, chk, scope, forest, disk, archive, signal>>
      /\ spent'.reorgs = spent.reorgs /\ archive.base # NONE
  <2>1. /\ main \in MainState /\ main.pc = "loop" /\ main.phase = "sync" /\ ~ forest.online
        /\ main' = [main EXCEPT !.pc = "join", !.next = "save", !.then = "exit"]
        /\ UNCHANGED <<active, chk, scope, forest, disk, archive, signal>>
        /\ spent'.reorgs = spent.reorgs /\ archive.base # NONE
    BY MainFacts, OpenedFacts, InvGives DEF MemoryExhausted, At, Goto, InLoop, stores, Opened,
       Running, ControlInv, MainState, SyncPc, FollowPc, Starting, Saving, Following
  <2> QED BY <2>1, ZenonT(40) DEF MainState, SyncPc, FollowPc, Starting, Saving, Opened, Running
<1>3. ControlInv' /\ TipInv' /\ SyncInv' /\ FollowInv'
  BY <1>1, InvGives, Zenon DEF ControlInv, TipInv, SyncInv, FollowInv, Following, Alive, Running, SyncPc,
     FollowPc, Saving, Starting, SyncEnd, Drained, point
<1>4. /\ Alive /\ Alive' /\ main'.target <= Len(active)
      /\ Fetched(prefetch') /\ (Unforked => QueueActive(prefetch'))
      /\ InBatch' => prefetch' # NONE \/ signal \/ Len(point) >= main'.target
      /\ Running' /\ main'.pc \notin {"aligned", "mismatch"} => Clean(point)
  BY <1>1, QueueStopped, InvGives, Zenon DEF MemoryExhausted, FetchInv, FlawInv, Alive, InBatch, Saving,
     Running, point
<1> QED BY <1>1, <1>3, <1>4, MainMoves, Zenon

\* The loop ends: the end of the initial synchronization.
LEMMA LoopEndsSync ==
    ASSUME BridgeInv, LoopEnds, main.phase = "sync"
    PROVE  BridgeInv'
<1>1. /\ main \in MainState /\ main.pc = "loop" /\ main.phase = "sync"
      /\ main' \in MainState /\ main'.pc = "join" /\ main'.phase = "sync" /\ main'.target = main.target
      /\ main'.next = "drain"
      /\ UNCHANGED <<active, chk, scope, forest, disk, archive, signal>>
      /\ spent'.reorgs = spent.reorgs /\ archive.base # NONE
  <2>1. /\ main \in MainState /\ main.pc = "loop" /\ main.phase = "sync"
        /\ main' = [main EXCEPT !.pc = "join", !.next = "drain"]
        /\ UNCHANGED <<active, chk, scope, forest, disk, archive, signal>>
        /\ spent'.reorgs = spent.reorgs /\ archive.base # NONE
    BY MainFacts, OpenedFacts, InvGives, Zenon DEF LoopEnds, At, Goto, InLoop, stores, Opened, Running,
       ControlInv, MainState, SyncPc, FollowPc, Starting, Saving, Following
  <2> QED BY <2>1, ZenonT(40) DEF MainState, SyncPc, FollowPc, Starting, Saving, Opened, Running
<1>2. signal \/ point = archive.tip
  <2>1. /\ point \in Point /\ archive.tip \in Point /\ Len(point) \in Nat /\ Len(archive.tip) \in Nat
        /\ IsPrefix(point, archive.tip) /\ main.target \in Nat /\ Len(archive.tip) <= main.target
    BY <1>1, MainFacts, ArchiveFacts, PrefixBasics, InvGives, Zenon DEF TipInv, SyncInv, Following, Alive,
       Running, MainState
  <2>2. ~ signal => main.target <= Len(point)
    BY <2>1 DEF LoopEnds, Continues, Height, point
  <2> QED BY <2>1, <2>2, PrefixBasics
<1>3. ControlInv' /\ TipInv' /\ SyncInv' /\ FollowInv'
  BY <1>1, <1>2, InvGives, Zenon DEF ControlInv, TipInv, SyncInv, FollowInv, Following, Alive, Running,
     SyncPc, FollowPc, Saving, Starting, SyncEnd, Drained, point
<1>4. /\ Alive /\ Alive' /\ main'.target <= Len(active)
      /\ Fetched(prefetch') /\ (Unforked => QueueActive(prefetch'))
      /\ InBatch' => prefetch' # NONE \/ signal \/ Len(point) >= main'.target
      /\ Running' /\ main'.pc \notin {"aligned", "mismatch"} => Clean(point)
  BY <1>1, <1>2, QueueStopped, InvGives, Zenon DEF LoopEnds, FetchInv, FlawInv, Alive, InBatch, Saving,
     Running, point
<1> QED BY <1>1, <1>3, <1>4, MainMoves, Zenon

\* The loop ends: the end of a batch, for a shutdown.
LEMMA LoopEndsStopped ==
    ASSUME BridgeInv, LoopEnds, main.phase = "follow", signal
    PROVE  BridgeInv'
<1>1. /\ main \in MainState /\ main.pc = "loop" /\ main.phase = "follow"
      /\ main' \in MainState /\ main'.pc = "join" /\ main'.phase = "follow" /\ main'.target = main.target
      /\ main'.next = "shutdown"
      /\ UNCHANGED <<active, chk, scope, forest, disk, archive, signal>>
      /\ spent'.reorgs = spent.reorgs /\ archive.base # NONE
  <2>1. /\ main \in MainState /\ main.pc = "loop" /\ main.phase = "follow"
        /\ main' = [main EXCEPT !.pc = "join", !.next = "shutdown"]
        /\ UNCHANGED <<active, chk, scope, forest, disk, archive, signal>>
        /\ spent'.reorgs = spent.reorgs /\ archive.base # NONE
    BY MainFacts, OpenedFacts, InvGives, Zenon DEF LoopEnds, At, Goto, InLoop, stores, Opened, Running,
       ControlInv, MainState, SyncPc, FollowPc, Starting, Saving, Following
  <2> QED BY <2>1, ZenonT(40) DEF MainState, SyncPc, FollowPc, Starting, Saving, Opened, Running
<1>3. ControlInv' /\ TipInv' /\ SyncInv' /\ FollowInv'
  BY <1>1, InvGives, Zenon DEF ControlInv, TipInv, SyncInv, FollowInv, Following, Alive, Running, SyncPc,
     FollowPc, Saving, Starting, SyncEnd, Drained, point
<1>4. /\ Alive /\ Alive' /\ main'.target <= Len(active)
      /\ Fetched(prefetch') /\ (Unforked => QueueActive(prefetch'))
      /\ InBatch' => prefetch' # NONE \/ signal \/ Len(point) >= main'.target
      /\ Running' /\ main'.pc \notin {"aligned", "mismatch"} => Clean(point)
  BY <1>1, QueueStopped, InvGives, Zenon DEF LoopEnds, FetchInv, FlawInv, Alive, InBatch, Saving, Running,
     point
<1> QED BY <1>1, <1>3, <1>4, MainMoves, Zenon

\* The loop ends: the end of a batch.
LEMMA LoopEndsBatch ==
    ASSUME BridgeInv, LoopEnds, main.phase = "follow", ~ signal
    PROVE  BridgeInv'
<1>1. /\ main \in MainState /\ main.pc = "loop" /\ main.phase = "follow"
      /\ main' \in MainState /\ main'.pc = "join" /\ main'.phase = "follow" /\ main'.target = main.target
      /\ main'.next = "validate"
      /\ UNCHANGED <<active, chk, scope, forest, disk, archive, signal>>
      /\ spent'.reorgs = spent.reorgs /\ archive.base # NONE
  <2>1. /\ main \in MainState /\ main.pc = "loop" /\ main.phase = "follow"
        /\ main' = [main EXCEPT !.pc = "join", !.next = "validate"]
        /\ UNCHANGED <<active, chk, scope, forest, disk, archive, signal>>
        /\ spent'.reorgs = spent.reorgs /\ archive.base # NONE
    BY MainFacts, OpenedFacts, InvGives, Zenon DEF LoopEnds, At, Goto, InLoop, stores, Opened, Running,
       ControlInv, MainState, SyncPc, FollowPc, Starting, Saving, Following
  <2> QED BY <2>1, ZenonT(40) DEF MainState, SyncPc, FollowPc, Starting, Saving, Opened, Running
<1>3. ControlInv' /\ TipInv' /\ SyncInv' /\ FollowInv'
  BY <1>1, InvGives, Zenon DEF ControlInv, TipInv, SyncInv, FollowInv, Following, Alive, Running, SyncPc,
     FollowPc, Saving, Starting, SyncEnd, Drained, point
<1>4. /\ Alive /\ Alive' /\ main'.target <= Len(active)
      /\ Fetched(prefetch') /\ (Unforked => QueueActive(prefetch'))
      /\ InBatch' => prefetch' # NONE \/ signal \/ Len(point) >= main'.target
      /\ Running' /\ main'.pc \notin {"aligned", "mismatch"} => Clean(point)
  BY <1>1, QueueStopped, InvGives, Zenon DEF LoopEnds, FetchInv, FlawInv, Alive, InBatch, Saving, Running,
     point
<1> QED BY <1>1, <1>3, <1>4, MainMoves, Zenon

\* The prefetch thread has ended.
LEMMA JoinStep ==
    ASSUME BridgeInv, Join
    PROVE  BridgeInv'
<1>1. /\ main \in MainState /\ main.pc = "join" /\ main.phase \in {"sync", "follow"}
      /\ main.next \in {"drain", "save", "shutdown", "validate"}
      /\ main' \in MainState /\ main'.pc = main.next /\ main'.phase = main.phase
      /\ main'.target = main.target /\ main'.then = main.then /\ main'.moved = main.moved
      /\ UNCHANGED <<active, chk, scope, forest, disk, archive, signal>>
      /\ spent'.reorgs = spent.reorgs /\ archive.base # NONE
  <2>1. /\ main \in MainState /\ main.pc = "join" /\ main.phase \in {"sync", "follow"}
      /\ main.next \in {"drain", "save", "shutdown", "validate"}
        /\ main' = [main EXCEPT !.pc = main.next, !.next = "down"]
        /\ UNCHANGED <<active, chk, scope, forest, disk, archive, signal>>
        /\ spent'.reorgs = spent.reorgs /\ archive.base # NONE
    BY MainFacts, OpenedFacts, InvGives, Zenon DEF Join, At, Goto, InLoop, stores, Opened, Running,
       ControlInv, MainState, SyncPc, FollowPc, Starting, Saving, Following
  <2>2. main.next \in SyncPc \cup FollowPc /\ "down" \in SyncPc \cup FollowPc
    BY <2>1, Zenon DEF SyncPc, FollowPc, Saving
  <2>3. main' \in MainState
    BY <2>1, <2>2, Zenon DEF MainState
  <2> QED BY <2>1, <2>3, Zenon DEF MainState
<1>3. ControlInv' /\ TipInv' /\ SyncInv' /\ FollowInv'
  BY <1>1, InvGives, ZenonT(40) DEF ControlInv, TipInv, SyncInv, FollowInv, Following, Alive, Running, SyncPc,
     FollowPc, Saving, Starting, SyncEnd, Drained, point
<1>4. /\ Alive /\ Alive' /\ main'.target <= Len(active)
      /\ Fetched(prefetch') /\ (Unforked => QueueActive(prefetch'))
      /\ InBatch' => prefetch' # NONE \/ signal \/ Len(point) >= main'.target
      /\ Running' /\ main'.pc \notin {"aligned", "mismatch"} => Clean(point)
  BY <1>1, QueueGone, InvGives, Zenon DEF Join, FetchInv, FlawInv, Alive, InBatch, Saving, Running, point,
     Joined, ControlInv, Following
<1> QED BY <1>1, <1>3, <1>4, MainMoves, Zenon

\* The archive is drained.
LEMMA DrainStep ==
    ASSUME BridgeInv, Drain
    PROVE  BridgeInv'
<1>1. /\ main \in MainState /\ main.pc = "drain" /\ main.phase = "sync" /\ Drained
      /\ main' \in MainState /\ main'.pc = "validate" /\ main'.phase = "sync" /\ main'.target = main.target
      /\ UNCHANGED <<active, chk, scope, forest, disk, archive, signal>>
      /\ spent'.reorgs = spent.reorgs /\ archive.base # NONE
  BY MainFacts, OpenedFacts, InvGives DEF Drain, At, Goto, InLoop, stores, ControlInv, MainState,
     SyncPc, FollowPc, Starting, Saving, Following, Alive, Opened, Running, Drained
<1>3. ControlInv' /\ TipInv' /\ SyncInv' /\ FollowInv'
  BY <1>1, InvGives, Zenon DEF ControlInv, TipInv, SyncInv, FollowInv, Following, Alive, Running, SyncPc,
     FollowPc, Saving, Starting, SyncEnd, Drained, point
<1>4. /\ Alive /\ Alive' /\ main'.target <= Len(active)
      /\ Fetched(prefetch') /\ (Unforked => QueueActive(prefetch'))
      /\ InBatch' => prefetch' # NONE \/ signal \/ Len(point) >= main'.target
      /\ Running' /\ main'.pc \notin {"aligned", "mismatch"} => Clean(point)
  BY <1>1, QueueKept, InvGives, Zenon DEF Drain, FetchInv, FlawInv, Alive, InBatch, Saving, Running, point
<1> QED BY <1>1, <1>3, <1>4, MainMoves, Zenon

\* The initial synchronization is complete, or shut down.
LEMMA ValidateSync ==
    ASSUME BridgeInv, Validate, main.phase = "sync", signal \/ Active(point)
    PROVE  BridgeInv'
<1>1. /\ main \in MainState /\ main.pc = "validate" /\ main.phase = "sync"
      /\ main' \in MainState /\ main'.pc = "switch" /\ main'.phase = "sync" /\ main'.target = main.target
      /\ UNCHANGED <<active, chk, scope, forest, disk, archive, signal>>
      /\ spent'.reorgs = spent.reorgs /\ archive.base # NONE
  <2>1. /\ main \in MainState /\ main.pc = "validate" /\ main.phase = "sync"
        /\ main' = [main EXCEPT !.pc = "switch"]
        /\ UNCHANGED <<active, chk, scope, forest, disk, archive, signal>>
        /\ spent'.reorgs = spent.reorgs /\ archive.base # NONE
    BY MainFacts, OpenedFacts, InvGives, Zenon DEF Validate, At, Goto, InLoop, stores, Opened, Running,
       ControlInv, MainState, SyncPc, FollowPc, Starting, Saving, Following, FollowNext
  <2> QED BY <2>1, Zenon DEF MainState, SyncPc, FollowPc, Starting, Saving, Opened, Running
<1>3. ControlInv' /\ TipInv' /\ SyncInv' /\ FollowInv'
  BY <1>1, InvGives, Zenon DEF ControlInv, TipInv, SyncInv, FollowInv, Following, Alive, Running, SyncPc,
     FollowPc, Saving, Starting, SyncEnd, Drained, point
<1>4. /\ Alive /\ Alive' /\ main'.target <= Len(active)
      /\ Fetched(prefetch') /\ (Unforked => QueueActive(prefetch'))
      /\ InBatch' => prefetch' # NONE \/ signal \/ Len(point) >= main'.target
      /\ Running' /\ main'.pc \notin {"aligned", "mismatch"} => Clean(point)
  BY <1>1, QueueKept, InvGives, Zenon DEF Validate, FetchInv, FlawInv, Alive, InBatch, Saving, Running,
     point
<1> QED BY <1>1, <1>3, <1>4, MainMoves, Zenon

\* A batch has ended on the active chain.
LEMMA ValidateActive ==
    ASSUME BridgeInv, Validate, main.phase = "follow", Active(point)
    PROVE  BridgeInv'
<1>1. /\ main \in MainState /\ main.pc = "validate" /\ main.phase = "follow"
      /\ main' \in MainState /\ main'.pc = "idle" /\ main'.phase = "follow" /\ main'.target = main.target
      /\ UNCHANGED <<active, chk, scope, forest, disk, archive, signal>>
      /\ spent'.reorgs = spent.reorgs /\ archive.base # NONE
  <2>1. /\ main \in MainState /\ main.pc = "validate" /\ main.phase = "follow"
        /\ main' = [main EXCEPT !.pc = "idle"]
        /\ UNCHANGED <<active, chk, scope, forest, disk, archive, signal>>
        /\ spent'.reorgs = spent.reorgs /\ archive.base # NONE
    BY MainFacts, OpenedFacts, InvGives, Zenon DEF Validate, At, Goto, InLoop, stores, Opened, Running,
       ControlInv, MainState, SyncPc, FollowPc, Starting, Saving, Following, FollowNext
  <2> QED BY <2>1, Zenon DEF MainState, SyncPc, FollowPc, Starting, Saving, Opened, Running
<1>3. ControlInv' /\ TipInv' /\ SyncInv' /\ FollowInv'
  BY <1>1, InvGives, Zenon DEF ControlInv, TipInv, SyncInv, FollowInv, Following, Alive, Running, SyncPc,
     FollowPc, Saving, Starting, SyncEnd, Drained, point
<1>4. /\ Alive /\ Alive' /\ main'.target <= Len(active)
      /\ Fetched(prefetch') /\ (Unforked => QueueActive(prefetch'))
      /\ InBatch' => prefetch' # NONE \/ signal \/ Len(point) >= main'.target
      /\ Running' /\ main'.pc \notin {"aligned", "mismatch"} => Clean(point)
  BY <1>1, QueueKept, InvGives, Zenon DEF Validate, FetchInv, FlawInv, Alive, InBatch, Saving, Running,
     point
<1> QED BY <1>1, <1>3, <1>4, MainMoves, Zenon

\* A batch has ended off the active chain, for a shutdown.
LEMMA ValidateStopped ==
    ASSUME BridgeInv, Validate, main.phase = "follow", ~ Active(point), signal
    PROVE  BridgeInv'
<1>1. /\ main \in MainState /\ main.pc = "validate" /\ main.phase = "follow"
      /\ main' \in MainState /\ main'.pc = "shutdown" /\ main'.phase = "follow" /\ main'.target = main.target
      /\ UNCHANGED <<active, chk, scope, forest, disk, archive, signal>>
      /\ spent'.reorgs = spent.reorgs /\ archive.base # NONE
  <2>1. /\ main \in MainState /\ main.pc = "validate" /\ main.phase = "follow"
        /\ main' = [main EXCEPT !.pc = "shutdown"]
        /\ UNCHANGED <<active, chk, scope, forest, disk, archive, signal>>
        /\ spent'.reorgs = spent.reorgs /\ archive.base # NONE
    BY MainFacts, OpenedFacts, InvGives, Zenon DEF Validate, At, Goto, InLoop, stores, Opened, Running,
       ControlInv, MainState, SyncPc, FollowPc, Starting, Saving, Following, FollowNext
  <2> QED BY <2>1, Zenon DEF MainState, SyncPc, FollowPc, Starting, Saving, Opened, Running
<1>3. ControlInv' /\ TipInv' /\ SyncInv' /\ FollowInv'
  BY <1>1, InvGives, Zenon DEF ControlInv, TipInv, SyncInv, FollowInv, Following, Alive, Running, SyncPc,
     FollowPc, Saving, Starting, SyncEnd, Drained, point
<1>4. /\ Alive /\ Alive' /\ main'.target <= Len(active)
      /\ Fetched(prefetch') /\ (Unforked => QueueActive(prefetch'))
      /\ InBatch' => prefetch' # NONE \/ signal \/ Len(point) >= main'.target
      /\ Running' /\ main'.pc \notin {"aligned", "mismatch"} => Clean(point)
  BY <1>1, QueueKept, InvGives, Zenon DEF Validate, FetchInv, FlawInv, Alive, InBatch, Saving, Running,
     point
<1> QED BY <1>1, <1>3, <1>4, MainMoves, Zenon

\* A batch has ended off the active chain.
LEMMA ValidateLeft ==
    ASSUME BridgeInv, Validate, main.phase = "follow", ~ Active(point), ~ signal
    PROVE  BridgeInv'
<1>1. /\ main \in MainState /\ main.pc = "validate" /\ main.phase = "follow"
      /\ main' \in MainState /\ main'.pc = "reconcile" /\ main'.phase = "follow" /\ main'.target = main.target
      /\ UNCHANGED <<active, chk, scope, forest, disk, archive, signal>>
      /\ spent'.reorgs = spent.reorgs /\ archive.base # NONE
  <2>1. /\ main \in MainState /\ main.pc = "validate" /\ main.phase = "follow"
        /\ main' = [main EXCEPT !.pc = "reconcile"]
        /\ UNCHANGED <<active, chk, scope, forest, disk, archive, signal>>
        /\ spent'.reorgs = spent.reorgs /\ archive.base # NONE
    BY MainFacts, OpenedFacts, InvGives, Zenon DEF Validate, At, Goto, InLoop, stores, Opened, Running,
       ControlInv, MainState, SyncPc, FollowPc, Starting, Saving, Following, FollowNext
  <2> QED BY <2>1, Zenon DEF MainState, SyncPc, FollowPc, Starting, Saving, Opened, Running
<1>3. ControlInv' /\ TipInv' /\ SyncInv' /\ FollowInv'
  BY <1>1, InvGives, Zenon DEF ControlInv, TipInv, SyncInv, FollowInv, Following, Alive, Running, SyncPc,
     FollowPc, Saving, Starting, SyncEnd, Drained, point
<1>4. /\ Alive /\ Alive' /\ main'.target <= Len(active)
      /\ Fetched(prefetch') /\ (Unforked => QueueActive(prefetch'))
      /\ InBatch' => prefetch' # NONE \/ signal \/ Len(point) >= main'.target
      /\ Running' /\ main'.pc \notin {"aligned", "mismatch"} => Clean(point)
  BY <1>1, QueueKept, InvGives, Zenon DEF Validate, FetchInv, FlawInv, Alive, InBatch, Saving, Running,
     point
<1> QED BY <1>1, <1>3, <1>4, MainMoves, Zenon

\* Core is ahead: a batch begins.
LEMMA PollNew ==
    ASSUME BridgeInv, Poll, Height < Len(active)
    PROVE  BridgeInv'
<1>0. Len(active) \in Nat
  BY MainFacts, PrefixBasics, Zenon
<1>1. /\ main \in MainState /\ main.pc = "poll" /\ main.phase = "follow" /\ StartPrefetch(point, Len(active))
      /\ main' \in MainState /\ main'.pc = "loop" /\ main'.phase = "follow" /\ main'.target = Len(active)
      /\ UNCHANGED <<active, chk, scope, forest, disk, archive, signal>>
      /\ spent'.reorgs = spent.reorgs /\ archive.base # NONE
  <2>1. /\ main \in MainState /\ main.pc = "poll" /\ main.phase = "follow" /\ StartPrefetch(point, Len(active))
        /\ main' = [main EXCEPT !.pc = "loop", !.target = Len(active)]
        /\ UNCHANGED <<active, chk, scope, forest, disk, archive, signal>>
        /\ spent'.reorgs = spent.reorgs /\ archive.base # NONE
    BY MainFacts, OpenedFacts, InvGives, Zenon DEF Poll, At, Goto, InLoop, stores, Opened, Running,
       ControlInv, MainState, SyncPc, FollowPc, Starting, Saving, Following
  <2> QED BY <2>1, <1>0, Zenon DEF MainState, SyncPc, FollowPc, Starting, Saving, Opened, Running
<1>2. /\ Fetched(prefetch') /\ QueueActive(prefetch')
      /\ prefetch' # NONE \/ Len(point) >= Len(active)
  BY <1>0, <1>1, QueueNew DEF Alive
<1>3. ControlInv' /\ TipInv' /\ SyncInv' /\ FollowInv'
  BY <1>1, <1>2, <1>0, InvGives, Zenon DEF ControlInv, TipInv, SyncInv, FollowInv, Following, Alive,
     Running, SyncPc, FollowPc, Saving, Starting, SyncEnd, Drained, point
<1>4. /\ Alive /\ Alive' /\ main'.target <= Len(active)
      /\ Fetched(prefetch') /\ (Unforked => QueueActive(prefetch'))
      /\ InBatch' => prefetch' # NONE \/ signal \/ Len(point) >= main'.target
      /\ Running' /\ main'.pc \notin {"aligned", "mismatch"} => Clean(point)
  BY <1>1, <1>2, <1>0, InvGives DEF Poll, FetchInv, FlawInv, Alive, InBatch, Saving, Running, point
<1> QED BY <1>1, <1>3, <1>4, MainMoves, Zenon

\* Core is not ahead.
LEMMA PollSame ==
    ASSUME BridgeInv, Poll, ~ Height < Len(active)
    PROVE  BridgeInv'
<1>1. /\ main \in MainState /\ main.pc = "poll" /\ main.phase = "follow"
      /\ main' \in MainState /\ main'.pc = "idle" /\ main'.phase = "follow" /\ main'.target = main.target
      /\ UNCHANGED <<active, chk, scope, forest, disk, archive, signal>>
      /\ spent'.reorgs = spent.reorgs /\ archive.base # NONE
  BY MainFacts, OpenedFacts, InvGives DEF Poll, At, Goto, InLoop, stores, ControlInv, MainState,
     SyncPc, FollowPc, Starting, Saving, Following, Alive, Opened, Running
<1>3. ControlInv' /\ TipInv' /\ SyncInv' /\ FollowInv'
  BY <1>1, InvGives, Zenon DEF ControlInv, TipInv, SyncInv, FollowInv, Following, Alive, Running, SyncPc,
     FollowPc, Saving, Starting, SyncEnd, Drained, point
<1>4. /\ Alive /\ Alive' /\ main'.target <= Len(active)
      /\ Fetched(prefetch') /\ (Unforked => QueueActive(prefetch'))
      /\ InBatch' => prefetch' # NONE \/ signal \/ Len(point) >= main'.target
      /\ Running' /\ main'.pc \notin {"aligned", "mismatch"} => Clean(point)
  BY <1>1, QueueKept, InvGives, Zenon DEF Poll, FetchInv, FlawInv, Alive, InBatch, Saving, Running, point
<1> QED BY <1>1, <1>3, <1>4, MainMoves, Zenon

\* The follow loop ends.
LEMMA IdleStopped ==
    ASSUME BridgeInv, Idle, UNCHANGED <<forest, disk>>, signal
    PROVE  BridgeInv'
<1>1. /\ main \in MainState /\ main.pc = "idle" /\ main.phase = "follow"
      /\ main' \in MainState /\ main'.pc = "shutdown" /\ main'.phase = "follow" /\ main'.target = main.target
      /\ UNCHANGED <<active, chk, scope, forest, disk, archive, signal>>
      /\ spent'.reorgs = spent.reorgs /\ archive.base # NONE
  <2>1. /\ main \in MainState /\ main.pc = "idle" /\ main.phase = "follow"
        /\ main' = [main EXCEPT !.pc = "shutdown"]
        /\ UNCHANGED <<active, chk, scope, forest, disk, archive, signal>>
        /\ spent'.reorgs = spent.reorgs /\ archive.base # NONE
    BY MainFacts, OpenedFacts, InvGives, Zenon DEF Idle, At, Goto, InLoop, stores, Opened, Running,
       ControlInv, MainState, SyncPc, FollowPc, Starting, Saving, Following, FollowNext
  <2> QED BY <2>1, Zenon DEF MainState, SyncPc, FollowPc, Starting, Saving, Opened, Running
<1>3. ControlInv' /\ TipInv' /\ SyncInv' /\ FollowInv'
  BY <1>1, InvGives, Zenon DEF ControlInv, TipInv, SyncInv, FollowInv, Following, Alive, Running, SyncPc,
     FollowPc, Saving, Starting, SyncEnd, Drained, point
<1>4. /\ Alive /\ Alive' /\ main'.target <= Len(active)
      /\ Fetched(prefetch') /\ (Unforked => QueueActive(prefetch'))
      /\ InBatch' => prefetch' # NONE \/ signal \/ Len(point) >= main'.target
      /\ Running' /\ main'.pc \notin {"aligned", "mismatch"} => Clean(point)
  BY <1>1, QueueKept, InvGives, Zenon DEF Idle, FetchInv, FlawInv, Alive, InBatch, Saving, Running, point
<1> QED BY <1>1, <1>3, <1>4, MainMoves, Zenon

\* The next round begins.
LEMMA IdleNext ==
    ASSUME BridgeInv, Idle, UNCHANGED <<forest, disk>>, ~ signal
    PROVE  BridgeInv'
<1>1. /\ main \in MainState /\ main.pc = "idle" /\ main.phase = "follow"
      /\ main' \in MainState /\ main'.pc = "reconcile" /\ main'.phase = "follow" /\ main'.target = main.target
      /\ UNCHANGED <<active, chk, scope, forest, disk, archive, signal>>
      /\ spent'.reorgs = spent.reorgs /\ archive.base # NONE
  <2>1. /\ main \in MainState /\ main.pc = "idle" /\ main.phase = "follow"
        /\ main' = [main EXCEPT !.pc = "reconcile"]
        /\ UNCHANGED <<active, chk, scope, forest, disk, archive, signal>>
        /\ spent'.reorgs = spent.reorgs /\ archive.base # NONE
    BY MainFacts, OpenedFacts, InvGives, Zenon DEF Idle, At, Goto, InLoop, stores, Opened, Running,
       ControlInv, MainState, SyncPc, FollowPc, Starting, Saving, Following, FollowNext
  <2> QED BY <2>1, Zenon DEF MainState, SyncPc, FollowPc, Starting, Saving, Opened, Running
<1>3. ControlInv' /\ TipInv' /\ SyncInv' /\ FollowInv'
  BY <1>1, InvGives, Zenon DEF ControlInv, TipInv, SyncInv, FollowInv, Following, Alive, Running, SyncPc,
     FollowPc, Saving, Starting, SyncEnd, Drained, point
<1>4. /\ Alive /\ Alive' /\ main'.target <= Len(active)
      /\ Fetched(prefetch') /\ (Unforked => QueueActive(prefetch'))
      /\ InBatch' => prefetch' # NONE \/ signal \/ Len(point) >= main'.target
      /\ Running' /\ main'.pc \notin {"aligned", "mismatch"} => Clean(point)
  BY <1>1, QueueKept, InvGives, Zenon DEF Idle, FetchInv, FlawInv, Alive, InBatch, Saving, Running, point
<1> QED BY <1>1, <1>3, <1>4, MainMoves, Zenon

\* A RAM forest is saved at the shutdown.
LEMMA ShutdownSavesStep ==
    ASSUME BridgeInv, ShutdownSaves
    PROVE  BridgeInv'
<1>1. /\ main \in MainState /\ main.pc = "shutdown" /\ main.phase = "follow" /\ ~ forest.online
      /\ main' \in MainState /\ main'.pc = "save" /\ main'.phase = "follow" /\ main'.target = main.target
      /\ main'.then = "exit"
      /\ UNCHANGED <<active, chk, scope, forest, disk, archive, signal>>
      /\ spent'.reorgs = spent.reorgs /\ archive.base # NONE
  <2>1. /\ main \in MainState /\ main.pc = "shutdown" /\ main.phase = "follow" /\ ~ forest.online
        /\ main' = [main EXCEPT !.pc = "save", !.then = "exit"]
        /\ UNCHANGED <<active, chk, scope, forest, disk, archive, signal>>
        /\ spent'.reorgs = spent.reorgs /\ archive.base # NONE
    BY MainFacts, OpenedFacts, InvGives, Zenon DEF ShutdownSaves, At, Goto, InLoop, stores, Opened,
       Running, ControlInv, MainState, SyncPc, FollowPc, Starting, Saving, Following
  <2> QED BY <2>1, Zenon DEF MainState, SyncPc, FollowPc, Starting, Saving, Opened, Running
<1>3. ControlInv' /\ TipInv' /\ SyncInv' /\ FollowInv'
  BY <1>1, InvGives, Zenon DEF ControlInv, TipInv, SyncInv, FollowInv, Following, Alive, Running, SyncPc,
     FollowPc, Saving, Starting, SyncEnd, Drained, point
<1>4. /\ Alive /\ Alive' /\ main'.target <= Len(active)
      /\ Fetched(prefetch') /\ (Unforked => QueueActive(prefetch'))
      /\ InBatch' => prefetch' # NONE \/ signal \/ Len(point) >= main'.target
      /\ Running' /\ main'.pc \notin {"aligned", "mismatch"} => Clean(point)
  BY <1>1, QueueKept, InvGives, Zenon DEF ShutdownSaves, FetchInv, FlawInv, Alive, InBatch, Saving,
     Running, point
<1> QED BY <1>1, <1>3, <1>4, MainMoves, Zenon

-----------------------------------------------------------------------------
(* Blocks that two points have in common.                                   *)

\* A forest at p with u undo records can be brought to a block of the archive d.
Joinable(p, d, u) ==
    \E q \in Point : IsPrefix(q, p) /\ IsPrefix(q, d) /\ Len(p) <= Len(q) + u

\* The same, by height.
LEMMA JoinAs ==
    ASSUME NEW p \in Point, NEW d \in Point, NEW u \in Nat
    PROVE  Joinable(p, d, u)
             <=> \E h \in 0 .. Len(p) : IsPrefix(Prefix(p, h), d) /\ Len(p) <= h + u
<1>1. ASSUME NEW h \in 0 .. Len(p), IsPrefix(Prefix(p, h), d), Len(p) <= h + u
      PROVE  Joinable(p, d, u)
  BY <1>1, CutFacts, Zenon DEF Joinable
<1>2. ASSUME NEW q \in Point, IsPrefix(q, p), IsPrefix(q, d), Len(p) <= Len(q) + u
      PROVE  \E h \in 0 .. Len(p) : IsPrefix(Prefix(p, h), d) /\ Len(p) <= h + u
  BY <1>2, CutOf, Zenon
<1> QED BY <1>1, <1>2, Zenon DEF Joinable

\* A forest below the archive needs no undo record.
LEMMA JoinBelow ==
    ASSUME NEW p \in Point, NEW d \in Point, NEW u \in Nat, IsPrefix(p, d)
    PROVE  Joinable(p, d, u)
BY PrefixBasics DEF Joinable

\* A rollback uses one record.
LEMMA JoinFront ==
    ASSUME NEW p \in Point, NEW d \in Point, NEW u \in Nat, u > 0, p # <<>>, Joinable(p, d, u)
    PROVE  Joinable(Front(p), d, u - 1)
<1>1. /\ Front(p) \in Point /\ Len(p) = Len(Front(p)) + 1 /\ IsPrefix(Front(p), p)
      /\ Len(Front(p)) \in Nat /\ u - 1 \in Nat
  BY FrontFacts
<1>2. PICK q \in Point : IsPrefix(q, p) /\ IsPrefix(q, d) /\ Len(p) <= Len(q) + u
  BY Zenon DEF Joinable
<1>3. CASE q = p
  <2>1. IsPrefix(Front(p), d)
    BY <1>1, <1>2, <1>3, PrefixOrder, Zenon
  <2> QED BY <1>1, <2>1, JoinBelow, Zenon
<1>4. CASE q # p
  <2>1. IsPrefix(q, Front(p)) /\ Len(q) \in Nat
    BY <1>2, <1>4, PrefixFront, PrefixBasics, Zenon
  <2> QED BY <1>1, <1>2, <2>1 DEF Joinable
<1> QED BY <1>3, <1>4, Zenon

\* A block adds one.
LEMMA JoinNext ==
    ASSUME NEW p \in Point, NEW d \in Point, NEW u \in Nat, NEW b \in Point \ {<<>>}, Front(b) = p,
           Joinable(p, d, u)
    PROVE  Joinable(b, d, u + 1)
<1>1. Len(b) = Len(p) + 1 /\ IsPrefix(p, b) /\ Len(p) \in Nat
  BY FrontFacts, Zenon
<1>2. PICK q \in Point : IsPrefix(q, p) /\ IsPrefix(q, d) /\ Len(p) <= Len(q) + u
  BY Zenon DEF Joinable
<1>3. IsPrefix(q, b) /\ Len(q) \in Nat
  BY <1>1, <1>2, PrefixOrder, PrefixBasics, Zenon
<1> QED BY <1>1, <1>2, <1>3 DEF Joinable

\* A longer archive keeps what was common.
LEMMA JoinLonger ==
    ASSUME NEW p \in Point, NEW d \in Point, NEW e \in Point, NEW u \in Nat, Joinable(p, d, u),
           IsPrefix(d, e)
    PROVE  Joinable(p, e, u)
BY PrefixOrder, Zenon DEF Joinable

\* The undo records of a directory that count.
Depth(f) == IF scope.wal THEN f.undo ELSE 0

\* What JoinInv says.
LEMMA JoinFacts ==
    ASSUME BridgeInv, disk # NONE, archive.base # NONE
    PROVE  /\ disk.point \in Point /\ archive.durable \in Point /\ Depth(disk) \in Nat
           /\ Joinable(disk.point, archive.durable, Depth(disk))
<1>1. disk.point \in Point /\ archive.durable \in Point /\ Depth(disk) \in Nat
  BY MainFacts, ArchiveFacts, Zenon DEF Depth
<1> QED BY <1>1, JoinAs, InvGives, Zenon DEF JoinInv, Depth

\* What establishes it.
LEMMA JoinShown ==
    ASSUME UNCHANGED scope, disk' # NONE /\ archive'.base # NONE =>
             /\ disk'.point \in Point /\ archive'.durable \in Point /\ Depth(disk') \in Nat
             /\ Joinable(disk'.point, archive'.durable, Depth(disk'))
    PROVE  JoinInv'
BY JoinAs, Zenon DEF JoinInv, Depth

-----------------------------------------------------------------------------
(* The start.                                                               *)

\* The main thread is about to open the archive, the archive as it was.
LEMMA Started ==
    ASSUME BridgeInv, main.pc = "down", main' = [main EXCEPT !.pc = main'.pc],
           main'.pc \in {"reconcile", "open"},
           UNCHANGED <<active, prefetch, chk, scope, archive, signal, spent>>,
           ForestInv', JoinInv', Exposed(forest'.point), disk' # NONE => Exposed(disk'.point),
           archive.base = NONE => forest'.point = <<>> /\ (disk' # NONE => disk'.point = <<>>),
           Unforked => /\ Active(forest'.point) /\ (disk' # NONE => Active(disk'.point))
                       /\ \A f \in Saved : /\ IsPrefix(f.point, forest'.point)
                                           /\ disk' # NONE => IsPrefix(f.point, disk'.point)
    PROVE  BridgeInv'
<1>1. /\ main' \in MainState /\ main'.phase = "sync" /\ main'.target = main.target /\ Drained
  BY MainFacts, InvGives DEF ControlInv, TipInv, Following, MainState, SyncPc, FollowPc, Starting,
     Saving
<1>2. ~ Running' /\ ~ Opened' /\ Alive' /\ ~ Following' /\ ~ InBatch'
  BY <1>1, Zenon DEF Running, Opened, Alive, Following, InBatch, Saving
<1>3. ControlInv' /\ TipInv' /\ SyncInv' /\ FollowInv'
  BY <1>1, <1>2, Zenon DEF ControlInv, TipInv, SyncInv, FollowInv, SyncPc, Saving, Starting, SyncEnd, Drained
<1>4. FetchInv' /\ ArchiveInv' /\ FilesInv' /\ spent'.reorgs \in Nat
  BY <1>1, <1>2, InvGives, Zenon DEF FetchInv, ArchiveInv, FilesInv, Saved, Clean, point
<1>5. FlawInv' /\ ChainInv' /\ CoverInv'
  BY <1>1, <1>2, InvGives, Zenon DEF FlawInv, ChainInv, CoverInv, Exposed, Clean, Active, Unforked, Saved,
     point
<1> QED BY <1>3, <1>4, <1>5, InvParts, Zenon

\* The online directory is opened.
LEMMA LoadOnlineStep ==
    ASSUME BridgeInv, LoadOnline
    PROVE  BridgeInv'
<1>1. /\ disk \in DiskState /\ disk.point \in Point /\ disk.undo \in Nat /\ main \in MainState
      /\ main.pc = "down" /\ main' = [main EXCEPT !.pc = "reconcile"] /\ main'.pc = "reconcile"
      /\ forest' = [point |-> disk.point, undo |-> disk.undo, online |-> TRUE] /\ disk # NONE
      /\ UNCHANGED <<active, prefetch, chk, scope, disk, archive, signal, spent>>
  BY MainFacts, Zenon DEF LoadOnline, At, Goto, MainState
<1>2. /\ forest' \in ForestState /\ forest'.point = disk.point /\ forest'.undo = disk.undo
      /\ forest'.online /\ disk = [point |-> disk.point, undo |-> disk.undo]
  BY <1>1, Zenon DEF ForestState, DiskState
<1>3. ForestInv' /\ JoinInv'
  BY <1>1, <1>2, PrefixBasics, InvGives, Zenon DEF ForestInv, JoinInv, point
<1> QED BY <1>1, <1>2, <1>3, Started, InvGives, Zenon DEF FlawInv, ArchiveInv, ChainInv, CoverInv

\* A forest of a checkpoint or of the bootstrap.
LEMMA Imported ==
    ASSUME BridgeInv, main.pc = "down", disk = NONE, NEW p \in Point, Import(p), Clean(p),
           UNCHANGED <<active, prefetch, chk, scope, archive, signal, spent>>,
           p = <<>> \/ (scope.fast /\ archive.base # NONE),
           Unforked => Active(p) /\ \A f \in Saved : IsPrefix(f.point, p)
    PROVE  BridgeInv'
<1>1. /\ main' = [main EXCEPT !.pc = main'.pc] /\ main'.pc \in {"reconcile", "open"}
      /\ forest' = [point |-> p, undo |-> 0, online |-> ~ scope.fast]
      /\ disk' = IF scope.fast THEN NONE ELSE [point |-> p, undo |-> 0]
  BY MainFacts, Zenon DEF Import, Goto, MainState
<1>2. /\ forest' \in ForestState /\ forest'.point = p /\ forest'.undo = 0
      /\ forest'.online = ~ scope.fast /\ (scope.fast => disk' = NONE)
      /\ ~ scope.fast => disk' \in DiskState /\ disk'.point = p /\ disk'.undo = 0
                           /\ disk' = [point |-> p, undo |-> 0]
  BY <1>1, Zenon DEF ForestState, DiskState
<1>3. ForestInv'
  BY <1>2, PrefixBasics, Zenon DEF ForestInv, point
<1>4. JoinInv'
  <2>1. p = <<>> /\ archive.base # NONE =>
           archive.durable \in Point /\ Joinable(p, archive.durable, 0)
    BY ArchiveFacts, PrefixBasics, JoinBelow
  <2> QED BY <1>2, <2>1, JoinShown DEF Depth
<1> QED BY <1>1, <1>2, <1>3, <1>4, Started, Zenon DEF Exposed

\* The recovery checkpoint is loaded.
LEMMA LoadRecoveryStep ==
    ASSUME BridgeInv, LoadRecovery
    PROVE  BridgeInv'
<1>1. /\ chk.now # NOFILE /\ chk.now \in File /\ chk.now.point \in Point /\ chk.now \in Saved
  BY InvGives, Zenon DEF LoadRecovery, RecoveryAccepted, Loads, FilesInv, File, Saved
<1>2. Clean(chk.now.point) /\ scope.fast /\ archive.base # NONE
  BY <1>1, InvGives, Zenon DEF FilesInv
<1>3. Unforked => /\ Active(chk.now.point)
                  /\ \A f \in Saved : IsPrefix(f.point, chk.now.point)
  BY <1>1, PrefixBasics, InvGives, Zenon DEF CoverInv, Saved
<1> QED BY <1>1, <1>2, <1>3, Imported, Zenon DEF LoadRecovery, At

\* The bootstrap is loaded.
LEMMA LoadBootstrapStep ==
    ASSUME BridgeInv, LoadBootstrap
    PROVE  BridgeInv'
<1>1. <<>> \in Point /\ Active(<<>>)
  BY MainFacts, PrefixBasics, Zenon DEF Active
<1>2. Clean(<<>>)
  <2>1. archive.base = NONE => archive.flaw = NONE
    BY NoArchiveFacts DEF NoArchive
  <2> QED BY <2>1, ArchiveFacts, PrefixBasics, Zenon DEF Clean
<1>3. Unforked => \A f \in Saved : IsPrefix(f.point, <<>>)
  <2>1. ASSUME Unforked, NEW f \in Saved
        PROVE  FALSE
    <3>1. chk.now # NOFILE /\ chk.now \in Saved /\ chk.now.point \in Point
      BY <2>1, InvGives DEF FilesInv, Saved, File
    <3>2. chk.now.point # TORN
      BY <3>1, NoValues, Zenon DEF Point
    <3>3. Active(chk.now.point)
      BY <2>1, <3>1, InvGives, Zenon DEF CoverInv
    <3> QED BY <3>1, <3>2, <3>3, Zenon DEF LoadBootstrap, RecoveryAccepted, Loads
  <2> QED BY <2>1, Zenon
<1> QED BY <1>1, <1>2, <1>3, Imported, Zenon DEF LoadBootstrap, At

\* The archive is opened, or a new one begins at the bootstrap's point.
LEMMA OpenArchiveStep ==
    ASSUME BridgeInv, OpenArchive
    PROVE  BridgeInv'
<1>1. /\ main \in MainState /\ main.pc = "open" /\ main.phase = "sync"
      /\ main' \in MainState /\ main'.pc = "align" /\ main'.phase = "sync" /\ main'.target = main.target
      /\ UNCHANGED <<active, prefetch, chk, scope, forest, disk, signal, spent>>
  BY MainFacts, InvGives DEF OpenArchive, At, Goto, ControlInv, MainState, SyncPc, FollowPc,
     Starting, Saving, Following
<1>2. /\ ~ Running' /\ Alive /\ Alive' /\ ~ Following' /\ ~ InBatch' /\ Drained
  BY <1>1, InvGives, Zenon DEF Running, Alive, Following, InBatch, Saving, TipInv, Starting
<1>3. /\ archive'.base # NONE /\ archive' \in ArchiveState /\ archive'.flaw = archive.flaw
      /\ archive'.tip = archive'.durable
      /\ archive.base # NONE => archive' = archive
      /\ archive.base = NONE => /\ archive'.durable = <<>> /\ archive.flaw = NONE
                                /\ disk # NONE => disk.point = <<>>
                                /\ Saved = {}
  <2>1. CASE archive.base # NONE
    BY <1>2, <2>1, ArchiveFacts, Zenon DEF OpenArchive, Drained
  <2>2. CASE archive.base = NONE
    <3>0. <<>> \in Point /\ NONE \notin Point
      BY NoValues DEF Point
    <3>1. /\ point = <<>> /\ <<>> \in Point /\ archive.flaw = NONE /\ <<>> # NONE
          /\ disk # NONE => disk.point = <<>>
      BY <1>2, <2>2, <3>0, NoArchiveFacts, InvGives DEF ArchiveInv, NoArchive
    <3>2. archive' = [base |-> <<>>, tip |-> <<>>, durable |-> <<>>, flaw |-> NONE]
      BY <2>2, <3>1, Zenon DEF OpenArchive
    <3>3. Saved = {}
      BY <2>2, InvGives, Zenon DEF FilesInv
    <3> QED BY <2>2, <3>1, <3>2, <3>3, Zenon DEF ArchiveState
  <2> QED BY <2>1, <2>2, Zenon
<1>4. ControlInv' /\ TipInv' /\ SyncInv' /\ FollowInv'
  BY <1>1, <1>2, <1>3, Zenon DEF ControlInv, TipInv, SyncInv, FollowInv, SyncPc, Saving, Starting, SyncEnd,
     Drained
<1>5. FetchInv' /\ ForestInv' /\ FilesInv' /\ ChainInv' /\ CoverInv' /\ spent'.reorgs \in Nat
  BY <1>1, <1>2, <1>3, InvGives, ZenonT(40) DEF FetchInv, ForestInv, FilesInv, ChainInv, CoverInv, Saved, Clean,
     Unforked, Active, point
<1>6. JoinInv'
  <2>1. disk # NONE /\ archive.base = NONE => Joinable(<<>>, <<>>, Depth(disk)) /\ Depth(disk) \in Nat
    BY MainFacts, PrefixBasics, JoinBelow, Zenon DEF Depth
  <2>2. <<>> \in Point /\ Depth(disk)' = Depth(disk)
    BY <1>1 DEF Depth, Point
  <2> QED BY <1>1, <1>3, <2>1, <2>2, JoinFacts, JoinShown, Zenon DEF Depth
<1>7. ArchiveInv'
  <2>1. IsPrefix(archive'.durable, archive'.tip)
    BY <1>3, PrefixBasics, Zenon DEF ArchiveState
  <2> QED BY <1>3, <2>1, InvGives, Zenon DEF ArchiveInv
<1>8. FlawInv'
  BY <1>1, <1>2, <1>3, InvGives, Zenon DEF FlawInv, Exposed, Clean, point
<1> QED BY <1>4, <1>5, <1>6, <1>7, <1>8, InvParts, Zenon

-----------------------------------------------------------------------------
(* The forest is rolled back.                                               *)

\* The block above the front is taken off forest and directory; the archive has what
\* it had in common with them.
LEMMA RolledBack ==
    ASSUME BridgeInv, Alive, Alive', RollbackOnlineBlock, UNCHANGED <<scope, archive>>
    PROVE  /\ forest.online /\ point \in Point \ {<<>>} /\ disk # NONE /\ disk.point = point
           /\ point' = Front(point) /\ forest'.online /\ disk'.point = Front(point)
           /\ ForestInv' /\ JoinInv'
<1>1. /\ forest \in ForestState /\ point \in Point /\ forest.undo \in Nat
      /\ forest.online /\ scope.wal /\ forest.undo > 0 /\ point # <<>>
  BY MainFacts, Zenon DEF RollbackOnlineBlock, CanRollback
<1>2. disk = [point |-> point, undo |-> forest.undo] /\ disk.point = point /\ disk.undo = forest.undo
  BY <1>1, InvGives DEF ForestInv
<1>3. Front(point) \in Point
  BY <1>1, FrontFacts, Zenon
<1>4. /\ forest' \in ForestState /\ forest'.point = Front(point) /\ forest'.undo = forest.undo - 1
      /\ forest'.online /\ disk' = [point |-> Front(point), undo |-> forest.undo - 1]
      /\ disk'.point = Front(point) /\ disk'.undo = forest.undo - 1 /\ disk' \in DiskState
  <2> DEFINE f1 == [forest EXCEPT !.point = Front(point)]
  <2>1. /\ f1 \in ForestState /\ f1.point = Front(point) /\ f1.undo = forest.undo
        /\ f1.online = forest.online
    BY <1>1, <1>3, Zenon DEF ForestState
  <2>2. forest' = [f1 EXCEPT !.undo = forest.undo - 1]
    BY <1>1, Zenon DEF RollbackOnlineBlock, ForestState, point
  <2>3. disk' = [point |-> Front(point), undo |-> forest.undo - 1]
    BY Zenon DEF RollbackOnlineBlock
  <2>4. forest.undo - 1 \in Nat
    BY ONLY <1>1
  <2> HIDE DEF f1
  <2>5. /\ forest' \in ForestState /\ forest'.point = Front(point) /\ forest'.undo = forest.undo - 1
        /\ forest'.online
    BY ONLY <1>1, <2>1, <2>2, <2>4, Zenon DEF ForestState
  <2> QED BY ONLY <1>3, <2>3, <2>4, <2>5 DEF DiskState
<1>5. disk # NONE
  <2>1. point \in Seq(Label)
    BY <1>1, Zenon DEF Point
  <2>2. disk \in [point : Seq(Label), undo : Nat]
    BY ONLY <1>1, <1>2, <2>1
  <2> QED BY <2>2, NoValues, Zenon
<1>6. ForestInv'
  <2>1. scope'.wal /\ point' = Front(point)
    BY <1>1, <1>4, Zenon DEF point
  <2> QED BY <1>4, <2>1, Zenon DEF ForestInv
<1>7. JoinInv'
  <2>1. archive.base # NONE =>
           /\ archive.durable \in Point /\ Depth(disk') = forest.undo - 1 /\ Depth(disk') \in Nat
           /\ Joinable(point, archive.durable, forest.undo)
    BY <1>1, <1>2, <1>4, <1>5, JoinFacts DEF Depth
  <2>2. archive.base # NONE => Joinable(Front(point), archive.durable, forest.undo - 1)
    BY <1>1, <2>1, JoinFront, Zenon
  <2> QED BY <1>3, <1>4, <2>1, <2>2, JoinShown, Zenon
<1> QED BY <1>1, <1>2, <1>4, <1>5, <1>6, <1>7, Zenon DEF point

\* A wrong record that the forest may stand on is not below it.
LEMMA FrontClean ==
    ASSUME BridgeInv, NEW p \in Point \ {<<>>}, Exposed(p)
    PROVE  Clean(Front(p))
<1>1. Front(p) \in Point /\ IsPrefix(Front(p), p) /\ ~ IsPrefix(p, Front(p))
  BY FrontFacts, Zenon
<1>2. archive.flaw # NONE => archive.flaw.point \in Point
  BY ArchiveFacts, NoArchiveFacts DEF NoArchive
<1> QED BY <1>1, <1>2, PrefixOrder, Zenon DEF Clean, Exposed

\* One round of a rollback, by whatever loop.
LEMMA BackOne ==
    ASSUME BridgeInv, Alive, RollbackOnlineBlock,
           UNCHANGED <<active, prefetch, chk, scope, archive, signal, spent>>,
           main.pc \in {"reconcile", "rollback", "mismatch"},
           main' = main \/ (main.pc = "reconcile" /\ main' = [main EXCEPT !.moved = TRUE]),
           main.pc = "reconcile" => main'.moved,
           main.pc = "rollback" => IsPrefix(main.goal, Front(point)),
           main.pc = "mismatch" => Front(point) = main.goal,
           Unforked => \A f \in Saved : IsPrefix(f.point, Front(point))
    PROVE  BridgeInv'
<1>1. /\ main' \in MainState /\ main'.pc = main.pc /\ main'.phase = main.phase
      /\ main'.target = main.target /\ main'.goal = main.goal /\ (main.pc = "reconcile" => main'.moved)
  BY MainFacts, Zenon DEF MainState
<1>2. Alive' /\ ~ InBatch' /\ Running' = Running /\ Opened' = Opened /\ Following' = Following
  BY <1>1, Zenon DEF Alive, InBatch, Running, Opened, Following, Saving
<1>3. /\ forest.online /\ point \in Point \ {<<>>} /\ disk # NONE /\ disk.point = point
      /\ point' = Front(point) /\ forest'.online /\ disk'.point = Front(point)
      /\ ForestInv' /\ JoinInv'
  BY <1>2, RolledBack, Zenon
<1>4. Front(point) \in Point /\ IsPrefix(Front(point), point) /\ Clean(Front(point))
  BY <1>3, FrontFacts, FrontClean, InvGives, Zenon DEF FlawInv
<1>5. Running => IsPrefix(Front(point), archive.tip)
  <2>1. Running => archive.base # NONE
    BY OpenedFacts, Zenon DEF Opened
  <2>2. Running => archive.tip \in Point /\ IsPrefix(point, archive.tip)
    BY <2>1, ArchiveFacts, InvGives, Zenon DEF TipInv
  <2> QED BY <1>3, <1>4, <2>2, PrefixOrder, Zenon
<1>6. ControlInv'
  BY <1>1, <1>2, <1>3, InvGives, Zenon DEF ControlInv, Saving
<1>7. TipInv'
  BY <1>1, <1>2, <1>3, <1>5, InvGives, Zenon DEF TipInv, Drained
<1>8. SyncInv' /\ FollowInv'
  BY <1>1, <1>2, InvGives, Zenon DEF SyncInv, FollowInv, Drained, Saving, SyncEnd
<1>9. FetchInv' /\ FilesInv' /\ spent'.reorgs \in Nat
  BY <1>1, <1>2, InvGives, Zenon DEF FetchInv, FilesInv, Saved, Clean, Drained
<1>10. ArchiveInv' /\ FlawInv'
  <2>1. archive.base # NONE
    BY <1>3, InvGives, Zenon DEF ArchiveInv
  <2> QED BY <1>1, <1>2, <1>3, <1>4, <2>1, InvGives, Zenon DEF ArchiveInv, FlawInv, Exposed, Clean
<1>11. ChainInv'
  <2>1. Unforked => Active(Front(point))
    BY <1>3, <1>4, MainFacts, PrefixOrder, InvGives DEF ChainInv, Active
  <2> QED BY <1>1, <1>3, <2>1, InvGives, Zenon DEF ChainInv, Active, Unforked
<1>12. CoverInv'
  BY <1>1, <1>3, InvGives, Zenon DEF CoverInv, Active, Unforked, Saved
<1> QED BY <1>3, <1>6, <1>7, <1>8, <1>9, <1>10, <1>11, <1>12, InvParts, Zenon

\* A block that Core has left.
LEMMA ReconcileRollbackStep ==
    ASSUME BridgeInv, ReconcileRollback
    PROVE  BridgeInv'
<1>1. /\ main.pc = "reconcile" /\ Alive /\ main' = [main EXCEPT !.moved = TRUE] /\ main'.moved
      /\ UNCHANGED <<active, prefetch, chk, scope, archive, signal, spent>>
  BY MainFacts, Zenon DEF ReconcileRollback, At, Alive, MainState
<1>2. ~ Unforked
  BY <1>1, InvGives, Zenon DEF ReconcileRollback, ChainInv
<1> QED BY <1>1, <1>2, BackOne, Zenon DEF ReconcileRollback

\* A block above the last one in common with the archive.
LEMMA AlignRollbackStep ==
    ASSUME BridgeInv, AlignRollback, CanRollback
    PROVE  BridgeInv'
<1>1. /\ main.pc = "rollback" /\ Alive /\ main' = main /\ point # main.goal /\ RollbackOnlineBlock
      /\ UNCHANGED <<active, prefetch, chk, scope, archive, signal, spent>>
  BY Zenon DEF AlignRollback, At, Alive
<1>2. main.goal \in Point /\ IsPrefix(main.goal, point) /\ point \in Point \ {<<>>}
  BY <1>1, MainFacts, InvGives, Zenon DEF TipInv, CanRollback
<1>3. IsPrefix(main.goal, Front(point)) /\ Front(point) \in Point
  BY <1>1, <1>2, PrefixFront, FrontFacts, Zenon
<1>4. Unforked => \A f \in Saved : IsPrefix(f.point, Front(point))
  <2>1. \A f \in Saved : f.point \in Point
    BY InvGives DEF FilesInv, Saved, File
  <2>2. Unforked => \A f \in Saved : IsPrefix(f.point, main.goal)
    BY <1>1, InvGives, Zenon DEF CoverInv
  <2> QED BY <1>2, <1>3, <2>1, <2>2, PrefixOrder, Zenon
<1> QED BY <1>1, <1>3, <1>4, BackOne, Zenon

\* The block whose archived state is wrong.
LEMMA MismatchRollbackStep ==
    ASSUME BridgeInv, MismatchRollback, CanRollback
    PROVE  BridgeInv'
<1>1. /\ main.pc = "mismatch" /\ Alive /\ main' = main /\ point # main.goal /\ RollbackOnlineBlock
      /\ UNCHANGED <<active, prefetch, chk, scope, archive, signal, spent>>
  BY Zenon DEF MismatchRollback, At, Alive
<1>2. Front(point) = main.goal
  BY <1>1, InvGives, Zenon DEF TipInv
<1>3. Unforked => \A f \in Saved : IsPrefix(f.point, Front(point))
  BY <1>1, <1>2, InvGives, Zenon DEF CoverInv
<1> QED BY <1>1, <1>2, <1>3, BackOne, Zenon

-----------------------------------------------------------------------------
(* The archive is cut.                                                      *)

\* The directory is at the forest's block or below it.
LEMMA DiskBelow ==
    ASSUME BridgeInv, Alive, disk # NONE
    PROVE  forest.online /\ IsPrefix(disk.point, point)
<1>1. point \in Point /\ forest.online
  BY MainFacts, InvGives, Zenon DEF ForestInv
<1> QED BY <1>1, PrefixBasics, InvGives DEF ForestInv

\* A checkpoint is at a chain point.
LEMMA SavedPoints ==
    ASSUME BridgeInv, NEW f \in Saved
    PROVE  f.point \in Point
BY InvGives DEF FilesInv, Saved, File

\* A record that is cut off was above the cut, and the rest is as it was.
LEMMA CutArchive ==
    ASSUME BridgeInv, archive.base # NONE, NEW g \in Point, Truncate(g), IsPrefix(g, archive.durable)
    PROVE  /\ archive' \in ArchiveState /\ archive'.base = archive.base
           /\ archive'.tip = g /\ archive'.durable = g /\ archive'.flaw \in {archive.flaw, NONE}
           /\ archive'.flaw # NONE => IsPrefix(archive'.flaw.point, g)
<1> DEFINE fl == IF archive.flaw # NONE /\ Len(archive.flaw.point) > Len(g) THEN NONE ELSE archive.flaw
<1>1. /\ archive \in ArchiveState /\ fl \in Flaw \cup {NONE} /\ fl \in {archive.flaw, NONE}
  BY ArchiveFacts, Zenon DEF ArchiveState
<1>2. fl # NONE => IsPrefix(fl.point, g)
  <2>1. archive.flaw # NONE => /\ archive.flaw.point \in Point /\ archive.durable \in Point
                               /\ IsPrefix(archive.flaw.point, archive.durable)
                               /\ Len(archive.flaw.point) \in Nat /\ Len(g) \in Nat
    BY ArchiveFacts, PrefixBasics, Zenon
  <2> QED BY <2>1, PrefixOrder
<1>3. archive' = [archive EXCEPT !.tip = g, !.durable = g, !.flaw = fl]
  BY <1>1, Zenon DEF Truncate, ArchiveState
<1> HIDE DEF fl
<1>4. /\ archive' \in ArchiveState /\ archive'.base = archive.base /\ archive'.tip = g
      /\ archive'.durable = g /\ archive'.flaw = fl
  BY ONLY <1>1, <1>3, g \in Point, Zenon DEF ArchiveState
<1> QED BY <1>1, <1>2, <1>4, Zenon

\* The forest stays at or below the cut.
LEMMA CutMoves ==
    ASSUME BridgeInv, Alive, archive.base # NONE, NEW g \in Point, Truncate(g),
           IsPrefix(g, archive.durable), IsPrefix(point, g),
           UNCHANGED <<active, chk, scope, forest, disk, signal, spent>>,
           main'.phase = main.phase,
           \/ main'.pc = "aligned"
           \/ main'.pc = "modify" /\ g = point /\ (Unforked => Active(main'.block))
           \/ main'.pc = "poll",
           main'.pc # "aligned" => Clean(point),
           FetchInv', Unforked => QueueActive(prefetch'),
           ControlInv', TipInv', SyncInv', FollowInv'
    PROVE  BridgeInv'
<1>1. /\ archive' \in ArchiveState /\ archive'.base # NONE
      /\ archive'.tip = g /\ archive'.durable = g /\ archive'.flaw \in {archive.flaw, NONE}
      /\ archive'.flaw # NONE => IsPrefix(archive'.flaw.point, g)
  BY CutArchive, Zenon
<1>2. point \in Point /\ Alive'
  BY MainFacts, Zenon DEF Alive
<1>3. disk # NONE => IsPrefix(disk.point, g) /\ disk.point \in Point
  BY <1>2, MainFacts, DiskBelow, PrefixOrder, Zenon
<1>4. JoinInv'
  <2>1. disk # NONE => Joinable(disk.point, g, Depth(disk)) /\ Depth(disk) \in Nat
    BY <1>3, MainFacts, JoinBelow, Zenon DEF Depth
  <2>2. Depth(disk)' = Depth(disk)
    BY Zenon DEF Depth
  <2> QED BY <1>1, <1>3, <2>1, <2>2, JoinShown, Zenon DEF Depth
<1>5. ForestInv' /\ spent'.reorgs \in Nat
  BY <1>2, InvGives, Zenon DEF ForestInv, point
<1>6. ArchiveInv'
  <2>1. IsPrefix(g, g)
    BY PrefixBasics, Zenon
  <2> QED BY <1>1, <2>1, InvGives, Zenon DEF ArchiveInv
<1>7. FlawInv'
  BY <1>1, InvGives, Zenon DEF FlawInv, Exposed, Clean, point
<1>8. FilesInv'
  BY <1>1, InvGives, Zenon DEF FilesInv, Saved, Clean
<1>9. ChainInv'
  BY <1>2, InvGives, Zenon DEF ChainInv, Unforked, Active, QueueActive, point
<1>10. CoverInv'
  <2>1. Unforked => \A f \in Saved : IsPrefix(f.point, g)
    BY <1>2, SavedPoints, PrefixOrder, InvGives, Zenon DEF CoverInv
  <2> QED BY <1>1, <2>1, InvGives, Zenon DEF CoverInv, Unforked, Active, Saved, point
<1> QED BY <1>4, <1>5, <1>6, <1>7, <1>8, <1>9, <1>10, InvParts, Zenon

\* The archive is cut at the block the forest was rolled back to.
LEMMA AlignArchiveStep ==
    ASSUME BridgeInv, AlignArchive
    PROVE  BridgeInv'
<1>1. /\ main \in MainState /\ main.pc = "rollback" /\ main.phase = "sync" /\ archive.base # NONE /\ Alive
      /\ main' = [main EXCEPT !.pc = "aligned", !.goal = NONE] /\ point = main.goal /\ Truncate(point)
      /\ UNCHANGED <<active, prefetch, chk, scope, forest, disk, signal, spent>>
  BY MainFacts, OpenedFacts, InvGives, Zenon DEF AlignArchive, At, Opened, Alive, ControlInv, FollowPc,
     Saving, Following, MainState
<1>2. /\ main' \in MainState /\ main'.pc = "aligned" /\ main'.phase = "sync"
      /\ main'.target = main.target /\ point \in Point /\ IsPrefix(point, archive.durable)
      /\ IsPrefix(point, point) /\ archive'.tip = point /\ archive'.durable = point
  <2>1. point \in Point /\ IsPrefix(point, archive.durable) /\ IsPrefix(point, point)
    BY <1>1, MainFacts, PrefixBasics, InvGives, Zenon DEF TipInv
  <2> QED BY <1>1, <2>1, CutArchive, Zenon DEF MainState, SyncPc
<1>3. ControlInv' /\ TipInv' /\ SyncInv' /\ FollowInv' /\ FetchInv' /\ (Unforked => QueueActive(prefetch'))
  BY <1>1, <1>2, QueueKept, InvGives DEF ControlInv, TipInv, SyncInv, FollowInv, FetchInv,
     Following, Alive, Running, InBatch, SyncPc, FollowPc, Saving, Starting, SyncEnd, Drained, point
<1> QED BY <1>1, <1>2, <1>3, CutMoves, Zenon

\* The stale end of an archive that is ahead is cut.
LEMMA ScanConfirmStep ==
    ASSUME BridgeInv, ScanConfirm, Active(main.goal)
    PROVE  BridgeInv'
<1> DEFINE g == main.goal
<1>1. /\ main \in MainState /\ main.pc = "confirm" /\ main.phase = "sync" /\ archive.base # NONE /\ Alive
      /\ main' = [main EXCEPT !.pc = "aligned", !.goal = NONE] /\ Truncate(g)
      /\ UNCHANGED <<active, prefetch, chk, scope, forest, disk, signal, spent>>
  BY MainFacts, OpenedFacts, InvGives, Zenon DEF ScanConfirm, At, Opened, Alive, ControlInv, FollowPc,
     Saving, Following, MainState
<1>2. /\ main' \in MainState /\ main'.pc = "aligned" /\ main'.phase = "sync"
      /\ main'.target = main.target /\ g \in Point /\ IsPrefix(g, archive.durable)
      /\ IsPrefix(point, g) /\ archive'.tip = g /\ archive'.durable = g
  <2>1. g \in Point /\ IsPrefix(g, archive.durable) /\ IsPrefix(point, g)
    BY <1>1, InvGives, Zenon DEF TipInv
  <2> QED BY <1>1, <2>1, CutArchive, Zenon DEF MainState, SyncPc
<1> HIDE DEF g
<1>3. ControlInv' /\ TipInv' /\ SyncInv' /\ FollowInv' /\ FetchInv' /\ (Unforked => QueueActive(prefetch'))
  BY <1>1, <1>2, QueueKept, InvGives DEF ControlInv, TipInv, SyncInv, FollowInv, FetchInv,
     Following, Alive, Running, InBatch, SyncPc, FollowPc, Saving, Starting, SyncEnd, Drained, point
<1> QED BY <1>1, <1>2, <1>3, CutMoves, Zenon

-----------------------------------------------------------------------------
(* A block is taken.                                                        *)

\* A state of the prefetch thread is not an absent one.
LEMMA Present ==
    ASSUME NEW q \in PrefetchState
    PROVE  q # NONE
<1>1. q \in [height : Nat, target : Nat, queue : Seq(Seq(Label)), stop : BOOLEAN, done : BOOLEAN]
  BY Zenon DEF PrefetchState, Point
<1> QED BY <1>1, NoValues, Zenon

\* NextFetchedBlock takes the head of the queue.
LEMMA QueueTaken ==
    ASSUME BridgeInv, prefetch # NONE, NextFetchedBlock
    PROVE  /\ Head(prefetch.queue) \in Point /\ (Unforked => Active(Head(prefetch.queue)))
           /\ prefetch' # NONE /\ Fetched(prefetch') /\ (Unforked => QueueActive(prefetch'))
<1> DEFINE q == prefetch.queue
<1>1. /\ prefetch \in PrefetchState /\ prefetch.target <= Len(active)
      /\ Unforked => \A i \in 1 .. Len(prefetch.queue) : Active(prefetch.queue[i])
  BY InvGives, Zenon DEF FetchInv, ChainInv
<1>2. q \in Seq(Point) /\ q # <<>>
  BY <1>1, Zenon DEF PrefetchState, NextFetchedBlock
<1>3. /\ Head(q) \in Point /\ Tail(q) \in Seq(Point) /\ Len(q) \in Nat /\ Len(q) >= 1
      /\ Len(Tail(q)) = Len(q) - 1 /\ Head(q) = q[1]
      /\ \A i \in 1 .. Len(Tail(q)) : Tail(q)[i] = q[i + 1]
  BY ONLY <1>2
<1>4. /\ prefetch' \in PrefetchState /\ prefetch'.queue = Tail(q) /\ prefetch'.target = prefetch.target
  BY <1>1, <1>3, Zenon DEF PrefetchState, NextFetchedBlock
<1>5. Unforked => Active(Head(q)) /\ \A i \in 1 .. Len(Tail(q)) : Active(Tail(q)[i])
  <2>1. \A i \in 1 .. Len(Tail(q)) : i + 1 \in 1 .. Len(q)
    BY ONLY <1>3
  <2>2. 1 \in 1 .. Len(q)
    BY ONLY <1>3
  <2> QED BY <1>1, <1>3, <2>1, <2>2, Zenon
<1> QED BY <1>1, <1>3, <1>4, <1>5, Present, Zenon DEF Fetched, QueueActive

\* Where forest and archive are when the loop takes a block.
LEMMA LoopFacts ==
    ASSUME BridgeInv, InLoop, Continues
    PROVE  /\ main \in MainState /\ main.pc = "loop" /\ Alive /\ archive.base # NONE /\ Running
           /\ ~ signal /\ Len(point) < main.target /\ main.target \in Nat /\ prefetch # NONE
           /\ point \in Point /\ Len(point) \in Nat /\ archive.tip \in Point /\ archive.durable \in Point
           /\ Len(archive.tip) \in Nat /\ Len(archive.durable) \in Nat
           /\ IsPrefix(point, archive.tip) /\ IsPrefix(archive.durable, archive.tip)
           /\ Drained \/ archive.tip = point
           /\ Following => Drained /\ archive.tip = point
           /\ ~ Following => Len(archive.tip) <= main.target
           /\ Clean(point)
<1>1. main.pc = "loop" /\ Alive /\ Running /\ Opened /\ InBatch
  BY Zenon DEF InLoop, At, Alive, Running, Opened, InBatch
<1>2. /\ main \in MainState /\ main.target \in Nat /\ point \in Point /\ Len(point) \in Nat
      /\ archive.base # NONE
  BY <1>1, MainFacts, OpenedFacts, Zenon DEF MainState
<1>3. ~ signal /\ Len(point) < main.target
  BY Zenon DEF Continues, Height, point
<1>4. prefetch # NONE
  BY <1>1, <1>2, <1>3, InvGives DEF FetchInv
<1>5. /\ archive.tip \in Point /\ archive.durable \in Point /\ IsPrefix(archive.durable, archive.tip)
      /\ Len(archive.tip) \in Nat /\ Len(archive.durable) \in Nat
  BY <1>2, ArchiveFacts, PrefixBasics, Zenon
<1>6. /\ IsPrefix(point, archive.tip) /\ Clean(point) /\ (Drained \/ archive.tip = point)
      /\ Following => Drained /\ archive.tip = point
      /\ ~ Following => Len(archive.tip) <= main.target
  BY <1>1, InvGives, Zenon DEF TipInv, SyncInv, FollowInv, FlawInv
<1> QED BY <1>1, <1>2, <1>3, <1>4, <1>5, <1>6, Zenon

\* What the policy answers for a block on top of the forest's, the archive beginning
\* at the root block.
LEMMA PolicyFacts ==
    ASSUME BridgeInv, InLoop, Continues, NEW b \in Point \ {<<>>}, Connects(point, b)
    PROVE  LET w == b # Prefix(archive.durable, Len(b)) \/ FlawAt(b, "proof") IN
           /\ Len(b) > Len(archive.durable) => ProofPolicy(b) = [generate |-> TRUE, cut |-> FALSE]
           /\ Len(b) <= Len(archive.durable) =>
                ProofPolicy(b) = NONE \/ ProofPolicy(b) = [generate |-> w, cut |-> w]
<1>1. archive.base = <<>> /\ Len(archive.durable) \in Nat /\ Len(point) \in Nat
  BY LoopFacts, ArchiveFacts, Zenon
<1>2. Len(b) \in Nat /\ ~ Len(b) < Len(archive.base) /\ Len(b) # Len(archive.base)
  BY <1>1 DEF Connects
<1>3. Len(b) <= Len(archive.durable) => ~ Len(b) > Len(archive.durable)
  BY <1>1, <1>2
<1> QED
  BY <1>2, <1>3, Zenon DEF ProofPolicy

\* The archive ends at the forest's block: a proof is generated.
LEMMA AboveArchive ==
    ASSUME BridgeInv, InLoop, Continues, NEW b \in Point \ {<<>>}, Connects(point, b),
           Len(b) > Len(archive.durable)
    PROVE  archive.tip = point /\ Clean(b)
<1>1. Len(b) = Len(point) + 1 /\ IsPrefix(point, b) /\ point \in Point /\ Len(point) \in Nat
  BY FrontFacts, LoopFacts, Zenon DEF Connects
<1>2. Len(archive.durable) <= Len(point) /\ archive.durable \in Point
  BY <1>1, LoopFacts
<1>3. archive.tip = point
  BY <1>1, <1>2, LoopFacts, PrefixBasics, Zenon DEF Drained
<1>4. archive.flaw # NONE => /\ archive.flaw.point \in Point /\ Len(archive.flaw.point) <= Len(point)
  <2>1. archive.flaw # NONE => /\ archive.flaw.point \in Point
                               /\ Len(archive.flaw.point) <= Len(archive.durable)
                               /\ Len(archive.flaw.point) \in Nat /\ Len(archive.durable) \in Nat
    BY LoopFacts, ArchiveFacts, PrefixBasics, Zenon
  <2> QED BY <1>1, <1>2, <2>1
<1>5. Clean(point)
  BY LoopFacts, Zenon
<1> QED BY <1>1, <1>3, <1>4, <1>5, PrefixOrder, Zenon DEF Clean

\* The archived record of the block is reused.
LEMMA WithinArchive ==
    ASSUME BridgeInv, InLoop, Continues, NEW b \in Point \ {<<>>}, Connects(point, b),
           Len(b) <= Len(archive.durable)
    PROVE  /\ Drained /\ ~ Following
           /\ b = Prefix(archive.durable, Len(b)) /\ ~ FlawAt(b, "proof") =>
                IsPrefix(b, archive.tip) /\ Exposed(b)
<1>1. Len(b) = Len(point) + 1 /\ IsPrefix(point, b) /\ point \in Point /\ Len(point) \in Nat
  BY FrontFacts, LoopFacts, Zenon DEF Connects
<1>2. /\ Len(archive.durable) \in Nat /\ Len(archive.tip) \in Nat /\ archive.durable \in Point
      /\ Len(archive.durable) <= Len(archive.tip)
  BY LoopFacts, PrefixBasics, Zenon
<1>3. Drained /\ ~ Following
  BY <1>1, <1>2, LoopFacts
<1>4. b = Prefix(archive.durable, Len(b)) => IsPrefix(b, archive.tip)
  BY <1>1, <1>2, <1>3, CutFacts DEF Drained
<1>5. ~ FlawAt(b, "proof") => Exposed(b)
  <2>1. archive.flaw # NONE =>
          /\ archive.flaw.point \in Point /\ archive.flaw.kind \in {"proof", "state"}
          /\ archive.flaw = [point |-> archive.flaw.point, kind |-> archive.flaw.kind]
    BY LoopFacts, ArchiveFacts, Zenon DEF Flaw
  <2>2. ~ Clean(b) => archive.flaw # NONE /\ archive.flaw.point = b
    BY <1>1, <2>1, LoopFacts, PrefixFront, Zenon DEF Clean, Connects
  <2> QED BY <2>1, <2>2, Zenon DEF Exposed, FlawAt
<1> QED BY <1>3, <1>4, <1>5, Zenon

\* TakeBlock: the archive as it was, or cut at the forest's block.
LEMMA TakeBlockStep ==
    ASSUME BridgeInv, TakeBlock
    PROVE  BridgeInv'
<1> DEFINE b == Head(prefetch.queue)
<1>1. /\ InLoop /\ Continues /\ Connects(point, b) /\ ProofPolicy(b) # NONE /\ NextFetchedBlock
      /\ IF ProofPolicy(b).cut THEN Truncate(point) ELSE UNCHANGED archive
      /\ main' = [main EXCEPT !.pc = "modify", !.block = b, !.generate = ProofPolicy(b).generate]
      /\ UNCHANGED <<active, chk, scope, forest, disk, signal, spent>>
  BY Zenon DEF TakeBlock
<1>2. /\ main \in MainState /\ main.pc = "loop" /\ Alive /\ archive.base # NONE /\ Running
      /\ Len(point) < main.target /\ main.target \in Nat /\ prefetch # NONE
      /\ point \in Point /\ Len(point) \in Nat /\ IsPrefix(point, archive.tip) /\ Clean(point)
      /\ Following => Drained /\ archive.tip = point
      /\ ~ Following => Len(archive.tip) <= main.target
  BY <1>1, LoopFacts, Zenon
<1>3. /\ b \in Point /\ (Unforked => Active(b)) /\ prefetch' # NONE /\ Fetched(prefetch')
      /\ Unforked => QueueActive(prefetch')
  BY <1>1, <1>2, QueueTaken, Zenon
<1>4. b # <<>> /\ Front(b) = point /\ Len(b) = Len(point) + 1
  BY <1>1, <1>2, <1>3, PrefixBasics DEF Connects
<1> HIDE DEF b
<1>5. ProofPolicy(b).generate \in BOOLEAN /\ ProofPolicy(b).cut \in BOOLEAN
  <2>1. Len(b) > Len(archive.durable) \/ Len(b) <= Len(archive.durable)
    BY <1>1, <1>2, <1>4, LoopFacts
  <2> DEFINE w == b # Prefix(archive.durable, Len(b)) \/ FlawAt(b, "proof")
  <2>2. w = TRUE \/ w = FALSE
    BY Zenon DEF FlawAt
  <2>3. CASE Len(b) > Len(archive.durable)
    <3>1. ProofPolicy(b) = [generate |-> TRUE, cut |-> FALSE]
      BY <1>1, <1>3, <1>4, <2>3, PolicyFacts, Zenon
    <3> QED BY ONLY <3>1
  <2>4. CASE Len(b) <= Len(archive.durable)
    <3>1. ProofPolicy(b).generate = w /\ ProofPolicy(b).cut = w
      BY <1>1, <1>3, <1>4, <2>4, PolicyFacts
    <3> HIDE DEF w
    <3> QED BY ONLY <2>2, <3>1, Zenon
  <2> QED BY <2>1, <2>3, <2>4, Zenon
<1>6. /\ main' \in MainState /\ main'.pc = "modify" /\ main'.phase = main.phase
      /\ main'.target = main.target /\ main'.block = b /\ main'.generate = ProofPolicy(b).generate
  BY ONLY <1>1, <1>2, <1>3, <1>5, Zenon DEF MainState, SyncPc
<1>7. Alive' /\ Running' /\ Following' = Following /\ Opened' /\ InBatch'
  BY <1>6, Zenon DEF Alive, Running, Following, Opened, InBatch
<1>8. ControlInv'
  BY <1>1, <1>2, <1>6, <1>7, InvGives DEF ControlInv, SyncPc, FollowPc, Saving
<1>9. FetchInv'
  BY <1>1, <1>3, <1>6, <1>7, InvGives, Zenon DEF FetchInv, Fetched
<1>10. Len(b) <= main.target
  BY <1>2, <1>4
<1>11. CASE Len(b) > Len(archive.durable)
  <2>1. archive.tip = point /\ Clean(b)
    BY <1>1, <1>3, <1>4, <1>11, AboveArchive, Zenon
  <2>2. ProofPolicy(b) = [generate |-> TRUE, cut |-> FALSE]
    BY <1>1, <1>3, <1>4, <1>11, PolicyFacts, Zenon
  <2>3. UNCHANGED archive /\ main'.generate
    BY <1>1, <1>6, <2>2
  <2>4. TipInv' /\ SyncInv' /\ FollowInv'
    BY <1>1, <1>2, <1>3, <1>4, <1>6, <1>7, <1>10, <2>1, <2>3, Zenon
       DEF TipInv, SyncInv, FollowInv, Drained, Saving, SyncEnd, Starting, point
  <2> QED BY <1>1, <1>2, <1>3, <1>6, <1>7, <1>8, <1>9, <2>1, <2>3, <2>4, MainMoves, Zenon
          DEF FetchInv, Exposed, point
<1>12. CASE Len(b) <= Len(archive.durable)
  <2> DEFINE w == b # Prefix(archive.durable, Len(b)) \/ FlawAt(b, "proof")
  <2>1. /\ Drained /\ ~ Following /\ (~ w => IsPrefix(b, archive.tip) /\ Exposed(b))
    BY <1>1, <1>3, <1>4, <1>12, WithinArchive, Zenon
  <2>2. ProofPolicy(b).generate = w /\ ProofPolicy(b).cut = w
    BY <1>1, <1>3, <1>4, <1>12, PolicyFacts
  <2> HIDE DEF w
  <2>3. CASE w
    <3>1. Truncate(point) /\ main'.generate /\ IsPrefix(point, archive.durable) /\ IsPrefix(point, point)
      BY <1>1, <1>2, <1>6, <2>1, <2>2, <2>3, PrefixBasics, Zenon DEF Drained
    <3>2. archive'.tip = point /\ archive'.durable = point
      BY <1>2, <3>1, CutArchive, Zenon
    <3>3. IsPrefix(point, archive'.tip)
      BY <3>1, <3>2, Zenon
    <3>4. TipInv' /\ SyncInv' /\ FollowInv'
      BY <1>1, <1>2, <1>3, <1>4, <1>6, <1>7, <1>10, <2>1, <3>1, <3>2, <3>3, SMTT(30)
         DEF TipInv, SyncInv, FollowInv, Drained, Saving, SyncEnd, Starting, point
    <3> QED BY <1>1, <1>2, <1>3, <1>6, <1>8, <1>9, <3>1, <3>4, CutMoves, Zenon
  <2>4. CASE ~ w
    <3>1. UNCHANGED archive /\ ~ main'.generate
      BY <1>1, <1>6, <2>2, <2>4, Zenon
    <3>2. TipInv' /\ SyncInv' /\ FollowInv'
      BY <1>1, <1>2, <1>3, <1>4, <1>6, <1>7, <1>10, <2>1, <2>4, <3>1, Zenon
         DEF TipInv, SyncInv, FollowInv, Drained, Saving, SyncEnd, Starting, point
    <3> QED BY <1>1, <1>2, <1>3, <1>6, <1>7, <1>8, <1>9, <2>1, <2>4, <3>1, <3>2, MainMoves, Zenon
            DEF FetchInv, point
  <2> QED BY <2>3, <2>4, Zenon
<1> QED BY <1>2, <1>4, <1>11, <1>12, LoopFacts, <1>1

\* ModifyBlock: forest and, with the WAL, directory are one block higher.
LEMMA ModifyStep ==
    ASSUME BridgeInv, Modify
    PROVE  BridgeInv'
<1> DEFINE b == main.block
           kept == IF forest.online /\ scope.wal THEN forest.undo + 1 ELSE 0
<1>1. /\ main \in MainState /\ main.pc = "modify" /\ Alive /\ Running /\ Opened
      /\ main' = [main EXCEPT !.pc = "store", !.block = NONE]
      /\ forest' = [forest EXCEPT !.point = b, !.undo = kept]
      /\ disk' = IF forest.online /\ scope.wal THEN [point |-> b, undo |-> kept] ELSE disk
      /\ UNCHANGED <<active, prefetch, chk, scope, archive, signal, spent>>
  BY MainFacts, Zenon DEF Modify, ModifyBlock, At, Alive, Running, Opened
<1>2. /\ main' \in MainState /\ main'.pc = "store" /\ main'.phase = main.phase
      /\ main'.target = main.target /\ main'.generate = main.generate
  BY ONLY <1>1, Zenon DEF MainState, SyncPc
<1>3. /\ b \in Point /\ b # <<>> /\ Front(b) = point /\ archive.base # NONE /\ forest \in ForestState
      /\ point \in Point /\ Len(point) \in Nat /\ Len(b) \in Nat /\ Len(b) = Len(point) + 1
      /\ IsPrefix(point, b) /\ ~ IsPrefix(b, point) /\ kept \in Nat
  BY <1>1, MainFacts, OpenedFacts, FrontFacts, InvGives DEF TipInv
<1> HIDE DEF kept
<1>4. /\ forest' \in ForestState /\ point' = b /\ forest'.undo = kept /\ forest'.online = forest.online
  <2> DEFINE f1 == [forest EXCEPT !.point = b]
  <2>1. f1 \in ForestState /\ f1.point = b /\ f1.undo = forest.undo /\ f1.online = forest.online
    BY ONLY <1>3 DEF ForestState
  <2>2. forest' = [f1 EXCEPT !.undo = kept]
    BY <1>1, <1>3, Zenon DEF ForestState
  <2> HIDE DEF f1
  <2>3. /\ forest' \in ForestState /\ forest'.point = b /\ forest'.undo = kept
        /\ forest'.online = forest.online
    BY ONLY <1>3, <2>1, <2>2 DEF ForestState
  <2> QED BY <2>3, Zenon DEF point
<1>5. Alive' /\ Running' /\ Opened' /\ Following' = Following /\ InBatch' /\ InBatch
  BY <1>1, <1>2, Zenon DEF Alive, Running, Opened, Following, InBatch
<1>6. \/ /\ forest.online /\ scope.wal /\ disk' = [point |-> b, undo |-> kept] /\ disk' \in DiskState
         /\ disk'.point = b /\ disk'.undo = kept /\ disk # NONE /\ disk.point = point
         /\ disk.undo = forest.undo /\ kept = disk.undo + 1
      \/ ~ (forest.online /\ scope.wal) /\ disk' = disk /\ kept = 0
  <2>1. CASE forest.online /\ scope.wal
    <3>1. disk = [point |-> point, undo |-> forest.undo] /\ disk.point = point /\ disk.undo = forest.undo
      BY <1>1, <2>1, InvGives DEF ForestInv
    <3>2. disk \in [point : Seq(Label), undo : Nat]
      BY <1>3, <3>1, Zenon DEF ForestState, Point
    <3>3. disk # NONE
      BY <3>2, NoValues, Zenon
    <3>4. disk' \in DiskState /\ disk'.point = b /\ disk'.undo = kept
      BY <1>1, <1>3, <2>1, Zenon DEF DiskState
    <3> QED BY <1>1, <2>1, <3>1, <3>3, <3>4, Zenon DEF kept
  <2> QED BY <1>1, <2>1, Zenon DEF kept
<1>7. ForestInv'
  <2>1. disk # NONE => disk.point \in Point
    BY MainFacts, Zenon
  <2>2. forest.online /\ ~ scope.wal => disk \in DiskState /\ IsPrefix(disk.point, b)
    BY <1>1, <1>3, PrefixOrder, InvGives, Zenon DEF ForestInv, DiskState
  <2> QED BY <1>1, <1>4, <1>6, <2>2, InvGives, Zenon DEF ForestInv
<1>8. JoinInv'
  <2>1. CASE disk' = disk
    BY <1>1, <2>1, InvGives, Zenon DEF JoinInv
  <2>2. CASE disk' # disk
    <3>1. /\ archive.durable \in Point /\ Joinable(point, archive.durable, disk.undo) /\ disk.undo \in Nat
      BY <1>3, <1>6, <2>2, JoinFacts, MainFacts, Zenon DEF Depth
    <3>2. Joinable(b, archive.durable, disk.undo + 1)
      BY <1>3, <3>1, JoinNext, Zenon
    <3> QED BY <1>1, <1>3, <1>6, <2>2, <3>1, <3>2, JoinShown, Zenon DEF Depth
  <2> QED BY <2>1, <2>2, Zenon
<1>9. ControlInv' /\ TipInv' /\ SyncInv' /\ FollowInv'
  BY <1>1, <1>2, <1>3, <1>4, <1>5, InvGives, SMTT(30) DEF ControlInv, TipInv, SyncInv, FollowInv, SyncPc,
     FollowPc, Saving, Starting, SyncEnd, Drained
<1>10. FetchInv' /\ ArchiveInv' /\ FilesInv' /\ spent'.reorgs \in Nat
  <2>1. main.target \in Nat
    BY <1>1, Zenon DEF MainState
  <2> QED BY <1>1, <1>2, <1>3, <1>4, <1>5, <2>1, InvGives DEF FetchInv, ArchiveInv, FilesInv, Saved,
     Clean
<1>11. FlawInv' /\ ChainInv'
  BY <1>1, <1>2, <1>4, <1>5, <1>6, InvGives, Zenon DEF FlawInv, ChainInv, Exposed, Clean, Active, Unforked
<1>12. CoverInv'
  <2>1. Unforked => \A f \in Saved : IsPrefix(f.point, b) /\ f.point # b
    BY <1>1, <1>3, SavedPoints, PrefixOrder, InvGives, Zenon DEF CoverInv
  <2> QED BY <1>1, <1>2, <1>4, <1>6, <2>1, InvGives, Zenon DEF CoverInv, Active, Unforked, Saved
<1> QED BY <1>7, <1>8, <1>9, <1>10, <1>11, <1>12, InvParts, Zenon

\* A longer tip changes nothing but the tip.
LEMMA TipMoves ==
    ASSUME BridgeInv, Alive, Alive', Opened, NEW t \in Point, IsPrefix(archive.durable, t),
           archive' = [archive EXCEPT !.tip = t],
           UNCHANGED <<active, prefetch, chk, scope, forest, disk, signal, spent>>,
           main'.target = main.target, InBatch' => InBatch,
           main'.pc \notin {"save_sync", "save_rename", "save_directory", "store", "rollback",
                            "mismatch", "modify"},
           Clean(point), ControlInv', TipInv', SyncInv', FollowInv'
    PROVE  BridgeInv'
<1>1. /\ archive.base # NONE /\ archive' \in ArchiveState /\ archive'.base = archive.base
      /\ archive'.tip = t /\ archive'.durable = archive.durable /\ archive'.flaw = archive.flaw
  BY OpenedFacts, ArchiveFacts, Zenon DEF ArchiveState
<1>2. FetchInv' /\ ForestInv' /\ JoinInv' /\ ArchiveInv' /\ spent'.reorgs \in Nat
  BY <1>1, InvGives, Zenon DEF FetchInv, ForestInv, JoinInv, ArchiveInv, point
<1>3. FlawInv' /\ FilesInv' /\ ChainInv' /\ CoverInv'
  BY <1>1, InvGives, Zenon DEF FlawInv, FilesInv, ChainInv, CoverInv, Exposed, Clean, Saved, Active,
     Unforked, point
<1> QED BY <1>2, <1>3, InvParts, Zenon

\* The proof of the block is enqueued.
LEMMA EnqueueProofStep ==
    ASSUME BridgeInv, EnqueueProof, Front(point) = archive.tip
    PROVE  BridgeInv'
<1>1. /\ main \in MainState /\ main.pc = "store" /\ main.generate /\ Alive /\ Running /\ Opened
      /\ archive' = [archive EXCEPT !.tip = point]
      /\ main' = [main EXCEPT !.pc = IF main.phase = "follow" THEN "commit" ELSE "window"]
      /\ UNCHANGED <<active, prefetch, chk, scope, forest, disk, signal, spent>>
  BY MainFacts, Zenon DEF EnqueueProof, At, Goto, Alive, Running, Opened
<1>2. /\ point \in Point /\ point # <<>> /\ IsPrefix(Front(point), point) /\ ~ IsPrefix(point, Front(point))
      /\ archive.tip \in Point /\ archive.durable \in Point /\ IsPrefix(archive.durable, Front(point))
      /\ archive.base # NONE /\ archive \in ArchiveState
  BY <1>1, MainFacts, OpenedFacts, ArchiveFacts, FrontFacts, InvGives, Zenon DEF TipInv
<1>3. IsPrefix(archive.durable, point) /\ IsPrefix(point, point)
  BY <1>2, PrefixOrder, PrefixBasics
<1>4. Clean(point)
  <2>1. archive.flaw # NONE => archive.flaw.point \in Point /\ IsPrefix(archive.flaw.point, archive.durable)
    BY <1>2, ArchiveFacts, Zenon
  <2>2. archive.flaw # NONE => IsPrefix(archive.flaw.point, Front(point))
    BY <1>2, <2>1, PrefixOrder, Zenon
  <2>3. Exposed(point)
    BY <1>1, InvGives, Zenon DEF FlawInv
  <2> QED BY <1>2, <2>2, <2>3, Zenon DEF Exposed, Clean
<1>5. /\ archive'.tip = point /\ archive'.durable = archive.durable
  BY <1>1, <1>2, Zenon DEF ArchiveState
<1>6. CASE main.phase = "follow"
  <2>1. /\ main' \in MainState /\ main'.pc = "commit" /\ main'.phase = "follow" /\ main'.target = main.target
    BY <1>1, <1>6 DEF MainState, FollowPc
  <2>2. ControlInv' /\ TipInv' /\ SyncInv' /\ FollowInv'
    BY <1>1, <1>3, <1>5, <1>6, <2>1, InvGives, SMTT(30) DEF ControlInv, TipInv, SyncInv, FollowInv, Following,
       Alive, Running, SyncPc, FollowPc, Saving, Starting, SyncEnd, Drained, point
  <2> QED BY <1>1, <1>2, <1>3, <1>4, <2>1, <2>2, TipMoves, Zenon DEF Alive, InBatch, Saving
<1>7. CASE main.phase # "follow"
  <2>1. /\ main' \in MainState /\ main'.pc = "window" /\ main'.phase = "sync" /\ main'.target = main.target
        /\ main.phase = "sync"
    BY <1>1, <1>7 DEF MainState, SyncPc
  <2>2. ControlInv' /\ TipInv' /\ SyncInv' /\ FollowInv'
    BY <1>1, <1>3, <1>5, <1>7, <2>1, InvGives, SMTT(30) DEF ControlInv, TipInv, SyncInv, FollowInv, Following,
       Alive, Running, SyncPc, FollowPc, Saving, Starting, SyncEnd, Drained, point
  <2> QED BY <1>1, <1>2, <1>3, <1>4, <2>1, <2>2, TipMoves, Zenon DEF Alive, InBatch, Saving
<1> QED BY <1>6, <1>7, Zenon

\* After a reorganization the archive is cut at the forest's block.
LEMMA TruncateArchiveStep ==
    ASSUME BridgeInv, TruncateArchive
    PROVE  BridgeInv'
<1>1. /\ main \in MainState /\ main.pc = "truncate" /\ main.phase = "follow" /\ archive.base # NONE /\ Alive
      /\ main' = [main EXCEPT !.pc = "poll"] /\ Truncate(point)
      /\ UNCHANGED <<active, prefetch, chk, scope, forest, disk, signal, spent>>
  BY MainFacts, OpenedFacts, InvGives, Zenon DEF TruncateArchive, At, Goto, Opened, Running, Alive,
     ControlInv, SyncPc, Starting, Saving, Following, MainState
<1>2. /\ main' \in MainState /\ main'.pc = "poll" /\ main'.phase = "follow" /\ Clean(point)
      /\ main'.target = main.target /\ point \in Point /\ IsPrefix(point, archive.durable)
      /\ IsPrefix(point, point) /\ archive'.tip = point /\ archive'.durable = point
  <2>1. point \in Point /\ IsPrefix(point, archive.durable) /\ IsPrefix(point, point) /\ Clean(point)
    BY <1>1, MainFacts, PrefixBasics, InvGives, Zenon DEF TipInv, FollowInv, FlawInv, Following, Running,
       Drained
  <2> QED BY <1>1, <2>1, CutArchive, Zenon DEF MainState, FollowPc
<1>3. ControlInv' /\ TipInv' /\ SyncInv' /\ FollowInv' /\ FetchInv' /\ (Unforked => QueueActive(prefetch'))
  BY <1>1, <1>2, QueueKept, InvGives DEF ControlInv, TipInv, SyncInv, FollowInv, FetchInv,
     Following, Alive, Running, InBatch, SyncPc, FollowPc, Saving, Starting, SyncEnd, Drained, point
<1> QED BY <1>1, <1>2, <1>3, CutMoves, Zenon

\* The wrong record is cut off, and the process ends.
LEMMA MismatchTruncateStep ==
    ASSUME BridgeInv, MismatchTruncate
    PROVE  BridgeInv'
<1> DEFINE g == main.goal
<1>1. /\ main.pc = "mismatch" /\ Alive /\ archive.base # NONE /\ (point = g \/ ~ forest.online)
      /\ archive' = [archive EXCEPT !.tip = g, !.durable = g, !.flaw = NONE]
      /\ UNCHANGED <<active, scope, disk, spent>>
  BY OpenedFacts, Zenon DEF MismatchTruncate, Ends, At, Alive, Opened, Running
<1>2. g \in Point /\ IsPrefix(g, archive.durable)
  BY <1>1, InvGives, Zenon DEF TipInv
<1>3. archive \in ArchiveState
  BY <1>1, ArchiveFacts, Zenon
<1> HIDE DEF g
<1>4. /\ archive' \in ArchiveState /\ archive'.base = archive.base /\ archive'.tip = g
      /\ archive'.durable = g /\ archive'.flaw = NONE
  BY ONLY <1>1, <1>2, <1>3, Zenon DEF ArchiveState
<1>5. JoinInv'
  <2>1. disk # NONE => /\ Joinable(disk.point, g, Depth(disk)) /\ Depth(disk) \in Nat
                       /\ disk.point \in Point
    BY <1>1, <1>2, DiskBelow, MainFacts, JoinBelow, Zenon DEF Depth
  <2>2. Depth(disk)' = Depth(disk)
    BY <1>1, Zenon DEF Depth
  <2> QED BY <1>1, <1>2, <1>4, <2>1, <2>2, JoinShown, Zenon DEF Depth
<1>6. Unforked => \A f \in Saved : IsPrefix(f.point, archive'.durable)
  BY <1>1, <1>4, InvGives, Zenon DEF CoverInv, g
<1> QED BY <1>1, <1>4, <1>5, <1>6, Ended, Zenon DEF MismatchTruncate, Ends, KillCheckpoint

-----------------------------------------------------------------------------
(* Sealing the forest, and the online directory made of a RAM forest.       *)

\* The directory is at the forest's block, which the archive covers.
LEMMA Sealed ==
    ASSUME BridgeInv, Alive, Alive', Opened, IsPrefix(point, archive.durable), Clean(point),
           NEW k \in Nat, forest' = [point |-> point, undo |-> k, online |-> TRUE],
           disk' = [point |-> point, undo |-> k],
           UNCHANGED <<active, prefetch, chk, scope, archive, signal, spent>>,
           main'.target = main.target, InBatch' => InBatch,
           main'.pc \notin {"save_sync", "save_rename", "save_directory", "store", "rollback",
                            "mismatch", "modify"},
           ControlInv', TipInv', SyncInv', FollowInv'
    PROVE  BridgeInv'
<1>1. /\ archive.base # NONE /\ archive.durable \in Point /\ point \in Point
      /\ IsPrefix(point, point)
  BY OpenedFacts, ArchiveFacts, MainFacts, PrefixBasics, Zenon
<1>2. /\ forest' \in ForestState /\ forest'.point = point /\ forest'.undo = k /\ forest'.online
      /\ disk' \in DiskState /\ disk'.point = point /\ disk'.undo = k
  BY <1>1, Zenon DEF ForestState, DiskState
<1>3. ForestInv'
  BY <1>1, <1>2, Zenon DEF ForestInv, point
<1>4. JoinInv'
  <2>1. \A n \in Nat : Joinable(point, archive.durable, n)
    BY <1>1, JoinBelow, Zenon
  <2> QED BY <1>1, <1>2, <2>1, JoinShown, Zenon DEF Depth
<1>5. FetchInv' /\ ArchiveInv' /\ spent'.reorgs \in Nat
  BY <1>1, <1>2, InvGives, Zenon DEF FetchInv, ArchiveInv, point
<1>6. FlawInv' /\ FilesInv' /\ ChainInv' /\ CoverInv'
  BY <1>1, <1>2, InvGives, Zenon DEF FlawInv, FilesInv, ChainInv, CoverInv, Exposed, Clean, Saved, Active,
     Unforked, point
<1> QED BY <1>3, <1>4, <1>5, <1>6, InvParts, Zenon

\* FlushOnline keeps some of the records: those of the last undo_depth blocks or all, or
\* after a compaction those that still match their nodes.
LEMMA Flushed ==
    ASSUME BridgeInv, Alive, forest.online, FlushOnline
    PROVE  \E k \in Nat : /\ forest' = [point |-> point, undo |-> k, online |-> TRUE]
                          /\ disk' = [point |-> point, undo |-> k]
<1>1. forest \in ForestState /\ forest.undo \in Nat /\ scope.undo \in Nat
  BY MainFacts, ScopeConfig, Zenon
<1>2. Min({forest.undo, scope.undo}) \in Nat
  BY <1>1, MinOfTwo, Zenon
<1> DEFINE Undoable == {forest.undo, Min({forest.undo, scope.undo})}
                          \cup IF scope.compacts THEN 0 .. forest.undo ELSE {}
<1>3. PICK k \in Undoable :
        forest' = [forest EXCEPT !.undo = k] /\ disk' = [point |-> point, undo |-> k]
  BY Zenon DEF FlushOnline
<1>4. k \in Nat
  <2>1. \A i \in 0 .. forest.undo : i \in Nat
    BY <1>1
  <2> QED BY <1>1, <1>2, <1>3, <2>1, Zenon
<1>5. forest' = [point |-> point, undo |-> k, online |-> TRUE]
  BY <1>1, <1>3, <1>4, Zenon DEF ForestState, point
<1> QED BY <1>3, <1>4, <1>5, Zenon

\* A limit is reached in the block loop.
LEMMA SealDeltaStep ==
    ASSUME BridgeInv, SealDelta
    PROVE  BridgeInv'
<1>1. /\ main.pc = "loop" /\ Alive /\ Alive' /\ Running /\ Opened /\ forest.online /\ FlushOnline
      /\ DurableTo(Height) /\ UNCHANGED <<active, prefetch, chk, scope, main, archive, signal, spent>>
  BY Zenon DEF SealDelta, InLoop, At, Alive, Running, Opened
<1>2. /\ Clean(point) /\ point \in Point /\ archive.durable \in Point /\ archive.tip \in Point
      /\ IsPrefix(point, archive.tip) /\ IsPrefix(archive.durable, archive.tip)
  BY <1>1, MainFacts, ArchiveFacts, OpenedFacts, InvGives, Zenon DEF FlawInv, TipInv
<1>3. IsPrefix(point, archive.durable)
  BY <1>1, <1>2, PrefixOrder, Zenon DEF DurableTo, Height, point
<1>4. PICK k \in Nat : /\ forest' = [point |-> point, undo |-> k, online |-> TRUE]
                       /\ disk' = [point |-> point, undo |-> k]
  BY <1>1, Flushed, Zenon
<1>5. ControlInv' /\ TipInv' /\ SyncInv' /\ FollowInv'
  BY <1>1, <1>4, InvGives, Zenon DEF ControlInv, TipInv, SyncInv, FollowInv, Following, Alive, Running,
     Saving, Starting, SyncEnd, Drained, point
<1>6. InBatch' => InBatch
  BY <1>1, Zenon DEF InBatch
<1> QED BY <1>1, <1>2, <1>3, <1>4, <1>5, <1>6, Sealed, Zenon

\* The timed seal of the follow loop.
LEMMA IdleSeals ==
    ASSUME BridgeInv, Idle, DurableTo(Height), FlushOnline
    PROVE  BridgeInv'
<1>1. /\ main \in MainState /\ main.pc = "idle" /\ main.phase = "follow" /\ forest.online
      /\ Alive /\ Running /\ Opened /\ main' = [main EXCEPT !.pc = FollowNext]
      /\ UNCHANGED <<active, prefetch, chk, scope, archive, signal, spent>>
  BY MainFacts, InvGives, Zenon DEF Idle, At, Goto, Alive, Running, Opened, ControlInv, SyncPc, Starting,
     Saving, Following, MainState
<1>2. /\ main' \in MainState /\ main'.pc \in {"shutdown", "reconcile"} /\ main'.phase = "follow"
      /\ main'.target = main.target
  BY <1>1 DEF MainState, FollowPc, FollowNext
<1>3. Clean(point) /\ Drained /\ point = archive.tip /\ IsPrefix(point, archive.durable)
  BY <1>1, MainFacts, PrefixBasics, InvGives DEF FlawInv, FollowInv, Following, Drained
<1>4. PICK k \in Nat : /\ forest' = [point |-> point, undo |-> k, online |-> TRUE]
                       /\ disk' = [point |-> point, undo |-> k]
  BY <1>1, Flushed, Zenon
<1>5. ControlInv' /\ TipInv' /\ SyncInv' /\ FollowInv'
  BY <1>1, <1>2, <1>3, <1>4, InvGives DEF ControlInv, TipInv, SyncInv, FollowInv, Following, Alive,
     Running, FollowPc, Saving, Starting, SyncEnd, Drained, point
<1> QED BY <1>1, <1>2, <1>3, <1>4, <1>5, Sealed, Zenon DEF InBatch, Saving, Alive

\* The clean shutdown of an online forest.
LEMMA ShutdownSealsStep ==
    ASSUME BridgeInv, ShutdownSeals
    PROVE  BridgeInv'
<1>1. /\ main \in MainState /\ main.pc = "shutdown" /\ main.phase = "follow" /\ forest.online
      /\ Alive /\ Running /\ Opened /\ main' = [main EXCEPT !.pc = "exit"] /\ Drained /\ FlushOnline
      /\ UNCHANGED <<active, prefetch, chk, scope, archive, signal, spent>>
  BY MainFacts, InvGives, Zenon DEF ShutdownSeals, At, Goto, Alive, Running, Opened, ControlInv, SyncPc,
     Starting, Saving, Following, MainState, Drained
<1>2. /\ main' \in MainState /\ main'.pc = "exit" /\ main'.phase = "follow"
      /\ main'.target = main.target
  BY <1>1, Zenon DEF MainState, FollowPc
<1>3. Clean(point) /\ IsPrefix(point, archive.tip) /\ IsPrefix(point, archive.durable)
  BY <1>1, InvGives, Zenon DEF FlawInv, TipInv, Drained
<1>4. PICK k \in Nat : /\ forest' = [point |-> point, undo |-> k, online |-> TRUE]
                       /\ disk' = [point |-> point, undo |-> k]
  BY <1>1, Flushed, Zenon
<1>5. ControlInv' /\ TipInv' /\ SyncInv' /\ FollowInv'
  BY <1>1, <1>2, <1>3, <1>4, InvGives DEF ControlInv, TipInv, SyncInv, FollowInv, Following, Alive,
     Running, FollowPc, Saving, Starting, SyncEnd, Drained, point
<1> QED BY <1>1, <1>2, <1>3, <1>4, <1>5, Sealed, Zenon DEF InBatch, Saving, Alive

\* EnableOnline, and the follow loop begins.
LEMMA SwitchOnline ==
    ASSUME BridgeInv, Switch, ~ signal, ~ forest.online
    PROVE  BridgeInv'
<1>1. /\ main \in MainState /\ main.pc = "switch" /\ main.phase = "sync" /\ Alive /\ Running /\ Opened
      /\ main' = [main EXCEPT !.pc = "reconcile", !.phase = "follow"]
      /\ forest' = [forest EXCEPT !.online = TRUE] /\ disk' = [point |-> point, undo |-> 0]
      /\ UNCHANGED <<active, prefetch, chk, scope, archive, signal, spent>>
  BY MainFacts, InvGives, Zenon DEF Switch, FollowNext, At, Alive, Running, Opened, ControlInv, FollowPc,
     Saving, Following, MainState
<1>2. /\ main' \in MainState /\ main'.pc = "reconcile" /\ main'.phase = "follow"
      /\ main'.target = main.target /\ main'.moved = main.moved
  BY <1>1, Zenon DEF MainState, FollowPc
<1>3. Clean(point) /\ Drained /\ point = archive.tip /\ IsPrefix(point, archive.durable)
  BY <1>1, MainFacts, PrefixBasics, InvGives, Zenon DEF FlawInv, SyncInv, Following, Drained, SyncEnd
<1>4. forest' = [point |-> point, undo |-> 0, online |-> TRUE]
  <2>1. forest \in ForestState /\ forest.undo = 0
    BY <1>1, InvGives, Zenon DEF ForestInv
  <2> QED BY <1>1, <2>1, Zenon DEF ForestState, point
<1>5. ControlInv' /\ TipInv' /\ SyncInv' /\ FollowInv'
  BY <1>1, <1>2, <1>3, <1>4, InvGives DEF ControlInv, TipInv, SyncInv, FollowInv, Following, Alive,
     Running, FollowPc, Saving, Starting, SyncEnd, Drained, point
<1> QED BY <1>1, <1>2, <1>3, <1>4, <1>5, Sealed, Zenon DEF InBatch, Saving, Alive

\* An online forest stays, and so does a RAM forest that is shut down.
LEMMA SwitchKeeps ==
    ASSUME BridgeInv, Switch, signal \/ forest.online
    PROVE  BridgeInv'
<1>1. /\ main \in MainState /\ main.pc = "switch" /\ main.phase = "sync" /\ Alive /\ Running /\ Opened
      /\ main' = [main EXCEPT !.pc = FollowNext, !.phase = "follow"] /\ archive.base # NONE
      /\ UNCHANGED <<active, prefetch, chk, scope, forest, disk, archive, signal, spent>>
  BY MainFacts, OpenedFacts, InvGives, Zenon DEF Switch, At, Alive, Running, Opened, ControlInv, FollowPc,
     Saving, Following, MainState
<1>2. /\ main' \in MainState /\ main'.phase = "follow" /\ main'.target = main.target
      /\ \/ main'.pc = "reconcile" /\ ~ signal
         \/ main'.pc = "shutdown" /\ signal
  BY <1>1, Zenon DEF MainState, FollowPc, FollowNext
<1>3. Clean(point) /\ Drained /\ (signal \/ point = archive.tip) /\ IsPrefix(point, archive.tip)
  BY <1>1, InvGives, Zenon DEF FlawInv, SyncInv, TipInv, Following, SyncEnd
<1>4. ControlInv' /\ TipInv' /\ SyncInv' /\ FollowInv'
  BY <1>1, <1>2, <1>3, InvGives DEF ControlInv, TipInv, SyncInv, FollowInv, Following, Alive,
     Running, FollowPc, Saving, Starting, SyncEnd, Drained, point
<1>5. /\ Alive' /\ main'.target <= Len(active) /\ Fetched(prefetch') /\ (Unforked => QueueActive(prefetch'))
      /\ ~ InBatch'
  BY <1>1, <1>2, QueueKept, InvGives, Zenon DEF FetchInv, Alive, InBatch, Saving
<1> QED BY <1>1, <1>2, <1>3, <1>4, <1>5, MainMoves, Zenon

-----------------------------------------------------------------------------
(* The checkpoint of a RAM forest.                                          *)

\* The main thread saves on, or is done.
LEMMA SaveMoves ==
    ASSUME BridgeInv, main.pc \in Saving, Drained, main' \in MainState,
           main'.phase = main.phase, main'.target = main.target,
           \/ main'.pc \in {"save_sync", "save_rename", "save_directory"} /\ main'.then = main.then
           \/ main'.pc = main.then,
           UNCHANGED <<active, prefetch, scope, forest, disk, archive, signal, spent>>,
           FilesInv', CoverInv'
    PROVE  BridgeInv'
<1>1. /\ Alive /\ Running /\ Opened /\ ~ forest.online /\ main.then \in {"loop", "exit"}
      /\ main.then = "loop" => ~ Following
  BY InvGives, Zenon DEF Saving, Alive, Running, Opened, ControlInv
<1>2. /\ Alive' /\ Running' /\ Opened' /\ Following' = Following /\ (InBatch' => InBatch)
      /\ main'.pc \in {"save_sync", "save_rename", "save_directory", "loop", "exit"}
      /\ main'.pc = "loop" => ~ Following
  BY <1>1, Zenon DEF Alive, Running, Opened, Following, InBatch, Saving
<1>3. /\ Clean(point) /\ IsPrefix(point, archive.tip)
      /\ ~ Following => Len(archive.tip) <= main.target
  BY <1>1, InvGives, Zenon DEF FlawInv, TipInv, SyncInv, Saving
<1>4. ControlInv' /\ TipInv' /\ SyncInv' /\ FollowInv'
  BY <1>1, <1>2, <1>3, InvGives, Zenon DEF ControlInv, TipInv, SyncInv, FollowInv, Following, Alive,
     Running, SyncPc, FollowPc, Saving, Starting, SyncEnd, Drained, point
<1>5. FetchInv' /\ ForestInv' /\ JoinInv' /\ ArchiveInv' /\ spent'.reorgs \in Nat
  BY <1>1, <1>2, InvGives, Zenon DEF FetchInv, ForestInv, JoinInv, ArchiveInv, point
<1>6. FlawInv' /\ ChainInv'
  BY <1>1, <1>2, <1>3, InvGives, Zenon DEF FlawInv, ChainInv, Exposed, Clean, Active, Unforked, point
<1> QED BY <1>4, <1>5, <1>6, InvParts, Zenon

\* The checkpoint files, while the archive and the forest stay.
LEMMA SameFiles ==
    ASSUME BridgeInv, main.pc \in Saving, chk' = chk,
           UNCHANGED <<active, prefetch, scope, forest, disk, archive, signal, spent>>,
           main'.pc \notin {"rollback", "mismatch", "store"}, Alive'
    PROVE  /\ CoverInv'
           /\ chk' \in [now : File \cup {NOFILE}, stable : File \cup {NOFILE}]
           /\ chk'.now = NOFILE => chk'.stable = NOFILE
           /\ \A f \in Saved' : f.synced /\ Clean(f.point)' /\ archive'.base # NONE /\ scope'.fast
<1>1. Alive
  BY Zenon DEF Alive, Saving
<1> QED BY <1>1, InvGives, Zenon DEF CoverInv, FilesInv, Saved, Clean, Active, Unforked, point

\* The temporary is written, once the archive is drained.
LEMMA SaveBeginsStep ==
    ASSUME BridgeInv, SaveBegins
    PROVE  BridgeInv'
<1>1. /\ main \in MainState /\ main.pc = "save" /\ main.pc \in Saving /\ Drained /\ chk' = chk /\ Alive
      /\ main' = [main EXCEPT !.pc = "save_sync"] /\ temp' = [point |-> point, synced |-> FALSE]
      /\ UNCHANGED <<active, prefetch, scope, forest, disk, archive, signal, spent>>
  BY MainFacts, Zenon DEF SaveBegins, SaveWrite, At, Goto, stores, Saving, Drained, Alive
<1>2. /\ main' \in MainState /\ main'.pc = "save_sync" /\ main'.phase = main.phase
      /\ main'.target = main.target /\ main'.then = main.then /\ Alive'
  BY <1>1, Zenon DEF MainState, SyncPc, Saving, Alive
<1>3. point \in Point
  BY <1>1, MainFacts, Zenon
<1>4. temp' \in File /\ temp'.point = point'
  BY <1>1, <1>3, Zenon DEF File, point
<1>5. FilesInv'
  BY <1>1, <1>2, <1>4, SameFiles, Zenon DEF FilesInv, Drained
<1> QED BY <1>1, <1>2, <1>5, SameFiles, SaveMoves, Zenon

\* It is synchronized.
LEMMA SaveSyncStep ==
    ASSUME BridgeInv, SaveContinues, main.pc = "save_sync"
    PROVE  BridgeInv'
<1>1. /\ main \in MainState /\ main.pc \in Saving /\ Drained /\ chk' = chk /\ temp \in File
      /\ temp.point = point /\ main' = [main EXCEPT !.pc = "save_rename"]
      /\ temp' = [temp EXCEPT !.synced = TRUE]
      /\ UNCHANGED <<active, prefetch, scope, forest, disk, archive, signal, spent>>
  BY MainFacts, InvGives, Zenon DEF SaveContinues, SaveSync, At, Goto, stores, Saving, FilesInv
<1>2. /\ main' \in MainState /\ main'.pc = "save_rename" /\ main'.phase = main.phase
      /\ main'.target = main.target /\ main'.then = main.then /\ Alive'
  BY <1>1, Zenon DEF MainState, SyncPc, Saving, Alive
<1>3. temp' \in File /\ temp'.point = point' /\ temp'.synced
  BY <1>1, Zenon DEF File, point
<1>4. FilesInv'
  BY <1>1, <1>2, <1>3, SameFiles, Zenon DEF FilesInv, Drained
<1> QED BY <1>1, <1>2, <1>4, SameFiles, SaveMoves, Zenon

\* It becomes the checkpoint.
LEMMA SaveRenameStep ==
    ASSUME BridgeInv, SaveContinues, main.pc = "save_rename"
    PROVE  BridgeInv'
<1>1. /\ main \in MainState /\ main.pc \in Saving /\ Drained /\ temp \in File /\ temp.synced
      /\ temp.point = point /\ main' = [main EXCEPT !.pc = "save_directory"]
      /\ chk' = [chk EXCEPT !.now = temp] /\ Alive /\ Running /\ Opened
      /\ UNCHANGED <<active, prefetch, scope, forest, disk, archive, signal, spent>>
  BY MainFacts, InvGives, Zenon DEF SaveContinues, SaveRename, At, Goto, stores, Saving, FilesInv, Alive,
     Running, Opened
<1>2. /\ main' \in MainState /\ main'.pc = "save_directory" /\ main'.phase = main.phase
      /\ main'.target = main.target /\ main'.then = main.then
  BY <1>1, Zenon DEF MainState, SyncPc, Saving
<1>3. chk \in [now : File \cup {NOFILE}, stable : File \cup {NOFILE}]
  BY InvGives, Zenon DEF FilesInv
<1>4. /\ chk' \in [now : File \cup {NOFILE}, stable : File \cup {NOFILE}]
      /\ chk'.now = temp /\ chk'.stable = chk.stable
  BY ONLY <1>1, <1>3
<1>5. /\ ~ forest.online /\ scope.fast /\ disk = NONE /\ archive.base # NONE /\ Clean(point)
      /\ point \in Point /\ IsPrefix(point, archive.durable) /\ IsPrefix(point, point)
      /\ Unforked => Active(point)
  BY <1>1, MainFacts, OpenedFacts, PrefixBasics, InvGives, Zenon DEF ControlInv, ForestInv, FlawInv,
     TipInv, ChainInv, Drained, Saving
<1>6. temp # NOFILE
  BY <1>1, NoValues, Zenon DEF File, Point
<1>7. Saved' \subseteq Saved \cup {temp}
  BY <1>4, Zenon DEF Saved
<1>8. FilesInv'
  BY <1>1, <1>2, <1>4, <1>5, <1>6, <1>7, InvGives, Zenon DEF FilesInv, Clean, Drained
<1>9. CoverInv'
  <2>1. Unforked /\ chk.stable # NOFILE => IsPrefix(chk.stable.point, point)
    BY <1>1, InvGives, Zenon DEF CoverInv, Saved
  <2> QED BY <1>1, <1>2, <1>4, <1>5, <1>7, <2>1, InvGives, Zenon DEF CoverInv, Active, Unforked, point
<1> QED BY <1>1, <1>2, <1>8, <1>9, SaveMoves, Zenon

\* The directory is synchronized.
LEMMA SaveDirectoryStep ==
    ASSUME BridgeInv, SaveContinues, main.pc = "save_directory"
    PROVE  BridgeInv'
<1>1. /\ main \in MainState /\ main.pc \in Saving /\ Drained /\ Alive /\ Running
      /\ main' = [main EXCEPT !.pc = main.then, !.then = "down"] /\ main.then \in {"loop", "exit"}
      /\ chk' = [chk EXCEPT !.stable = chk.now]
      /\ UNCHANGED <<active, prefetch, scope, forest, disk, archive, signal, spent>>
  BY MainFacts, InvGives, Zenon DEF SaveContinues, SaveSyncDirectory, At, stores, Saving, FilesInv,
     ControlInv, Alive, Running
<1>2. /\ main' \in MainState /\ main'.pc = main.then /\ main'.phase = main.phase
      /\ main'.target = main.target
  BY <1>1, Zenon DEF MainState, SyncPc, Saving
<1>3. chk \in [now : File \cup {NOFILE}, stable : File \cup {NOFILE}]
  BY InvGives, Zenon DEF FilesInv
<1>4. /\ chk' \in [now : File \cup {NOFILE}, stable : File \cup {NOFILE}]
      /\ chk'.now = chk.now /\ chk'.stable = chk.now
  BY ONLY <1>1, <1>3
<1>5. Saved' \subseteq Saved
  BY <1>4, Zenon DEF Saved
<1>6. FilesInv'
  BY <1>1, <1>2, <1>4, <1>5, InvGives, Zenon DEF FilesInv, Clean
<1>7. CoverInv'
  <2>1. chk.now # NOFILE => chk.now.point \in Point /\ IsPrefix(chk.now.point, chk.now.point)
    BY SavedPoints, PrefixBasics, Zenon DEF Saved
  <2> QED BY <1>1, <1>2, <1>4, <1>5, <2>1, InvGives, Zenon DEF CoverInv, Active, Unforked, point
<1> QED BY <1>1, <1>2, <1>6, <1>7, SaveMoves, Zenon

-----------------------------------------------------------------------------
(* The other threads, Core, and the beginning.                              *)

\* The archive's writer commits a group.
LEMMA ArchiveCommitsStep ==
    ASSUME BridgeInv, ArchiveCommits
    PROVE  BridgeInv'
<1>1. /\ archive \in ArchiveState /\ archive.base # NONE /\ archive.tip \in Point
      /\ archive.durable \in Point /\ IsPrefix(archive.durable, archive.tip)
      /\ Len(archive.durable) \in Nat /\ Len(archive.tip) \in Nat
      /\ UNCHANGED <<active, prefetch, chk, temp, scope, main, forest, disk, signal, spent>>
  BY ArchiveFacts, PrefixBasics, Zenon DEF ArchiveCommits
<1>2. PICK h \in (Len(archive.durable) + 1) .. Len(archive.tip) :
         archive' = [archive EXCEPT !.durable = Prefix(archive.tip, h)]
  BY Zenon DEF ArchiveCommits
<1> DEFINE d == Prefix(archive.tip, h)
<1>3. /\ h \in 0 .. Len(archive.tip) /\ Len(archive.durable) < h /\ ~ Drained
  BY <1>1, <1>2 DEF Drained
<1>4. d \in Point /\ Len(d) = h /\ IsPrefix(d, archive.tip)
  BY <1>1, <1>3, CutFacts, Zenon
<1>5. IsPrefix(archive.durable, d)
  BY <1>1, <1>3, <1>4, PrefixOrder
<1>6. archive' = [archive EXCEPT !.durable = d]
  BY <1>2, Zenon
<1> HIDE DEF d
<1>7. /\ archive' \in ArchiveState /\ archive'.base = archive.base /\ archive'.tip = archive.tip
      /\ archive'.durable = d /\ archive'.flaw = archive.flaw
  BY ONLY <1>1, <1>4, <1>6 DEF ArchiveState
<1>8. JoinInv'
  <2>1. disk # NONE => Joinable(disk.point, d, Depth(disk)) /\ Depth(disk) \in Nat /\ disk.point \in Point
    BY <1>1, <1>4, <1>5, JoinFacts, JoinLonger, Zenon
  <2> QED BY <1>1, <1>4, <1>7, <2>1, JoinShown, Zenon DEF Depth
<1>9. ArchiveInv'
  BY <1>1, <1>4, <1>5, <1>7, ArchiveFacts, PrefixOrder, InvGives, Zenon DEF ArchiveInv, Opened, Running,
     Alive, point
<1>10. ControlInv' /\ FetchInv' /\ ForestInv' /\ spent'.reorgs \in Nat
  BY <1>1, InvGives, ZenonT(40) DEF ControlInv, FetchInv, ForestInv, Following, Alive, InBatch, point
<1>11. TipInv' /\ SyncInv' /\ FollowInv'
  BY <1>1, <1>3, <1>7, InvGives, Zenon DEF ControlInv, TipInv, SyncInv, FollowInv, Following, Alive,
     Running, FollowPc, SyncPc, Saving, Starting, SyncEnd, Drained, point
<1>12. FlawInv' /\ FilesInv' /\ ChainInv'
  BY <1>1, <1>3, <1>7, InvGives, ZenonT(40) DEF FlawInv, FilesInv, ChainInv, Exposed, Clean, Saved, Active,
     Unforked, Drained, Alive, Running, point
<1>13. CoverInv'
  <2>1. Unforked => \A f \in Saved : IsPrefix(f.point, d)
    BY <1>1, <1>4, <1>5, SavedPoints, PrefixOrder, InvGives, Zenon DEF CoverInv
  <2> QED BY <1>1, <1>7, <2>1, InvGives, Zenon DEF CoverInv, Saved, Active, Unforked, Alive, point
<1> QED BY <1>8, <1>9, <1>10, <1>11, <1>12, <1>13, InvParts, Zenon

\* What depends neither on Core's chain nor on the prefetch thread nor on the counters
\* is left alone by them and by a signal.
LEMMA MainUnmoved ==
    ASSUME BridgeInv, UNCHANGED <<chk, temp, scope, main, forest, disk, archive>>, signal => signal'
    PROVE  /\ ControlInv' /\ TipInv' /\ SyncInv' /\ FollowInv' /\ FilesInv' /\ ForestInv'
           /\ JoinInv' /\ ArchiveInv' /\ FlawInv'
<1>1. ControlInv'
  BY InvGives, Zenon DEF ControlInv, Following, Alive
<1>2. TipInv'
  BY InvGives, Zenon DEF TipInv, Following, Running, Drained, point
<1>3. SyncInv'
  BY InvGives, Zenon DEF SyncInv, Following, Running, SyncEnd, Drained, point
<1>4. FollowInv'
  BY InvGives, Zenon DEF FollowInv, Following, Drained, point
<1>5. FilesInv'
  BY InvGives, Zenon DEF FilesInv, Drained, Saved, Clean, point
<1>6. ForestInv' /\ JoinInv'
  BY InvGives, Zenon DEF ForestInv, JoinInv, Alive, point
<1>7. ArchiveInv'
  BY InvGives, Zenon DEF ArchiveInv, Alive, Opened, Running, point
<1>8. FlawInv'
  BY InvGives, Zenon DEF FlawInv, Alive, Running, Exposed, Clean, point
<1> QED BY <1>1, <1>2, <1>3, <1>4, <1>5, <1>6, <1>7, <1>8, Zenon

\* Only the invariant of the queue depends on it.
LEMMA QueueMoves ==
    ASSUME BridgeInv, UNCHANGED <<active, chk, temp, scope, main, forest, disk, archive, signal, spent>>,
           prefetch' \in PrefetchState, prefetch'.target <= Len(active),
           Unforked => \A i \in 1 .. Len(prefetch'.queue) : Active(prefetch'.queue[i])
    PROVE  BridgeInv'
<1>1. prefetch' # NONE
  BY Present, Zenon
<1>2. FetchInv'
  BY <1>1, InvGives, Zenon DEF FetchInv, InBatch, point
<1>3. ChainInv'
  BY <1>1, InvGives, Zenon DEF ChainInv, Active, Unforked, Alive, point
<1>4. CoverInv'
  BY InvGives, Zenon DEF CoverInv, Alive, Saved, Active, Unforked, point
<1>5. spent'.reorgs \in Nat
  BY InvGives, Zenon
<1> QED BY <1>2, <1>3, <1>4, <1>5, MainUnmoved, InvParts, Zenon

\* The prefetch thread.
LEMMA PrefetchStepStep ==
    ASSUME BridgeInv, PrefetchStep
    PROVE  BridgeInv'
<1> DEFINE q == prefetch.queue
           b == Prefix(active, prefetch.height)
<1>1. /\ prefetch # NONE /\ prefetch \in PrefetchState /\ prefetch.target <= Len(active)
      /\ Unforked => \A i \in 1 .. Len(q) : Active(q[i])
      /\ active \in Point /\ UNCHANGED <<active, chk, temp, scope, main, forest, disk, archive, signal, spent>>
  BY InvGives, Zenon DEF PrefetchStep, PrefetchBlock, PrefetchDone, FetchInv, ChainInv, stores
<1>2. CASE PrefetchBlock
  <2>1. /\ prefetch.height <= prefetch.target
        /\ prefetch' = [prefetch EXCEPT !.height = prefetch.height + 1, !.queue = Append(q, b)]
    BY <1>1, <1>2, Zenon DEF PrefetchBlock, PrefetchState
  <2>2. prefetch.height \in 0 .. Len(active)
    BY <1>1, <2>1, PrefixBasics DEF PrefetchState
  <2>3. b \in Point /\ Active(b)
    BY <1>1, <2>2, CutFacts, Zenon DEF Active
  <2>4. q \in Seq(Point)
    BY <1>1, Zenon DEF PrefetchState
  <2> HIDE DEF q, b
  <2>5. /\ Append(q, b) \in Seq(Point) /\ Len(Append(q, b)) = Len(q) + 1 /\ Len(q) \in Nat
        /\ \A i \in 1 .. Len(q) : Append(q, b)[i] = q[i]
        /\ Append(q, b)[Len(q) + 1] = b
    BY ONLY <2>3, <2>4
  <2>6. /\ prefetch' \in PrefetchState /\ prefetch'.queue = Append(q, b)
        /\ prefetch'.target = prefetch.target
    <3> DEFINE p1 == [prefetch EXCEPT !.height = prefetch.height + 1]
    <3>1. p1 \in PrefetchState /\ p1.target = prefetch.target
      BY ONLY <1>1 DEF PrefetchState
    <3>2. prefetch' = [p1 EXCEPT !.queue = Append(q, b)]
      BY ONLY <1>1, <2>1 DEF PrefetchState
    <3> HIDE DEF p1
    <3> QED BY ONLY <2>5, <3>1, <3>2, Zenon DEF PrefetchState
  <2>7. Unforked => \A i \in 1 .. Len(Append(q, b)) : Active(Append(q, b)[i])
    BY <1>1, <2>3, <2>5
  <2> QED BY <1>1, <2>6, <2>7, QueueMoves, Zenon
<1>3. CASE PrefetchDone
  <2>1. /\ prefetch' \in PrefetchState /\ prefetch'.queue = q
        /\ prefetch'.target = prefetch.target
    BY <1>1, <1>3, Zenon DEF PrefetchDone, PrefetchState
  <2> QED BY <1>1, <2>1, QueueMoves, Zenon
<1> QED BY <1>2, <1>3, Zenon DEF PrefetchStep

\* Core's chain moves on, or Core reorganizes.
LEMMA CoreMoved ==
    ASSUME BridgeInv, active' \in Point, Len(active) <= Len(active'), spent'.reorgs \in Nat,
           Unforked' => Unforked /\ IsPrefix(active, active'),
           UNCHANGED <<prefetch, chk, temp, scope, main, forest, disk, archive, signal>>
    PROVE  BridgeInv'
<1>1. /\ active \in Point /\ Len(active) \in Nat /\ Len(active') \in Nat /\ main \in MainState
      /\ main.target \in Nat
  BY MainFacts, PrefixBasics, Zenon DEF MainState
<1>2. ASSUME Unforked', NEW p \in Point, Active(p)
      PROVE  Active(p)'
  BY <1>1, <1>2, PrefixOrder, Zenon DEF Active
<1>3. FetchInv'
  BY <1>1, InvGives DEF FetchInv, InBatch, PrefetchState, point
<1>4. ChainInv'
  <2>1. disk # NONE => disk.point \in Point
    BY MainFacts, Zenon
  <2>2. Alive => point \in Point
    BY MainFacts, Zenon
  <2>3. main.pc = "modify" => main.block \in Point
    BY InvGives, Zenon DEF TipInv
  <2>4. prefetch # NONE => \A i \in 1 .. Len(prefetch.queue) : prefetch.queue[i] \in Point
    BY InvGives DEF FetchInv, PrefetchState
  <2> QED BY <1>2, <2>1, <2>2, <2>3, <2>4, InvGives, Zenon DEF ChainInv, Alive, point
<1>5. CoverInv'
  <2>1. \A f \in Saved : f.point \in Point
    BY SavedPoints, Zenon
  <2>2. Unforked' => \A f \in Saved : Active(f.point)'
    BY <1>2, <2>1, InvGives, Zenon DEF CoverInv
  <2> QED BY <2>2, InvGives, Zenon DEF CoverInv, Alive, Saved, point
<1> QED BY <1>3, <1>4, <1>5, MainUnmoved, InvParts, Zenon

\* The counters of the bounds.
SpentType == spent \in [crashes : Nat, reorgs : Nat, signals : Nat]

\* Two parts of a chain.
LEMMA ConcatFacts ==
    ASSUME NEW s \in Seq(Label), NEW t \in Seq(Label)
    PROVE  s \o t \in Seq(Label) /\ Len(s \o t) = Len(s) + Len(t)
OBVIOUS

\* Core extends or reorganizes its chain while the bridge runs.
LEMMA CoreMovesStep ==
    ASSUME BridgeInv, SpentType, CoreMoves
    PROVE  BridgeInv'
<1>1. active \in Point /\ Len(active) \in Nat
  BY MainFacts, PrefixBasics, Zenon
<1>2. UNCHANGED <<prefetch, chk, temp, scope, main, forest, disk, archive, signal>>
  BY Zenon DEF CoreMoves, stores
<1>3. CASE CoreExtend(scope.height) /\ UNCHANGED spent
  <2>1. PICK l \in Label : active' = Append(active, l)
    BY <1>3, Zenon DEF CoreExtend
  <2>2. active' \in Point /\ Len(active') = Len(active) + 1 /\ IsPrefix(active, active')
    BY <1>1, <2>1, AppendFacts, Zenon
  <2> QED BY <1>1, <1>2, <1>3, <2>2, CoreMoved, InvGives DEF Unforked
<1>4. CASE /\ CoreReorganize(scope.height, scope.depth)
           /\ spent' = [spent EXCEPT !.reorgs = @ + 1]
  <2>1. scope.depth \in Nat /\ Min({scope.depth, Len(active)}) \in Nat
        /\ Min({scope.depth, Len(active)}) <= Len(active)
    <3>1. scope.depth \in Nat
      BY MainFacts, ScopeConfig, Zenon
    <3> QED BY <1>1, <3>1, MinOfTwo
  <2>2. PICK k \in 1 .. Min({scope.depth, Len(active)}), l \in Label :
           active' = Prefix(active, Len(active) - k) \o [i \in 1 .. (k + 1) |-> l]
    BY <1>4, Zenon DEF CoreReorganize
  <2> DEFINE a == Prefix(active, Len(active) - k)
             c == [i \in 1 .. (k + 1) |-> l]
  <2>3. Len(active) - k \in 0 .. Len(active) /\ k + 1 \in Nat
    BY <1>1, <2>1, <2>2
  <2>4. a \in Seq(Label) /\ Len(a) = Len(active) - k
    BY <1>1, <2>3, CutFacts, Zenon DEF Point
  <2>5. c \in Seq(Label) /\ Len(c) = k + 1
    BY <2>2, <2>3
  <2>6. active' = a \o c
    BY <2>2, Zenon
  <2> HIDE DEF a, c
  <2>7. active' \in Seq(Label) /\ Len(active') = Len(a) + Len(c)
    BY ONLY <2>4, <2>5, <2>6, ConcatFacts, Zenon
  <2>8. active' \in Point /\ Len(active) <= Len(active')
    BY <1>1, <2>2, <2>4, <2>5, <2>7 DEF Point
  <2>9. spent'.reorgs \in Nat /\ spent'.reorgs # 0
    BY <1>4 DEF SpentType
  <2> QED BY <1>2, <2>8, <2>9, CoreMoved, Zenon DEF Unforked
<1> QED BY <1>3, <1>4, Zenon DEF CoreMoves

\* SIGINT or SIGTERM.
LEMMA SignalStep ==
    ASSUME BridgeInv, Signal
    PROVE  BridgeInv'
<1>1. /\ signal' = TRUE /\ spent'.reorgs = spent.reorgs /\ spent.reorgs \in Nat
      /\ UNCHANGED <<active, prefetch, chk, temp, scope, main, forest, disk, archive>>
  BY InvGives DEF Signal, stores
<1>2. FetchInv'
  BY <1>1, InvGives, Zenon DEF FetchInv, InBatch, point
<1>3. ChainInv'
  BY <1>1, InvGives, Zenon DEF ChainInv, Active, Unforked, Alive, point
<1>4. CoverInv'
  BY <1>1, InvGives, Zenon DEF CoverInv, Alive, Saved, Active, Unforked, point
<1> QED BY <1>1, <1>2, <1>3, <1>4, MainUnmoved, InvParts, Zenon

\* Nothing moves.
LEMMA StutterStep ==
    ASSUME BridgeInv, UNCHANGED vars
    PROVE  BridgeInv'
<1>1. UNCHANGED <<active, prefetch, chk, temp, scope, main, forest, disk, archive, signal, spent>>
  BY Zenon DEF vars
<1>2. FetchInv'
  BY <1>1, InvGives, Zenon DEF FetchInv, InBatch, point
<1>3. ChainInv'
  BY <1>1, InvGives, Zenon DEF ChainInv, Active, Unforked, Alive, point
<1>4. CoverInv'
  BY <1>1, InvGives, Zenon DEF CoverInv, Alive, Saved, Active, Unforked, point
<1>5. spent'.reorgs \in Nat
  BY <1>1, InvGives, Zenon
<1> QED BY <1>1, <1>2, <1>3, <1>4, <1>5, MainUnmoved, InvParts, Zenon

\* Before the first start.
LEMMA InitHolds ==
    ASSUME Init
    PROVE  BridgeInv /\ SpentType
<1>1. /\ main = Down /\ main \in MainState /\ main.pc = "down" /\ main.phase = "sync" /\ main.moved = FALSE
      /\ main.target = 0
  BY Zenon DEF Init, Down, MainState, SyncPc
<1>2. /\ chk = [now |-> NOFILE, stable |-> NOFILE] /\ chk.now = NOFILE /\ chk.stable = NOFILE
      /\ Saved = {}
  BY Zenon DEF Init, CheckpointInit, Saved
<1>3. /\ ~ Alive /\ ~ Opened /\ ~ Running /\ ~ Following /\ ~ InBatch
  BY <1>1, Zenon DEF Alive, Opened, Running, Following, InBatch, Saving
<1>4. active \in Point /\ 0 <= Len(active) /\ scope \in Scope /\ signal = FALSE /\ prefetch = NONE /\ disk = NONE
  BY ScopeConfig DEF Init, Point
<1>5. SpentType /\ spent.reorgs = 0
  BY Zenon DEF Init, SpentType
<1>6. archive = NoArchive \/ TakenOver(archive)
  BY ScopeConfig, Zenon DEF Init
<1>7. /\ archive = NoArchive \/ archive \in ArchiveState
      /\ archive.tip = archive.durable
      /\ archive.base # NONE => /\ IsPrefix(archive.durable, archive.tip)
                                /\ archive.flaw # NONE => IsPrefix(archive.flaw.point, archive.durable)
  <2>1. CASE archive = NoArchive
    BY <2>1, Zenon DEF NoArchive
  <2>2. CASE TakenOver(archive)
    <3> DEFINE d == archive.durable
               f == archive.flaw
    <3>1. /\ archive = [base |-> <<>>, tip |-> d, durable |-> d, flaw |-> f] /\ d \in Point
          /\ f # NONE => f \in Flaw /\ IsPrefix(f.point, d)
      BY <2>2, Zenon DEF TakenOver, Point, Flaw
    <3> HIDE DEF d, f
    <3>2. archive \in ArchiveState /\ archive.tip = d /\ archive.durable = d /\ archive.flaw = f
      BY ONLY <3>1 DEF ArchiveState
    <3> QED BY <3>1, <3>2, PrefixBasics, Zenon
  <2> QED BY <1>6, <2>1, <2>2, Zenon
<1>8. ControlInv /\ FetchInv /\ ForestInv /\ JoinInv
  BY <1>1, <1>3, <1>4, Zenon DEF ControlInv, FetchInv, ForestInv, JoinInv, SyncPc, Saving
<1>9. ArchiveInv /\ FlawInv
  BY <1>1, <1>3, <1>4, <1>7, Zenon DEF ArchiveInv, FlawInv
<1>10. TipInv /\ SyncInv /\ FollowInv
  BY <1>1, <1>3, <1>7, Zenon DEF TipInv, SyncInv, FollowInv, SyncEnd, Saving, Drained
<1>11. FilesInv /\ ChainInv /\ CoverInv
  BY <1>1, <1>2, <1>3, <1>4, Zenon DEF FilesInv, ChainInv, CoverInv
<1> QED BY <1>5, <1>8, <1>9, <1>10, <1>11, SMTT(30) DEF BridgeInv

-----------------------------------------------------------------------------
(* Every step.                                                              *)

\* Opening the bridge after a start or a crash.
LEMMA StartStep ==
    ASSUME BridgeInv, Start
    PROVE  BridgeInv'
BY LoadOnlineStep, LoadRecoveryStep, LoadBootstrapStep, StutterStep, Zenon DEF Start, LoadRefused

\* Reconcile rolls the archive back to the last block both stores and Core have.
LEMMA ReconcileStep ==
    ASSUME BridgeInv, Reconcile
    PROVE  BridgeInv'
<1>1. main.phase \in {"sync", "follow"}
  BY MainFacts, Zenon DEF MainState
<1>2. CASE Reconciled
  BY <1>1, <1>2, ReconciledStart, ReconciledMoved, ReconciledStill, Zenon
<1>3. CASE ReconcileFails
  BY <1>3, ExitStep, Zenon DEF ReconcileFails
<1> QED BY <1>2, <1>3, ReconcileRollbackStep, Zenon DEF Reconcile

\* Aligning the stores with each other before the first block.
LEMMA AlignStep ==
    ASSUME BridgeInv, Align
    PROVE  BridgeInv'
<1>1. CASE AlignForest
  BY <1>1, AlignForestStep, ExitStep, Zenon DEF AlignForest
<1>2. CASE AlignRollback
  BY <1>2, AlignRollbackStep, ExitStep, Zenon DEF AlignRollback
<1>3. CASE ScanBegins
  BY <1>3, ScanBeginsStep, ExitStep, Zenon DEF ScanBegins
<1>4. CASE ScanStep
  BY <1>4, ScanFound, ScanDown, ExitStep, Zenon DEF ScanStep
<1>5. CASE ScanConfirm
  BY <1>5, ScanConfirmStep, ExitStep, Zenon DEF ScanConfirm
<1>6. CASE CheckTip
  BY <1>6, CheckTipStep, ExitStep, Zenon DEF CheckTip
<1>7. CASE Launch
  BY <1>7, LaunchStep, ExitStep, Zenon DEF Launch
<1> QED BY <1>1, <1>2, <1>3, <1>4, <1>5, <1>6, <1>7, OpenArchiveStep, AlignNothingStep,
           AlignArchiveStep, Zenon DEF Align

\* Processing a block, part by part.
LEMMA ProcessStep ==
    ASSUME BridgeInv, Process
    PROVE  BridgeInv'
<1>1. main.phase \in {"sync", "follow"}
  BY MainFacts, Zenon DEF MainState
<1>2. CASE EnqueueProof
  BY <1>2, EnqueueProofStep, ExitStep, Zenon DEF EnqueueProof
<1>3. CASE ReuseProof
  BY <1>3, ReuseChecked, ReuseMismatch, ExitStep, Zenon DEF ReuseProof
<1>4. CASE MismatchRollback
  BY <1>4, MismatchRollbackStep, ExitStep, Zenon DEF MismatchRollback
<1>5. CASE BlockStored
  BY <1>5, StoredNext, StoredSave, Zenon
<1>6. CASE LoopEnds
  BY <1>1, <1>6, LoopEndsSync, LoopEndsStopped, LoopEndsBatch, Zenon
<1>7. CASE TakeFails \/ ProveFails
  BY <1>7, ExitStep, Zenon DEF TakeFails, ProveFails
<1> QED BY <1>2, <1>3, <1>4, <1>5, <1>6, <1>7, TakeBlockStep, ModifyStep, MismatchTruncateStep,
           RecoveryWindowStep, CommitProofStep, JoinStep, Zenon DEF Process

\* The end of a pass over the blocks of Core.
LEMMA FinishStep ==
    ASSUME BridgeInv, Finish
    PROVE  BridgeInv'
<1>1. main.phase \in {"sync", "follow"}
  BY MainFacts, Zenon DEF MainState
<1>2. CASE Validate
  BY <1>1, <1>2, ValidateSync, ValidateActive, ValidateStopped, ValidateLeft, ExitStep, Zenon DEF Validate
<1>3. CASE Switch
  BY <1>3, SwitchOnline, SwitchKeeps, Zenon
<1>4. CASE Poll
  BY <1>4, PollNew, PollSame, Zenon
<1>5. CASE Idle
  BY <1>5, IdleSeals, IdleStopped, IdleNext, Zenon DEF Idle
<1>6. CASE SaveContinues
  BY <1>6, SaveSyncStep, SaveRenameStep, SaveDirectoryStep, Zenon DEF SaveContinues, At
<1>7. CASE ExitSaved
  BY <1>7, ExitStep, Zenon DEF ExitSaved
<1> QED BY <1>2, <1>3, <1>4, <1>5, <1>6, <1>7, DrainStep, TruncateArchiveStep, SaveBeginsStep,
           ShutdownSealsStep, ShutdownSavesStep, Zenon DEF Finish

\* BridgeInv is inductive: it holds after every step of the main thread, of the other
\* threads, of Core, and after a crash.
LEMMA NextStep ==
    ASSUME BridgeInv, SpentType, [Next]_vars
    PROVE  BridgeInv'
BY StartStep, ReconcileStep, AlignStep, ProcessStep, FinishStep, SealDeltaStep, MemoryExhaustedStep,
   ArchiveCommitsStep, PrefetchStepStep, CoreMovesStep, SignalStep, CrashStep, StutterStep, Zenon
   DEF Next, MainStep, TransitionFails, Crash

\* The used-up bounds of the model stay numbers.
LEMMA SpentStep ==
    ASSUME SpentType, [Next]_vars
    PROVE  SpentType'
<1>1. CASE Start \/ Reconcile
  <2>1. spent' = spent
    BY <1>1, Zenon DEF Start, LoadOnline, LoadRecovery, LoadBootstrap, LoadRefused, Reconcile, ReconcileRollback,
       ReconcileFails, Reconciled, Exit, Ends, vars
  <2> QED BY <2>1, Zenon DEF SpentType
<1>2. CASE Align
  <2>1. spent' = spent
    BY <1>2, Zenon DEF Align, OpenArchive, AlignNothing, AlignForest, AlignRollback, AlignArchive, ScanBegins,
       ScanStep, ScanConfirm, CheckTip, Launch, Exit, Ends
  <2> QED BY <2>1, Zenon DEF SpentType
<1>3. CASE Process
  <2>1. spent' = spent
    BY <1>3, Zenon DEF Process, TakeBlock, TakeFails, Modify, ProveFails, EnqueueProof, ReuseProof,
       MismatchRollback, MismatchTruncate, RecoveryWindow, CommitProof, BlockStored, LoopEnds, Join, Exit, Ends
  <2> QED BY <2>1, Zenon DEF SpentType
<1>4. CASE Finish
  <2>1. spent' = spent
    BY <1>4, Zenon DEF Finish, Drain, Validate, Switch, TruncateArchive, Poll, Idle, SaveBegins, SaveContinues,
       ExitSaved, ShutdownSeals, ShutdownSaves, Exit, Ends
  <2> QED BY <2>1, Zenon DEF SpentType
<1>5. CASE SealDelta \/ ArchiveCommits \/ PrefetchStep \/ UNCHANGED vars
  <2>1. spent' = spent
    BY <1>5, Zenon DEF SealDelta, ArchiveCommits, PrefetchStep, vars
  <2> QED BY <2>1, Zenon DEF SpentType
<1>6. CASE MemoryExhausted \/ TransitionFails \/ Crash
  <2>1. spent' = [spent EXCEPT !.crashes = @ + 1]
    BY <1>6, Zenon DEF MemoryExhausted, TransitionFails, Crash, Dies
  <2> QED BY <2>1 DEF SpentType
<1>7. CASE Signal
  <2>1. spent' = [spent EXCEPT !.signals = @ + 1]
    BY <1>7, Zenon DEF Signal
  <2> QED BY <2>1 DEF SpentType
<1>8. CASE CoreMoves
  <2>1. spent' = spent \/ spent' = [spent EXCEPT !.reorgs = @ + 1]
    BY <1>8, Zenon DEF CoreMoves
  <2> QED BY <2>1 DEF SpentType
<1> QED BY <1>1, <1>2, <1>3, <1>4, <1>5, <1>6, <1>7, <1>8, Zenon DEF Next, MainStep

-----------------------------------------------------------------------------
(* The safety properties of the main loop, for every set of configurations. *)

\* In every state of BridgeMain, after any number of crashes, reorganizations and
\* signals, forest, online directory, archive and checkpoint lie to each other as
\* BridgeInv says.
THEOREM BridgeInvariant == Spec => []BridgeInv
<1>1. Init => BridgeInv /\ SpentType
  BY InitHolds, Zenon
<1>2. BridgeInv /\ SpentType /\ [Next]_vars => (BridgeInv /\ SpentType)'
  BY NextStep, SpentStep, Zenon
<1> QED BY <1>1, <1>2, PTL DEF Spec

\* RestartAligns: wherever the process died, the online directory has the undo records
\* to go back to its last block in common with the archive, so RollbackTo in the
\* alignment of main.cpp finds its records.
THEOREM BridgeRestartAligns == Spec => []RestartAligns
<1>1. BridgeInv => RestartAligns
  <2> SUFFICES ASSUME BridgeInv, disk # NONE, archive.base # NONE
               PROVE  Len(disk.point) - Len(CommonPrefix(disk.point, archive.durable)) <= Depth(disk)
    BY Zenon DEF RestartAligns, Depth
  <2>1. /\ disk.point \in Point /\ archive.durable \in Point /\ Depth(disk) \in Nat
        /\ Joinable(disk.point, archive.durable, Depth(disk))
    BY JoinFacts, Zenon
  <2>2. PICK q \in Point : /\ IsPrefix(q, disk.point) /\ IsPrefix(q, archive.durable)
                           /\ Len(disk.point) <= Len(q) + Depth(disk)
    BY <2>1, Zenon DEF Joinable
  <2> DEFINE c == CommonPrefix(disk.point, archive.durable)
  <2>3. c \in Point /\ IsPrefix(q, c)
    BY <2>1, <2>2, CommonFacts, Zenon
  <2> HIDE DEF c
  <2>4. Len(q) <= Len(c) /\ Len(c) \in Nat /\ Len(q) \in Nat /\ Len(disk.point) \in Nat
    BY <2>1, <2>2, <2>3, PrefixBasics, Zenon
  <2>5. Len(disk.point) - Len(c) <= Depth(disk)
    BY <2>1, <2>2, <2>4
  <2> QED BY <2>5, Zenon DEF c
<1> QED BY <1>1, BridgeInvariant, PTL

\* OneBranch: from the end of the alignment on, forest and archive are on one branch.
THEOREM BridgeOneBranch == Spec => []OneBranch
<1>1. BridgeInv => OneBranch
  <2> SUFFICES ASSUME BridgeInv, Running, archive.base # NONE
               PROVE  IsPrefix(point, archive.tip) \/ IsPrefix(archive.tip, point)
    BY Zenon DEF OneBranch
  <2>1. CASE main.pc # "store"
    BY <2>1, InvGives, Zenon DEF TipInv
  <2>2. CASE main.pc = "store"
    <3>1. point \in Point /\ point # <<>>
      BY <2>2, MainFacts, InvGives, Zenon DEF TipInv, Alive
    <3>2. archive.tip = Front(point) \/ IsPrefix(point, archive.tip)
      BY <2>2, InvGives, Zenon DEF TipInv
    <3> QED BY <3>1, <3>2, FrontFacts, Zenon
  <2> QED BY <2>1, <2>2, Zenon
<1> QED BY <1>1, BridgeInvariant, PTL

\* PassedIsVerified: no record that is wrong is left below the forest.
THEOREM BridgePassedIsVerified == Spec => []PassedIsVerified
<1>1. BridgeInv => PassedIsVerified
  <2> SUFFICES ASSUME BridgeInv, Running, main.pc \notin {"aligned", "modify", "store", "mismatch"},
                      archive.flaw # NONE
               PROVE  Len(archive.flaw.point) > Height
    BY Zenon DEF PassedIsVerified
  <2>1. /\ archive.base # NONE /\ ~ IsPrefix(archive.flaw.point, point) /\ IsPrefix(point, archive.tip)
    BY OpenedFacts, InvGives, Zenon DEF Opened, FlawInv, Clean, TipInv
  <2>2. /\ Alive
    BY InvGives, Zenon DEF Running, Alive, ControlInv, Following, FollowPc, Saving
  <2>3. /\ point \in Point /\ archive.tip \in Point /\ archive.durable \in Point
        /\ archive.flaw.point \in Point /\ IsPrefix(archive.flaw.point, archive.durable)
        /\ IsPrefix(archive.durable, archive.tip)
    BY <2>1, <2>2, MainFacts, ArchiveFacts, Zenon
  <2>4. IsPrefix(archive.flaw.point, archive.tip)
    BY <2>3, PrefixOrder, Zenon
  <2>5. ~ Len(archive.flaw.point) <= Len(point)
    BY <2>1, <2>3, <2>4, PrefixOrder, Zenon
  <2>6. Len(archive.flaw.point) \in Nat /\ Len(point) \in Nat
    BY <2>3, PrefixBasics, Zenon
  <2>7. Len(archive.flaw.point) > Len(point)
    BY <2>5, <2>6
  <2> QED BY <2>7, Zenon DEF Height, point
<1> QED BY <1>1, BridgeInvariant, PTL

\* FollowsTogether: whenever the follow loop polls, takes a block or idles, the archive
\* ends at the forest's block and is durable up to it.
THEOREM BridgeFollowsTogether == Spec => []FollowsTogether
<1>1. BridgeInv => FollowsTogether
  BY InvGives, Zenon DEF FollowsTogether, FollowInv, Following, Drained
<1> QED BY <1>1, BridgeInvariant, PTL

\* CheckpointUsable: the recovery checkpoint is a whole file, and unless Core reorganized
\* the archive covers it.
THEOREM BridgeCheckpointUsable == Spec => []CheckpointUsable
<1>1. BridgeInv => CheckpointUsable
  <2> SUFFICES ASSUME BridgeInv, chk.now # NOFILE
               PROVE  /\ chk.now.point # TORN
                      /\ Unforked => IsPrefix(chk.now.point, archive.durable)
    BY Zenon DEF CheckpointUsable, Unforked
  <2>1. chk.now \in Saved
    BY Zenon DEF Saved
  <2>2. chk.now.point \in Seq(Label)
    BY <2>1, SavedPoints, Zenon DEF Point
  <2> QED BY <2>1, <2>2, NoValues, InvGives, Zenon DEF CoverInv
<1> QED BY <1>1, BridgeInvariant, PTL
=============================================================================
