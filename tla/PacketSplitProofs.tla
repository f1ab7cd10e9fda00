-------------------------- MODULE PacketSplitProofs --------------------------
(***************************************************************************)
(* The inductive invariant of the loop that cuts transfers into packets.   *)
(***************************************************************************)
EXTENDS PacketSplit, SequenceFacts

(***************************************************************************)
(* The first n of a sequence of sequences, one after the other.            *)
(***************************************************************************)

First(f, n) == FlattenSeq(SubSeq(f, 1, n))

LEMMA FirstType ==
  ASSUME NEW S, NEW f \in Seq(Seq(S)), NEW n \in 0 .. Len(f)
  PROVE  First(f, n) \in Seq(S) /\ SubSeq(f, 1, n) \in Seq(Seq(S))
<1>1. SubSeq(f, 1, n) \in Seq(Seq(S))
  BY Split
<1> QED
  BY <1>1, FlattenType DEF First

LEMMA FirstNone ==
  ASSUME NEW f
  PROVE  First(f, 0) = <<>>
<1>1. SubSeq(f, 1, 0) = <<>>
  BY SubSeqEmpty
<1> QED
  BY <1>1, FlattenEmpty, Zenon DEF First

LEMMA FirstAll ==
  ASSUME NEW S, NEW f \in Seq(Seq(S))
  PROVE  First(f, Len(f)) = FlattenSeq(f)
<1>1. SubSeq(f, 1, Len(f)) = f
  BY SubSeqFull
<1> QED
  BY <1>1, Zenon DEF First

LEMMA FirstNext ==
  ASSUME NEW S, NEW f \in Seq(Seq(S)), NEW n \in 1 .. Len(f)
  PROVE  First(f, n) = First(f, n - 1) \o f[n]
<1>1. /\ Len(f) \in Nat /\ n \in Nat /\ n - 1 \in 0 .. Len(f)
      /\ 1 \in 1 .. Len(f) /\ f[n] \in Seq(S)
  BY LenProperties, ElementOfSeq
<1>2. SubSeq(f, 1, n - 1) \in Seq(Seq(S))
  BY <1>1, FirstType
<1>3. SubSeq(f, 1, n) = SubSeq(f, 1, n - 1) \o <<f[n]>>
  <2>1. n \in 1 .. Len(f)
    OBVIOUS
  <2> QED
    BY <1>1, <2>1, SubSeqRecursiveSecond
<1>4. SubSeq(f, 1, n) = Append(SubSeq(f, 1, n - 1), f[n])
  BY <1>1, <1>2, <1>3, AppendIsConcat
<1>5. FlattenSeq(Append(SubSeq(f, 1, n - 1), f[n])) = FlattenSeq(SubSeq(f, 1, n - 1)) \o f[n]
  BY <1>1, <1>2, FlattenAppend
<1> QED
  BY <1>4, <1>5, Zenon DEF First

\* Only the first n count.
LEMMA FirstSame ==
  ASSUME NEW S, NEW f \in Seq(S), NEW g \in Seq(S),
         NEW n \in Nat, n <= Len(f), n <= Len(g), \A i \in 1 .. n : f[i] = g[i]
  PROVE  First(f, n) = First(g, n)
<1> DEFINE a == SubSeq(f, 1, n)
           b == SubSeq(g, 1, n)
<1>0. n \in 0 .. Len(f) /\ n \in 0 .. Len(g)
  BY LenProperties
<1>1. a \in Seq(S) /\ Len(a) = n /\ b \in Seq(S) /\ Len(b) = n
  BY <1>0, Split
<1>2. \A i \in 1 .. n : a[i] = f[i] /\ b[i] = g[i]
  <2>1. \A i \in 1 .. n : f[i] \in S /\ g[i] \in S
    BY <1>0
  <2>2. n \in Int /\ 1 \in Int
    OBVIOUS
  <2>3. \A i \in 1 .. n - 1 + 1 : a[i] = f[1 + i - 1]
    BY <2>1, <2>2, SubSeqProperties
  <2>4. \A i \in 1 .. n - 1 + 1 : b[i] = g[1 + i - 1]
    BY <2>1, <2>2, SubSeqProperties
  <2> HIDE DEF a, b
  <2> QED
    BY <2>3, <2>4
<1> HIDE DEF a, b
<1>3. a = b
  BY <1>1, <1>2
<1> QED
  BY <1>3, Zenon DEF First, a, b

LEMMA FirstOfAppend ==
  ASSUME NEW S, NEW f \in Seq(Seq(S)), NEW e \in Seq(S), NEW n \in 0 .. Len(f)
  PROVE  First(Append(f, e), n) = First(f, n)
<1> DEFINE g == Append(f, e)
<1>1. g \in Seq(Seq(S)) /\ Len(g) = Len(f) + 1 /\ \A i \in 1 .. Len(f) : g[i] = f[i]
  BY AppendProperties
<1>2. Len(f) \in Nat /\ n \in Nat /\ n <= Len(f) /\ n <= Len(f) + 1
  BY LenProperties
<1> HIDE DEF g
<1>3. n <= Len(g) /\ \A i \in 1 .. n : f[i] = g[i]
  BY <1>1, <1>2
<1>4. First(f, n) = First(g, n)
  BY <1>1, <1>2, <1>3, FirstSame
<1> QED
  BY <1>4 DEF g

\* What is empty adds nothing.
LEMMA FirstRest ==
  ASSUME NEW S, NEW f \in Seq(Seq(S)), NEW m \in 0 .. Len(f),
         \A i \in 1 .. Len(f) : i > m => f[i] = <<>>
  PROVE  FlattenSeq(f) = First(f, m)
<1>1. Len(f) \in Nat /\ m \in Nat /\ m <= Len(f)
  BY LenProperties
<1> DEFINE Bad == {n \in m .. Len(f) : First(f, n) # First(f, m)}
<1>2. Bad = {}
  <2> SUFFICES ASSUME Bad # {} PROVE FALSE
    OBVIOUS
  <2>1. Bad \subseteq Nat
    BY <1>1
  <2>2. PICK n \in Bad : \A k \in Bad : n <= k
    BY <2>1, LeastExists
  <2>3. n \in Nat /\ n > m /\ n <= Len(f)
    BY <1>1
  <2>4. n - 1 \in m .. Len(f) /\ n - 1 \notin Bad
    BY <1>1, <2>1, <2>2, <2>3
  <2>5. First(f, n - 1) = First(f, m)
    BY <2>4
  <2>6. n \in 1 .. Len(f) /\ f[n] = <<>>
    BY <1>1, <2>3
  <2>7. First(f, n) = First(f, n - 1) \o <<>>
    BY <2>6, FirstNext
  <2>8. First(f, m) \in Seq(S)
    BY FirstType
  <2>9. First(f, n) = First(f, m)
    BY <2>5, <2>7, <2>8, ConcatEmptySeq
  <2> QED
    BY <2>2, <2>9
<1>3. Len(f) \in m .. Len(f)
  BY <1>1
<1> QED
  BY <1>2, <1>3, FirstAll

\* How long the first n are together.
LEMMA FirstLength ==
  ASSUME NEW S, NEW f \in Seq(Seq(S)), NEW n \in 1 .. Len(f)
  PROVE  /\ Len(First(f, n - 1)) \in Nat /\ Len(First(f, n)) \in Nat /\ Len(f[n]) \in Nat
         /\ Len(First(f, n)) = Len(First(f, n - 1)) + Len(f[n])
<1>1. n - 1 \in 0 .. Len(f) /\ n \in 0 .. Len(f) /\ f[n] \in Seq(S)
  BY LenProperties, ElementOfSeq
<1>2. First(f, n - 1) \in Seq(S) /\ First(f, n) \in Seq(S)
  BY <1>1, FirstType
<1>3. Len(First(f, n - 1) \o f[n]) = Len(First(f, n - 1)) + Len(f[n])
  BY <1>1, <1>2, ConcatProperties
<1>4. First(f, n) = First(f, n - 1) \o f[n]
  BY FirstNext
<1> QED
  BY <1>1, <1>2, <1>3, <1>4, LenProperties

LEMMA FirstGrows ==
  ASSUME NEW S, NEW f \in Seq(Seq(S)), NEW m \in 0 .. Len(f), NEW n \in m .. Len(f)
  PROVE  Len(First(f, m)) <= Len(First(f, n))
<1>1. Len(f) \in Nat /\ m \in Nat /\ m <= Len(f) /\ n \in Nat /\ m <= n /\ n <= Len(f)
  BY LenProperties
<1> DEFINE L(k) == Len(First(f, k))
           Bad  == {k \in m .. Len(f) : ~(L(m) <= L(k))}
<1>2. \A k \in 0 .. Len(f) : L(k) \in Nat
  BY FirstType, LenProperties
<1>3. \A k \in 1 .. Len(f) : L(k) = L(k - 1) + Len(f[k]) /\ Len(f[k]) \in Nat
  BY FirstLength
<1> HIDE DEF L
<1>4. Bad = {}
  <2> SUFFICES ASSUME Bad # {} PROVE FALSE
    OBVIOUS
  <2>1. Bad \subseteq Nat
    BY <1>1
  <2>2. PICK k \in Bad : \A j \in Bad : k <= j
    BY <2>1, LeastExists
  <2>3. k \in Nat /\ k > m /\ k <= Len(f)
    <3>1. L(m) \in Nat
      BY <1>2
    <3> QED
      BY <1>1, <2>2, <3>1
  <2>4. k - 1 \in m .. Len(f) /\ k - 1 \notin Bad
    BY <1>1, <2>1, <2>2, <2>3
  <2>5. L(m) <= L(k - 1)
    BY <2>4
  <2>6. k \in 1 .. Len(f) /\ k - 1 \in 0 .. Len(f) /\ m \in 0 .. Len(f) /\ k \in 0 .. Len(f)
    BY <1>1, <2>3
  <2>7. L(k) = L(k - 1) + Len(f[k]) /\ Len(f[k]) \in Nat
    BY <1>3, <2>6
  <2>8. L(k) \in Nat /\ L(k - 1) \in Nat /\ L(m) \in Nat
    BY <1>2, <2>6
  <2>9. L(m) <= L(k)
    BY <2>5, <2>7, <2>8
  <2> QED
    BY <2>2, <2>9
<1> QED
  BY <1>4 DEF L

\* What is at a place of one of them is at its place of the whole.
LEMMA FirstAt ==
  ASSUME NEW S, NEW f \in Seq(Seq(S)), NEW n \in 1 .. Len(f), NEW i \in 1 .. Len(f[n])
  PROVE  FlattenSeq(f)[Len(First(f, n - 1)) + i] = f[n][i]
<1>1. /\ Len(f) \in Nat /\ n \in Nat /\ n \in 0 .. Len(f) /\ n - 1 \in 0 .. Len(f)
      /\ f[n] \in Seq(S)
  BY LenProperties, ElementOfSeq
<1> DEFINE rest == SubSeq(f, n + 1, Len(f))
           a    == First(f, n - 1)
           b    == FlattenSeq(rest)
<1>2. SubSeq(f, 1, n) \in Seq(Seq(S)) /\ rest \in Seq(Seq(S)) /\ f = SubSeq(f, 1, n) \o rest
  BY <1>1, Split
<1>3. FlattenSeq(f) = First(f, n) \o b
  <2> HIDE DEF rest
  <2>1. FlattenSeq(SubSeq(f, 1, n) \o rest) = FlattenSeq(SubSeq(f, 1, n)) \o FlattenSeq(rest)
    BY <1>2, FlattenConcat
  <2> QED
    BY <1>2, <2>1, Zenon DEF First
<1>4. a \in Seq(S) /\ b \in Seq(S)
  BY <1>1, <1>2, FirstType, FlattenType
<1>5. FlattenSeq(f) = (a \o f[n]) \o b
  BY <1>3, FirstNext
<1> HIDE DEF a, b
<1>6. PICK la \in Nat : la = Len(a)
  BY <1>4, LenProperties
<1>7. PICK lf \in Nat : lf = Len(f[n])
  <2>1. Len(f[n]) \in Nat
    BY <1>1, LenProperties
  <2> QED
    BY <2>1
<1>8. PICK lb \in Nat : lb = Len(b)
  BY <1>4, LenProperties
<1>9. /\ a \o f[n] \in Seq(S) /\ Len(a \o f[n]) = la + lf
      /\ \A j \in 1 .. la + lf : (a \o f[n])[j] = IF j <= la THEN a[j] ELSE f[n][j - la]
  BY <1>1, <1>4, <1>6, <1>7, ConcatProperties
<1>10. \A j \in 1 .. (la + lf) + lb :
         ((a \o f[n]) \o b)[j] = IF j <= la + lf THEN (a \o f[n])[j] ELSE b[j - (la + lf)]
  <2> DEFINE c == a \o f[n]
  <2>1. c \in Seq(S) /\ Len(c) = la + lf
    BY <1>9
  <2> HIDE DEF c
  <2>2. \A j \in 1 .. Len(c) + Len(b) :
          (c \o b)[j] = IF j <= Len(c) THEN c[j] ELSE b[j - Len(c)]
    BY <1>4, <2>1, ConcatProperties
  <2>3. \A j \in 1 .. (la + lf) + lb :
          (c \o b)[j] = IF j <= la + lf THEN c[j] ELSE b[j - (la + lf)]
    BY <1>8, <2>1, <2>2, Zenon
  <2> QED
    BY <2>3, Zenon DEF c
<1>11. i \in Nat /\ i >= 1 /\ i <= lf
  BY <1>7
<1>12. la + i \in 1 .. (la + lf) + lb /\ la + i \in 1 .. la + lf /\ la + i <= la + lf
       /\ ~(la + i <= la) /\ (la + i) - la = i
  BY <1>6, <1>7, <1>8, <1>11
<1>13. ((a \o f[n]) \o b)[la + i] = (a \o f[n])[la + i]
  BY <1>10, <1>12
<1>14. (a \o f[n])[la + i] = f[n][i]
  BY <1>9, <1>12
<1> QED
  BY <1>5, <1>6, <1>13, <1>14, Zenon DEF a

\* Every place is in one of them, or after all.
LEMMA FirstReaches ==
  ASSUME NEW S, NEW f \in Seq(Seq(S)), NEW P \in 0 .. Len(FlattenSeq(f))
  PROVE  \E m \in 0 .. Len(f) : /\ Len(First(f, m)) <= P
                                /\ m < Len(f) => P < Len(First(f, m + 1))
<1>1. Len(f) \in Nat /\ FlattenSeq(f) \in Seq(S) /\ P \in Nat
  BY LenProperties, FlattenType
<1> DEFINE Beyond == {k \in 0 .. Len(f) : P < Len(First(f, k))}
<1>2. \A k \in 0 .. Len(f) : Len(First(f, k)) \in Nat
  BY FirstType, LenProperties
<1>3. CASE Beyond = {}
  <2>1. Len(f) \in 0 .. Len(f) /\ ~(Len(f) < Len(f))
    BY <1>1
  <2>2. Len(First(f, Len(f))) <= P
    <3>1. Len(First(f, Len(f))) \in Nat /\ ~(P < Len(First(f, Len(f))))
      BY <1>2, <1>3, <2>1
    <3> QED
      BY <1>1, <3>1
  <2> QED
    BY <2>1, <2>2, Zenon
<1>4. CASE Beyond # {}
  <2>1. Beyond \subseteq Nat
    BY <1>1
  <2>2. PICK k \in Beyond : \A j \in Beyond : k <= j
    BY <1>4, <2>1, LeastExists
  <2>3. Len(First(f, 0)) = 0
    BY FirstNone, EmptySeq
  <2>4. k \in Nat /\ k # 0 /\ k <= Len(f)
    BY <1>1, <2>2, <2>3
  <2>5. k - 1 \in 0 .. Len(f) /\ k - 1 \notin Beyond /\ (k - 1) + 1 = k
    BY <1>1, <2>1, <2>2, <2>4
  <2>6. Len(First(f, k - 1)) <= P
    BY <1>1, <1>2, <2>5
  <2>7. P < Len(First(f, k))
    BY <2>2
  <2> QED
    BY <2>5, <2>6, <2>7, Zenon
<1> QED
  BY <1>3, <1>4

-----------------------------------------------------------------------------
(***************************************************************************)
(* The invariant.                                                          *)
(***************************************************************************)

Sent == FlattenSeq(packets)

\* A header tells the length and the number of its packet.
WellFormed ==
  \A n \in 1 .. Len(packets) :
    packets[n] = DetectMarker \/
    /\ Len(packets[n]) >= HeaderLen
    /\ packets[n][1] = 255 /\ packets[n][2] = 90
    /\ packets[n][3] = Len(packets[n]) /\ packets[n][4] = n

\* l is what s holds after its first t.
EndsWith(s, t, l) ==
  t + Len(l) = Len(s) /\ \A i \in 1 .. Len(l) : l[i] = s[t + i]

\* What is sent is taken in order: the transfer in hand is the end of what was
\* taken, and the line holds what was not.
InOrder ==
  /\ EndsWith(Sent, taken, line) /\ Len(d) <= taken
  /\ \A i \in 1 .. Len(d) : d[i] = Sent[taken - Len(d) + i]

\* No other transfer ends inside the one in hand.
OneTransfer == taken \in cuts /\ \A c \in cuts : c <= taken - Len(d) \/ c = taken

Found == [n \in 1 .. Len(packets) |-> Whole(n)]

\* Where the loop is.
Pos == taken - Len(d) + offset

\* The loop has found all there is to find in the first m packets.  It is at the
\* beginning of the next, or in a marker, or in a packet that was cut.
FoundUpTo(m) ==
  /\ BeginOf(m + 1) <= Pos
  /\ m < Len(packets) => Pos < EndOf(m + 1)
  /\ BeginOf(m + 1) < Pos =>
       m < Len(packets) /\ (packets[m + 1] = DetectMarker \/ Straddles(m + 1))
  /\ got = First(Found, m)

FindsInOrder ==
  spc = "split" /\ NotMisled => \E m \in 0 .. Len(packets) : FoundUpTo(m)

SplitInv ==
  /\ SplitTypeOK /\ WellFormed /\ InOrder /\ OneTransfer
  /\ FindsInOrder /\ FindsWholePackets

-----------------------------------------------------------------------------
(***************************************************************************)
(* Where packets begin and end.                                            *)
(***************************************************************************)

LEMMA Places ==
  ASSUME packets \in Seq(Seq(Byte))
  PROVE  /\ Len(packets) \in Nat
         /\ \A n \in 1 .. Len(packets) + 1 : BeginOf(n) \in Nat
         /\ \A n \in 1 .. Len(packets) :
              /\ Len(packets[n]) \in Nat /\ EndOf(n) \in Nat
              /\ EndOf(n) = BeginOf(n + 1) /\ EndOf(n) = BeginOf(n) + Len(packets[n])
         /\ BeginOf(Len(packets) + 1) = Len(Sent) /\ BeginOf(1) = 0
         /\ \A m, n \in 1 .. Len(packets) + 1 : m <= n => BeginOf(m) <= BeginOf(n)
<1>1. Len(packets) \in Nat
  BY LenProperties
<1>2. \A n : BeginOf(n) = Len(First(packets, n - 1))
  BY DEF BeginOf, First
<1>3. \A n \in 1 .. Len(packets) + 1 : BeginOf(n) \in Nat
  <2> SUFFICES ASSUME NEW n \in 1 .. Len(packets) + 1 PROVE BeginOf(n) \in Nat
    OBVIOUS
  <2>1. n - 1 \in 0 .. Len(packets)
    BY <1>1
  <2>2. First(packets, n - 1) \in Seq(Byte)
    BY <2>1, FirstType
  <2> QED
    BY <1>2, <2>2, LenProperties
<1>4. ASSUME NEW n \in 1 .. Len(packets)
      PROVE  /\ Len(packets[n]) \in Nat /\ EndOf(n) \in Nat
             /\ EndOf(n) = BeginOf(n + 1) /\ EndOf(n) = BeginOf(n) + Len(packets[n])
  <2>1. /\ Len(First(packets, n - 1)) \in Nat /\ Len(First(packets, n)) \in Nat
        /\ Len(packets[n]) \in Nat
        /\ Len(First(packets, n)) = Len(First(packets, n - 1)) + Len(packets[n])
    BY FirstLength
  <2>2. (n + 1) - 1 = n
    BY <1>1
  <2>3. BeginOf(n + 1) = Len(First(packets, n)) /\ BeginOf(n) = Len(First(packets, n - 1))
    BY <1>2, <2>2, Zenon
  <2> QED
    BY <2>1, <2>3 DEF EndOf
<1>5. BeginOf(Len(packets) + 1) = Len(Sent) /\ BeginOf(1) = 0
  <2>1. (Len(packets) + 1) - 1 = Len(packets) /\ 1 - 1 = 0
    BY <1>1
  <2>2. First(packets, Len(packets)) = Sent
    BY FirstAll DEF Sent
  <2>3. First(packets, 0) = <<>>
    BY FirstNone
  <2>4. BeginOf(1) = Len(<<>>)
    BY <1>2, <2>1, <2>3, Zenon
  <2>5. BeginOf(1) = 0
    BY <2>4, EmptySeq
  <2>6. BeginOf(Len(packets) + 1) = Len(Sent)
    BY <1>2, <2>1, <2>2, Zenon
  <2> QED
    BY <2>5, <2>6
<1>6. ASSUME NEW m \in 1 .. Len(packets) + 1, NEW n \in 1 .. Len(packets) + 1, m <= n
      PROVE  BeginOf(m) <= BeginOf(n)
  <2>1. m - 1 \in 0 .. Len(packets) /\ n - 1 \in m - 1 .. Len(packets)
    BY <1>1, <1>6
  <2>2. Len(First(packets, m - 1)) <= Len(First(packets, n - 1))
    BY <2>1, FirstGrows
  <2> QED
    BY <1>2, <2>2, Zenon
<1> QED
  BY <1>1, <1>3, <1>4, <1>5, <1>6, Zenon

LEMMA FoundType ==
  ASSUME Len(packets) \in Nat
  PROVE  /\ Found \in Seq(Seq(Nat)) /\ Len(Found) = Len(packets)
         /\ \A n \in 1 .. Len(packets) : Found[n] = Whole(n)
<1>1. \A n \in 1 .. Len(packets) : Whole(n) \in Seq(Nat)
  <2> SUFFICES ASSUME NEW n \in 1 .. Len(packets) PROVE Whole(n) \in Seq(Nat)
    OBVIOUS
  <2>1. <<n>> \in Seq(Nat) /\ <<>> \in Seq(Nat)
    OBVIOUS
  <2> QED
    BY <2>1, Zenon DEF Whole
<1>2. Found \in [1 .. Len(packets) -> Seq(Nat)]
  BY <1>1 DEF Found
<1>3. Found \in Seq(Seq(Nat)) /\ Len(Found) = Len(packets)
  BY <1>2
<1> QED
  BY <1>3 DEF Found

\* The bytes of a packet where they were sent.
LEMMA ByteSent ==
  ASSUME packets \in Seq(Seq(Byte)), NEW n \in 1 .. Len(packets), NEW i \in 1 .. Len(packets[n])
  PROVE  Sent[BeginOf(n) + i] = packets[n][i]
BY FirstAt DEF Sent, BeginOf, First

\* Every place is in a packet, or after all of them.
LEMMA Located ==
  ASSUME packets \in Seq(Seq(Byte)), NEW P \in 0 .. Len(Sent)
  PROVE  \E m \in 0 .. Len(packets) : /\ BeginOf(m + 1) <= P
                                      /\ m < Len(packets) => P < EndOf(m + 1)
<1>1. PICK m \in 0 .. Len(packets) : /\ Len(First(packets, m)) <= P
                                     /\ m < Len(packets) => P < Len(First(packets, m + 1))
  BY FirstReaches DEF Sent
<1>2. Len(packets) \in Nat
  BY LenProperties
<1>3. BeginOf(m + 1) <= P
  <2>1. (m + 1) - 1 = m
    BY <1>2
  <2> QED
    BY <1>1, <2>1, Zenon DEF BeginOf, First
<1>4. ASSUME m < Len(packets) PROVE P < EndOf(m + 1)
  <2>1. m + 1 \in 1 .. Len(packets) /\ ((m + 1) + 1) - 1 = m + 1
    BY <1>2, <1>4
  <2>2. EndOf(m + 1) = BeginOf((m + 1) + 1)
    BY <2>1, Places
  <2> QED
    BY <1>1, <1>4, <2>1, <2>2, Zenon DEF BeginOf, First
<1> QED
  BY <1>3, <1>4, Zenon

-----------------------------------------------------------------------------
(***************************************************************************)
(* What the device sends.                                                  *)
(***************************************************************************)

LEMMA ByteIs == \A n : n \in Byte <=> n \in Nat /\ n < 256
BY DEF Byte

\* A packet's length and number are bytes, and are where the program looks.
LEMMA PacketBytes ==
  ASSUME NEW id \in Byte, NEW payload \in Payloads
  PROVE  LET p == LinkPacket(id, payload)
         IN  /\ p \in Seq(Byte) /\ Len(p) >= HeaderLen
             /\ p[1] = 255 /\ p[2] = 90 /\ p[3] = Len(p) /\ p[4] = id
<1> DEFINE body    == IF payload = <<>> THEN <<>> ELSE Append(payload, 0)
           filling == [i \in 1 .. HeaderLen - 4 |-> 0]
           h       == HeaderLen + Len(body)
           four    == <<255, 90, h, id>>
<1>1. HeaderLen \in Nat /\ HeaderLen >= 4 /\ payload \in Seq(Byte)
  BY SplitAssumption
<1>2. Len(payload) \in Nat /\ HeaderLen + Len(payload) < 255
  BY <1>1, SplitAssumption
<1>3. body \in Seq(Byte) /\ Len(body) <= Len(payload) + 1 /\ Len(body) \in Nat
  BY <1>1, ByteIs
<1> HIDE DEF body
<1>4. h \in Byte /\ h \in Nat
  BY <1>1, <1>2, <1>3, ByteIs
<1>5. HeaderLen - 4 \in Nat
  BY <1>1
<1>6. filling \in Seq(Byte) /\ Len(filling) = HeaderLen - 4
  BY <1>5, ByteIs
<1> HIDE DEF h, filling
<1>7. four \in Seq(Byte) /\ Len(four) = 4
      /\ four[1] = 255 /\ four[2] = 90 /\ four[3] = h /\ four[4] = id
  BY <1>4, ByteIs
<1> HIDE DEF four
<1> DEFINE header == four \o filling
           p      == header \o body
<1>8. /\ header \in Seq(Byte) /\ Len(header) = HeaderLen
      /\ \A i \in 1 .. 4 : header[i] = four[i]
  <2>1. /\ header \in Seq(Byte) /\ Len(header) = Len(four) + Len(filling)
        /\ \A i \in 1 .. Len(four) : header[i] = four[i]
    <3>1. four \in Seq(Byte) /\ filling \in Seq(Byte)
      BY <1>6, <1>7
    <3> QED
      BY <3>1, IndexOfConcat
  <2> HIDE DEF header
  <2>2. Len(header) = HeaderLen
    BY <1>1, <1>6, <1>7, <2>1
  <2>3. \A i \in 1 .. 4 : header[i] = four[i]
    <3>1. Len(four) = 4
      BY <1>7
    <3> QED
      BY <2>1, <3>1, Zenon
  <2> QED
    BY <2>1, <2>2, <2>3
<1> HIDE DEF header
<1>9. /\ p \in Seq(Byte) /\ Len(p) = h /\ Len(p) >= HeaderLen
      /\ \A i \in 1 .. 4 : p[i] = header[i]
  <2>1. /\ p \in Seq(Byte) /\ Len(p) = Len(header) + Len(body)
        /\ \A i \in 1 .. Len(header) : p[i] = header[i]
    BY <1>3, <1>8, IndexOfConcat
  <2> HIDE DEF p
  <2>2. Len(p) = h
    BY <1>8, <2>1 DEF h
  <2>3. Len(p) >= HeaderLen
    BY <1>1, <1>3, <1>8, <2>1
  <2>4. \A i \in 1 .. 4 : i \in 1 .. Len(header)
    BY <1>1, <1>8
  <2>5. \A i \in 1 .. 4 : p[i] = header[i]
    BY <2>1, <2>4, Zenon
  <2> QED
    BY <2>1, <2>2, <2>3, <2>5
<1> HIDE DEF p
<1>10. p = LinkPacket(id, payload)
  BY Zenon DEF p, header, four, h, filling, body, LinkPacket
<1>11. p[1] = 255 /\ p[2] = 90 /\ p[3] = h /\ p[4] = id
  BY <1>7, <1>8, <1>9
<1> QED
  BY <1>9, <1>10, <1>11, Zenon

LEMMA MarkerBytes ==
  /\ DetectMarker \in Seq(Byte) /\ Len(DetectMarker) = 6
  /\ DetectMarker[1] = 255 /\ DetectMarker[2] = 85
  /\ \A i \in 1 .. 6 : DetectMarker[i] = 255 => i = 1
<1>1. DetectMarker \in Seq(Byte) /\ Len(DetectMarker) = 6
  BY ByteIs DEF DetectMarker
<1>2. /\ DetectMarker[1] = 255 /\ DetectMarker[2] = 85 /\ DetectMarker[3] = 2
      /\ DetectMarker[4] = 0 /\ DetectMarker[5] = 238 /\ DetectMarker[6] = 16
  BY DEF DetectMarker
<1> HIDE DEF DetectMarker
<1>3. ASSUME NEW i \in 1 .. 6, DetectMarker[i] = 255 PROVE i = 1
  <2>1. i = 1 \/ i = 2 \/ i = 3 \/ i = 4 \/ i = 5 \/ i = 6
    OBVIOUS
  <2> QED
    BY <1>2, <1>3, <2>1
<1> QED
  BY <1>1, <1>2, <1>3

\* More is sent.
LEMMA Lengthened ==
  ASSUME NEW S, NEW s \in Seq(S), NEW l \in Seq(S), NEW p \in Seq(S), NEW t \in Nat,
         EndsWith(s, t, l)
  PROVE  /\ EndsWith(s \o p, t, l \o p)
         /\ \A i \in 1 .. Len(s) : (s \o p)[i] = s[i]
<1> DEFINE lp == l \o p
           sp == s \o p
<1>1. PICK x \in Nat, y \in Nat, z \in Nat : x = Len(l) /\ y = Len(p) /\ z = Len(s)
  BY LenProperties
<1>2. /\ Len(lp) = x + y /\ lp \in Seq(S)
      /\ \A i \in 1 .. x : lp[i] = l[i]
      /\ \A i \in 1 .. y : lp[x + i] = p[i]
  BY <1>1, IndexOfConcat
<1>3. /\ Len(sp) = z + y
      /\ \A i \in 1 .. z : sp[i] = s[i]
      /\ \A i \in 1 .. y : sp[z + i] = p[i]
  BY <1>1, IndexOfConcat
<1>4. t + x = z /\ \A i \in 1 .. x : l[i] = s[t + i]
  BY <1>1 DEF EndsWith
<1> HIDE DEF lp, sp
<1>5. ASSUME NEW i \in 1 .. x + y PROVE lp[i] = sp[t + i]
  <2>1. CASE i \in 1 .. x
    <3>1. t + i \in 1 .. z
      BY <1>4, <2>1
    <3> QED
      BY <1>2, <1>3, <1>4, <2>1, <3>1
  <2>2. CASE i \notin 1 .. x
    <3>1. PICK j \in 1 .. y : i = x + j
      <4>1. i - x \in 1 .. y /\ i = x + (i - x)
        BY <2>2
      <4> QED
        BY <4>1, Zenon
    <3>2. t + i = z + j
      BY <1>4, <3>1
    <3> QED
      BY <1>2, <1>3, <3>1, <3>2, Zenon
  <2> QED
    BY <2>1, <2>2
<1>6. t + Len(lp) = Len(sp)
  BY <1>2, <1>3, <1>4
<1> QED
  BY <1>1, <1>2, <1>3, <1>5, <1>6, Zenon DEF lp, sp, EndsWith

\* Some of it is taken.
LEMMA CutOff ==
  ASSUME NEW S, NEW l \in Seq(S), NEW k \in 0 .. Len(l)
  PROVE  LET a == SubSeq(l, 1, k)
             b == SubSeq(l, k + 1, Len(l))
         IN  /\ a \in Seq(S) /\ Len(a) = k /\ \A i \in 1 .. k : a[i] = l[i]
             /\ b \in Seq(S) /\ Len(b) = Len(l) - k
             /\ \A i \in 1 .. Len(l) - k : b[i] = l[k + i]
<1> DEFINE a == SubSeq(l, 1, k)
           b == SubSeq(l, k + 1, Len(l))
<1>1. a \in Seq(S) /\ Len(a) = k /\ b \in Seq(S) /\ Len(b) = Len(l) - k /\ l = a \o b
  BY Split
<1> HIDE DEF a, b
<1>2. Len(l) \in Nat /\ k \in Nat /\ k <= Len(l)
  BY LenProperties
<1>3. /\ \A i \in 1 .. Len(a) : (a \o b)[i] = a[i]
      /\ \A i \in 1 .. Len(b) : (a \o b)[Len(a) + i] = b[i]
  BY <1>1, IndexOfConcat
<1>4. /\ \A i \in 1 .. k : l[i] = a[i]
      /\ \A i \in 1 .. Len(l) - k : l[k + i] = b[i]
  BY <1>1, <1>3, Zenon
<1> QED
  BY <1>1, <1>4, Zenon DEF a, b

-----------------------------------------------------------------------------
(***************************************************************************)
(* Types.                                                                  *)
(***************************************************************************)

LEMMA SplitInitType == SplitInit => SplitTypeOK
<1> SUFFICES ASSUME SplitInit PROVE SplitTypeOK
  OBVIOUS
<1>1. line \in Seq(Byte) /\ d \in Seq(Byte) /\ got \in Seq(Byte)
      /\ packets \in Seq(Seq(Byte))
  BY DEF SplitInit
<1>2. Len(packets) <= MaxSent /\ offset \in 0 .. Len(d)
  BY SplitAssumption, ByteIs DEF SplitInit
<1>3. taken \in Nat /\ cuts \subseteq 0 .. taken
  BY DEF SplitInit
<1> QED
  BY <1>1, <1>2, <1>3 DEF SplitInit, SplitTypeOK

LEMMA SplitNextType ==
  ASSUME SplitTypeOK, SplitNext
  PROVE  SplitTypeOK'
<1>1. CASE SendPacket
  <2>1. PICK p \in {LinkPacket(Len(packets) + 1, b) : b \in Payloads} \union {DetectMarker} :
          packets' = Append(packets, p) /\ line' = line \o p
    BY <1>1 DEF SendPacket
  <2>2. Len(packets) + 1 \in Byte /\ Len(packets) + 1 <= MaxSent
    <3>1. Len(packets) \in Nat /\ Len(packets) < MaxSent
      BY <1>1 DEF SendPacket, SplitTypeOK
    <3>2. MaxSent \in Byte
      BY SplitAssumption
    <3> QED
      BY <3>1, <3>2, ByteIs
  <2>3. DetectMarker \in Seq(Byte)
    BY ByteIs DEF DetectMarker
  <2>4. p \in Seq(Byte)
    BY <2>2, <2>3, PacketBytes
  <2>5. packets' \in Seq(Seq(Byte)) /\ Len(packets') <= MaxSent
    BY <2>1, <2>2, <2>4 DEF SplitTypeOK
  <2>6. line' \in Seq(Byte)
    BY <2>1, <2>4 DEF SplitTypeOK
  <2> QED
    BY <1>1, <2>5, <2>6 DEF SendPacket, SplitTypeOK
<1>2. CASE ReadTransfer
  <2>1. PICK k \in 1 .. Len(line) :
          /\ d' = SubSeq(line, 1, k) /\ line' = SubSeq(line, k + 1, Len(line))
          /\ taken' = taken + k /\ cuts' = cuts \union {taken + k}
    BY <1>2 DEF ReadTransfer
  <2>2. line \in Seq(Byte) /\ Len(line) \in Nat /\ k \in Nat
    BY DEF SplitTypeOK
  <2>3. d' \in Seq(Byte) /\ line' \in Seq(Byte)
    <3>1. \A i \in 1 .. k : line[i] \in Byte
      BY <2>2
    <3>2. \A i \in k + 1 .. Len(line) : line[i] \in Byte
      BY <2>2
    <3> QED
      BY <2>1, <2>2, <3>1, <3>2, SubSeqProperties
  <2>4. offset' \in 0 .. Len(d')
    BY <1>2, <2>3 DEF ReadTransfer
  <2>5. taken' \in Nat /\ cuts' \subseteq 0 .. taken'
    BY <2>1, <2>2 DEF SplitTypeOK
  <2> QED
    BY <1>2, <2>3, <2>4, <2>5 DEF ReadTransfer, SplitTypeOK
<1>3. CASE Break
  BY <1>3 DEF Break, SplitTypeOK
<1>4. CASE SplitPacket
  <2>1. /\ offset \in Nat /\ Len(d) \in Nat /\ d \in Seq(Byte)
        /\ HeaderLen \in Nat /\ HeaderLen >= 4
        /\ offset + HeaderLen <= Len(d)
    BY <1>4, SplitAssumption DEF SplitPacket, HeaderFits, SplitTypeOK
  <2>2. LengthHere \in Byte
    <3>1. offset + 3 \in 1 .. Len(d)
      BY <2>1
    <3> QED
      BY <2>1, <3>1, ElementOfSeq DEF LengthHere
  <2>3. offset' \in 0 .. Len(d)
    BY <1>4, <2>1, <2>2, ByteIs DEF SplitPacket, NextOffset, EndsInside
  <2> DEFINE piece == SubSeq(d, offset + 1, offset + LengthHere)
  <2>4. piece \in Seq(Byte)
    <3>1. \A i \in offset + 1 .. offset + LengthHere : i \in 1 .. Len(d)
      BY <1>4, <2>1, <2>2, ByteIs DEF SplitPacket, EndsInside
    <3>2. \A i \in offset + 1 .. offset + LengthHere : d[i] \in Byte
      BY <2>1, <3>1
    <3> QED
      BY <2>1, <2>2, <3>2, ByteIs, SubSeqProperties
  <2> HIDE DEF piece
  <2>5. Parsed(piece) \in Seq(Byte)
    <3>1. CASE Len(piece) < HeaderLen
      BY <3>1 DEF Parsed
    <3>2. CASE ~(Len(piece) < HeaderLen)
      <4>1. 4 \in 1 .. Len(piece)
        BY <2>1, <2>4, <3>2
      <4>2. piece[4] \in Byte
        BY <2>4, <4>1, ElementOfSeq
      <4> QED
        BY <3>2, <4>2 DEF Parsed
    <3> QED
      BY <3>1, <3>2
  <2>6. got' \in Seq(Byte)
    BY <1>4, <2>5 DEF SplitPacket, SplitTypeOK, piece
  <2> QED
    BY <1>4, <2>3, <2>6 DEF SplitPacket, SplitTypeOK
<1>5. CASE SkipByte
  BY <1>5 DEF SkipByte, InLoop, SplitTypeOK
<1> QED
  BY <1>1, <1>2, <1>3, <1>4, <1>5 DEF SplitNext, SplitStep

-----------------------------------------------------------------------------
(***************************************************************************)
(* The device sends a packet, or the marker.                               *)
(***************************************************************************)

\* A packet ends after what was taken, or has been cut: it is not found.
LEMMA NotWhole ==
  ASSUME NEW n, ~IsPacket(n) \/ taken < EndOf(n) \/ Straddles(n),
         taken \in Nat, EndOf(n) \in Nat
  PROVE  Whole(n) = <<>>
<1>1. ~(IsPacket(n) /\ EndOf(n) <= taken /\ ~Straddles(n))
  OBVIOUS
<1> QED
  BY <1>1, Zenon DEF Whole

LEMMA SplitInitInv == SplitInit => SplitInv
<1> SUFFICES ASSUME SplitInit PROVE SplitInv
  OBVIOUS
<1>1. SplitTypeOK
  BY SplitInitType
<1>2. /\ spc = "read" /\ line = <<>> /\ d = <<>> /\ got = <<>> /\ packets = <<>>
      /\ taken = 0 /\ cuts = {0} /\ Len(packets) = 0 /\ Len(line) = 0 /\ Len(d) = 0
  BY DEF SplitInit
<1>3. Sent = <<>> /\ Len(Sent) = 0
  BY <1>2, FlattenEmpty DEF Sent
<1>4. WellFormed
  BY <1>2 DEF WellFormed
<1>5. InOrder /\ OneTransfer
  BY <1>2, <1>3 DEF InOrder, OneTransfer, EndsWith
<1>6. FindsInOrder
  BY <1>2 DEF FindsInOrder
<1>7. FindsWholePackets
  <2>1. Found \in Seq(Seq(Nat)) /\ Len(Found) = 0
    BY <1>2, FoundType
  <2>2. Found = <<>>
    BY <2>1, EmptySeq
  <2> QED
    BY <1>2, <2>2, FlattenEmpty, Zenon DEF FindsWholePackets, Found
<1> QED
  BY <1>1, <1>4, <1>5, <1>6, <1>7 DEF SplitInv

LEMMA SendInv ==
  ASSUME SplitInv, SendPacket
  PROVE  SplitInv'
<1>1. /\ packets \in Seq(Seq(Byte)) /\ line \in Seq(Byte) /\ d \in Seq(Byte) /\ taken \in Nat
      /\ SplitTypeOK /\ WellFormed /\ InOrder /\ OneTransfer /\ FindsWholePackets
  BY DEF SplitInv, SplitTypeOK
<1>2. SplitTypeOK'
  BY <1>1, SplitNextType DEF SplitNext
<1>3. PICK p \in {LinkPacket(Len(packets) + 1, b) : b \in Payloads} \union {DetectMarker} :
        packets' = Append(packets, p) /\ line' = line \o p
  BY DEF SendPacket
<1>4. /\ spc = "read" /\ spc' = "read"
      /\ d' = d /\ offset' = offset /\ got' = got /\ taken' = taken /\ cuts' = cuts
  BY DEF SendPacket
<1>5. PICK N \in Nat : N = Len(packets)
  BY <1>1, LenProperties
<1>6. /\ p \in Seq(Byte) /\ Len(p) \in Nat /\ Len(p) >= 1
      /\ p = DetectMarker \/ ( /\ Len(p) >= HeaderLen /\ p[1] = 255 /\ p[2] = 90
                              /\ p[3] = Len(p) /\ p[4] = N + 1)
  <2>1. N + 1 \in Byte
    <3>1. N < MaxSent /\ MaxSent \in Byte
      BY <1>5, SplitAssumption DEF SendPacket
    <3> QED
      BY <3>1, ByteIs
  <2>2. CASE p = DetectMarker
    BY <2>2, MarkerBytes
  <2>3. CASE p # DetectMarker
    <3>1. PICK b \in Payloads : p = LinkPacket(N + 1, b)
      BY <1>3, <1>5, <2>3
    <3>2. /\ p \in Seq(Byte) /\ Len(p) >= HeaderLen
          /\ p[1] = 255 /\ p[2] = 90 /\ p[3] = Len(p) /\ p[4] = N + 1
      BY <2>1, <3>1, PacketBytes
    <3>3. HeaderLen \in Nat /\ HeaderLen >= 4 /\ Len(p) \in Nat
      BY <3>2, SplitAssumption, LenProperties
    <3> QED
      BY <3>2, <3>3
  <2> QED
    BY <2>2, <2>3
<1>7. /\ packets' \in Seq(Seq(Byte)) /\ Len(packets') = N + 1
      /\ \A n \in 1 .. N : packets'[n] = packets[n]
      /\ packets'[N + 1] = p
  BY <1>1, <1>3, <1>5, <1>6, AppendProperties
<1>8. Sent' = Sent \o p /\ Sent \in Seq(Byte)
  BY <1>1, <1>3, <1>6, FlattenAppend, FlattenType DEF Sent
<1>9. ASSUME NEW n \in 1 .. N + 1
      PROVE  BeginOf(n)' = BeginOf(n)
  <2>1. n - 1 \in 0 .. Len(packets)
    BY <1>5
  <2>2. First(packets', n - 1) = First(packets, n - 1)
    BY <1>1, <1>3, <1>6, <2>1, FirstOfAppend
  <2> QED
    BY <2>2, Zenon DEF BeginOf, First
<1>10. ASSUME NEW n \in 1 .. N
       PROVE  EndOf(n)' = EndOf(n)
  <2>1. BeginOf(n)' = BeginOf(n) /\ packets'[n] = packets[n]
    BY <1>7, <1>9
  <2> QED
    BY <2>1, Zenon DEF EndOf
<1>11. EndOf(N + 1)' = Len(Sent) + Len(p)
  <2>1. BeginOf(N + 1) = Len(Sent)
    BY <1>1, <1>5, Places
  <2>2. N + 1 \in 1 .. N + 1
    OBVIOUS
  <2>3. BeginOf(N + 1)' = Len(Sent)
    BY <1>9, <2>1, <2>2, Zenon
  <2> QED
    BY <1>7, <2>3, Zenon DEF EndOf
<1>12. WellFormed'
  <2> SUFFICES ASSUME NEW n \in 1 .. N + 1
               PROVE  packets'[n] = DetectMarker \/
                      /\ Len(packets'[n]) >= HeaderLen
                      /\ packets'[n][1] = 255 /\ packets'[n][2] = 90
                      /\ packets'[n][3] = Len(packets'[n]) /\ packets'[n][4] = n
    BY <1>7 DEF WellFormed
  <2>1. CASE n = N + 1
    BY <1>6, <1>7, <2>1, Zenon
  <2>2. CASE n # N + 1
    <3>1. n \in 1 .. N
      BY <2>2
    <3>2. packets'[n] = packets[n]
      BY <1>7, <3>1
    <3>3. packets[n] = DetectMarker \/
          /\ Len(packets[n]) >= HeaderLen
          /\ packets[n][1] = 255 /\ packets[n][2] = 90
          /\ packets[n][3] = Len(packets[n]) /\ packets[n][4] = n
      <4>1. WellFormed /\ n \in 1 .. Len(packets)
        BY <1>1, <1>5, <3>1
      <4> QED
        BY <4>1, Zenon DEF WellFormed
    <3> QED
      BY <3>2, <3>3, ZenonT(30)
  <2> QED
    BY <2>1, <2>2
<1>13. /\ EndsWith(Sent, taken, line) /\ Len(d) <= taken
       /\ taken + Len(line) = Len(Sent)
       /\ \A i \in 1 .. Len(d) : d[i] = Sent[taken - Len(d) + i]
  BY <1>1 DEF InOrder, EndsWith
<1>14. /\ EndsWith(Sent \o p, taken, line \o p)
       /\ \A i \in 1 .. Len(Sent) : (Sent \o p)[i] = Sent[i]
  <2>1. line \in Seq(Byte) /\ p \in Seq(Byte) /\ Sent \in Seq(Byte) /\ taken \in Nat
    BY <1>1, <1>6, <1>8
  <2> QED
    BY <1>13, <2>1, Lengthened
<1>15. InOrder'
  <2>1. ASSUME NEW i \in 1 .. Len(d) PROVE d[i] = (Sent')[taken - Len(d) + i]
    <3>1. Len(d) \in Nat /\ Len(line) \in Nat
      BY <1>1, LenProperties
    <3>2. taken - Len(d) + i \in 1 .. Len(Sent)
      BY <1>1, <1>13, <3>1
    <3> QED
      BY <1>8, <1>13, <1>14, <3>2
  <2> QED
    BY <1>3, <1>4, <1>8, <1>13, <1>14, <2>1 DEF InOrder
<1>16. OneTransfer'
  BY <1>1, <1>4 DEF OneTransfer
<1>17. ASSUME NEW n \in 1 .. N
       PROVE  /\ Straddles(n)' <=> Straddles(n)
              /\ Misleading(n)' <=> Misleading(n)
              /\ Whole(n)' = Whole(n)
  <2>1. n \in 1 .. N + 1
    OBVIOUS
  <2>2. BeginOf(n)' = BeginOf(n) /\ EndOf(n)' = EndOf(n) /\ packets'[n] = packets[n]
    BY <1>7, <1>9, <1>10, <2>1
  <2>3. Straddles(n)' <=> Straddles(n)
    BY <1>4, <2>2 DEF Straddles
  <2>4. Misleading(n)' <=> Misleading(n)
    BY <2>2, <2>3 DEF Misleading
  <2>5. Whole(n)' = Whole(n)
    BY <1>4, <2>2, <2>3, Zenon DEF Whole, IsPacket
  <2> QED
    BY <2>3, <2>4, <2>5
<1>18. Whole(N + 1)' = <<>>
  <2>1. Len(Sent) \in Nat /\ Len(line) \in Nat
    BY <1>1, <1>8, LenProperties
  <2>2. taken' \in Nat /\ EndOf(N + 1)' \in Nat /\ taken' < EndOf(N + 1)'
    BY <1>1, <1>4, <1>6, <1>11, <1>13, <2>1
  <2>3. ~(EndOf(N + 1)' <= taken')
    BY <2>2
  <2> QED
    BY <2>3, Zenon DEF Whole
<1>19. FindsWholePackets'
  <2> SUFFICES ASSUME NotMisled'
               PROVE  got' = FlattenSeq(Found')
    BY Zenon DEF FindsWholePackets, Found
  <2>1. NotMisled
    <3> SUFFICES ASSUME NEW n \in 1 .. N PROVE ~Misleading(n)
      BY <1>5 DEF NotMisled
    <3>1. n \in 1 .. Len(packets')
      BY <1>7
    <3>2. ~Misleading(n)'
      BY <3>1 DEF NotMisled
    <3> QED
      BY <1>17, <3>2
  <2>2. got = FlattenSeq(Found)
    BY <1>1, <1>4, <2>1, Zenon DEF FindsWholePackets, Found
  <2>3. /\ Found \in Seq(Seq(Nat)) /\ Len(Found) = N
        /\ \A n \in 1 .. N : Found[n] = Whole(n)
    BY <1>5, FoundType
  <2>4. /\ Found' \in Seq(Seq(Nat)) /\ Len(Found') = N + 1
        /\ \A n \in 1 .. N + 1 : Found'[n] = Whole(n)'
    <3>1. Len(packets') \in Nat
      BY <1>7
    <3>2. \A n \in 1 .. N + 1 : Whole(n)' \in Seq(Nat)
      <4> SUFFICES ASSUME NEW n \in 1 .. N + 1 PROVE Whole(n)' \in Seq(Nat)
        OBVIOUS
      <4>1. <<n>> \in Seq(Nat) /\ <<>> \in Seq(Nat)
        OBVIOUS
      <4> QED
        BY <4>1, Zenon DEF Whole
    <3>3. Found' = [n \in 1 .. N + 1 |-> Whole(n)']
      BY <1>7, Zenon DEF Found
    <3>4. Found' \in [1 .. N + 1 -> Seq(Nat)]
      BY <3>2, <3>3
    <3>5. N + 1 \in Nat
      OBVIOUS
    <3>6. Found' \in Seq(Seq(Nat)) /\ Len(Found') = N + 1
      BY <3>4, <3>5
    <3> QED
      BY <3>3, <3>6
  <2>5. First(Found', N) = First(Found, N)
    <3>1. \A n \in 1 .. N : n \in 1 .. N + 1
      OBVIOUS
    <3>2. \A n \in 1 .. N : Found'[n] = Found[n]
      BY <1>17, <2>3, <2>4, <3>1
    <3>3. N <= Len(Found') /\ N <= Len(Found)
      BY <2>3, <2>4
    <3> QED
      BY <2>3, <2>4, <3>2, <3>3, FirstSame
  <2>6. FlattenSeq(Found) = First(Found, N)
    BY <2>3, FirstAll
  <2>7. FlattenSeq(Found') = First(Found', N)
    <3>1. N \in 0 .. Len(Found')
      BY <2>4
    <3>2. \A n \in 1 .. Len(Found') : n > N => Found'[n] = <<>>
      <4> SUFFICES ASSUME NEW n \in 1 .. Len(Found'), n > N PROVE Found'[n] = <<>>
        OBVIOUS
      <4>1. n = N + 1 /\ n \in 1 .. N + 1
        BY <2>4
      <4> QED
        BY <1>18, <2>4, <4>1
    <3> QED
      BY <2>4, <3>1, <3>2, FirstRest
  <2> QED
    BY <1>4, <2>2, <2>5, <2>6, <2>7, Zenon
<1>20. FindsInOrder'
  BY <1>4 DEF FindsInOrder
<1> QED
  BY <1>2, <1>12, <1>15, <1>16, <1>19, <1>20 DEF SplitInv

-----------------------------------------------------------------------------
(***************************************************************************)
(* The program reads.                                                      *)
(***************************************************************************)

\* What is found when nothing is to find after the first m.
LEMMA FoundInFirst ==
  ASSUME Len(packets) \in Nat, NEW m \in 0 .. Len(packets),
         \A n \in 1 .. Len(packets) : n > m => Whole(n) = <<>>
  PROVE  FlattenSeq(Found) = First(Found, m)
<1>1. /\ Found \in Seq(Seq(Nat)) /\ Len(Found) = Len(packets)
      /\ \A n \in 1 .. Len(packets) : Found[n] = Whole(n)
  BY FoundType
<1>2. m \in 0 .. Len(Found) /\ \A n \in 1 .. Len(Found) : n > m => Found[n] = <<>>
  BY <1>1
<1> QED
  BY <1>1, <1>2, FirstRest

LEMMA ReadInv ==
  ASSUME SplitInv, ReadTransfer
  PROVE  SplitInv'
<1>1. /\ packets \in Seq(Seq(Byte)) /\ line \in Seq(Byte) /\ d \in Seq(Byte) /\ taken \in Nat
      /\ cuts \subseteq 0 .. taken
      /\ SplitTypeOK /\ WellFormed /\ InOrder /\ OneTransfer /\ FindsWholePackets
  BY DEF SplitInv, SplitTypeOK
<1>2. SplitTypeOK'
  BY <1>1, SplitNextType DEF SplitNext, SplitStep
<1>3. PICK k \in 1 .. Len(line) :
        /\ d' = SubSeq(line, 1, k) /\ line' = SubSeq(line, k + 1, Len(line))
        /\ taken' = taken + k /\ cuts' = cuts \union {taken + k}
  BY DEF ReadTransfer
<1>4. /\ spc = "read" /\ spc' = "split" /\ offset' = 0 /\ got' = got /\ packets' = packets
  BY DEF ReadTransfer
<1>5. PICK N \in Nat : N = Len(packets)
  BY <1>1, LenProperties
<1>6. Len(line) \in Nat /\ k \in Nat /\ k >= 1 /\ k <= Len(line) /\ k \in 0 .. Len(line)
  BY <1>1, LenProperties
<1>7. /\ Len(d') = k /\ \A i \in 1 .. k : d'[i] = line[i]
      /\ Len(line') = Len(line) - k /\ \A i \in 1 .. Len(line) - k : line'[i] = line[k + i]
  BY <1>1, <1>3, <1>6, CutOff
<1>8. /\ taken + Len(line) = Len(Sent)
      /\ \A i \in 1 .. Len(line) : line[i] = Sent[taken + i]
  BY <1>1 DEF InOrder, EndsWith
<1>9. Sent' = Sent
  BY <1>4 DEF Sent
<1>10. \A n : BeginOf(n)' = BeginOf(n) /\ EndOf(n)' = EndOf(n)
  BY <1>4 DEF BeginOf, EndOf
<1>11. WellFormed'
  BY <1>1, <1>4 DEF WellFormed
<1>12. InOrder'
  <2>1. taken' + Len(line') = Len(Sent)
    <3>1. PICK l \in Nat : l = Len(line)
      BY <1>6
    <3>2. Len(line') = l - k /\ taken + l = Len(Sent) /\ taken' = taken + k /\ k <= l
      BY <1>3, <1>6, <1>7, <1>8, <3>1
    <3>3. PICK t \in Nat, j \in Nat : t = taken /\ j = k
      BY <1>1, <1>6
    <3>4. (t + j) + (l - j) = t + l
      OBVIOUS
    <3> QED
      BY <3>2, <3>3, <3>4, Zenon
  <2>2. ASSUME NEW i \in 1 .. Len(line) - k PROVE line'[i] = Sent[(taken + k) + i]
    <3>1. k + i \in 1 .. Len(line) /\ taken + (k + i) = (taken + k) + i
      BY <1>1, <1>6
    <3>2. line[k + i] = Sent[taken + (k + i)]
      BY <1>8, <3>1
    <3> QED
      BY <1>7, <3>1, <3>2, Zenon
  <2>3. ASSUME NEW i \in 1 .. k PROVE d'[i] = Sent[(taken + k) - k + i]
    <3>1. i \in 1 .. Len(line) /\ (taken + k) - k = taken
      BY <1>1, <1>6
    <3> QED
      BY <1>7, <1>8, <3>1, Zenon
  <2>4. Len(d') <= taken'
    BY <1>1, <1>3, <1>6, <1>7
  <2> QED
    BY <1>3, <1>7, <1>9, <2>1, <2>2, <2>3, <2>4, Zenon DEF InOrder, EndsWith
<1>13. OneTransfer'
  <2>1. taken' - Len(d') = taken
    BY <1>1, <1>3, <1>6, <1>7
  <2>2. \A c \in cuts : c <= taken
    BY <1>1
  <2> QED
    BY <1>3, <2>1, <2>2 DEF OneTransfer
<1>14. FindsWholePackets'
  BY <1>4 DEF FindsWholePackets
<1>15. FindsInOrder'
  <2> SUFFICES ASSUME NotMisled' PROVE \E m \in 0 .. N : FoundUpTo(m)'
    BY <1>4, <1>5 DEF FindsInOrder
  <2>1. \A n : Straddles(n) => Straddles(n)'
    BY <1>3, <1>10 DEF Straddles
  <2>2. NotMisled
    <3>1. \A n : Misleading(n) => Misleading(n)'
      <4>1. packets' = packets
        BY <1>4
      <4> QED
        BY <2>1, <4>1 DEF Misleading
    <3> QED
      BY <1>4, <3>1 DEF NotMisled
  <2>3. got = FlattenSeq(Found)
    BY <1>1, <1>4, <2>2, Zenon DEF FindsWholePackets, Found
  <2>4. taken \in 0 .. Len(Sent)
    BY <1>1, <1>6, <1>8
  <2>5. PICK m \in 0 .. N : /\ BeginOf(m + 1) <= taken
                            /\ m < N => taken < EndOf(m + 1)
    BY <1>1, <1>5, <2>4, Located
  <2>6. /\ BeginOf(N + 1) = Len(Sent)
        /\ \A n \in 1 .. N + 1 : BeginOf(n) \in Nat
        /\ \A n \in 1 .. N : EndOf(n) \in Nat /\ EndOf(n) = BeginOf(n + 1)
        /\ \A a, b \in 1 .. N + 1 : a <= b => BeginOf(a) <= BeginOf(b)
    BY <1>1, <1>5, Places
  <2>7. ASSUME NEW n \in 1 .. N, n <= m PROVE EndOf(n) <= taken
    <3>1. n + 1 \in 1 .. N + 1 /\ m + 1 \in 1 .. N + 1 /\ n + 1 <= m + 1
      BY <2>7
    <3>2. BeginOf(n + 1) <= BeginOf(m + 1)
      BY <2>6, <3>1
    <3>3. BeginOf(n + 1) \in Nat /\ BeginOf(m + 1) \in Nat
      BY <2>6, <3>1
    <3> QED
      BY <1>1, <2>5, <2>6, <3>2, <3>3
  <2>8. ASSUME NEW n \in 1 .. N, n > m PROVE taken < EndOf(n)
    <3>1. m + 1 \in 1 .. N /\ n + 1 \in 1 .. N + 1 /\ (m + 1) + 1 \in 1 .. N + 1
          /\ (m + 1) + 1 <= n + 1 /\ m < N
      BY <2>8
    <3>2. BeginOf((m + 1) + 1) <= BeginOf(n + 1)
      BY <2>6, <3>1
    <3>3. EndOf(m + 1) <= EndOf(n) /\ EndOf(m + 1) \in Nat /\ EndOf(n) \in Nat
      BY <2>6, <3>1, <3>2
    <3> QED
      BY <1>1, <2>5, <3>1, <3>3
  <2>9. ASSUME NEW n \in 1 .. N, n <= m PROVE Whole(n)' = Whole(n)
    <3>1. EndOf(n) \in Nat /\ EndOf(n) <= taken /\ EndOf(n) <= taken + k /\ ~(taken + k < EndOf(n))
      BY <1>1, <1>6, <2>6, <2>7, <2>9
    <3>2. Straddles(n)' <=> Straddles(n)
      BY <1>3, <1>10, <3>1 DEF Straddles
    <3> QED
      BY <1>3, <1>4, <1>10, <3>1, <3>2, Zenon DEF Whole, IsPacket
  <2>10. ASSUME NEW n \in 1 .. N, n > m PROVE Whole(n) = <<>>
    <3>1. taken < EndOf(n) /\ EndOf(n) \in Nat
      BY <2>6, <2>8, <2>10
    <3> QED
      BY <1>1, <3>1, NotWhole
  <2>11. got = First(Found, m)
    <3>1. FlattenSeq(Found) = First(Found, m)
      BY <1>5, <2>10, FoundInFirst
    <3> QED
      BY <2>3, <3>1
  <2>12. First(Found', m) = First(Found, m)
    <3>1. /\ Found \in Seq(Seq(Nat)) /\ Len(Found) = N
          /\ \A n \in 1 .. N : Found[n] = Whole(n)
      BY <1>5, FoundType
    <3>2. Found' = [n \in 1 .. N |-> Whole(n)']
      BY <1>4, <1>5, Zenon DEF Found
    <3>3. \A n \in 1 .. N : Whole(n)' \in Seq(Nat)
      <4> SUFFICES ASSUME NEW n \in 1 .. N PROVE Whole(n)' \in Seq(Nat)
        OBVIOUS
      <4>1. <<n>> \in Seq(Nat) /\ <<>> \in Seq(Nat)
        OBVIOUS
      <4> QED
        BY <4>1, Zenon DEF Whole
    <3>4. Found' \in [1 .. N -> Seq(Nat)]
      BY <3>2, <3>3
    <3>5. Found' \in Seq(Seq(Nat)) /\ Len(Found') = N
      BY <3>4
    <3>6. \A n \in 1 .. m : n \in 1 .. N /\ n <= m
      OBVIOUS
    <3>7. \A n \in 1 .. m : Found'[n] = Found[n]
      BY <2>9, <3>1, <3>2, <3>6
    <3>8. m \in Nat /\ m <= Len(Found') /\ m <= Len(Found)
      BY <3>1, <3>5
    <3> QED
      BY <3>1, <3>5, <3>7, <3>8, FirstSame
  <2>13. Pos' = taken
    BY <1>1, <1>3, <1>4, <1>6, <1>7 DEF Pos
  <2>14. ASSUME BeginOf(m + 1) < taken PROVE m < N /\ Straddles(m + 1)'
    <3>1. m < N
      <4> SUFFICES ASSUME m = N PROVE FALSE
        OBVIOUS
      <4> QED
        BY <1>1, <1>6, <1>8, <2>6, <2>14
    <3>2. taken \in cuts'
      BY <1>1, <1>3 DEF OneTransfer
    <3>3. taken < EndOf(m + 1)
      BY <2>5, <3>1
    <3> QED
      BY <1>10, <2>14, <3>1, <3>2, <3>3 DEF Straddles
  <2>15. FoundUpTo(m)'
    BY <1>4, <1>5, <1>10, <2>5, <2>11, <2>12, <2>13, <2>14, Zenon DEF FoundUpTo
  <2> QED
    BY <2>15
<1> QED
  BY <1>2, <1>11, <1>12, <1>13, <1>14, <1>15 DEF SplitInv

-----------------------------------------------------------------------------
(***************************************************************************)
(* The loop over a transfer.                                               *)
(***************************************************************************)

\* A step of the loop that stays in it.
Goes == spc = "split" /\ spc' = "split" /\ UNCHANGED <<line, d, packets, taken, cuts>>

LEMMA SameWhole ==
  ASSUME UNCHANGED <<packets, taken, cuts>>
  PROVE  /\ \A n : BeginOf(n)' = BeginOf(n) /\ EndOf(n)' = EndOf(n)
         /\ \A n : Straddles(n)' <=> Straddles(n)
         /\ \A n : Whole(n)' = Whole(n)
         /\ NotMisled' <=> NotMisled
         /\ Found' = Found /\ Sent' = Sent
<1>1. \A n : BeginOf(n)' = BeginOf(n) /\ EndOf(n)' = EndOf(n)
  BY DEF BeginOf, EndOf
<1>2. \A n : Straddles(n)' <=> Straddles(n)
  BY <1>1 DEF Straddles
<1>3. \A n : Whole(n)' = Whole(n)
  BY <1>1, <1>2, Zenon DEF Whole, IsPacket
<1>4. NotMisled' <=> NotMisled
  <2>1. packets' = packets
    OBVIOUS
  <2>2. \A n : Misleading(n)' <=> Misleading(n)
    BY <1>2, <2>1 DEF Misleading
  <2> QED
    BY <2>1, <2>2 DEF NotMisled
<1>5. Found' = Found
  BY <1>3, Zenon DEF Found
<1> QED
  BY <1>1, <1>2, <1>3, <1>4, <1>5, Zenon DEF Sent

LEMMA StaysInLoop ==
  ASSUME SplitInv, SplitTypeOK', Goes,
         ASSUME NotMisled, NEW m \in 0 .. Len(packets), FoundUpTo(m)
         PROVE  \E k \in 0 .. Len(packets) : FoundUpTo(k)'
  PROVE  SplitInv'
<1>1. /\ packets' = packets /\ taken' = taken /\ cuts' = cuts /\ d' = d /\ line' = line
      /\ spc = "split" /\ spc' = "split"
  BY DEF Goes
<1>2. (NotMisled' <=> NotMisled) /\ Sent' = Sent
  BY <1>1, SameWhole
<1>3. WellFormed' /\ OneTransfer'
  BY <1>1 DEF SplitInv, WellFormed, OneTransfer
<1>4. InOrder'
  BY <1>1, <1>2 DEF SplitInv, InOrder, EndsWith
<1>5. FindsWholePackets'
  BY <1>1 DEF FindsWholePackets
<1>6. FindsInOrder'
  <2> SUFFICES ASSUME NotMisled PROVE \E k \in 0 .. Len(packets) : FoundUpTo(k)'
    BY <1>1, <1>2 DEF FindsInOrder
  <2>1. PICK m \in 0 .. Len(packets) : FoundUpTo(m)
    BY <1>1 DEF SplitInv, FindsInOrder
  <2> QED
    BY <2>1
<1> QED
  BY <1>3, <1>4, <1>5, <1>6 DEF SplitInv

\* The bytes that the loop looks at, in the packet in which it is.
LEMMA Here ==
  ASSUME SplitInv, NEW m \in 0 .. Len(packets), FoundUpTo(m), offset < Len(d)
  PROVE  /\ m + 1 \in 1 .. Len(packets) /\ m < Len(packets)
         /\ Pos \in Nat /\ Pos < taken /\ taken \in Nat
         /\ BeginOf(m + 1) \in Nat /\ EndOf(m + 1) \in Nat /\ Len(packets[m + 1]) \in Nat
         /\ BeginOf(m + 1) <= Pos /\ Pos < EndOf(m + 1)
         /\ EndOf(m + 1) = BeginOf(m + 1) + Len(packets[m + 1])
         /\ \A i \in 1 .. Len(d) - offset : d[offset + i] = Sent[Pos + i]
         /\ \A i \in 1 .. Len(packets[m + 1]) :
              Sent[BeginOf(m + 1) + i] = packets[m + 1][i]
<1>1. /\ packets \in Seq(Seq(Byte)) /\ taken \in Nat /\ offset \in Nat /\ Len(d) \in Nat
      /\ Len(line) \in Nat
  BY DEF SplitInv, SplitTypeOK
<1>2. PICK N \in Nat : N = Len(packets)
  BY <1>1, LenProperties
<1>3. /\ taken + Len(line) = Len(Sent) /\ Len(d) <= taken
      /\ \A i \in 1 .. Len(d) : d[i] = Sent[taken - Len(d) + i]
  BY DEF SplitInv, InOrder, EndsWith
<1>4. Pos \in Nat /\ Pos < taken /\ Pos = taken - Len(d) + offset
  BY <1>1, <1>3 DEF Pos
<1>5. BeginOf(m + 1) <= Pos /\ (m < N => Pos < EndOf(m + 1))
  BY <1>2 DEF FoundUpTo
<1>6. m # N
  <2>1. BeginOf(N + 1) = Len(Sent)
    BY <1>1, <1>2, Places
  <2> QED
    BY <1>1, <1>2, <1>3, <1>4, <1>5, <2>1
<1>7. m + 1 \in 1 .. N /\ m < N /\ m + 1 \in 1 .. N + 1
  BY <1>2, <1>6
<1>8. /\ BeginOf(m + 1) \in Nat /\ EndOf(m + 1) \in Nat /\ Len(packets[m + 1]) \in Nat
      /\ EndOf(m + 1) = BeginOf(m + 1) + Len(packets[m + 1])
  BY <1>1, <1>2, <1>7, Places
<1>9. ASSUME NEW i \in 1 .. Len(d) - offset PROVE d[offset + i] = Sent[Pos + i]
  <2>1. offset + i \in 1 .. Len(d) /\ taken - Len(d) + (offset + i) = Pos + i
    BY <1>1, <1>4
  <2>2. d[offset + i] = Sent[taken - Len(d) + (offset + i)]
    BY <1>3, <2>1
  <2> QED
    BY <2>1, <2>2, Zenon
<1>10. \A i \in 1 .. Len(packets[m + 1]) : Sent[BeginOf(m + 1) + i] = packets[m + 1][i]
  BY <1>1, <1>2, <1>7, ByteSent
<1> QED
  BY <1>1, <1>2, <1>4, <1>5, <1>7, <1>8, <1>9, <1>10

\* A packet begins with the bytes 255, 90 and the marker with 255, 85.
LEMMA Begins ==
  ASSUME WellFormed, packets \in Seq(Seq(Byte)), NEW n \in 1 .. Len(packets)
  PROVE  /\ Len(packets[n]) \in Nat /\ Len(packets[n]) >= 4 /\ packets[n][1] = 255
         /\ packets[n] = DetectMarker =>
              /\ Len(packets[n]) = 6 /\ packets[n][2] = 85
              /\ \A i \in 1 .. 6 : packets[n][i] = 255 => i = 1
         /\ packets[n] # DetectMarker =>
              /\ Len(packets[n]) >= HeaderLen /\ packets[n][2] = 90
              /\ packets[n][3] = Len(packets[n]) /\ packets[n][4] = n
<1>1. HeaderLen \in Nat /\ HeaderLen >= 4
  BY SplitAssumption
<1>2. Len(packets[n]) \in Nat
  BY ElementOfSeq, LenProperties
<1>3. CASE packets[n] = DetectMarker
  BY <1>2, <1>3, MarkerBytes
<1>4. CASE packets[n] # DetectMarker
  <2>1. /\ Len(packets[n]) >= HeaderLen
        /\ packets[n][1] = 255 /\ packets[n][2] = 90
        /\ packets[n][3] = Len(packets[n]) /\ packets[n][4] = n
    BY <1>4 DEF WellFormed
  <2> QED
    BY <1>1, <1>2, <1>4, <2>1
<1> QED
  BY <1>3, <1>4

\* What looks like a header is one.
LEMMA SyncIsHeader ==
  ASSUME SplitInv, NotMisled, NEW m \in 0 .. Len(packets), FoundUpTo(m),
         InLoop, HeaderFits, SyncHere
  PROVE  /\ Pos = BeginOf(m + 1) /\ packets[m + 1] # DetectMarker
         /\ LengthHere = Len(packets[m + 1]) /\ Len(packets[m + 1]) >= HeaderLen
         /\ d[offset + 4] = m + 1
<1>1. /\ packets \in Seq(Seq(Byte)) /\ offset \in Nat /\ Len(d) \in Nat
      /\ Len(line) \in Nat /\ WellFormed /\ Len(packets) \in Nat /\ m \in Nat
      /\ HeaderLen \in Nat /\ HeaderLen >= 4 /\ offset + HeaderLen <= Len(d) /\ offset < Len(d)
      /\ d[offset + 1] = 255 /\ d[offset + 2] = 90
  BY SplitAssumption DEF SplitInv, SplitTypeOK, HeaderFits, InLoop, SyncHere
<1>2. taken + Len(line) = Len(Sent) /\ Len(d) <= taken
  BY DEF SplitInv, InOrder, EndsWith
<1>3. /\ m + 1 \in 1 .. Len(packets) /\ m < Len(packets)
      /\ Pos \in Nat /\ Pos < taken /\ taken \in Nat
      /\ BeginOf(m + 1) \in Nat /\ EndOf(m + 1) \in Nat /\ Len(packets[m + 1]) \in Nat
      /\ BeginOf(m + 1) <= Pos /\ Pos < EndOf(m + 1)
      /\ EndOf(m + 1) = BeginOf(m + 1) + Len(packets[m + 1])
      /\ \A i \in 1 .. Len(d) - offset : d[offset + i] = Sent[Pos + i]
      /\ \A i \in 1 .. Len(packets[m + 1]) : Sent[BeginOf(m + 1) + i] = packets[m + 1][i]
  <2>1. offset < Len(d)
    BY <1>1
  <2> QED
    BY <2>1, Here, Zenon
<1> DEFINE p == packets[m + 1]
           b == BeginOf(m + 1)
<1>4. /\ Len(p) >= 4 /\ p[1] = 255
      /\ p = DetectMarker =>
           /\ Len(p) = 6 /\ p[2] = 85
           /\ \A i \in 1 .. 6 : p[i] = 255 => i = 1
      /\ p # DetectMarker =>
           Len(p) >= HeaderLen /\ p[2] = 90 /\ p[3] = Len(p) /\ p[4] = m + 1
  <2>1. WellFormed /\ packets \in Seq(Seq(Byte)) /\ m + 1 \in 1 .. Len(packets)
    BY <1>1, <1>3
  <2> QED
    BY <2>1, Begins
<1> DEFINE j == (Pos - b) + 1
<1>5. j \in 1 .. Len(p) /\ b + j = Pos + 1 /\ b + (j + 1) = Pos + 2 /\ j \in Nat
  BY <1>3
<1>6. \A i \in 1 .. 4 : i \in 1 .. Len(d) - offset
  BY <1>1
<1>7. Sent[Pos + 1] = 255 /\ Sent[Pos + 2] = 90
  <2>1. d[offset + 1] = Sent[Pos + 1] /\ d[offset + 2] = Sent[Pos + 2]
    BY <1>3, <1>6
  <2> QED
    BY <1>1, <2>1
<1> HIDE DEF j
<1>8. \A i \in 1 .. Len(p) : Sent[b + i] = p[i]
  BY <1>3
<1>9. p[j] = 255
  <2>1. Sent[b + j] = p[j]
    <3>1. j \in 1 .. Len(p)
      BY <1>5
    <3> QED
      BY <1>8, <3>1, Zenon
  <2>2. b + j = Pos + 1
    BY <1>5
  <2>3. Sent[b + j] = Sent[Pos + 1]
    BY <2>2, Zenon
  <2> QED
    BY <1>7, <2>1, <2>3
<1>10. j < Len(p) => p[j + 1] = 90
  <2> SUFFICES ASSUME j < Len(p) PROVE p[j + 1] = 90
    OBVIOUS
  <2>1. j + 1 \in 1 .. Len(p)
    <3>1. j \in Nat /\ Len(p) \in Nat
      BY <1>3, <1>5
    <3> QED
      BY <3>1
  <2>2. Sent[b + (j + 1)] = p[j + 1]
    BY <1>8, <2>1, Zenon
  <2>3. b + (j + 1) = Pos + 2
    BY <1>5
  <2>4. Sent[b + (j + 1)] = Sent[Pos + 2]
    BY <2>3, Zenon
  <2> QED
    BY <1>7, <2>2, <2>4
<1>11. p # DetectMarker
  <2> SUFFICES ASSUME p = DetectMarker PROVE FALSE
    OBVIOUS
  <2>1. j = 1 /\ Len(p) = 6 /\ p[2] = 85
    BY <1>4, <1>5, <1>9
  <2> QED
    BY <1>10, <2>1
<1>12. j = 1
  <2> SUFFICES ASSUME j # 1 PROVE FALSE
    OBVIOUS
  <2>1. b < Pos
    BY <1>3, <1>5
  <2>2. Straddles(m + 1)
    BY <1>11, <2>1 DEF FoundUpTo
  <2>3. CASE j < Len(p)
    <3>1. j \in 2 .. Len(packets[m + 1]) - 1
      BY <1>3, <1>5, <2>3
    <3>2. Misleading(m + 1)
      BY <1>9, <1>10, <2>2, <2>3, <3>1 DEF Misleading
    <3> QED
      BY <1>3, <3>2 DEF NotMisled
  <2>4. CASE ~(j < Len(p))
    <3>1. EndOf(m + 1) = Pos + 1 /\ Pos + 1 \in Nat
      BY <1>3, <1>5, <2>4
    <3>2. Pos + 2 <= Len(Sent)
      <4>1. Pos = taken - Len(d) + offset
        BY DEF Pos
      <4> QED
        BY <1>1, <1>2, <1>3, <4>1
    <3>3. /\ EndOf(m + 1) = BeginOf((m + 1) + 1)
          /\ BeginOf(Len(packets) + 1) = Len(Sent)
      BY <1>1, <1>3, Places
    <3>4. m + 1 # Len(packets)
      <4> SUFFICES ASSUME m + 1 = Len(packets) PROVE FALSE
        OBVIOUS
      <4>1. EndOf(m + 1) = Len(Sent)
        BY <3>3, Zenon
      <4> QED
        BY <1>3, <3>1, <3>2, <4>1
    <3>5. (m + 1) + 1 \in 1 .. Len(packets)
      BY <1>1, <1>3, <3>4
    <3>6. packets[(m + 1) + 1][1] = 255 /\ 1 \in 1 .. Len(packets[(m + 1) + 1])
      BY <1>1, <3>5, Begins
    <3>7. Sent[BeginOf((m + 1) + 1) + 1] = 255
      BY <1>1, <3>5, <3>6, ByteSent
    <3>8. BeginOf((m + 1) + 1) + 1 = Pos + 2
      BY <1>3, <3>1, <3>3
    <3> QED
      BY <1>7, <3>7, <3>8
  <2> QED
    BY <2>3, <2>4
<1>13. Pos = b
  BY <1>3, <1>5, <1>12
<1>14. d[offset + 3] = p[3] /\ d[offset + 4] = p[4]
  <2>1. 3 \in 1 .. Len(p) /\ 4 \in 1 .. Len(p)
    BY <1>3, <1>4
  <2>2. Sent[b + 3] = p[3] /\ Sent[b + 4] = p[4]
    BY <1>3, <2>1
  <2>3. d[offset + 3] = Sent[Pos + 3] /\ d[offset + 4] = Sent[Pos + 4]
    BY <1>3, <1>6
  <2> QED
    BY <1>13, <2>2, <2>3
<1> QED
  BY <1>4, <1>11, <1>13, <1>14 DEF LengthHere

\* One more packet has been looked at.
LEMMA OneMore ==
  ASSUME SplitInv, NEW m \in 0 .. Len(packets), FoundUpTo(m), m < Len(packets), Goes,
         Pos' = EndOf(m + 1), got' = got \o Whole(m + 1)
  PROVE  m + 1 \in 0 .. Len(packets) /\ FoundUpTo(m + 1)'
<1>1. PICK N \in Nat : N = Len(packets)
  BY LenProperties DEF SplitInv, SplitTypeOK
<1>2. packets \in Seq(Seq(Byte)) /\ WellFormed
  BY DEF SplitInv, SplitTypeOK
<1>3. /\ packets' = packets
      /\ \A n : BeginOf(n)' = BeginOf(n) /\ EndOf(n)' = EndOf(n)
      /\ Found' = Found
  BY SameWhole DEF Goes
<1>4. m + 1 \in 0 .. N /\ m + 1 \in 1 .. N
  BY <1>1
<1>5. BeginOf((m + 1) + 1) = EndOf(m + 1) /\ EndOf(m + 1) \in Nat
  BY <1>1, <1>2, <1>4, Places
<1>6. m + 1 < N => EndOf(m + 1) < EndOf((m + 1) + 1)
  <2> SUFFICES ASSUME m + 1 < N PROVE EndOf(m + 1) < EndOf((m + 1) + 1)
    OBVIOUS
  <2>1. (m + 1) + 1 \in 1 .. Len(packets)
    BY <1>1, <1>4
  <2>2. Len(packets[(m + 1) + 1]) \in Nat /\ Len(packets[(m + 1) + 1]) >= 4
    BY <1>2, <2>1, Begins
  <2>3. EndOf((m + 1) + 1) = BeginOf((m + 1) + 1) + Len(packets[(m + 1) + 1])
    BY <1>2, <2>1, Places
  <2> QED
    BY <1>5, <2>2, <2>3
<1>7. got' = First(Found, m + 1)
  <2>1. /\ Found \in Seq(Seq(Nat)) /\ Len(Found) = N
        /\ \A n \in 1 .. N : Found[n] = Whole(n)
    BY <1>1, FoundType
  <2>2. First(Found, m + 1) = First(Found, (m + 1) - 1) \o Found[m + 1]
    BY <1>4, <2>1, FirstNext
  <2>3. (m + 1) - 1 = m /\ Found[m + 1] = Whole(m + 1)
    BY <1>4, <2>1
  <2>4. got = First(Found, m)
    BY DEF FoundUpTo
  <2> QED
    BY <2>2, <2>3, <2>4, Zenon
<1>8. Pos' = BeginOf((m + 1) + 1) /\ ~(BeginOf((m + 1) + 1) < Pos')
      /\ BeginOf((m + 1) + 1) <= Pos'
  BY <1>5
<1>9. FoundUpTo(m + 1)'
  BY <1>1, <1>3, <1>5, <1>6, <1>7, <1>8, Zenon DEF FoundUpTo
<1> QED
  BY <1>1, <1>4, <1>9

LEMMA PosMoves ==
  ASSUME SplitInv, Goes, NEW k \in Nat, offset' = offset + k
  PROVE  Pos' = Pos + k
BY DEF SplitInv, SplitTypeOK, InOrder, Goes, Pos

LEMMA SkipInv ==
  ASSUME SplitInv, SkipByte
  PROVE  SplitInv'
<1>1. SplitTypeOK'
  BY SplitNextType DEF SplitInv, SplitNext, SplitStep
<1>2. /\ Goes /\ offset < Len(d) /\ offset' = offset + 1 /\ got' = got
      /\ offset + HeaderLen <= Len(d) /\ ~(d[offset + 1] = 255 /\ d[offset + 2] = 90)
  BY DEF SkipByte, InLoop, HeaderFits, SyncHere, Goes
<1>3. ASSUME NotMisled, NEW m \in 0 .. Len(packets), FoundUpTo(m)
      PROVE  \E k \in 0 .. Len(packets) : FoundUpTo(k)'
  <2>1. /\ m + 1 \in 1 .. Len(packets) /\ m < Len(packets)
        /\ Pos \in Nat /\ Pos < taken /\ taken \in Nat
        /\ BeginOf(m + 1) \in Nat /\ EndOf(m + 1) \in Nat /\ Len(packets[m + 1]) \in Nat
        /\ BeginOf(m + 1) <= Pos /\ Pos < EndOf(m + 1)
        /\ EndOf(m + 1) = BeginOf(m + 1) + Len(packets[m + 1])
        /\ \A i \in 1 .. Len(d) - offset : d[offset + i] = Sent[Pos + i]
        /\ \A i \in 1 .. Len(packets[m + 1]) : Sent[BeginOf(m + 1) + i] = packets[m + 1][i]
    BY <1>2, <1>3, Here, Zenon
  <2>2. /\ packets \in Seq(Seq(Byte)) /\ WellFormed /\ got \in Seq(Byte)
        /\ offset \in Nat /\ Len(d) \in Nat /\ HeaderLen \in Nat /\ HeaderLen >= 4
    BY SplitAssumption DEF SplitInv, SplitTypeOK
  <2>3. packets[m + 1] = DetectMarker \/ Straddles(m + 1)
    <3> SUFFICES ASSUME packets[m + 1] # DetectMarker, Pos = BeginOf(m + 1) PROVE FALSE
      BY <1>3, <2>1 DEF FoundUpTo
    <3>1. /\ packets[m + 1][1] = 255 /\ packets[m + 1][2] = 90
          /\ Len(packets[m + 1]) >= 4
      BY <2>1, <2>2, Begins
    <3>2. /\ 1 \in 1 .. Len(d) - offset /\ 2 \in 1 .. Len(d) - offset
          /\ 1 \in 1 .. Len(packets[m + 1]) /\ 2 \in 1 .. Len(packets[m + 1])
      <4>1. 2 <= Len(d) - offset /\ Len(d) - offset \in Nat
        BY <1>2, <2>2
      <4>2. 2 <= Len(packets[m + 1])
        BY <2>1, <3>1
      <4> QED
        BY <2>1, <4>1, <4>2
    <3>3. d[offset + 1] = Sent[Pos + 1] /\ d[offset + 2] = Sent[Pos + 2]
      BY <2>1, <3>2
    <3>4. Sent[Pos + 1] = packets[m + 1][1] /\ Sent[Pos + 2] = packets[m + 1][2]
      BY <2>1, <3>2
    <3> QED
      <4>1. d[offset + 1] = 255 /\ d[offset + 2] = 90
        BY <3>1, <3>3, <3>4, ZenonT(30)
      <4> QED
        BY <1>2, <4>1
  <2>4. Pos' = Pos + 1
    BY <1>2, PosMoves
  <2>5. CASE Pos + 1 < EndOf(m + 1)
    <3>1. /\ packets' = packets
          /\ \A n : BeginOf(n)' = BeginOf(n) /\ EndOf(n)' = EndOf(n)
          /\ \A n : Straddles(n)' <=> Straddles(n)
          /\ Found' = Found
      BY <1>2, SameWhole DEF Goes
    <3>2. BeginOf(m + 1) <= Pos' /\ Pos' < EndOf(m + 1)
      BY <2>1, <2>4, <2>5
    <3>3. got' = First(Found, m)
      BY <1>2, <1>3 DEF FoundUpTo
    <3>4. FoundUpTo(m)'
      BY <2>1, <2>3, <3>1, <3>2, <3>3 DEF FoundUpTo
    <3> QED
      BY <3>4
  <2>6. CASE ~(Pos + 1 < EndOf(m + 1))
    <3>1. Pos' = EndOf(m + 1)
      BY <2>1, <2>4, <2>6
    <3>2. Whole(m + 1) = <<>>
      BY <2>1, <2>3, NotWhole DEF IsPacket
    <3>3. got' = got \o Whole(m + 1)
      BY <1>2, <2>2, <3>2, ConcatEmptySeq
    <3> QED
      BY <1>2, <1>3, <2>1, <3>1, <3>3, OneMore
  <2> QED
    BY <2>5, <2>6
<1> QED
  BY <1>1, <1>2, <1>3, StaysInLoop

LEMMA PacketInv ==
  ASSUME SplitInv, SplitPacket
  PROVE  SplitInv'
<1>1. SplitTypeOK'
  BY SplitNextType DEF SplitInv, SplitNext, SplitStep
<1>2. /\ Goes /\ offset' = offset + LengthHere
      /\ got' = got \o Parsed(SubSeq(d, offset + 1, offset + LengthHere))
      /\ InLoop /\ HeaderFits /\ SyncHere /\ offset + LengthHere <= Len(d)
  BY DEF SplitPacket, InLoop, NextOffset, EndsInside, Goes
<1>3. ASSUME NotMisled, NEW m \in 0 .. Len(packets), FoundUpTo(m)
      PROVE  \E k \in 0 .. Len(packets) : FoundUpTo(k)'
  <2>1. /\ m + 1 \in 1 .. Len(packets) /\ m < Len(packets)
        /\ Pos \in Nat /\ Pos < taken /\ taken \in Nat
        /\ BeginOf(m + 1) \in Nat /\ EndOf(m + 1) \in Nat /\ Len(packets[m + 1]) \in Nat
        /\ EndOf(m + 1) = BeginOf(m + 1) + Len(packets[m + 1])
    <3>1. offset < Len(d)
      BY <1>2 DEF InLoop
    <3> QED
      BY <1>3, <3>1, Here, Zenon
  <2>2. /\ Pos = BeginOf(m + 1) /\ packets[m + 1] # DetectMarker
        /\ LengthHere = Len(packets[m + 1]) /\ Len(packets[m + 1]) >= HeaderLen
        /\ d[offset + 4] = m + 1
    BY <1>2, <1>3, SyncIsHeader, Zenon
  <2>3. /\ d \in Seq(Byte) /\ offset \in Nat /\ Len(d) \in Nat
        /\ HeaderLen \in Nat /\ HeaderLen >= 4 /\ Len(d) <= taken
        /\ \A c \in cuts : c \in Nat /\ (c <= taken - Len(d) \/ c = taken)
    BY SplitAssumption DEF SplitInv, SplitTypeOK, InOrder, OneTransfer
  <2>4. PICK l \in Nat : l = LengthHere
    BY <2>1, <2>2
  <2>5. Pos' = EndOf(m + 1)
    <3>1. Pos' = Pos + l
      BY <1>2, <2>4, PosMoves
    <3> QED
      BY <2>1, <2>2, <2>4, <3>1
  <2>6. Parsed(SubSeq(d, offset + 1, offset + LengthHere)) = <<m + 1>>
    <3> DEFINE piece == SubSeq(d, offset + 1, offset + l)
    <3>1. l >= 4 /\ l >= HeaderLen /\ offset + l <= Len(d)
      BY <1>2, <2>2, <2>3, <2>4
    <3>2. \A i \in offset + 1 .. offset + l : i \in 1 .. Len(d)
      BY <2>3, <3>1
    <3>3. \A i \in offset + 1 .. offset + l : d[i] \in Byte
      BY <2>3, <3>2, ElementOfSeq
    <3>4. offset + 1 \in Int /\ offset + l \in Int /\ offset + 1 <= offset + l
          /\ (offset + l) - (offset + 1) + 1 = l /\ (offset + 1) + 4 - 1 = offset + 4
          /\ 4 \in 1 .. l
      BY <2>3, <3>1
    <3>5. /\ Len(piece) = (offset + l) - (offset + 1) + 1
          /\ \A i \in 1 .. (offset + l) - (offset + 1) + 1 : piece[i] = d[(offset + 1) + i - 1]
      BY <3>3, <3>4, SubSeqProperties
    <3> HIDE DEF piece
    <3>6. Len(piece) = l
      BY <3>4, <3>5, Zenon
    <3>7. piece[4] = d[offset + 4]
      BY <3>4, <3>5, Zenon
    <3>8. ~(Len(piece) < HeaderLen)
      BY <2>3, <3>1, <3>6
    <3>9. Parsed(piece) = <<m + 1>>
      BY <2>2, <3>7, <3>8, Zenon DEF Parsed
    <3> QED
      BY <2>4, <3>9, Zenon DEF piece
  <2>7. Whole(m + 1) = <<m + 1>>
    <3>1. EndOf(m + 1) <= taken
      <4>1. Pos = taken - Len(d) + offset
        BY DEF Pos
      <4>2. PICK x \in Nat : x = Len(d)
        BY <2>3
      <4>3. EndOf(m + 1) = Pos + l /\ offset + l <= x
        BY <1>2, <2>1, <2>2, <2>4, <4>2
      <4>4. (taken - x) + offset + l <= taken
        BY <2>1, <2>3, <4>3
      <4> QED
        BY <4>1, <4>2, <4>3, <4>4, Zenon
    <3>2. ~Straddles(m + 1)
      <4> SUFFICES ASSUME NEW c \in cuts, BeginOf(m + 1) < c, c < EndOf(m + 1) PROVE FALSE
        BY DEF Straddles
      <4>1. Pos = taken - Len(d) + offset
        BY DEF Pos
      <4>2. c \in Nat /\ (c <= taken - Len(d) \/ c = taken)
        BY <2>3
      <4> QED
        BY <2>1, <2>2, <2>3, <3>1, <4>1, <4>2
    <3> QED
      BY <2>2, <3>1, <3>2, Zenon DEF Whole, IsPacket
  <2>8. got' = got \o Whole(m + 1)
    BY <1>2, <2>6, <2>7
  <2> QED
    BY <1>2, <1>3, <2>1, <2>5, <2>8, OneMore
<1> QED
  BY <1>1, <1>2, <1>3, StaysInLoop

\* When the loop is left, no packet that the transfer holds as a whole is ahead.
LEMMA NoneAhead ==
  ASSUME SplitInv, NotMisled, Break, NEW m \in 0 .. Len(packets), FoundUpTo(m),
         NEW n \in 1 .. Len(packets), n > m
  PROVE  Whole(n) = <<>>
<1>1. /\ packets \in Seq(Seq(Byte)) /\ taken \in Nat /\ offset \in Nat /\ Len(d) \in Nat
      /\ offset <= Len(d) /\ Len(packets) \in Nat /\ WellFormed
      /\ HeaderLen \in Nat /\ HeaderLen >= 4 /\ Len(d) <= taken
  BY SplitAssumption DEF SplitInv, SplitTypeOK, InOrder
<1>2. /\ m + 1 \in 1 .. Len(packets) /\ m < Len(packets) /\ m \in Nat /\ n \in Nat /\ m + 1 <= n
  BY <1>1
<1>3. /\ BeginOf(m + 1) \in Nat /\ EndOf(m + 1) \in Nat /\ Len(packets[m + 1]) \in Nat
      /\ EndOf(m + 1) = BeginOf(m + 1) + Len(packets[m + 1])
      /\ EndOf(m + 1) = BeginOf((m + 1) + 1)
  <2>1. packets \in Seq(Seq(Byte)) /\ m + 1 \in 1 .. Len(packets)
    BY <1>1, <1>2
  <2>2. m + 1 \in 1 .. Len(packets) + 1
    BY <1>1, <2>1
  <2> QED
    BY <2>1, <2>2, Places, Zenon
<1>4. /\ BeginOf(n) \in Nat /\ EndOf(n) \in Nat /\ Len(packets[n]) \in Nat
      /\ EndOf(n) = BeginOf(n) + Len(packets[n])
  BY <1>1, Places
<1>5. n # m + 1 => EndOf(m + 1) <= BeginOf(n)
  <2> SUFFICES ASSUME n # m + 1 PROVE EndOf(m + 1) <= BeginOf(n)
    OBVIOUS
  <2>1. /\ (m + 1) + 1 \in 1 .. Len(packets) + 1 /\ n \in 1 .. Len(packets) + 1
        /\ (m + 1) + 1 <= n
    BY <1>1, <1>2
  <2>2. BeginOf((m + 1) + 1) <= BeginOf(n)
    BY <1>1, <2>1, Places
  <2> QED
    BY <1>3, <2>2
<1>6. /\ BeginOf(m + 1) <= Pos /\ Pos < EndOf(m + 1)
      /\ BeginOf(m + 1) < Pos => packets[m + 1] = DetectMarker \/ Straddles(m + 1)
  BY <1>2 DEF FoundUpTo
<1>7. Pos = taken - Len(d) + offset /\ Pos \in Nat /\ Pos <= taken
  BY <1>1 DEF Pos
\* Nothing ends ahead of the loop when packet m + 1 does not.
<1>8. ASSUME taken < EndOf(m + 1) PROVE Whole(n) = <<>>
  <2>1. taken < EndOf(n)
    <3>1. CASE n = m + 1
      BY <1>8, <3>1
    <3>2. CASE n # m + 1
      <4>1. EndOf(m + 1) <= EndOf(n)
        BY <1>3, <1>4, <1>5, <3>2
      <4> QED
        BY <1>1, <1>3, <1>4, <1>8, <4>1
    <3> QED
      BY <3>1, <3>2
  <2> QED
    BY <1>1, <1>4, <2>1, NotWhole
<1>9. CASE ~InLoop
  <2>1. ~(offset < Len(d))
    BY <1>9 DEF InLoop, Break
  <2>2. Pos = taken
    <3>1. PICK x \in Nat : x = Len(d)
      BY <1>1
    <3>2. offset = x
      BY <1>1, <2>1, <3>1
    <3>3. (taken - x) + x = taken
      BY <1>1
    <3> QED
      BY <1>7, <3>1, <3>2, <3>3, Zenon
  <2> QED
    BY <1>6, <1>8, <2>2
<1>10. CASE InLoop /\ ~HeaderFits
  <2>1. taken < Pos + HeaderLen
    <3>1. ~(offset + HeaderLen <= Len(d))
      BY <1>10 DEF HeaderFits
    <3> QED
      BY <1>1, <1>7, <3>1
  <2>2. CASE packets[n] = DetectMarker
    BY <1>1, <1>4, <2>2, NotWhole DEF IsPacket
  <2>3. CASE packets[n] # DetectMarker
    <3>1. Len(packets[n]) >= HeaderLen
      BY <1>1, <2>3, Begins
    <3>2. CASE Pos <= BeginOf(n)
      <4>1. taken < EndOf(n)
        <5>1. PICK l \in Nat : l = Len(packets[n])
          BY <1>4
        <5>2. EndOf(n) = BeginOf(n) + l /\ l >= HeaderLen
          BY <1>4, <3>1, <5>1
        <5>3. HeaderLen \in Nat /\ taken \in Nat /\ BeginOf(n) \in Nat
          BY <1>1, <1>4
        <5> QED
          BY <1>7, <2>1, <3>2, <5>2, <5>3
      <4> QED
        BY <1>1, <1>4, <4>1, NotWhole
    <3>3. CASE ~(Pos <= BeginOf(n))
      <4>1. n = m + 1
        BY <1>3, <1>4, <1>5, <1>6, <1>7, <3>3
      <4>2. BeginOf(m + 1) < Pos
        BY <1>3, <1>7, <3>3, <4>1
      <4>3. Straddles(n)
        BY <1>6, <2>3, <4>1, <4>2
      <4> QED
        BY <1>1, <1>4, <4>3, NotWhole
    <3> QED
      BY <3>2, <3>3
  <2> QED
    BY <2>2, <2>3
<1>11. CASE InLoop /\ HeaderFits
  <2>1. SyncHere /\ ~(offset + LengthHere <= Len(d))
    BY <1>11 DEF Break, EndsInside
  <2>2. Pos = BeginOf(m + 1) /\ LengthHere = Len(packets[m + 1])
    BY <1>11, <2>1, SyncIsHeader, Zenon
  <2>3. taken < EndOf(m + 1)
    <3>1. PICK l \in Nat : l = LengthHere
      BY <1>3, <2>2
    <3>2. EndOf(m + 1) = Pos + l /\ ~(offset + l <= Len(d))
      BY <1>3, <2>1, <2>2, <3>1
    <3> QED
      BY <1>1, <1>7, <3>2
  <2> QED
    BY <1>8, <2>3
<1> QED
  BY <1>9, <1>10, <1>11

LEMMA BreakInv ==
  ASSUME SplitInv, Break
  PROVE  SplitInv'
<1>1. SplitTypeOK'
  BY SplitNextType DEF SplitInv, SplitNext, SplitStep
<1>2. /\ packets' = packets /\ taken' = taken /\ cuts' = cuts /\ d' = d /\ line' = line
      /\ got' = got /\ spc = "split" /\ spc' = "read"
  BY DEF Break
<1>3. (NotMisled' <=> NotMisled) /\ Sent' = Sent /\ Found' = Found
  BY <1>2, SameWhole
<1>4. WellFormed' /\ OneTransfer'
  BY <1>2 DEF SplitInv, WellFormed, OneTransfer
<1>5. InOrder'
  BY <1>2, <1>3 DEF SplitInv, InOrder, EndsWith
<1>6. FindsInOrder'
  BY <1>2 DEF FindsInOrder
<1>7. FindsWholePackets'
  <2> SUFFICES ASSUME NotMisled PROVE got = FlattenSeq(Found)
    BY <1>2, <1>3, Zenon DEF FindsWholePackets, Found
  <2>1. PICK m \in 0 .. Len(packets) : FoundUpTo(m)
    BY <1>2 DEF SplitInv, FindsInOrder
  <2>2. \A n \in 1 .. Len(packets) : n > m => Whole(n) = <<>>
    BY <2>1, NoneAhead
  <2>3. Len(packets) \in Nat
    BY LenProperties DEF SplitInv, SplitTypeOK
  <2>4. FlattenSeq(Found) = First(Found, m)
    BY <2>2, <2>3, FoundInFirst
  <2> QED
    BY <2>1, <2>4, Zenon DEF FoundUpTo
<1> QED
  BY <1>1, <1>4, <1>5, <1>6, <1>7 DEF SplitInv

LEMMA SplitNextInv ==
  ASSUME SplitInv, SplitNext
  PROVE  SplitInv'
BY SendInv, ReadInv, BreakInv, PacketInv, SkipInv DEF SplitNext, SplitStep

LEMMA SplitStands ==
  ASSUME SplitInv, UNCHANGED splitVars
  PROVE  SplitInv'
<1>1. /\ packets' = packets /\ taken' = taken /\ cuts' = cuts /\ d' = d /\ line' = line
      /\ got' = got /\ spc' = spc /\ offset' = offset
  BY DEF splitVars
<1>2. /\ (NotMisled' <=> NotMisled) /\ Sent' = Sent /\ Found' = Found
      /\ \A n : BeginOf(n)' = BeginOf(n) /\ EndOf(n)' = EndOf(n)
      /\ \A n : Straddles(n)' <=> Straddles(n)
  BY <1>1, SameWhole
<1>3. SplitTypeOK' /\ WellFormed' /\ OneTransfer'
  BY <1>1 DEF SplitInv, SplitTypeOK, WellFormed, OneTransfer
<1>4. InOrder'
  BY <1>1, <1>2 DEF SplitInv, InOrder, EndsWith
<1>5. Pos' = Pos
  BY <1>1 DEF Pos
<1>6. FindsInOrder'
  <2>1. \A m \in 0 .. Len(packets) : FoundUpTo(m) => FoundUpTo(m)'
    BY <1>1, <1>2, <1>5 DEF FoundUpTo
  <2> QED
    BY <1>1, <1>2, <2>1 DEF SplitInv, FindsInOrder
<1>7. FindsWholePackets'
  <2> SUFFICES ASSUME spc = "read", NotMisled PROVE got = FlattenSeq(Found)
    BY <1>1, <1>2, Zenon DEF FindsWholePackets, Found
  <2> QED
    BY Zenon DEF SplitInv, FindsWholePackets, Found
<1> QED
  BY <1>3, <1>4, <1>6, <1>7 DEF SplitInv
=============================================================================
