------------------------- MODULE CameraStreamProofs -------------------------
(***************************************************************************)
(* Theorems about CameraStream, for every sizes of reads, packets and      *)
(* pictures and whatever the packets contain.                              *)
(***************************************************************************)
EXTENDS CameraStream, SequenceFacts, FiniteSetTheorems

LEMMA ByteIs == \A n : n \in Byte <=> n \in Nat /\ n < 256
BY DEF Byte

-----------------------------------------------------------------------------
(* Packets.                                                                *)

\* What the parser sees of a packet: the sync word, and its length.
WellFormed(p) ==
  /\ p \in Seq(Byte) /\ 5 <= Len(p) /\ Len(p) <= MaxTotal
  /\ p[1] = 187 /\ p[2] = 170 /\ Total(p) = Len(p)

LEMMA PacketIs ==
  ASSUME NEW cid \in Byte, NEW payload \in Seq(Byte), 5 + Len(payload) <= MaxTotal
  PROVE  /\ WellFormed(Packet(cid, payload))
         /\ Packet(cid, payload)[3] = cid /\ PayloadLen(Packet(cid, payload)) = Len(payload)
         /\ \E h \in Seq(Byte) : Len(h) = 5 /\ Packet(cid, payload) = h \o payload
<1> DEFINE n == Len(payload)
           head == <<187, 170, cid, n % 256, n \div 256>>
<1>1. n \in Nat /\ n < 256 * 256
  BY LenProperties, CameraAssumption
<1>2. n % 256 \in Nat /\ n % 256 < 256 /\ n \div 256 \in Nat /\ n \div 256 < 256
      /\ n = (n % 256) + 256 * (n \div 256)
  <2> HIDE DEF n
  <2> QED
    BY <1>1
<1>3. n % 256 \in Byte /\ n \div 256 \in Byte /\ 187 \in Byte /\ 170 \in Byte
  BY <1>2, ByteIs
<1>4. head \in Seq(Byte)
  <2> HIDE DEF n
  <2> QED
    BY <1>3
<1>5. /\ 5 <= Len(head) /\ Len(head) <= 5 /\ head[1] = 187 /\ head[2] = 170
      /\ head[3] = cid /\ head[4] = n % 256 /\ head[5] = n \div 256
  OBVIOUS
<1> HIDE DEF head
<1>6. /\ head \o payload \in Seq(Byte) /\ Len(head \o payload) = Len(head) + n
      /\ \A i \in 1 .. Len(head) + n :
           (head \o payload)[i] = IF i <= Len(head) THEN head[i] ELSE payload[i - Len(head)]
  BY <1>4, ConcatProperties
<1> DEFINE p == Packet(cid, payload)
<1>7. p = head \o payload
  BY DEF Packet, head
<1> HIDE DEF p, n
<1>8. \A i \in 1 .. 5 : p[i] = head[i]
  <2>1. \A i \in 1 .. 5 : i \in 1 .. Len(head) + n /\ i <= Len(head)
    BY <1>1, <1>4, <1>5
  <2> QED
    BY <1>6, <1>7, <2>1
<1>9. p \in Seq(Byte) /\ Len(p) = Len(head) + n /\ Len(head) \in Nat
  BY <1>4, <1>6, <1>7
<1>10. Len(p) = 5 + n
  BY <1>1, <1>5, <1>9
<1>11. p[1] = 187 /\ p[2] = 170 /\ p[3] = cid /\ p[4] = n % 256 /\ p[5] = n \div 256
  BY <1>5, <1>8
<1>12. Total(p) = 5 + n /\ PayloadLen(p) = n
  BY <1>1, <1>2, <1>11 DEF Total, PayloadLen
<1>13. 5 + n <= MaxTotal
  BY DEF n
<1>14. WellFormed(p)
  BY <1>1, <1>9, <1>10, <1>11, <1>12, <1>13 DEF WellFormed
<1>15. Len(head) = 5
  <2>1. PICK l : l = Len(head)
    OBVIOUS
  <2>2. l \in Nat /\ 5 <= l /\ l <= 5
    BY <1>5, <1>9, <2>1, Zenon
  <2> QED
    BY <2>1, <2>2
<1>16. p[3] = cid /\ PayloadLen(p) = n
  BY <1>11, <1>12
<1>17. \E h \in Seq(Byte) : Len(h) = 5 /\ p = h \o payload
  BY <1>4, <1>7, <1>15
<1> QED
  BY <1>14, <1>16, <1>17 DEF p, n

\* What the parser looks at is the buffer from its first sync word on.
LEMMA TrimmedIs ==
  ASSUME NEW b \in Seq(Byte), SyncAt(b) # {}
  PROVE  /\ Trimmed(b) \in Seq(Byte) /\ Len(Trimmed(b)) \in Nat
         /\ 2 <= Len(Trimmed(b)) /\ Len(Trimmed(b)) <= Len(b)
         /\ 1 \in SyncAt(b) => Trimmed(b) = b
<1> DEFINE m == Min(SyncAt(b))
<1>1. Len(b) \in Nat
  BY LenProperties
<1>2. SyncAt(b) \subseteq Nat /\ \A i \in SyncAt(b) : 1 <= i /\ i <= Len(b) - 1
  BY <1>1 DEF SyncAt
<1>3. m \in SyncAt(b) /\ \A i \in SyncAt(b) : m <= i
  BY <1>2, MinOf
<1>4. m \in Nat /\ 1 <= m /\ m <= Len(b) - 1
  BY <1>2, <1>3
<1> HIDE DEF m
<1>5. \A i \in m .. Len(b) : b[i] \in Byte
  BY <1>1, <1>4
<1>6. /\ SubSeq(b, m, Len(b)) \in Seq(Byte)
      /\ Len(SubSeq(b, m, Len(b))) = Len(b) - m + 1
  BY <1>1, <1>4, <1>5, SubSeqProperties
<1>7. 1 \in SyncAt(b) => m = 1
  BY <1>3, <1>4
<1>8. Trimmed(b) = SubSeq(b, m, Len(b))
  BY DEF Trimmed, m
<1>9. 1 \in SyncAt(b) => Trimmed(b) = b
  BY <1>7, <1>8, SubSeqFull
<1> QED
  BY <1>1, <1>4, <1>6, <1>8, <1>9

\* The zeros cut off at the end leave a picture its start marker.
LEMMA StripIs ==
  ASSUME NEW b \in Seq(Byte)
  PROVE  /\ Strip(b) \in Seq(Byte) /\ Len(Strip(b)) <= Len(b)
         /\ IsHead(b) => IsHead(Strip(b))
<1> DEFINE E == {e \in 0 .. Len(b) : e <= 2 \/ b[e] # 0}
           m == Max(E)
<1>1. Len(b) \in Nat
  BY LenProperties
<1>2. E \subseteq 0 .. Len(b) /\ 0 \in E
  BY <1>1
<1>3. m \in E /\ \A e \in E : m >= e
  <2> HIDE DEF E
  <2> QED
    BY <1>1, <1>2, MaxOf
<1>4. m \in Nat /\ m <= Len(b)
  BY <1>1, <1>3
<1>5. 2 <= Len(b) => 2 \in E
  BY <1>1
<1>6. 2 <= Len(b) => 2 <= m
  BY <1>3, <1>5
<1> HIDE DEF E, m
<1>7. \A i \in 1 .. m : b[i] \in Byte
  BY <1>1, <1>4
<1>8. /\ SubSeq(b, 1, m) \in Seq(Byte)
      /\ Len(SubSeq(b, 1, m)) = IF 1 <= m THEN m - 1 + 1 ELSE 0
      /\ \A i \in 1 .. m - 1 + 1 : SubSeq(b, 1, m)[i] = b[1 + i - 1]
  BY <1>4, <1>7, SubSeqProperties
<1>9. Strip(b) = SubSeq(b, 1, m)
  BY DEF Strip, m, E
<1>10. ASSUME IsHead(b) PROVE IsHead(SubSeq(b, 1, m))
  <2>1. 2 <= m /\ b[1] = 255 /\ b[2] = 216
    BY <1>6, <1>10 DEF IsHead
  <2> DEFINE c == SubSeq(b, 1, m)
  <2>2. c[1] = b[1 + 1 - 1] /\ c[2] = b[1 + 2 - 1] /\ Len(c) = m
    BY <1>4, <1>8, <2>1
  <2>3. 1 + 1 - 1 = 1 /\ 1 + 2 - 1 = 2
    OBVIOUS
  <2> HIDE DEF c
  <2>4. IsHead(c)
    BY <1>4, <2>1, <2>2, <2>3 DEF IsHead
  <2> QED
    BY <2>4 DEF c
<1>11. Len(SubSeq(b, 1, m)) <= Len(b)
  BY <1>1, <1>4, <1>8
<1> QED
  BY <1>8, <1>9, <1>10, <1>11

-----------------------------------------------------------------------------
(* The inductive invariant.                                                *)

Control ==
  /\ pc \in {"info", "read_info", "open", "read_ack", "read", "parse"}
  /\ streaming \in BOOLEAN /\ clean \in BOOLEAN
  /\ sent \in 0 .. MaxPackets /\ losses \in 0 .. MaxLosses
  /\ pics \in Seq(Seq(Byte)) /\ Len(pics) <= sent

\* Before the loop nothing is kept, and the parser stops with less than a
\* packet.
Buffers ==
  /\ rx_buf \in Seq(Byte) /\ fifo \in Seq(Byte)
  /\ pc \in {"info", "read_info", "open", "read_ack"} => rx_buf = <<>>
  /\ pc # "parse" => Len(rx_buf) < MaxTotal

\* The first flush is at a start marker, and from then on a picture in hand
\* begins with one.
Store ==
  /\ jpeg_buf \in Seq(Byte) /\ frames \in Seq(Seq(Byte))
  /\ count = Len(frames)
  /\ latest = IF count = 0 THEN <<>> ELSE Last(frames)
  /\ frames # <<>> => IsHead(jpeg_buf)
  /\ OnlyFirstHeadless

Stream ==
  /\ ahead \in Seq(Seq(Byte))
  /\ \A i \in 1 .. Len(ahead) : WellFormed(ahead[i])
  /\ CutsDoNotMatter

Inv == Control /\ Buffers /\ Store /\ Stream /\ NothingHeldBack

LEMMA InvTypes == Inv => TypeOK /\ BufferBounded
BY DEF Inv, Control, Buffers, Store, TypeOK, BufferBounded

LEMMA InitInv == Init => Inv
<1> SUFFICES ASSUME Init PROVE Inv
  OBVIOUS
<1>1. MaxPackets \in Nat /\ MaxLosses \in Nat /\ 0 < MaxTotal
  BY CameraAssumption, ByteIs
<1>2. Control
  <2>1. 0 \in 0 .. MaxPackets /\ 0 \in 0 .. MaxLosses
    BY <1>1
  <2>2. <<>> \in Seq(Seq(Byte)) /\ Len(<<>>) <= 0
    OBVIOUS
  <2> QED
    BY <2>1, <2>2 DEF Init, Control
<1>3. Buffers
  BY <1>1 DEF Init, Buffers
<1>4. Store
  <2>1. /\ <<>> \in Seq(Byte) /\ <<>> \in Seq(Seq(Byte)) /\ Len(<<>>) = 0
        /\ 2 .. Len(<<>>) = {}
    OBVIOUS
  <2> QED
    BY <2>1 DEF Init, Store, OnlyFirstHeadless
<1>5. Stream
  <2>1. <<>> \in Seq(Seq(Byte)) /\ 1 .. Len(<<>>) = {} /\ <<>> \o <<>> = <<>>
    OBVIOUS
  <2> QED
    BY <2>1, FlattenEmpty DEF Init, Stream, CutsDoNotMatter
<1> QED
  BY <1>2, <1>3, <1>4, <1>5 DEF Init, Inv, NothingHeldBack

-----------------------------------------------------------------------------
(* What happens to the stream.                                             *)

\* A packet is sent.
LEMMA Longer ==
  ASSUME Stream, rx_buf \in Seq(Byte), fifo \in Seq(Byte), NEW p, WellFormed(p),
         fifo' = fifo \o p,
         ahead' = IF clean THEN Append(ahead, p) ELSE <<>>,
         UNCHANGED <<rx_buf, clean>>
  PROVE  /\ Stream' /\ fifo' \in Seq(Byte)
         /\ clean /\ ahead # <<>> => ahead' # <<>> /\ Head(ahead') = Head(ahead)
<1>1. p \in Seq(Byte) /\ ahead \in Seq(Seq(Byte))
  BY DEF Stream, WellFormed
<1>2. fifo' \in Seq(Byte)
  BY <1>1, ConcatProperties
<1>3. CASE ~clean
  BY <1>2, <1>3 DEF Stream, CutsDoNotMatter
<1>4. CASE clean
  <2>1. /\ ahead' \in Seq(Seq(Byte)) /\ ahead' # <<>> /\ Len(ahead') = Len(ahead) + 1
        /\ \A i \in 1 .. Len(ahead) : ahead'[i] = ahead[i]
        /\ ahead'[Len(ahead) + 1] = p /\ Len(ahead) \in Nat
    BY <1>1, <1>4, AppendProperties, LenProperties
  <2>2. \A i \in 1 .. Len(ahead') : WellFormed(ahead'[i])
    <3> SUFFICES ASSUME NEW i \in 1 .. Len(ahead') PROVE WellFormed(ahead'[i])
      OBVIOUS
    <3>1. CASE i \in 1 .. Len(ahead)
      BY <2>1, <3>1 DEF Stream
    <3>2. CASE i = Len(ahead) + 1
      BY <2>1, <3>2
    <3> QED
      BY <2>1, <3>1, <3>2
  <2>3. rx_buf' \o fifo' = FlattenSeq(ahead')
    <3>1. rx_buf \o (fifo \o p) = (rx_buf \o fifo) \o p
      BY <1>1, ConcatAssociative, SMTT(20)
    <3>2. FlattenSeq(Append(ahead, p)) = FlattenSeq(ahead) \o p
      BY <1>1, FlattenAppend
    <3>3. rx_buf \o fifo = FlattenSeq(ahead)
      BY <1>4 DEF Stream, CutsDoNotMatter
    <3> QED
      BY <1>4, <3>1, <3>2, <3>3
  <2>4. ahead # <<>> => Head(ahead') = Head(ahead)
    BY <1>1, <1>4, HeadTailAppend
  <2> QED
    BY <1>2, <1>4, <2>1, <2>2, <2>3, <2>4 DEF Stream, CutsDoNotMatter
<1> QED
  BY <1>3, <1>4 DEF Stream

\* Bytes are lost on the way.
LEMMA Shorter ==
  ASSUME Stream, rx_buf \in Seq(Byte), fifo \in Seq(Byte), clean \in BOOLEAN,
         NEW k \in Nat, k <= Len(fifo), Discard(k), UNCHANGED rx_buf
  PROVE  /\ Stream' /\ fifo' \in Seq(Byte) /\ clean' \in BOOLEAN
         /\ clean' => rx_buf = <<>>
<1> DEFINE W == {m \in 0 .. Len(ahead) :
                  /\ Len(FlattenSeq(SubSeq(ahead, 1, m))) = k
                  /\ \A i \in 1 .. m : ~IsVideo(ahead[i])}
           ok == clean /\ rx_buf = <<>> /\ W # {}
<1>1. /\ fifo' = SubSeq(fifo, k + 1, Len(fifo))
      /\ clean' = ok
      /\ ahead' = IF ok THEN SubSeq(ahead, Max(W) + 1, Len(ahead)) ELSE <<>>
  BY DEF Discard
<1>2. ahead \in Seq(Seq(Byte)) /\ Len(ahead) \in Nat
  BY LenProperties DEF Stream
<1>3. k \in 0 .. Len(fifo)
  BY LenProperties
<1>4. fifo' \in Seq(Byte)
  BY <1>1, <1>3, Split
<1>5. CASE ~ok
  <2>1. <<>> \in Seq(Seq(Byte)) /\ 1 .. Len(<<>>) = {}
    OBVIOUS
  <2>2. clean' = FALSE /\ ahead' = <<>>
    BY <1>1, <1>5
  <2> HIDE DEF ok
  <2> QED
    BY <1>4, <2>1, <2>2 DEF Stream, CutsDoNotMatter
<1>6. CASE ok
  <2> DEFINE m == Max(W)
  <2>1. m \in W
    <3>1. W \subseteq 0 .. Len(ahead) /\ W # {}
      BY <1>6
    <3> HIDE DEF W
    <3> QED
      BY <1>2, <3>1, MaxOf
  <2>2. m \in 0 .. Len(ahead) /\ Len(FlattenSeq(SubSeq(ahead, 1, m))) = k
    BY <2>1
  <2> DEFINE a == SubSeq(ahead, 1, m)
             z == SubSeq(ahead, m + 1, Len(ahead))
  <2>3. rx_buf = <<>> /\ rx_buf \o fifo = FlattenSeq(ahead) /\ clean' = TRUE /\ ahead' = z
    BY <1>1, <1>6 DEF Stream, CutsDoNotMatter
  <2> HIDE DEF m, W, ok
  <2>4. a \in Seq(Seq(Byte)) /\ z \in Seq(Seq(Byte)) /\ ahead = a \o z
        /\ Len(z) = Len(ahead) - m
    BY <1>2, <2>2, Split
  <2>5. \A i \in 1 .. Len(z) : WellFormed(z[i])
    <3> SUFFICES ASSUME NEW i \in 1 .. Len(z) PROVE WellFormed(z[i])
      OBVIOUS
    <3>1. m \in Nat /\ m + i \in 1 .. Len(ahead) /\ m + i \in m + 1 .. Len(ahead)
      BY <1>2, <2>2, <2>4
    <3>2. \A j \in m + 1 .. Len(ahead) : ahead[j] \in Seq(Byte)
      BY <1>2, <2>2
    <3>3. i \in 1 .. Len(ahead) - (m + 1) + 1
      BY <1>2, <2>2, <2>4
    <3>4. z[i] = ahead[m + 1 + i - 1]
      BY <1>2, <3>1, <3>2, <3>3, SubSeqProperties
    <3>5. m + 1 + i - 1 = m + i
      BY <3>1
    <3> QED
      BY <3>1, <3>4, <3>5 DEF Stream
  <2> HIDE DEF a, z
  <2>6. fifo = FlattenSeq(a) \o FlattenSeq(z)
    <3>1. <<>> \o fifo = fifo
      BY ConcatEmptySeq
    <3>2. FlattenSeq(ahead) = FlattenSeq(a) \o FlattenSeq(z)
      BY <2>4, FlattenConcat
    <3> QED
      BY <2>3, <3>1, <3>2
  <2>7. FlattenSeq(a) \in Seq(Byte) /\ FlattenSeq(z) \in Seq(Byte)
    BY <2>4, FlattenType
  <2>8. Len(FlattenSeq(a)) = k
    BY <2>2 DEF a
  <2>9. fifo' = FlattenSeq(z)
    BY <1>1, <2>6, <2>7, <2>8, DropFirst
  <2>10. rx_buf' \o fifo' = FlattenSeq(ahead')
    BY <2>3, <2>7, <2>9, ConcatEmptySeq
  <2> QED
    BY <1>4, <2>3, <2>4, <2>5, <2>10 DEF Stream, CutsDoNotMatter
<1> QED
  BY <1>5, <1>6

\* What the parser has in hand is the beginning of the next packet.
LEMMA NextPacket ==
  ASSUME Stream, clean, rx_buf \in Seq(Byte), fifo \in Seq(Byte), rx_buf # <<>>
  PROVE  /\ ahead # <<>> /\ WellFormed(Head(ahead))
         /\ Tail(ahead) \in Seq(Seq(Byte))
         /\ \A i \in 1 .. Len(Tail(ahead)) : WellFormed(Tail(ahead)[i])
         /\ FlattenSeq(Tail(ahead)) \in Seq(Byte)
         /\ rx_buf \o fifo = Head(ahead) \o FlattenSeq(Tail(ahead))
<1>1. ahead \in Seq(Seq(Byte)) /\ rx_buf \o fifo = FlattenSeq(ahead)
  BY DEF Stream, CutsDoNotMatter
<1>2. ahead # <<>>
  <2>1. rx_buf \o fifo # <<>>
    BY ConcatEqualIffEmpty
  <2> QED
    BY <1>1, <2>1, FlattenEmpty
<1>3. /\ Tail(ahead) \in Seq(Seq(Byte)) /\ Len(Tail(ahead)) = Len(ahead) - 1
      /\ \A i \in 1 .. Len(Tail(ahead)) : Tail(ahead)[i] = ahead[i + 1]
  BY <1>1, <1>2, HeadTailProperties
<1>4. Len(ahead) \in Nat /\ Len(ahead) >= 1 /\ Head(ahead) = ahead[1]
  BY <1>1, <1>2, EmptySeq, LenProperties
<1>5. WellFormed(Head(ahead))
  BY <1>4 DEF Stream
<1>6. \A i \in 1 .. Len(Tail(ahead)) : WellFormed(Tail(ahead)[i])
  <2>1. \A i \in 1 .. Len(Tail(ahead)) : i + 1 \in 1 .. Len(ahead)
    BY <1>3, <1>4
  <2> QED
    BY <1>3, <2>1 DEF Stream
<1>7. FlattenSeq(Tail(ahead)) \in Seq(Byte)
  BY <1>3, FlattenType
<1>8. FlattenSeq(ahead) = Head(ahead) \o FlattenSeq(Tail(ahead))
  BY <1>1, <1>2, FlattenHead
<1> QED
  BY <1>1, <1>2, <1>3, <1>5, <1>6, <1>7, <1>8

-----------------------------------------------------------------------------
(* The actions.                                                            *)

\* A parser that has a header has the device's next packet at its front, and
\* sees its length.
LEMMA Recognised ==
  ASSUME Stream, clean, rx_buf \in Seq(Byte), fifo \in Seq(Byte), 5 <= Len(rx_buf)
  PROVE  /\ ahead # <<>> /\ WellFormed(Head(ahead))
         /\ SyncAt(rx_buf) # {} /\ Trimmed(rx_buf) = rx_buf
         /\ Total(rx_buf) = Len(Head(ahead))
         /\ Len(Head(ahead)) <= Len(rx_buf) =>
              /\ SubSeq(rx_buf, 1, Len(Head(ahead))) = Head(ahead)
              /\ AfterPacket(rx_buf) \o fifo = FlattenSeq(Tail(ahead))
<1>1. rx_buf # <<>>
  OBVIOUS
<1>2. /\ ahead # <<>> /\ WellFormed(Head(ahead))
      /\ FlattenSeq(Tail(ahead)) \in Seq(Byte)
      /\ rx_buf \o fifo = Head(ahead) \o FlattenSeq(Tail(ahead))
  BY <1>1, NextPacket
<1>3. PICK h, more : /\ h = Head(ahead) /\ more = FlattenSeq(Tail(ahead))
  OBVIOUS
<1>4. WellFormed(h) /\ more \in Seq(Byte) /\ rx_buf \o fifo = h \o more
  BY <1>2, <1>3, Zenon
<1>5. /\ SyncAt(rx_buf) # {} /\ Trimmed(rx_buf) = rx_buf /\ Total(rx_buf) = Len(h)
      /\ Len(h) <= Len(rx_buf) =>
           /\ SubSeq(rx_buf, 1, Len(h)) = h
           /\ AfterPacket(rx_buf) \o fifo = more
  <2>1. /\ h \in Seq(Byte) /\ Len(h) \in Nat /\ 5 <= Len(h) /\ Len(rx_buf) \in Nat
        /\ h[1] = 187 /\ h[2] = 170 /\ Total(h) = Len(h)
    BY <1>4, LenProperties DEF WellFormed
  <2>2. /\ Len(rx_buf \o fifo) = Len(rx_buf) + Len(fifo)
        /\ \A i \in 1 .. Len(rx_buf) + Len(fifo) :
             (rx_buf \o fifo)[i] = IF i <= Len(rx_buf) THEN rx_buf[i] ELSE fifo[i - Len(rx_buf)]
    BY ConcatProperties
  <2>3. /\ Len(h \o more) = Len(h) + Len(more)
        /\ \A i \in 1 .. Len(h) + Len(more) :
             (h \o more)[i] = IF i <= Len(h) THEN h[i] ELSE more[i - Len(h)]
    BY <1>4, <2>1, ConcatProperties
  <2>4. Len(rx_buf) + Len(fifo) = Len(h) + Len(more) /\ Len(fifo) \in Nat /\ Len(more) \in Nat
    BY <1>4, <2>2, <2>3, LenProperties
  <2>5. ASSUME NEW i \in Nat, 1 <= i, i <= Len(rx_buf), i <= Len(h) PROVE rx_buf[i] = h[i]
    BY <1>4, <2>1, <2>2, <2>3, <2>4, <2>5
  <2>6. rx_buf[1] = 187 /\ rx_buf[2] = 170 /\ rx_buf[4] = h[4] /\ rx_buf[5] = h[5]
    BY <2>1, <2>5
  <2>7. 1 \in SyncAt(rx_buf)
    BY <2>1, <2>6 DEF SyncAt
  <2>8. Trimmed(rx_buf) = rx_buf
    BY <2>7, TrimmedIs
  <2>9. Total(rx_buf) = Len(h)
    BY <2>1, <2>6 DEF Total, PayloadLen
  <2>10. ASSUME Len(h) <= Len(rx_buf)
         PROVE  /\ SubSeq(rx_buf, 1, Len(h)) = h
                /\ AfterPacket(rx_buf) \in Seq(Byte)
                /\ AfterPacket(rx_buf) \o fifo = more
    <3> DEFINE a == SubSeq(rx_buf, 1, Len(h))
               z == SubSeq(rx_buf, Len(h) + 1, Len(rx_buf))
    <3>1. Len(h) \in 0 .. Len(rx_buf)
      BY <2>1, <2>10
    <3>2. a \in Seq(Byte) /\ Len(a) = Len(h) /\ z \in Seq(Byte) /\ rx_buf = a \o z
      BY <3>1, Split
    <3> HIDE DEF a, z
    <3>3. (a \o z) \o fifo = a \o (z \o fifo) /\ z \o fifo \in Seq(Byte)
      <4>1. (a \o z) \o fifo = a \o (z \o fifo)
        BY <3>2, ConcatAssociative
      <4>2. z \o fifo \in Seq(Byte)
        BY <3>2, ConcatProperties
      <4> QED
        BY <4>1, <4>2, Zenon
    <3>4. a \o (z \o fifo) = h \o more
      BY <1>4, <3>2, <3>3
    <3>5. a = h
      <4>1. SubSeq(a \o (z \o fifo), 1, Len(a)) = a
        BY <3>2, <3>3, TakeFirst
      <4>2. SubSeq(h \o more, 1, Len(h)) = h
        BY <1>4, <2>1, TakeFirst
      <4> QED
        BY <3>2, <3>4, <4>1, <4>2
    <3>6. z \o fifo = more
      <4>1. SubSeq(h \o (z \o fifo), Len(h) + 1, Len(h \o (z \o fifo))) = z \o fifo
        BY <2>1, <3>3, DropFirst
      <4>2. SubSeq(h \o more, Len(h) + 1, Len(h \o more)) = more
        BY <1>4, <2>1, DropFirst
      <4> QED
        BY <3>4, <3>5, <4>1, <4>2
    <3>7. AfterPacket(rx_buf) = z
      BY <2>9 DEF AfterPacket, z
    <3> QED
      BY <3>2, <3>5, <3>6, <3>7 DEF a
  <2> QED
    BY <2>7, <2>8, <2>9, <2>10
<1> QED
  BY <1>2, <1>3, <1>5, Zenon

LEMMA SendInv ==
  ASSUME Inv, NEW p, WellFormed(p), Send(p),
         pics' \in Seq(Seq(Byte)), Len(pics') <= sent + 1
  PROVE  Inv'
<1>1. /\ sent < MaxPackets /\ sent' = sent + 1 /\ fifo' = fifo \o p
      /\ ahead' = IF clean THEN Append(ahead, p) ELSE <<>>
      /\ UNCHANGED <<pc, rx_buf, jpeg_buf, latest, count, frames, streaming, losses, clean>>
  BY DEF Send, storeVars
<1>2. Stream /\ rx_buf \in Seq(Byte) /\ fifo \in Seq(Byte)
  BY DEF Inv, Buffers
<1>3. /\ Stream' /\ fifo' \in Seq(Byte)
      /\ clean /\ ahead # <<>> => ahead' # <<>> /\ Head(ahead') = Head(ahead)
  BY <1>1, <1>2, Longer
<1>4. Control'
  <2>1. sent' \in 0 .. MaxPackets
    BY <1>1, CameraAssumption, ByteIs DEF Inv, Control
  <2> QED
    BY <1>1, <2>1 DEF Inv, Control
<1>5. Buffers'
  BY <1>1, <1>3 DEF Inv, Buffers
<1>6. Store'
  BY <1>1 DEF Inv, Store, OnlyFirstHeadless
<1>7. NothingHeldBack'
  BY <1>1, <1>3 DEF Inv, NothingHeldBack
<1> QED
  BY <1>3, <1>4, <1>5, <1>6, <1>7 DEF Inv

\* What the device puts into a packet fits into one.
LEMMA Carried ==
  ASSUME NEW cid \in Byte, NEW data \in Seq(Byte), 5 + InnerLen + Len(data) <= MaxTotal
  PROVE  WellFormed(Packet(cid, Inner \o data))
<1>1. InnerLen \in Nat
  BY CameraAssumption
<1>2. Inner \in Seq(Byte) /\ Len(Inner) = InnerLen
  BY <1>1, ByteIs DEF Inner
<1>3. Inner \o data \in Seq(Byte) /\ Len(Inner \o data) = InnerLen + Len(data)
  BY <1>2, ConcatProperties
<1>4. 5 + Len(Inner \o data) <= MaxTotal
  BY <1>1, <1>3, LenProperties
<1> QED
  BY <1>3, <1>4, PacketIs

LEMMA Known ==
  /\ 5 \in Byte /\ 6 \in Byte /\ 7 \in Byte /\ 9 \in Byte /\ 10 \in Byte /\ 11 \in Byte
  /\ InnerLen \in Nat /\ MaxTotal \in Nat /\ 6 <= MaxTotal /\ 5 + InnerLen <= MaxTotal
BY ByteIs, CameraAssumption

LEMMA SendHeadInv ==
  ASSUME Inv, SendHead
  PROVE  Inv'
<1>1. PICK body \in Bodies :
        /\ Send(Packet(7, Inner \o (<<255, 216, Len(pics) + 1>> \o body)))
        /\ pics' = Append(pics, <<255, 216, Len(pics) + 1>> \o body)
  BY DEF SendHead
<1> DEFINE mark == <<255, 216, Len(pics) + 1>>
           data == mark \o body
<1>2. /\ pics \in Seq(Seq(Byte)) /\ Len(pics) \in Nat /\ Len(pics) <= sent /\ sent \in Nat
      /\ sent < MaxPackets /\ MaxPackets \in Nat /\ MaxPackets < 256
  BY <1>1, CameraAssumption, ByteIs, LenProperties DEF Inv, Control, Send
<1>3. Len(pics) + 1 \in Byte /\ 255 \in Byte /\ 216 \in Byte
  <2>1. Len(pics) + 1 \in Nat /\ Len(pics) + 1 < 256
    BY <1>2
  <2> QED
    BY <2>1, ByteIs
<1>4. mark \in Seq(Byte) /\ Len(mark) <= 3 /\ Len(mark) \in Nat
  BY <1>3
<1>5. body \in Seq(Byte) /\ Len(body) \in Nat /\ 8 + InnerLen + Len(body) <= MaxTotal
  BY CameraAssumption, LenProperties
<1> HIDE DEF mark
<1>6. data \in Seq(Byte) /\ Len(data) = Len(mark) + Len(body)
  BY <1>4, <1>5, ConcatProperties
<1>7. 5 + InnerLen + Len(data) <= MaxTotal
  BY <1>4, <1>5, <1>6, Known
<1>8. WellFormed(Packet(7, Inner \o data))
  BY <1>6, <1>7, Known, Carried
<1>9. pics' \in Seq(Seq(Byte)) /\ Len(pics') <= sent + 1
  <2>1. pics' = Append(pics, data)
    BY <1>1 DEF mark
  <2> QED
    BY <1>2, <1>6, <2>1, AppendProperties
<1>10. Send(Packet(7, Inner \o data))
  BY <1>1 DEF mark
<1> QED
  BY <1>8, <1>9, <1>10, SendInv

LEMMA SendTailInv ==
  ASSUME Inv, SendTail
  PROVE  Inv'
<1>1. PICK body \in Bodies :
        /\ pics # <<>>
        /\ Send(Packet(10, Inner \o (<<Len(pics)>> \o body)))
        /\ pics' = [pics EXCEPT ![Len(pics)] = @ \o (<<Len(pics)>> \o body)]
  BY DEF SendTail
<1> DEFINE mark == <<Len(pics)>>
           data == mark \o body
<1>2. /\ pics \in Seq(Seq(Byte)) /\ Len(pics) \in Nat /\ Len(pics) <= sent /\ sent \in Nat
      /\ sent < MaxPackets /\ MaxPackets \in Nat /\ MaxPackets < 256
      /\ Len(pics) \in 1 .. Len(pics)
  BY <1>1, CameraAssumption, ByteIs, LenProperties, EmptySeq DEF Inv, Control, Send
<1>3. Len(pics) \in Byte
  BY <1>2, ByteIs
<1>4. mark \in Seq(Byte) /\ Len(mark) <= 1 /\ Len(mark) \in Nat
  BY <1>3
<1>5. body \in Seq(Byte) /\ Len(body) \in Nat /\ 8 + InnerLen + Len(body) <= MaxTotal
  BY CameraAssumption, LenProperties
<1> HIDE DEF mark
<1>6. data \in Seq(Byte) /\ Len(data) = Len(mark) + Len(body)
  BY <1>4, <1>5, ConcatProperties
<1>7. 5 + InnerLen + Len(data) <= MaxTotal
  BY <1>4, <1>5, <1>6, Known
<1>8. WellFormed(Packet(10, Inner \o data))
  BY <1>6, <1>7, Known, Carried
<1>9. pics' \in Seq(Seq(Byte)) /\ Len(pics') <= sent + 1
  <2>1. pics' = [pics EXCEPT ![Len(pics)] = pics[Len(pics)] \o data]
    BY <1>1 DEF mark
  <2>2. pics[Len(pics)] \in Seq(Byte)
    BY <1>2, ElementOfSeq
  <2>3. pics[Len(pics)] \o data \in Seq(Byte)
    BY <1>6, <2>2, ConcatProperties
  <2> HIDE DEF data
  <2>4. pics' \in Seq(Seq(Byte)) /\ Len(pics') = Len(pics)
    BY <1>2, <2>1, <2>3, ExceptSeq
  <2> QED
    BY <1>2, <2>4
<1>10. Send(Packet(10, Inner \o data))
  BY <1>1 DEF mark
<1> QED
  BY <1>8, <1>9, <1>10, SendInv

LEMMA SendOtherInv ==
  ASSUME Inv, SendOther
  PROVE  Inv'
<1>1. pics' \in Seq(Seq(Byte)) /\ Len(pics') <= sent + 1
  <2>1. pics' = pics /\ pics \in Seq(Seq(Byte)) /\ Len(pics) <= sent /\ sent \in Nat
    BY DEF SendOther, Inv, Control
  <2>2. Len(pics) \in Nat
    BY <2>1, LenProperties
  <2> QED
    BY <2>1, <2>2
<1>2. WellFormed(Packet(11, <<5>>))
  <2>1. <<5>> \in Seq(Byte) /\ 5 + Len(<<5>>) <= MaxTotal
    BY Known
  <2> QED
    BY <2>1, Known, PacketIs
<1>3. WellFormed(Packet(7, Inner))
  <2>1. Inner \in Seq(Byte) /\ Len(Inner) = InnerLen
    BY Known, ByteIs DEF Inner
  <2> QED
    BY <2>1, Known, PacketIs
<1> QED
  BY <1>1, <1>2, <1>3, SendInv DEF SendOther

LEMMA CommandInv ==
  ASSUME Inv, WriteInfo \/ WriteOpen
  PROVE  Inv'
<1>1. /\ pc \in {"info", "open"} /\ pc' \in {"read_info", "read_ack"}
      /\ UNCHANGED <<rx_buf, jpeg_buf, latest, count, frames, sent, losses, pics, clean>>
      /\ Command(5, <<9>>) \/ Command(6, <<>>)
  BY DEF WriteInfo, WriteOpen, storeVars
<1>2. Stream /\ rx_buf \in Seq(Byte) /\ fifo \in Seq(Byte)
  BY DEF Inv, Buffers
<1>3. WellFormed(Packet(5, <<9>>)) /\ WellFormed(Packet(6, <<>>))
  <2>1. <<9>> \in Seq(Byte) /\ 5 + Len(<<9>>) <= MaxTotal
    BY Known
  <2>2. <<>> \in Seq(Byte) /\ 5 + Len(<<>>) <= MaxTotal
    BY Known
  <2> QED
    BY <2>1, <2>2, Known, PacketIs
<1>4. Stream' /\ fifo' \in Seq(Byte) /\ streaming' \in BOOLEAN
  <2>1. CASE UNCHANGED <<fifo, ahead, streaming>>
    BY <1>1, <1>2, <2>1 DEF Stream, CutsDoNotMatter, Inv, Control
  <2>2. CASE \E p : /\ WellFormed(p) /\ fifo' = fifo \o p
                    /\ ahead' = IF clean THEN Append(ahead, p) ELSE <<>>
                    /\ streaming' \in BOOLEAN
    BY <1>1, <1>2, <2>2, Longer
  <2> QED
    BY <1>1, <1>3, <2>1, <2>2 DEF Command
<1>5. Control'
  BY <1>1, <1>4 DEF Inv, Control
<1>6. Buffers'
  BY <1>1, <1>4 DEF Inv, Buffers
<1>7. Store'
  BY <1>1 DEF Inv, Store, OnlyFirstHeadless
<1> QED
  BY <1>1, <1>4, <1>5, <1>6, <1>7 DEF Inv, NothingHeldBack

\* A read takes at most what waits.
LEMMA SizesAre ==
  ASSUME NEW k \in ReadSizes, fifo \in Seq(Byte)
  PROVE  k \in Nat /\ 0 < k /\ k <= Len(fifo)
<1>1. Len(fifo) \in Nat
  BY LenProperties
<1> QED
  BY <1>1, CameraAssumption DEF ReadSizes

LEMMA ReadReplyInv ==
  ASSUME Inv, ReadReply
  PROVE  Inv'
<1>1. /\ pc \in {"read_info", "read_ack"} /\ pc' \in {"open", "read"}
      /\ UNCHANGED <<rx_buf, jpeg_buf, latest, count, frames, losses, streaming, sent, pics>>
      /\ (\E k \in ReadSizes : Discard(k)) \/ UNCHANGED <<fifo, clean, ahead>>
  BY DEF ReadReply, storeVars, deviceVars
<1>2. /\ Stream /\ rx_buf = <<>> /\ rx_buf \in Seq(Byte) /\ fifo \in Seq(Byte)
      /\ clean \in BOOLEAN
  BY <1>1 DEF Inv, Buffers, Control
<1>3. Stream' /\ fifo' \in Seq(Byte) /\ clean' \in BOOLEAN
  <2>1. CASE UNCHANGED <<fifo, clean, ahead>>
    BY <1>1, <1>2, <2>1 DEF Stream, CutsDoNotMatter
  <2>2. CASE \E k \in ReadSizes : Discard(k)
    <3>1. PICK k \in ReadSizes : Discard(k)
      BY <2>2
    <3>2. k \in Nat /\ k <= Len(fifo)
      BY <1>2, SizesAre
    <3> QED
      BY <1>1, <1>2, <3>1, <3>2, Shorter
  <2> QED
    BY <1>1, <2>1, <2>2
<1>4. Control'
  BY <1>1, <1>3 DEF Inv, Control
<1>5. Buffers'
  BY <1>1, <1>2, <1>3 DEF Inv, Buffers
<1>6. Store'
  BY <1>1 DEF Inv, Store, OnlyFirstHeadless
<1> QED
  BY <1>1, <1>2, <1>3, <1>4, <1>5, <1>6 DEF Inv, NothingHeldBack

LEMMA ReadLosesInv ==
  ASSUME Inv, ReadLoses
  PROVE  Inv'
<1>1. PICK k \in ReadSizes :
        /\ pc = "read" /\ losses < MaxLosses /\ losses' = losses + 1 /\ Discard(k)
        /\ UNCHANGED <<pc, rx_buf, jpeg_buf, latest, count, frames, streaming, sent, pics>>
  BY DEF ReadLoses, storeVars, deviceVars
<1>2. Stream /\ rx_buf \in Seq(Byte) /\ fifo \in Seq(Byte) /\ clean \in BOOLEAN
  BY DEF Inv, Buffers, Control
<1>3. /\ Stream' /\ fifo' \in Seq(Byte) /\ clean' \in BOOLEAN
      /\ clean' => rx_buf = <<>>
  <2>1. k \in Nat /\ k <= Len(fifo)
    BY <1>2, SizesAre
  <2> QED
    BY <1>1, <1>2, <2>1, Shorter
<1>4. Control'
  <2>1. losses' \in 0 .. MaxLosses
    BY <1>1, CameraAssumption DEF Inv, Control
  <2> QED
    BY <1>1, <1>3, <2>1 DEF Inv, Control
<1>5. Buffers'
  BY <1>1, <1>3 DEF Inv, Buffers
<1>6. Store'
  BY <1>1 DEF Inv, Store, OnlyFirstHeadless
<1> QED
  BY <1>1, <1>3, <1>4, <1>5, <1>6 DEF Inv, NothingHeldBack

\* A read moves bytes from the endpoint to the parser.
LEMMA ReadInv ==
  ASSUME Inv, Read
  PROVE  Inv'
<1>1. PICK k \in ReadSizes :
        /\ rx_buf' = rx_buf \o SubSeq(fifo, 1, k)
        /\ fifo' = SubSeq(fifo, k + 1, Len(fifo))
        /\ pc' = "parse"
        /\ UNCHANGED <<jpeg_buf, latest, count, frames, streaming, sent, pics, losses,
                       clean, ahead>>
  BY DEF Read, storeVars, deviceVars
<1>2. Stream /\ rx_buf \in Seq(Byte) /\ fifo \in Seq(Byte)
  BY DEF Inv, Buffers
<1>3. k \in 0 .. Len(fifo)
  <2>1. k \in Nat /\ k <= Len(fifo) /\ Len(fifo) \in Nat
    BY <1>2, SizesAre, LenProperties
  <2> QED
    BY <2>1
<1> DEFINE a == SubSeq(fifo, 1, k)
<1>4. a \in Seq(Byte) /\ fifo' \in Seq(Byte) /\ fifo = a \o fifo'
  BY <1>1, <1>2, <1>3, Split
<1> HIDE DEF a
<1>5. rx_buf' \in Seq(Byte) /\ rx_buf' \o fifo' = rx_buf \o fifo
  <2>1. rx_buf' = rx_buf \o a
    BY <1>1 DEF a
  <2>2. rx_buf \o a \in Seq(Byte)
    BY <1>2, <1>4, ConcatProperties
  <2>3. (rx_buf \o a) \o fifo' = rx_buf \o (a \o fifo')
    BY <1>2, <1>4, ConcatAssociative, SMTT(20)
  <2> QED
    BY <1>4, <2>1, <2>2, <2>3
<1>6. Stream'
  BY <1>1, <1>2, <1>5 DEF Stream, CutsDoNotMatter
<1>7. Control' /\ Store' /\ Buffers'
  BY <1>1, <1>4, <1>5 DEF Inv, Control, Store, Buffers, OnlyFirstHeadless
<1> QED
  BY <1>1, <1>6, <1>7 DEF Inv, NothingHeldBack

\* The loop has found nothing to parse: less than a header, or no sync word.
LEMMA ParseDoneInv ==
  ASSUME Inv, ParseDone
  PROVE  Inv'
<1>1. /\ pc = "parse" /\ pc' = "read" /\ ~Found
      /\ rx_buf' = IF Len(rx_buf) < 5 THEN rx_buf ELSE <<>>
      /\ UNCHANGED <<jpeg_buf, latest, count, frames, streaming, sent, pics, losses,
                     clean, ahead, fifo>>
  BY DEF ParseDone, ParseStep, storeVars, deviceVars
<1>2. /\ Stream /\ rx_buf \in Seq(Byte) /\ fifo \in Seq(Byte) /\ Len(rx_buf) \in Nat
      /\ clean \in BOOLEAN
  BY LenProperties DEF Inv, Buffers, Control
<1>3. rx_buf' \in Seq(Byte) /\ Len(rx_buf') < MaxTotal
  BY <1>1, <1>2, Known
<1>4. ASSUME clean PROVE rx_buf' = rx_buf /\ Len(rx_buf) < 5
  <2>1. SUFFICES ASSUME ~(Len(rx_buf) < 5) PROVE FALSE
    BY <1>1
  <2>2. 5 <= Len(rx_buf) /\ rx_buf # <<>>
    BY <1>2, <2>1
  <2>3. SyncAt(rx_buf) # {}
    BY <1>2, <1>4, <2>2, Recognised
  <2> QED
    BY <1>1, <1>2, <2>2, <2>3 DEF Found
<1>5. Stream'
  BY <1>1, <1>2, <1>4 DEF Stream, CutsDoNotMatter
<1>6. NothingHeldBack'
  <2>1. SUFFICES ASSUME clean, rx_buf # <<>>
                 PROVE  ahead # <<>> /\ Len(rx_buf) < Len(Head(ahead))
    BY <1>1, <1>4 DEF NothingHeldBack
  <2>2. ahead # <<>> /\ WellFormed(Head(ahead))
    BY <1>2, <2>1, NextPacket
  <2>3. 5 <= Len(Head(ahead)) /\ Len(Head(ahead)) \in Nat
    BY <2>2, LenProperties DEF WellFormed
  <2> QED
    BY <1>2, <1>4, <2>1, <2>2, <2>3
<1>7. Control' /\ Store' /\ Buffers'
  BY <1>1, <1>2, <1>3 DEF Inv, Control, Store, Buffers, OnlyFirstHeadless
<1> QED
  BY <1>5, <1>6, <1>7 DEF Inv

\* The packet is not there yet.
LEMMA ParseNeedsMoreInv ==
  ASSUME Inv, ParseNeedsMore
  PROVE  Inv'
<1>1. /\ pc = "parse" /\ pc' = "read" /\ Found /\ Incomplete(Trimmed(rx_buf))
      /\ rx_buf' = Trimmed(rx_buf)
      /\ UNCHANGED <<jpeg_buf, latest, count, frames, streaming, sent, pics, losses,
                     clean, ahead, fifo>>
  BY DEF ParseNeedsMore, ParseStep, storeVars, deviceVars
<1>2. /\ Stream /\ rx_buf \in Seq(Byte) /\ fifo \in Seq(Byte) /\ Len(rx_buf) \in Nat
      /\ clean \in BOOLEAN /\ 5 <= Len(rx_buf) /\ SyncAt(rx_buf) # {}
  BY <1>1, LenProperties DEF Inv, Buffers, Control, Found
<1>3. rx_buf' \in Seq(Byte) /\ Len(rx_buf') \in Nat
  BY <1>1, <1>2, TrimmedIs
<1>4. Len(rx_buf') < MaxTotal
  <2>1. CASE 5 <= Len(rx_buf')
    <3>1. Len(rx_buf') < Total(rx_buf') /\ Total(rx_buf') <= MaxTotal
      BY <1>1, <2>1 DEF Incomplete
    <3>2. Total(rx_buf') \in Nat
      <4>1. 4 \in 1 .. Len(rx_buf') /\ 5 \in 1 .. Len(rx_buf')
        BY <1>3, <2>1
      <4>2. rx_buf'[4] \in Nat /\ rx_buf'[5] \in Nat
        BY <1>3, <4>1, ElementOfSeq, ByteIs
      <4> QED
        BY <4>2 DEF Total, PayloadLen
    <3> QED
      BY <1>3, <3>1, <3>2, Known
  <2>2. CASE ~(5 <= Len(rx_buf'))
    BY <1>3, <2>2, Known
  <2> QED
    BY <2>1, <2>2
<1>5. ASSUME clean
      PROVE  rx_buf' = rx_buf /\ ahead # <<>> /\ Len(rx_buf) < Len(Head(ahead))
  <2>1. rx_buf # <<>>
    BY <1>2
  <2>2. ahead # <<>> /\ WellFormed(Head(ahead))
    BY <1>2, <1>5, <2>1, NextPacket
  <2>3. Trimmed(rx_buf) = rx_buf /\ Total(rx_buf) = Len(Head(ahead))
    BY <1>2, <1>5, Recognised
  <2> QED
    BY <1>1, <1>2, <2>2, <2>3 DEF Incomplete
<1>6. Stream'
  BY <1>1, <1>2, <1>5 DEF Stream, CutsDoNotMatter
<1>7. NothingHeldBack'
  BY <1>1, <1>5 DEF NothingHeldBack
<1>8. Control' /\ Store' /\ Buffers'
  BY <1>1, <1>2, <1>3, <1>4 DEF Inv, Control, Store, Buffers, OnlyFirstHeadless
<1> QED
  BY <1>6, <1>7, <1>8 DEF Inv

\* A header that claims too much is no packet of the device's.
LEMMA ParseSkipInv ==
  ASSUME Inv, ParseSkip
  PROVE  Inv'
<1> DEFINE b == Trimmed(rx_buf)
<1>1. /\ pc = "parse" /\ pc' = "parse" /\ Found
      /\ Total(b) > MaxTotal /\ rx_buf' = AfterSync(b)
      /\ UNCHANGED <<jpeg_buf, latest, count, frames, streaming, sent, pics, losses,
                     clean, ahead, fifo>>
  BY DEF ParseSkip, ParseStep, storeVars, deviceVars
<1>2. /\ Stream /\ rx_buf \in Seq(Byte) /\ fifo \in Seq(Byte) /\ Len(rx_buf) \in Nat
      /\ clean \in BOOLEAN /\ 5 <= Len(rx_buf) /\ SyncAt(rx_buf) # {}
  BY <1>1, LenProperties DEF Inv, Buffers, Control, Found
<1>3. clean = FALSE
  <2>1. SUFFICES ASSUME clean PROVE FALSE
    BY <1>2
  <2>2. /\ WellFormed(Head(ahead)) /\ b = rx_buf
        /\ Total(rx_buf) = Len(Head(ahead))
    BY <1>2, <2>1, Recognised
  <2>3. Len(Head(ahead)) <= MaxTotal /\ Len(Head(ahead)) \in Nat
    BY <2>2, LenProperties DEF WellFormed
  <2> QED
    BY <1>1, <2>2, <2>3, Known
<1>4. rx_buf' \in Seq(Byte)
  <2>1. b \in Seq(Byte) /\ Len(b) \in Nat
    BY <1>2, TrimmedIs
  <2>2. \A i \in 3 .. Len(b) : b[i] \in Byte
    BY <2>1
  <2> HIDE DEF b
  <2>3. SubSeq(b, 3, Len(b)) \in Seq(Byte)
    BY <2>1, <2>2, SubSeqProperties
  <2> QED
    BY <1>1, <2>3 DEF AfterSync
<1>5. Stream' /\ NothingHeldBack'
  BY <1>1, <1>2, <1>3 DEF Stream, CutsDoNotMatter, NothingHeldBack
<1>6. Control' /\ Store' /\ Buffers'
  BY <1>1, <1>2, <1>4 DEF Inv, Control, Store, Buffers, OnlyFirstHeadless
<1> QED
  BY <1>5, <1>6 DEF Inv

\* A fragment starts a picture, and publishes the one before, or is added.
LEMMA AssembleInv ==
  ASSUME Store, NEW data \in Seq(Byte), Assemble(data)
  PROVE  Store'
<1>1. /\ jpeg_buf \in Seq(Byte) /\ frames \in Seq(Seq(Byte)) /\ count = Len(frames)
      /\ Len(frames) \in Nat
      /\ latest = IF count = 0 THEN <<>> ELSE Last(frames)
      /\ frames # <<>> => IsHead(jpeg_buf)
      /\ OnlyFirstHeadless
  BY LenProperties DEF Store
<1>2. CASE ~IsHead(data)
  <2>1. jpeg_buf' = jpeg_buf \o data /\ UNCHANGED <<latest, count, frames>>
    BY <1>2 DEF Assemble, storeVars
  <2>2. jpeg_buf' \in Seq(Byte)
    BY <1>1, <2>1, ConcatProperties
  <2>3. IsHead(jpeg_buf) => IsHead(jpeg_buf')
    <3>1. SUFFICES ASSUME IsHead(jpeg_buf) PROVE IsHead(jpeg_buf \o data)
      BY <2>1
    <3>2. /\ Len(jpeg_buf) \in Nat /\ Len(data) \in Nat /\ 2 <= Len(jpeg_buf)
          /\ jpeg_buf[1] = 255 /\ jpeg_buf[2] = 216
      BY <1>1, <3>1, LenProperties DEF IsHead
    <3>3. /\ Len(jpeg_buf \o data) = Len(jpeg_buf) + Len(data)
          /\ \A i \in 1 .. Len(jpeg_buf) + Len(data) :
               (jpeg_buf \o data)[i] = IF i <= Len(jpeg_buf) THEN jpeg_buf[i]
                                       ELSE data[i - Len(jpeg_buf)]
      BY <1>1, ConcatProperties
    <3>4. (jpeg_buf \o data)[1] = jpeg_buf[1] /\ (jpeg_buf \o data)[2] = jpeg_buf[2]
      BY <3>2, <3>3
    <3> QED
      BY <3>2, <3>3, <3>4 DEF IsHead
  <2> QED
    BY <1>1, <2>1, <2>2, <2>3 DEF Store, OnlyFirstHeadless
<1>3. CASE IsHead(data)
  <2> DEFINE f == Strip(jpeg_buf)
  <2>1. /\ jpeg_buf' = data
        /\ \/ UNCHANGED <<latest, count, frames>>
           \/ latest' = f /\ count' = count + 1 /\ frames' = Append(frames, f)
    BY <1>3 DEF Assemble, Flush, storeVars
  <2>2. f \in Seq(Byte) /\ (IsHead(jpeg_buf) => IsHead(f))
    BY <1>1, StripIs
  <2>3. CASE UNCHANGED <<latest, count, frames>>
    BY <1>1, <1>3, <2>1, <2>3 DEF Store, OnlyFirstHeadless
  <2> HIDE DEF f
  <2>4. CASE latest' = f /\ count' = count + 1 /\ frames' = Append(frames, f)
    <3>1. /\ frames' \in Seq(Seq(Byte)) /\ Len(frames') = Len(frames) + 1
          /\ \A i \in 1 .. Len(frames) : frames'[i] = frames[i]
          /\ frames'[Len(frames) + 1] = f
      BY <1>1, <2>2, <2>4, AppendProperties
    <3>2. Last(frames') = f
      BY <1>1, <3>1 DEF Last
    <3>3. OnlyFirstHeadless'
      <4> SUFFICES ASSUME NEW i \in 2 .. Len(frames') PROVE IsHead(frames'[i])
        BY DEF OnlyFirstHeadless
      <4>1. CASE i \in 2 .. Len(frames)
        <5>1. i \in 1 .. Len(frames)
          BY <1>1, <4>1
        <5> QED
          BY <1>1, <3>1, <4>1, <5>1 DEF OnlyFirstHeadless
      <4>2. CASE i = Len(frames) + 1
        <5>1. frames # <<>>
          BY <4>2
        <5> QED
          BY <1>1, <2>2, <3>1, <4>2, <5>1
      <4> QED
        BY <1>1, <3>1, <4>1, <4>2
    <3>4. count' # 0 /\ count' = Len(frames')
      BY <1>1, <2>4, <3>1
    <3> QED
      BY <1>3, <2>1, <2>4, <3>1, <3>2, <3>3, <3>4 DEF Store
  <2> QED
    BY <2>1, <2>3, <2>4
<1> QED
  BY <1>2, <1>3

LEMMA ParsePacketInv ==
  ASSUME Inv, ParsePacket
  PROVE  Inv'
<1> DEFINE b == Trimmed(rx_buf)
           p == SubSeq(b, 1, Total(b))
<1>1. /\ pc = "parse" /\ pc' = "parse" /\ Found
      /\ Len(b) >= 5 /\ Total(b) <= MaxTotal /\ Total(b) <= Len(b)
      /\ rx_buf' = AfterPacket(b)
      /\ Assemble(JpegData(p)) \/ UNCHANGED <<jpeg_buf, latest, count, frames>>
      /\ ahead' = IF clean /\ ahead # <<>> THEN Tail(ahead) ELSE <<>>
      /\ UNCHANGED <<streaming, sent, pics, losses, clean, fifo>>
  BY DEF ParsePacket, ParseStep, storeVars, deviceVars
<1>2. /\ Stream /\ rx_buf \in Seq(Byte) /\ fifo \in Seq(Byte) /\ Len(rx_buf) \in Nat
      /\ clean \in BOOLEAN /\ 5 <= Len(rx_buf) /\ SyncAt(rx_buf) # {}
  BY <1>1, LenProperties DEF Inv, Buffers, Control, Found
<1>3. b \in Seq(Byte) /\ Len(b) \in Nat
  BY <1>2, TrimmedIs
<1>4. Total(b) \in Nat /\ 5 <= Total(b)
  <2>1. 4 \in 1 .. Len(b) /\ 5 \in 1 .. Len(b)
    BY <1>1, <1>3
  <2>2. b[4] \in Nat /\ b[5] \in Nat
    BY <1>3, <2>1, ElementOfSeq, ByteIs
  <2> QED
    BY <2>2 DEF Total, PayloadLen
<1>5. rx_buf' \in Seq(Byte) /\ p \in Seq(Byte)
  <2>1. Total(b) \in 0 .. Len(b)
    BY <1>1, <1>3, <1>4
  <2>2. SubSeq(b, Total(b) + 1, Len(b)) \in Seq(Byte) /\ p \in Seq(Byte)
    BY <1>3, <2>1, Split
  <2> QED
    BY <1>1, <2>2 DEF AfterPacket
<1>6. Stream' /\ NothingHeldBack'
  <2>1. CASE ~clean
    <3>1. <<>> \in Seq(Seq(Byte)) /\ 1 .. Len(<<>>) = {}
      OBVIOUS
    <3> QED
      BY <1>1, <2>1, <3>1 DEF Stream, CutsDoNotMatter, NothingHeldBack
  <2>2. CASE clean
    <3>1. rx_buf # <<>>
      BY <1>2
    <3>2. /\ ahead # <<>> /\ WellFormed(Head(ahead))
          /\ Tail(ahead) \in Seq(Seq(Byte))
          /\ \A i \in 1 .. Len(Tail(ahead)) : WellFormed(Tail(ahead)[i])
      BY <1>2, <2>2, <3>1, NextPacket
    <3>3. /\ b = rx_buf /\ Total(rx_buf) = Len(Head(ahead))
          /\ Len(Head(ahead)) <= Len(rx_buf) =>
               AfterPacket(rx_buf) \o fifo = FlattenSeq(Tail(ahead))
      BY <1>2, <2>2, Recognised
    <3>4. rx_buf' \o fifo' = FlattenSeq(Tail(ahead))
      BY <1>1, <3>3
    <3>5. ahead' = Tail(ahead)
      BY <1>1, <2>2, <3>2
    <3> QED
      BY <1>1, <3>2, <3>4, <3>5 DEF Stream, CutsDoNotMatter, NothingHeldBack
  <2> QED
    BY <2>1, <2>2
<1>7. Store'
  <2>1. JpegData(p) \in Seq(Byte)
    <3>1. Len(p) \in Nat
      BY <1>5, LenProperties
    <3> HIDE DEF p
    <3>2. \A i \in 6 + InnerLen .. Len(p) : p[i] \in Byte
      BY <1>5, <3>1, Known
    <3>3. SubSeq(p, 6 + InnerLen, Len(p)) \in Seq(Byte)
      BY <3>1, <3>2, Known, SubSeqProperties
    <3> QED
      BY <3>3 DEF JpegData
  <2>2. CASE Assemble(JpegData(p))
    BY <2>1, <2>2, AssembleInv DEF Inv
  <2>3. CASE UNCHANGED <<jpeg_buf, latest, count, frames>>
    BY <2>3 DEF Inv, Store, OnlyFirstHeadless
  <2> QED
    BY <1>1, <2>2, <2>3
<1>8. Control' /\ Buffers'
  BY <1>1, <1>2, <1>5 DEF Inv, Control, Buffers
<1> QED
  BY <1>6, <1>7, <1>8 DEF Inv

-----------------------------------------------------------------------------
(* The theorems.                                                           *)

LEMMA NextInv ==
  ASSUME Inv, [Next]_vars
  PROVE  Inv'
<1>1. CASE UNCHANGED vars
  BY <1>1 DEF vars, Inv, Control, Buffers, Store, Stream, OnlyFirstHeadless,
     CutsDoNotMatter, NothingHeldBack
<1> QED
  BY <1>1, SendHeadInv, SendTailInv, SendOtherInv, CommandInv, ReadReplyInv, ReadInv,
     ReadLosesInv, ParseDoneInv, ParseNeedsMoreInv, ParseSkipInv, ParsePacketInv
  DEF Next, Device, Camera, Parse

\* The invariant of the camera's byte stream holds of every state.
THEOREM Invariant == Spec => []Inv
<1>1. Inv /\ [Next]_vars => Inv'
  BY NextInv
<1> QED
  BY <1>1, InitInv, PTL DEF Spec

\* The buffers hold bytes and the last frame published is the one that stands
\* in latest_frame, counted.
THEOREM TypeCorrect == Spec => []TypeOK
<1>1. Inv => TypeOK
  BY InvTypes
<1> QED
  BY <1>1, Invariant, PTL

\* However the reads cut the stream, the parser loses, repeats and invents no
\* packet, as long as no bytes are lost.
THEOREM PacketsSurviveCuts == Spec => []CutsDoNotMatter
<1>1. Inv => CutsDoNotMatter
  BY DEF Inv, Stream
<1> QED
  BY <1>1, Invariant, PTL

\* Between two reads the parser holds a part of the next packet only.
THEOREM ParsesAllItHas == Spec => []NothingHeldBack
<1>1. Inv => NothingHeldBack
  BY DEF Inv
<1> QED
  BY <1>1, Invariant, PTL

\* Every frame published but the first begins with the JPEG start marker, even
\* when bytes were lost.
THEOREM FramesBegin == Spec => []OnlyFirstHeadless
<1>1. Inv => OnlyFirstHeadless
  BY DEF Inv, Store
<1> QED
  BY <1>1, Invariant, PTL

\* Between two reads the parser holds less than the longest packet, whatever
\* the bytes look like.
THEOREM BufferStaysBounded == Spec => []BufferBounded
<1>1. Inv => BufferBounded
  BY InvTypes
<1> QED
  BY <1>1, Invariant, PTL

\* An iteration of the parse loop that goes round again leaves fewer bytes.
THEOREM LoopShrinks == Spec => ParseShrinks
<1>1. ASSUME Inv, ParseSkip \/ ParsePacket
      PROVE  Len(rx_buf') < Len(rx_buf)
  <2> DEFINE b == Trimmed(rx_buf)
  <2>1. rx_buf \in Seq(Byte) /\ SyncAt(rx_buf) # {}
    BY <1>1 DEF Inv, Buffers, ParseSkip, ParsePacket, Found
  <2>2. b \in Seq(Byte) /\ Len(b) \in Nat /\ 2 <= Len(b) /\ Len(b) <= Len(rx_buf)
        /\ Len(rx_buf) \in Nat
    BY <2>1, TrimmedIs, LenProperties
  <2>3. 5 <= Len(b)
    BY <1>1 DEF ParseSkip, ParsePacket
  <2>4. CASE ParseSkip
    <3>1. rx_buf' = SubSeq(b, 3, Len(b))
      BY <2>4 DEF ParseSkip, AfterSync
    <3> HIDE DEF b
    <3>2. \A i \in 3 .. Len(b) : b[i] \in Byte
      BY <2>2
    <3>3. Len(SubSeq(b, 3, Len(b))) = Len(b) - 3 + 1
      BY <2>2, <2>3, <3>2, SubSeqProperties
    <3> QED
      BY <2>2, <3>1, <3>3
  <2>5. CASE ParsePacket
    <3>1. rx_buf' = SubSeq(b, Total(b) + 1, Len(b)) /\ Total(b) <= Len(b)
      BY <2>5 DEF ParsePacket, AfterPacket
    <3>2. Total(b) \in Nat /\ 5 <= Total(b)
      <4>1. 4 \in 1 .. Len(b) /\ 5 \in 1 .. Len(b)
        BY <2>2, <2>3
      <4>2. b[4] \in Nat /\ b[5] \in Nat
        BY <2>2, <4>1, ElementOfSeq, ByteIs
      <4> QED
        BY <4>2 DEF Total, PayloadLen
    <3> HIDE DEF b
    <3>3. Total(b) \in 0 .. Len(b)
      BY <2>2, <3>1, <3>2
    <3>4. Len(rx_buf') = Len(b) - Total(b)
      BY <2>2, <3>1, <3>3, Split
    <3> QED
      BY <2>2, <3>2, <3>4
  <2> QED
    BY <1>1, <2>4, <2>5
<1>2. ASSUME Inv, [Next]_vars, pc = "parse", pc' = "parse", sent' = sent,
             ~UNCHANGED vars
      PROVE  Len(rx_buf') < Len(rx_buf)
  <2>1. ~Device
    <3>1. sent \in Nat
      BY <1>2 DEF Inv, Control
    <3>2. \A p : ~Send(p)
      BY <1>2, <3>1 DEF Send
    <3> QED
      BY <3>2, Zenon DEF Device, SendHead, SendTail, SendOther
  <2>2. ParseSkip \/ ParsePacket
    BY <1>2, <2>1 DEF Next, Camera, Parse, WriteInfo, ReadReply, WriteOpen, Read, ReadLoses,
       ParseDone, ParseNeedsMore, ParseStep
  <2> QED
    BY <1>1, <1>2, <2>2
<1>3. Inv /\ [Next]_vars =>
        [pc = "parse" /\ pc' = "parse" /\ sent' = sent => Len(rx_buf') < Len(rx_buf)]_vars
  BY <1>2
<1> QED
  BY <1>3, Invariant, PTL DEF Spec, ParseShrinks

-----------------------------------------------------------------------------
(* Whole pictures.                                                         *)

Fragment(p) == IF IsVideo(p) THEN JpegData(p) ELSE <<>>

Starts(p) == IsVideo(p) /\ IsHead(JpegData(p))

Heads(q) == {i \in 1 .. Len(q) : Starts(q[i])}

\* The picture in hand is the one with this number.
Begun == Len(pics) - Cardinality(Heads(ahead))

Picture(ps, n) == IF n = 0 THEN <<>> ELSE ps[n]

\* What a packet makes of the n-th picture, of which buf is in hand.
Step(ps, p, n, buf, n2, buf2) ==
  IF Starts(p) THEN n2 = n + 1 /\ buf2 = Fragment(p) /\ buf = Picture(ps, n)
               ELSE n2 = n /\ buf2 = buf \o Fragment(p)

\* The numbers and the contents of the picture in hand, as they will be when
\* the packets ahead have been extracted one after the other.
Foretold(num, buf) ==
  /\ num \in [0 .. Len(ahead) -> 0 .. Len(pics)] /\ buf \in [0 .. Len(ahead) -> Seq(Byte)]
  /\ num[0] = Begun /\ buf[0] = jpeg_buf
  /\ \A i \in 1 .. Len(ahead) : Step(pics, ahead[i], num[i - 1], buf[i - 1], num[i], buf[i])
  /\ num[Len(ahead)] = Len(pics) /\ buf[Len(ahead)] = Picture(pics, Len(pics))

Published == frames = FlattenSeq([k \in 1 .. Begun - 1 |-> Kept(pics[k])])

Pictures == clean => Published /\ \E num, buf : Foretold(num, buf)

\* The heads of two sequences of packets, one after the other.
LEMMA HeadsConcat ==
  ASSUME NEW S, NEW a \in Seq(S), NEW z \in Seq(S)
  PROVE  /\ Cardinality(Heads(a)) \in Nat /\ Cardinality(Heads(z)) \in Nat
         /\ Cardinality(Heads(a \o z)) = Cardinality(Heads(a)) + Cardinality(Heads(z))
<1>1. /\ Len(a) \in Nat /\ Len(z) \in Nat /\ Len(a \o z) = Len(a) + Len(z)
      /\ \A i \in 1 .. Len(a) : (a \o z)[i] = a[i]
      /\ \A i \in 1 .. Len(z) : (a \o z)[Len(a) + i] = z[i]
  BY IndexOfConcat
<1> DEFINE H == Heads(a)
           K == Heads(z)
           M == {i \in Len(a) + 1 .. Len(a) + Len(z) : Starts((a \o z)[i])}
<1>2. H \subseteq 1 .. Len(a) /\ K \subseteq 1 .. Len(z) /\ M \subseteq 1 .. Len(a) + Len(z)
  BY <1>1 DEF Heads
<1>3. IsFiniteSet(H) /\ IsFiniteSet(K) /\ IsFiniteSet(M)
  <2>1. /\ IsFiniteSet(1 .. Len(a)) /\ IsFiniteSet(1 .. Len(z))
        /\ IsFiniteSet(1 .. Len(a) + Len(z))
    BY <1>1, FS_Interval
  <2> HIDE DEF H, K, M
  <2> QED
    BY <1>2, <2>1, FS_Subset
<1>4. Cardinality(H) \in Nat /\ Cardinality(K) \in Nat
  BY <1>3, FS_CardinalityType
<1>5. Cardinality(M) = Cardinality(K)
  <2> DEFINE f == [i \in K |-> Len(a) + i]
  <2>1. f \in Bijection(K, M)
    <3>1. \A i \in K : f[i] \in M
      BY <1>1 DEF Heads
    <3>2. \A i, j \in K : f[i] = f[j] => i = j
      BY <1>1, <1>2
    <3>3. ASSUME NEW j \in M PROVE \E i \in K : f[i] = j
      <4>1. j - Len(a) \in 1 .. Len(z) /\ j = Len(a) + (j - Len(a))
        BY <1>1
      <4>2. j - Len(a) \in K
        BY <1>1, <4>1 DEF Heads
      <4> QED
        BY <4>1, <4>2
    <3> HIDE DEF K, M
    <3>4. f \in [K -> M]
      BY <3>1
    <3> HIDE DEF f
    <3> QED
      BY <3>2, <3>3, <3>4 DEF Bijection, Injection, Surjection, IsInjective
  <2> HIDE DEF K, M, f
  <2> QED
    BY <1>3, <2>1, FS_Bijection DEF ExistsBijection
<1>6. Heads(a \o z) = H \union M /\ H \intersect M = {}
  <2>1. \A i \in 1 .. Len(a) + Len(z) : i \in 1 .. Len(a) \/ i \in Len(a) + 1 .. Len(a) + Len(z)
    BY <1>1
  <2> QED
    BY <1>1, <2>1 DEF Heads
<1> HIDE DEF H, K, M
<1>7. Cardinality(H \union M) = Cardinality(H) + Cardinality(M)
  <2>1. Cardinality(M) \in Nat /\ Cardinality(H \intersect M) = 0
    BY <1>3, <1>6, FS_CardinalityType, FS_EmptySet
  <2>2. Cardinality(H \union M) = Cardinality(H) + Cardinality(M) - Cardinality(H \intersect M)
    BY <1>3, FS_Union
  <2> QED
    BY <1>4, <2>1, <2>2
<1> QED
  BY <1>4, <1>5, <1>6, <1>7 DEF H, K

LEMMA HeadsOfOne ==
  ASSUME NEW p
  PROVE  Cardinality(Heads(<<p>>)) = IF Starts(p) THEN 1 ELSE 0
<1>1. Heads(<<p>>) = IF Starts(p) THEN {1} ELSE {}
  BY DEF Heads
<1> QED
  BY <1>1, FS_EmptySet, FS_Singleton

LEMMA AheadIs ==
  ASSUME Inv
  PROVE  /\ ahead \in Seq(Seq(Byte)) /\ Len(ahead) \in Nat
         /\ pics \in Seq(Seq(Byte)) /\ Len(pics) \in Nat
         /\ Cardinality(Heads(ahead)) \in Nat /\ Begun \in Int /\ Begun <= Len(pics)
<1>1. ahead \in Seq(Seq(Byte)) /\ pics \in Seq(Seq(Byte))
  BY DEF Inv, Stream, Control
<1>2. Len(ahead) \in Nat /\ Len(pics) \in Nat /\ Cardinality(Heads(ahead)) \in Nat
  BY <1>1, HeadsConcat, LenProperties
<1> QED
  BY <1>1, <1>2 DEF Begun

\* A packet is sent: the last picture grows, or a new one begins.
LEMMA Grows ==
  ASSUME Inv, Pictures, clean, NEW p \in Seq(Byte), Fragment(p) \in Seq(Byte),
         ahead' = Append(ahead, p), UNCHANGED <<jpeg_buf, frames, clean>>,
         pics' \in Seq(Seq(Byte)),
         Len(pics') = Len(pics) + (IF Starts(p) THEN 1 ELSE 0),
         \A k \in 1 .. Len(pics') - 1 : pics'[k] = pics[k],
         Picture(pics', Len(pics')) = IF Starts(p) THEN Fragment(p)
                                            ELSE Picture(pics, Len(pics)) \o Fragment(p)
  PROVE  Pictures'
<1> DEFINE L == Len(ahead)
           n == Len(pics)
           n2 == Len(pics')
<1>1. /\ ahead \in Seq(Seq(Byte)) /\ L \in Nat /\ pics \in Seq(Seq(Byte)) /\ n \in Nat
      /\ Cardinality(Heads(ahead)) \in Nat /\ Begun \in Int /\ Begun <= n
  BY AheadIs
<1>2. n2 \in Nat /\ n2 = n + (IF Starts(p) THEN 1 ELSE 0) /\ n <= n2
  BY <1>1
<1>3. /\ Len(ahead') = L + 1 /\ ahead'[L + 1] = p
      /\ \A i \in 1 .. L : ahead'[i] = ahead[i]
  BY <1>1, AppendProperties
<1>4. Begun' = Begun
  <2>1. <<p>> \in Seq(Seq(Byte)) /\ ahead' = ahead \o <<p>>
    BY <1>1, AppendIsConcat
  <2>2. Cardinality(Heads(ahead')) = Cardinality(Heads(ahead)) + Cardinality(Heads(<<p>>))
    BY <1>1, <2>1, HeadsConcat
  <2>3. Cardinality(Heads(ahead')) =
          Cardinality(Heads(ahead)) + (IF Starts(p) THEN 1 ELSE 0)
    BY <2>2, HeadsOfOne
  <2> QED
    BY <1>1, <1>2, <2>3 DEF Begun
<1>5. Published'
  <2>1. \A k \in 1 .. Begun - 1 : k \in 1 .. n2 - 1
    BY <1>1, <1>2
  <2>2. [k \in 1 .. Begun - 1 |-> Kept(pics[k])] = [k \in 1 .. Begun - 1 |-> Kept(pics'[k])]
    BY <2>1
  <2>3. frames = FlattenSeq([k \in 1 .. Begun - 1 |-> Kept(pics[k])])
    BY DEF Pictures, Published
  <2> QED
    BY <1>4, <2>2, <2>3 DEF Published
<1>6. PICK num, buf : Foretold(num, buf)
  BY DEF Pictures
<1>7. /\ num \in [0 .. L -> 0 .. n] /\ buf \in [0 .. L -> Seq(Byte)]
      /\ num[0] = Begun /\ buf[0] = jpeg_buf
      /\ \A i \in 1 .. L : Step(pics, ahead[i], num[i - 1], buf[i - 1], num[i], buf[i])
      /\ num[L] = n /\ buf[L] = Picture(pics, n)
  BY <1>6 DEF Foretold
<1> DEFINE last == IF Starts(p) THEN Fragment(p) ELSE Picture(pics, n) \o Fragment(p)
           num2 == [i \in 0 .. L + 1 |-> IF i = L + 1 THEN n2 ELSE num[i]]
           buf2 == [i \in 0 .. L + 1 |-> IF i = L + 1 THEN last ELSE buf[i]]
<1>8. last \in Seq(Byte) /\ last = Picture(pics', Len(pics'))
  <2>1. L \in 0 .. L
    BY <1>1
  <2>2. Picture(pics, n) \in Seq(Byte)
    BY <1>7, <2>1
  <2> QED
    BY <2>2, ConcatProperties
<1>9. num2 \in [0 .. L + 1 -> 0 .. n2] /\ buf2 \in [0 .. L + 1 -> Seq(Byte)]
  <2>1. \A i \in 0 .. L + 1 : i = L + 1 \/ i \in 0 .. L
    BY <1>1
  <2>2. \A i \in 0 .. L : num[i] \in 0 .. n2 /\ buf[i] \in Seq(Byte)
    <3> HIDE DEF L, n, n2, last
    <3>1. \A x \in 0 .. n : x \in 0 .. n2
      BY <1>1, <1>2
    <3>2. \A i \in 0 .. L : num[i] \in 0 .. n /\ buf[i] \in Seq(Byte)
      BY <1>7
    <3> QED
      BY <3>1, <3>2
  <2>3. n2 \in 0 .. n2
    BY <1>2
  <2> HIDE DEF L, n, n2, last
  <2> DEFINE N == 0 .. n2
  <2>4. num \in [0 .. L -> N] /\ n2 \in N
    BY <1>7, <2>2, <2>3
  <2> HIDE DEF N
  <2>5. num2 \in [0 .. L + 1 -> N]
    BY <2>1, <2>4
  <2>6. buf2 \in [0 .. L + 1 -> Seq(Byte)]
    BY <1>8, <2>1, <2>2
  <2> QED
    BY <2>5, <2>6 DEF N
<1> HIDE DEF last
<1>10. PICK nn, bb : nn = num2 /\ bb = buf2
  OBVIOUS
<1>11. /\ nn[0] = Begun /\ bb[0] = jpeg_buf /\ nn[L + 1] = n2 /\ bb[L + 1] = last
       /\ \A i \in 0 .. L : nn[i] = num[i] /\ bb[i] = buf[i]
       /\ nn \in [0 .. L + 1 -> 0 .. n2] /\ bb \in [0 .. L + 1 -> Seq(Byte)]
  BY <1>1, <1>7, <1>9, <1>10
<1> HIDE DEF num2, buf2
<1>12. ASSUME NEW i \in 1 .. L + 1
       PROVE  Step(pics, ahead[i], nn[i - 1], bb[i - 1], nn[i], bb[i])'
  <2>1. i \in Nat /\ i - 1 \in 0 .. L
    BY <1>1
  <2>2. CASE i = L + 1
    <3>1. /\ ahead'[i] = p /\ nn[i - 1] = n /\ bb[i - 1] = Picture(pics, n)
          /\ nn[i] = n2 /\ bb[i] = last
      BY <1>1, <1>3, <1>7, <1>11, <2>1, <2>2
    <3>2. Starts(p) => Picture(pics', n) = Picture(pics, n)
      <4>1. ASSUME Starts(p), n # 0 PROVE pics'[n] = pics[n]
        <5>1. n \in 1 .. n2 - 1
          <6> HIDE DEF n, n2
          <6> QED
            BY <1>1, <1>2, <4>1
        <5> QED
          BY <5>1
      <4> QED
        BY <4>1 DEF Picture
    <3> QED
      BY <1>2, <3>1, <3>2 DEF Step, last
  <2>3. CASE i # L + 1
    <3>1. i \in 1 .. L /\ i \in 0 .. L
      BY <1>1, <2>1, <2>3
    <3>2. Step(pics, ahead[i], nn[i - 1], bb[i - 1], nn[i], bb[i])
      BY <1>7, <1>11, <2>1, <3>1
    <3>3. nn[i - 1] \in 0 .. n /\ nn[i] \in 0 .. n
      BY <1>7, <1>11, <2>1, <3>1
    <3>4. ASSUME Starts(ahead[i]) PROVE Picture(pics', nn[i - 1]) = Picture(pics, nn[i - 1])
      <4>1. nn[i - 1] < n
        BY <1>1, <3>2, <3>3, <3>4 DEF Step
      <4>2. ASSUME nn[i - 1] # 0 PROVE pics'[nn[i - 1]] = pics[nn[i - 1]]
        <5>1. nn[i - 1] \in 1 .. n2 - 1
          <6> HIDE DEF n, n2
          <6> QED
            BY <1>1, <1>2, <3>3, <4>1, <4>2
        <5> QED
          BY <5>1
      <4> QED
        BY <4>2 DEF Picture
    <3> QED
      BY <1>3, <3>1, <3>2, <3>4 DEF Step
  <2> QED
    BY <2>2, <2>3
<1>13. Foretold(nn, bb)'
  <2>1. nn[L + 1] = Len(pics') /\ bb[L + 1] = Picture(pics', Len(pics'))
    BY <1>8, <1>11
  <2>2. nn[0] = Begun' /\ bb[0] = jpeg_buf'
    BY <1>4, <1>11
  <2> QED
    BY <1>3, <1>11, <1>12, <2>1, <2>2 DEF Foretold
<1> QED
  BY <1>5, <1>13 DEF Pictures

\* Packets have been taken out: what remains was foretold.
LEMMA Remains ==
  ASSUME Inv, NEW num, NEW buf, Foretold(num, buf), NEW m \in 0 .. Len(ahead),
         Len(ahead') = Len(ahead) - m,
         \A i \in 1 .. Len(ahead') : ahead'[i] = ahead[m + i],
         UNCHANGED pics, num[m] = Begun', buf[m] = jpeg_buf'
  PROVE  (\E nn, bb : Foretold(nn, bb))'
<1> DEFINE L == Len(ahead)
           M == Len(ahead')
           n == Len(pics)
<1>1. L \in Nat /\ n \in Nat /\ m \in Nat /\ M \in Nat /\ L = m + M
  BY AheadIs
<1>2. /\ num \in [0 .. L -> 0 .. n] /\ buf \in [0 .. L -> Seq(Byte)]
      /\ \A i \in 1 .. L : Step(pics, ahead[i], num[i - 1], buf[i - 1], num[i], buf[i])
      /\ num[L] = n /\ buf[L] = Picture(pics, n)
  BY DEF Foretold
<1> DEFINE num2 == [i \in 0 .. M |-> num[m + i]]
           buf2 == [i \in 0 .. M |-> buf[m + i]]
<1>3. /\ num2[0] = Begun' /\ buf2[0] = jpeg_buf' /\ num2[M] = n /\ buf2[M] = Picture(pics, n)
      /\ \A i \in 0 .. M : num2[i] = num[m + i] /\ buf2[i] = buf[m + i]
  BY <1>1, <1>2
<1>4. num2 \in [0 .. M -> 0 .. n] /\ buf2 \in [0 .. M -> Seq(Byte)]
  <2>1. \A i \in 0 .. M : m + i \in 0 .. L
    BY <1>1
  <2> QED
    BY <1>2, <2>1
<1>5. PICK nn, bb : nn = num2 /\ bb = buf2
  OBVIOUS
<1> HIDE DEF num2, buf2
<1>6. ASSUME NEW i \in 1 .. M
      PROVE  Step(pics, ahead'[i], nn[i - 1], bb[i - 1], nn[i], bb[i])
  <2>1. i - 1 \in 0 .. M /\ i \in 0 .. M /\ m + i \in 1 .. L /\ m + (i - 1) = (m + i) - 1
    BY <1>1
  <2>2. /\ nn[i - 1] = num[(m + i) - 1] /\ bb[i - 1] = buf[(m + i) - 1]
        /\ nn[i] = num[m + i] /\ bb[i] = buf[m + i] /\ ahead'[i] = ahead[m + i]
    BY <1>3, <1>5, <2>1
  <2>3. Step(pics, ahead[m + i], num[(m + i) - 1], buf[(m + i) - 1], num[m + i], buf[m + i])
    BY <1>2, <2>1
  <2> QED
    BY <2>2, <2>3, Zenon
<1>7. Foretold(nn, bb)'
  BY <1>3, <1>4, <1>5, <1>6 DEF Foretold
<1> QED
  BY <1>7

\* What is neither video data nor leaves the pictures as they are is dropped.
LEMMA Drops ==
  ASSUME Inv, Pictures, clean, NEW m \in 0 .. Len(ahead),
         \A i \in 1 .. m : ~IsVideo(ahead[i]),
         ahead' = SubSeq(ahead, m + 1, Len(ahead)),
         UNCHANGED <<jpeg_buf, frames, clean, pics>>
  PROVE  Pictures'
<1>1. ahead \in Seq(Seq(Byte)) /\ Len(ahead) \in Nat /\ m \in Nat /\ Begun \in Int
  BY AheadIs
<1>2. PICK a, z : a = SubSeq(ahead, 1, m) /\ z = SubSeq(ahead, m + 1, Len(ahead))
  OBVIOUS
<1>3. /\ a \in Seq(Seq(Byte)) /\ Len(a) = m /\ z \in Seq(Seq(Byte))
      /\ Len(z) = Len(ahead) - m /\ ahead = a \o z /\ ahead' = z
  <2>1. /\ a \in Seq(Seq(Byte)) /\ Len(a) = m /\ z \in Seq(Seq(Byte))
        /\ Len(z) = Len(ahead) - m /\ ahead = a \o z
    BY <1>1, <1>2, Split
  <2>2. ahead' = z
    BY <1>2, Zenon
  <2> QED
    BY <2>1, <2>2
<1>4. /\ \A i \in 1 .. m : ahead[i] = a[i]
      /\ \A i \in 1 .. Len(z) : ahead[m + i] = z[i]
  <2>1. /\ \A i \in 1 .. Len(a) : (a \o z)[i] = a[i]
        /\ \A i \in 1 .. Len(z) : (a \o z)[Len(a) + i] = z[i]
    BY <1>3, IndexOfConcat
  <2> QED
    BY <1>3, <2>1, Zenon
<1>5. Begun' = Begun
  <2>1. Heads(a) = {}
    BY <1>3, <1>4 DEF Heads, Starts
  <2>2. /\ Cardinality(Heads(ahead)) = Cardinality(Heads(a)) + Cardinality(Heads(z))
        /\ Cardinality(Heads(z)) \in Nat
    BY <1>3, HeadsConcat
  <2>3. Cardinality(Heads(a)) = 0
    BY <2>1, FS_EmptySet
  <2>4. Begun' = Len(pics) - Cardinality(Heads(z))
    BY <1>3 DEF Begun
  <2> QED
    BY <2>2, <2>3, <2>4 DEF Begun
<1>6. PICK num, buf : Foretold(num, buf)
  BY DEF Pictures
<1>7. num[m] = Begun /\ buf[m] = jpeg_buf
  <2> DEFINE Bad == {k \in 0 .. m : num[k] # Begun \/ buf[k] # jpeg_buf}
  <2> SUFFICES ASSUME num[m] # Begun \/ buf[m] # jpeg_buf PROVE FALSE
    OBVIOUS
  <2>1. Bad # {}
    <3>1. m \in 0 .. m
      BY <1>1
    <3> QED
      BY <3>1
  <2>2. PICK k \in Bad : \A j \in Bad : k <= j
    <3>1. Bad \subseteq Nat
      OBVIOUS
    <3> HIDE DEF Bad
    <3> QED
      BY <2>1, <3>1, LeastExists
  <2>3. k \in 0 .. m /\ k # 0 /\ (num[k] # Begun \/ buf[k] # jpeg_buf)
    <3>1. num[0] = Begun /\ buf[0] = jpeg_buf
      BY <1>6 DEF Foretold
    <3> QED
      BY <2>2, <3>1
  <2>4. k - 1 \in 0 .. m /\ k \in 1 .. m /\ k \in 1 .. Len(ahead) /\ k - 1 \notin Bad
    BY <1>1, <2>2, <2>3
  <2>5. num[k - 1] = Begun /\ buf[k - 1] = jpeg_buf
    BY <2>4
  <2>6. Step(pics, ahead[k], num[k - 1], buf[k - 1], num[k], buf[k])
    BY <1>6, <2>4 DEF Foretold
  <2>7. ~IsVideo(ahead[k])
    BY <2>4
  <2>8. num[k] = Begun /\ buf[k] = jpeg_buf \o <<>>
    BY <2>5, <2>6, <2>7 DEF Step, Starts, Fragment
  <2>9. jpeg_buf \o <<>> = jpeg_buf
    BY ConcatEmptySeq DEF Inv, Store
  <2> QED
    BY <2>3, <2>8, <2>9
<1>8. (\E nn, bb : Foretold(nn, bb))'
  <2>1. Len(ahead') = Len(ahead) - m /\ \A i \in 1 .. Len(ahead') : ahead'[i] = ahead[m + i]
    BY <1>3, <1>4, Zenon
  <2>2. num[m] = Begun' /\ buf[m] = jpeg_buf'
    BY <1>5, <1>7, Zenon
  <2> QED
    BY <1>6, <2>1, <2>2, Remains
<1>9. Published'
  BY <1>5 DEF Pictures, Published
<1> QED
  BY <1>8, <1>9 DEF Pictures

LEMMA KeptIs ==
  /\ \A p \in Seq(Byte) : Kept(p) \in Seq(Seq(Byte))
  /\ Kept(<<>>) = <<>>
<1>1. ASSUME NEW p \in Seq(Byte) PROVE Kept(p) \in Seq(Seq(Byte))
  <2>1. Strip(p) \in Seq(Byte)
    BY StripIs
  <2>2. <<>> \in Seq(Seq(Byte)) /\ <<Strip(p)>> \in Seq(Seq(Byte))
    BY <2>1
  <2> QED
    BY <2>2 DEF Kept
<1>2. Kept(<<>>) = <<>>
  <2>1. <<>> \in Seq(Byte)
    OBVIOUS
  <2>2. Len(Strip(<<>>)) <= 0 /\ Len(Strip(<<>>)) \in Nat
    <3>1. Len(<<>>) = 0
      OBVIOUS
    <3> QED
      BY <2>1, <3>1, StripIs, LenProperties
  <2> QED
    BY <2>2, CameraAssumption DEF Kept
<1> QED
  BY <1>1, <1>2

\* A packet is extracted, and the picture in hand grows or is published.
LEMMA Takes ==
  ASSUME Inv, Pictures, clean, ahead # <<>>, ahead' = Tail(ahead),
         UNCHANGED <<clean, pics>>,
         IF Starts(Head(ahead))
           THEN jpeg_buf' = Fragment(Head(ahead)) /\ frames' = frames \o Kept(jpeg_buf)
           ELSE jpeg_buf' = jpeg_buf \o Fragment(Head(ahead)) /\ frames' = frames
  PROVE  Pictures'
<1>1. PICK p : p = Head(ahead)
  OBVIOUS
<1>2. /\ ahead \in Seq(Seq(Byte)) /\ Len(ahead) \in Nat /\ Begun \in Int
      /\ pics \in Seq(Seq(Byte)) /\ Len(pics) \in Nat
  BY AheadIs
<1>3. /\ <<p>> \in Seq(Seq(Byte)) /\ Tail(ahead) \in Seq(Seq(Byte))
      /\ ahead = <<p>> \o Tail(ahead)
  BY <1>1, <1>2, FirstAndRest
<1>4. /\ Len(ahead) >= 1 /\ ahead[1] = p /\ Len(ahead') = Len(ahead) - 1
      /\ \A i \in 1 .. Len(ahead') : ahead'[i] = ahead[1 + i]
  BY <1>1, <1>2, HeadTailProperties, EmptySeq
<1>5. Begun' = Begun + (IF Starts(p) THEN 1 ELSE 0)
  <2>1. Cardinality(Heads(ahead)) = Cardinality(Heads(<<p>>)) + Cardinality(Heads(ahead'))
    BY <1>3, HeadsConcat
  <2>2. Cardinality(Heads(ahead')) \in Nat
    BY <1>3, HeadsConcat
  <2> QED
    BY <1>2, <2>1, <2>2, HeadsOfOne DEF Begun
<1>6. PICK num, buf : Foretold(num, buf)
  BY DEF Pictures
<1>7. /\ num[0] = Begun /\ buf[0] = jpeg_buf /\ Begun \in 0 .. Len(pics)
      /\ Step(pics, p, num[0], buf[0], num[1], buf[1])
  <2>1. 0 \in 0 .. Len(ahead) /\ 1 \in 1 .. Len(ahead) /\ 1 - 1 = 0
    BY <1>2, <1>4
  <2>2. Step(pics, ahead[1], num[1 - 1], buf[1 - 1], num[1], buf[1])
    BY <1>6, <2>1 DEF Foretold
  <2>3. num[0] = Begun /\ buf[0] = jpeg_buf /\ num[0] \in 0 .. Len(pics)
    BY <1>6, <2>1 DEF Foretold
  <2> QED
    BY <1>4, <2>1, <2>2, <2>3
<1>8. num[1] = Begun' /\ buf[1] = jpeg_buf'
  <2>1. CASE Starts(p)
    <3>1. jpeg_buf' = Fragment(p) /\ num[1] = num[0] + 1 /\ buf[1] = Fragment(p)
      BY <1>1, <1>7, <2>1, Zenon DEF Step
    <3> QED
      BY <1>5, <1>7, <2>1, <3>1
  <2>2. CASE ~Starts(p)
    <3>1. jpeg_buf' = jpeg_buf \o Fragment(p) /\ num[1] = num[0] /\ buf[1] = buf[0] \o Fragment(p)
      BY <1>1, <1>7, <2>2, Zenon DEF Step
    <3> QED
      BY <1>2, <1>5, <1>7, <2>2, <3>1
  <2> QED
    BY <2>1, <2>2
<1>9. (\E nn, bb : Foretold(nn, bb))'
  <2>1. 1 \in 0 .. Len(ahead)
    BY <1>2, <1>4
  <2> QED
    BY <1>4, <1>6, <1>8, <2>1, Remains
<1>10. Published'
  <2>1. frames = FlattenSeq([k \in 1 .. Begun - 1 |-> Kept(pics[k])])
    BY DEF Pictures, Published
  <2>2. CASE ~Starts(p)
    BY <1>1, <1>2, <1>5, <2>1, <2>2 DEF Published
  <2>3. CASE Starts(p) /\ Begun = 0
    <3>1. jpeg_buf = <<>>
      BY <1>7, <2>3 DEF Step, Picture
    <3>2. [k \in 1 .. Begun - 1 |-> Kept(pics[k])] = <<>>
      BY <2>3
    <3>3. [k \in 1 .. Begun' - 1 |-> Kept(pics[k])] = <<>>
      BY <1>5, <2>3
    <3>4. frames' = <<>>
      <4>1. frames' = frames \o Kept(jpeg_buf)
        BY <1>1, <2>3
      <4>2. frames = <<>>
        BY <2>1, <3>2, FlattenEmpty
      <4>3. <<>> \o <<>> = <<>>
        OBVIOUS
      <4> QED
        BY <3>1, <4>1, <4>2, <4>3, KeptIs
    <3> QED
      BY <3>3, <3>4, FlattenEmpty DEF Published
  <2>4. CASE Starts(p) /\ Begun # 0
    <3> DEFINE s == [k \in 1 .. Begun - 1 |-> Kept(pics[k])]
               t == [k \in 1 .. Begun |-> Kept(pics[k])]
    <3>1. Begun \in 1 .. Len(pics) /\ jpeg_buf = pics[Begun]
      BY <1>2, <1>7, <2>4 DEF Step, Picture
    <3>2. ASSUME NEW k \in 1 .. Begun PROVE Kept(pics[k]) \in Seq(Seq(Byte))
      <4>1. k \in 1 .. Len(pics)
        BY <1>2, <3>1
      <4>2. pics[k] \in Seq(Byte)
        BY <1>2, <4>1, ElementOfSeq
      <4> QED
        BY <4>2, KeptIs
    <3>3. s \in Seq(Seq(Seq(Byte))) /\ Len(s) = Begun - 1
      BY <3>1, <3>2
    <3>4. t = Append(s, Kept(pics[Begun]))
      BY <3>1, <3>3
    <3>5. Kept(pics[Begun]) \in Seq(Seq(Byte))
      BY <3>1, <3>2
    <3> HIDE DEF s, t
    <3>6. FlattenSeq(t) = FlattenSeq(s) \o Kept(pics[Begun])
      BY <3>3, <3>4, <3>5, FlattenAppend
    <3>7. frames' = FlattenSeq(t)
      BY <1>1, <2>1, <2>4, <3>1, <3>6 DEF s
    <3>8. Begun' - 1 = Begun
      BY <1>2, <1>5, <2>4
    <3> QED
      BY <3>7, <3>8 DEF Published, t
  <2> QED
    BY <2>2, <2>3, <2>4
<1> QED
  BY <1>9, <1>10 DEF Pictures

\* What the parser gets from the packets of the device.
LEMMA VideoCarried ==
  ASSUME NEW cid \in Video, NEW data \in Seq(Byte), data # <<>>,
         5 + InnerLen + Len(data) <= MaxTotal
  PROVE  /\ IsVideo(Packet(cid, Inner \o data))
         /\ JpegData(Packet(cid, Inner \o data)) = data
<1>1. /\ Inner \in Seq(Byte) /\ Len(Inner) = InnerLen /\ InnerLen \in Nat
      /\ Len(data) \in Nat /\ Len(data) # 0 /\ cid \in Byte
  BY Known, ByteIs, LenProperties, EmptySeq DEF Inner, Video
<1>2. Inner \o data \in Seq(Byte) /\ Len(Inner \o data) = InnerLen + Len(data)
  BY <1>1, ConcatProperties
<1>3. 5 + Len(Inner \o data) <= MaxTotal
  BY <1>1, <1>2, Known
<1>4. PICK p : p = Packet(cid, Inner \o data)
  OBVIOUS
<1>5. /\ p[3] = cid /\ PayloadLen(p) = InnerLen + Len(data)
      /\ \E h \in Seq(Byte) : Len(h) = 5 /\ p = h \o (Inner \o data)
  <2>1. PICK q : q = Inner \o data
    OBVIOUS
  <2>2. p = Packet(cid, q) /\ q \in Seq(Byte) /\ 5 + Len(q) <= MaxTotal
    BY <1>2, <1>3, <1>4, <2>1, Zenon
  <2>3. /\ p[3] = cid /\ PayloadLen(p) = Len(q)
        /\ \E h \in Seq(Byte) : Len(h) = 5 /\ p = h \o q
    BY <1>1, <2>2, PacketIs, Zenon
  <2> QED
    BY <1>2, <2>1, <2>3, Zenon
<1>6. IsVideo(p)
  BY <1>1, <1>5 DEF IsVideo
<1>7. PICK h \in Seq(Byte) : Len(h) = 5 /\ p = h \o (Inner \o data)
  BY <1>5
<1>8. PICK g : g = h \o Inner
  OBVIOUS
<1>9. p = g \o data
  <2>1. (h \o Inner) \o data = h \o (Inner \o data)
    BY <1>1, <1>7, ConcatAssociative, SMTT(20)
  <2> QED
    BY <1>7, <1>8, <2>1, Zenon
<1>10. g \in Seq(Byte) /\ Len(g) = 5 + InnerLen
  <2>1. Len(h) = 5
    BY <1>7
  <2>2. h \o Inner \in Seq(Byte) /\ Len(h \o Inner) = Len(h) + Len(Inner)
    <3>1. h \in Seq(Byte) /\ Inner \in Seq(Byte)
      BY <1>1
    <3> QED
      BY <3>1, ConcatProperties
  <2> QED
    BY <1>1, <1>8, <2>1, <2>2
<1>11. SubSeq(g \o data, Len(g) + 1, Len(g \o data)) = data
  BY <1>10, DropFirst
<1>12. Len(g) + 1 = 6 + InnerLen
  BY <1>1, <1>10
<1>13. JpegData(p) = data
  BY <1>9, <1>11, <1>12 DEF JpegData
<1> QED
  BY <1>4, <1>6, <1>13

LEMMA NoVideo ==
  ASSUME NEW cid \in Byte, NEW payload \in Seq(Byte), 5 + Len(payload) <= MaxTotal,
         cid \notin Video \/ Len(payload) <= InnerLen
  PROVE  ~IsVideo(Packet(cid, payload))
<1>1. Packet(cid, payload)[3] = cid /\ PayloadLen(Packet(cid, payload)) = Len(payload)
  BY PacketIs
<1> QED
  BY <1>1, Known, LenProperties DEF IsVideo

\* A packet that has no part in the pictures is sent.
LEMMA OtherPictures ==
  ASSUME Inv, Pictures, NEW p \in Seq(Byte), ~IsVideo(p),
         ahead' = IF clean THEN Append(ahead, p) ELSE <<>>,
         UNCHANGED <<jpeg_buf, frames, clean, pics>>
  PROVE  Pictures'
<1>1. CASE ~clean
  BY <1>1 DEF Pictures
<1>2. CASE clean
  <2>1. Fragment(p) = <<>> /\ ~Starts(p) /\ <<>> \in Seq(Byte)
    BY DEF Fragment, Starts
  <2>2. pics \in Seq(Seq(Byte)) /\ Len(pics) \in Nat
    BY AheadIs
  <2>3. Picture(pics, Len(pics)) \in Seq(Byte)
    BY <2>1, <2>2, ElementOfSeq DEF Picture
  <2>4. Picture(pics, Len(pics)) \o <<>> = Picture(pics, Len(pics))
    BY <2>3, ConcatEmptySeq
  <2>5. Len(pics') = Len(pics) + 0 /\ pics' = pics
    BY <2>2
  <2> QED
    BY <1>2, <2>1, <2>2, <2>4, <2>5, Grows
<1> QED
  BY <1>1, <1>2

LEMMA SendHeadPictures ==
  ASSUME Inv, Pictures, SendHead
  PROVE  Pictures'
<1>1. PICK body \in Bodies :
        /\ Send(Packet(7, Inner \o (<<255, 216, Len(pics) + 1>> \o body)))
        /\ pics' = Append(pics, <<255, 216, Len(pics) + 1>> \o body)
  BY DEF SendHead
<1>2. /\ pics \in Seq(Seq(Byte)) /\ Len(pics) \in Nat /\ Len(pics) <= sent /\ sent \in Nat
      /\ sent < MaxPackets /\ MaxPackets \in Nat /\ MaxPackets < 256
  BY <1>1, CameraAssumption, ByteIs, LenProperties DEF Inv, Control, Send
<1>3. PICK mark : mark = <<255, 216, Len(pics) + 1>>
  OBVIOUS
<1>4. /\ mark \in Seq(Byte) /\ Len(mark) \in Nat /\ 2 <= Len(mark) /\ Len(mark) <= 3
      /\ mark[1] = 255 /\ mark[2] = 216
  <2>1. Len(pics) + 1 \in Nat /\ Len(pics) + 1 < 256
    BY <1>2
  <2>2. Len(pics) + 1 \in Byte /\ 255 \in Byte /\ 216 \in Byte
    BY <2>1, ByteIs
  <2> QED
    BY <1>3, <2>2
<1>5. body \in Seq(Byte) /\ Len(body) \in Nat /\ 8 + InnerLen + Len(body) <= MaxTotal
  BY CameraAssumption, LenProperties
<1>6. PICK data : data = mark \o body
  OBVIOUS
<1>7. /\ data \in Seq(Byte) /\ Len(data) = Len(mark) + Len(body)
      /\ \A i \in 1 .. Len(mark) : data[i] = mark[i]
  BY <1>4, <1>5, <1>6, IndexOfConcat, ConcatProperties
<1>8. IsHead(data) /\ data # <<>> /\ 5 + InnerLen + Len(data) <= MaxTotal
  <2>1. data[1] = 255 /\ data[2] = 216
    BY <1>4, <1>7
  <2>2. 2 <= Len(data) /\ 5 + InnerLen + Len(data) <= MaxTotal
    BY <1>4, <1>5, <1>7, Known
  <2> QED
    BY <2>1, <2>2 DEF IsHead
<1>9. PICK p : p = Packet(7, Inner \o data)
  OBVIOUS
<1>10. IsVideo(p) /\ JpegData(p) = data /\ p \in Seq(Byte)
  <2>1. 7 \in Video
    BY DEF Video
  <2>2. WellFormed(p)
    BY <1>7, <1>8, <1>9, Known, Carried
  <2> QED
    BY <1>7, <1>8, <1>9, <2>1, <2>2, VideoCarried DEF WellFormed
<1>11. Starts(p) /\ Fragment(p) = data
  BY <1>8, <1>10 DEF Starts, Fragment
<1>12. /\ ahead' = IF clean THEN Append(ahead, p) ELSE <<>>
       /\ UNCHANGED <<jpeg_buf, frames, clean>> /\ pics' = Append(pics, data)
  BY <1>1, <1>3, <1>6, <1>9 DEF Send, storeVars
<1>13. /\ pics' \in Seq(Seq(Byte)) /\ Len(pics') = Len(pics) + 1
       /\ \A k \in 1 .. Len(pics) : pics'[k] = pics[k]
       /\ pics'[Len(pics) + 1] = data
  BY <1>2, <1>7, <1>12, AppendProperties
<1>14. \A k \in 1 .. Len(pics') - 1 : pics'[k] = pics[k]
  BY <1>2, <1>13
<1>15. Picture(pics', Len(pics')) = data
  BY <1>2, <1>13 DEF Picture
<1>16. CASE ~clean
  BY <1>12, <1>16 DEF Pictures
<1>17. CASE clean
  BY <1>7, <1>10, <1>11, <1>12, <1>13, <1>14, <1>15, <1>17, Grows
<1> QED
  BY <1>16, <1>17

LEMMA SendTailPictures ==
  ASSUME Inv, Pictures, SendTail
  PROVE  Pictures'
<1>1. PICK body \in Bodies :
        /\ pics # <<>>
        /\ Send(Packet(10, Inner \o (<<Len(pics)>> \o body)))
        /\ pics' = [pics EXCEPT ![Len(pics)] = @ \o (<<Len(pics)>> \o body)]
  BY DEF SendTail
<1>2. /\ pics \in Seq(Seq(Byte)) /\ Len(pics) \in Nat /\ Len(pics) <= sent /\ sent \in Nat
      /\ sent < MaxPackets /\ MaxPackets \in Nat /\ MaxPackets < 256
      /\ Len(pics) \in 1 .. Len(pics)
  BY <1>1, CameraAssumption, ByteIs, LenProperties, EmptySeq DEF Inv, Control, Send
<1>3. PICK mark : mark = <<Len(pics)>>
  OBVIOUS
<1>4. /\ mark \in Seq(Byte) /\ Len(mark) \in Nat /\ 1 <= Len(mark) /\ Len(mark) <= 3
      /\ mark[1] = Len(pics)
  <2>1. Len(pics) \in Byte
    BY <1>2, ByteIs
  <2> QED
    BY <1>3, <2>1
<1>5. body \in Seq(Byte) /\ Len(body) \in Nat /\ 8 + InnerLen + Len(body) <= MaxTotal
  BY CameraAssumption, LenProperties
<1>6. PICK data : data = mark \o body
  OBVIOUS
<1>7. /\ data \in Seq(Byte) /\ Len(data) = Len(mark) + Len(body)
      /\ \A i \in 1 .. Len(mark) : data[i] = mark[i]
  BY <1>4, <1>5, <1>6, IndexOfConcat, ConcatProperties
<1>8. ~IsHead(data) /\ data # <<>> /\ 5 + InnerLen + Len(data) <= MaxTotal
  <2>1. data[1] = Len(pics)
    BY <1>4, <1>7
  <2>2. Len(data) # 0 /\ 5 + InnerLen + Len(data) <= MaxTotal
    BY <1>4, <1>5, <1>7, Known
  <2> QED
    <3>1. Len(pics) # 255
      <4>1. PICK n : n = Len(pics)
        OBVIOUS
      <4>2. n \in Nat /\ n <= sent /\ sent \in Nat /\ sent < MaxPackets
            /\ MaxPackets \in Nat /\ MaxPackets < 256
        BY <1>2, <4>1, Zenon
      <4>3. n # 255
        BY <4>2
      <4> QED
        BY <4>1, <4>3, Zenon
    <3>2. data # <<>>
      BY <1>7, <2>2, EmptySeq
    <3> QED
      BY <2>1, <2>2, <3>1, <3>2 DEF IsHead
<1>9. PICK p : p = Packet(10, Inner \o data)
  OBVIOUS
<1>10. IsVideo(p) /\ JpegData(p) = data /\ p \in Seq(Byte)
  <2>1. 10 \in Video
    BY DEF Video
  <2>2. WellFormed(p)
    BY <1>7, <1>8, <1>9, Known, Carried
  <2> QED
    BY <1>7, <1>8, <1>9, <2>1, <2>2, VideoCarried DEF WellFormed
<1>11. ~Starts(p) /\ Fragment(p) = data
  BY <1>8, <1>10 DEF Starts, Fragment
<1>12. /\ ahead' = IF clean THEN Append(ahead, p) ELSE <<>>
       /\ UNCHANGED <<jpeg_buf, frames, clean>>
       /\ pics' = [pics EXCEPT ![Len(pics)] = pics[Len(pics)] \o data]
  BY <1>1, <1>3, <1>6, <1>9 DEF Send, storeVars
<1>13. pics[Len(pics)] \o data \in Seq(Byte)
  BY <1>2, <1>7, ElementOfSeq, ConcatProperties
<1>14. /\ pics' \in Seq(Seq(Byte)) /\ Len(pics') = Len(pics)
  BY <1>2, <1>12, <1>13, ExceptSeq
<1>15. \A k \in 1 .. Len(pics') - 1 : pics'[k] = pics[k]
  <2>1. \A k \in 1 .. Len(pics') - 1 : k \in 1 .. Len(pics) /\ k # Len(pics)
    BY <1>2, <1>14
  <2>2. \A k \in 1 .. Len(pics) : k # Len(pics) => pics'[k] = pics[k]
    BY <1>2, <1>12
  <2> QED
    BY <2>1, <2>2
<1>16. Picture(pics', Len(pics')) = Picture(pics, Len(pics)) \o data
  <2>1. pics'[Len(pics)] = pics[Len(pics)] \o data
    BY <1>2, <1>12
  <2>2. Len(pics) # 0
    BY <1>2
  <2> QED
    BY <1>14, <2>1, <2>2 DEF Picture
<1>17. Len(pics') = Len(pics) + 0
  BY <1>2, <1>14
<1>18. CASE ~clean
  BY <1>12, <1>18 DEF Pictures
<1>19. CASE clean
  BY <1>7, <1>10, <1>11, <1>12, <1>14, <1>15, <1>16, <1>17, <1>19, Grows
<1> QED
  BY <1>18, <1>19

LEMMA SendOtherPictures ==
  ASSUME Inv, Pictures, SendOther
  PROVE  Pictures'
<1>1. PICK p : /\ p = Packet(11, <<5>>) \/ p = Packet(7, Inner)
               /\ Send(p) /\ UNCHANGED pics
  BY DEF SendOther
<1>2. p \in Seq(Byte) /\ ~IsVideo(p)
  <2>1. <<5>> \in Seq(Byte) /\ 5 + Len(<<5>>) <= MaxTotal
    BY Known
  <2>2. Inner \in Seq(Byte) /\ Len(Inner) = InnerLen
    BY Known, ByteIs DEF Inner
  <2>3. 11 \notin Video /\ 5 + Len(Inner) <= MaxTotal /\ Len(Inner) <= InnerLen
    BY <2>2, Known DEF Video
  <2>4. CASE p = Packet(11, <<5>>)
    BY <2>1, <2>3, <2>4, Known, PacketIs, NoVideo DEF WellFormed
  <2>5. CASE p = Packet(7, Inner)
    BY <2>2, <2>3, <2>5, Known, PacketIs, NoVideo DEF WellFormed
  <2> QED
    BY <1>1, <2>4, <2>5
<1> QED
  BY <1>1, <1>2, OtherPictures DEF Send, storeVars

LEMMA CommandPictures ==
  ASSUME Inv, Pictures, WriteInfo \/ WriteOpen
  PROVE  Pictures'
<1>1. /\ UNCHANGED <<jpeg_buf, frames, pics, clean>>
      /\ Command(5, <<9>>) \/ Command(6, <<>>)
  BY DEF WriteInfo, WriteOpen, storeVars
<1>2. CASE UNCHANGED ahead
  BY <1>1, <1>2 DEF Pictures, Published, Foretold, Begun
<1>3. CASE \E p \in Seq(Byte) : /\ ~IsVideo(p)
                                /\ ahead' = IF clean THEN Append(ahead, p) ELSE <<>>
  BY <1>1, <1>3, OtherPictures
<1>4. /\ Packet(5, <<9>>) \in Seq(Byte) /\ ~IsVideo(Packet(5, <<9>>))
      /\ Packet(6, <<>>) \in Seq(Byte) /\ ~IsVideo(Packet(6, <<>>))
  <2>1. <<9>> \in Seq(Byte) /\ 5 + Len(<<9>>) <= MaxTotal
    BY Known
  <2>2. <<>> \in Seq(Byte) /\ 5 + Len(<<>>) <= MaxTotal
    BY Known
  <2>3. 5 \notin Video /\ 6 \notin Video
    BY DEF Video
  <2>4. Packet(5, <<9>>) \in Seq(Byte) /\ ~IsVideo(Packet(5, <<9>>))
    BY <2>1, <2>3, Known, PacketIs, NoVideo DEF WellFormed
  <2>5. Packet(6, <<>>) \in Seq(Byte) /\ ~IsVideo(Packet(6, <<>>))
    <3>1. PICK q : q = <<>>
      OBVIOUS
    <3>2. q \in Seq(Byte) /\ 5 + Len(q) <= MaxTotal
      BY <2>2, <3>1
    <3>3. Packet(6, q) \in Seq(Byte) /\ ~IsVideo(Packet(6, q))
      BY <2>3, <3>2, Known, PacketIs, NoVideo DEF WellFormed
    <3> QED
      BY <3>1, <3>3
  <2> QED
    BY <2>4, <2>5
<1> QED
  BY <1>1, <1>2, <1>3, <1>4 DEF Command

\* Bytes are lost: either a picture may have lost some, or none has.
LEMMA DiscardPictures ==
  ASSUME Inv, Pictures, NEW k, Discard(k), UNCHANGED <<jpeg_buf, frames, pics>>
  PROVE  Pictures'
<1> DEFINE W == {m \in 0 .. Len(ahead) :
                  /\ Len(FlattenSeq(SubSeq(ahead, 1, m))) = k
                  /\ \A i \in 1 .. m : ~IsVideo(ahead[i])}
           ok == clean /\ rx_buf = <<>> /\ W # {}
<1>1. /\ clean' = ok
      /\ ahead' = IF ok THEN SubSeq(ahead, Max(W) + 1, Len(ahead)) ELSE <<>>
  BY DEF Discard
<1>2. CASE ~ok
  <2>1. clean' = FALSE
    BY <1>1, <1>2
  <2> QED
    BY <2>1 DEF Pictures
<1>3. CASE ok
  <2>1. PICK m : m = Max(W)
    OBVIOUS
  <2>2. m \in W
    <3>1. W \subseteq 0 .. Len(ahead) /\ W # {} /\ Len(ahead) \in Nat
      BY <1>3, AheadIs
    <3> HIDE DEF W
    <3> QED
      BY <2>1, <3>1, MaxOf
  <2>3. m \in 0 .. Len(ahead) /\ \A i \in 1 .. m : ~IsVideo(ahead[i])
    BY <2>2
  <2>4. clean /\ UNCHANGED clean /\ ahead' = SubSeq(ahead, m + 1, Len(ahead))
    <3>1. clean /\ clean' = TRUE
      BY <1>1, <1>3
    <3>2. clean = TRUE
      BY <3>1 DEF Inv, Control
    <3>3. ahead' = SubSeq(ahead, m + 1, Len(ahead))
      <4> HIDE DEF W, ok
      <4> QED
        BY <1>1, <1>3, <2>1
    <3> QED
      BY <3>1, <3>2, <3>3
  <2> HIDE DEF W, ok
  <2> QED
    BY <2>3, <2>4, Drops
<1> QED
  BY <1>2, <1>3

\* A step that leaves the pictures and the packets ahead alone.
LEMMA SamePictures ==
  ASSUME Pictures, UNCHANGED <<jpeg_buf, frames, pics, clean, ahead>>
  PROVE  Pictures'
BY DEF Pictures, Published, Foretold, Begun

\* What a flush adds to the frames.
LEMMA FlushKeeps ==
  ASSUME jpeg_buf \in Seq(Byte), frames \in Seq(Seq(Byte)), Flush
  PROVE  frames' = frames \o Kept(jpeg_buf)
<1>1. frames \o <<>> = frames
  BY ConcatEmptySeq
<1>2. CASE jpeg_buf # <<>> /\ Len(Strip(jpeg_buf)) > MinFrame
  <2>1. frames' = Append(frames, Strip(jpeg_buf)) /\ Kept(jpeg_buf) = <<Strip(jpeg_buf)>>
    BY <1>2 DEF Flush, Kept
  <2>2. Strip(jpeg_buf) \in Seq(Byte)
    BY StripIs
  <2>3. Append(frames, Strip(jpeg_buf)) = frames \o <<Strip(jpeg_buf)>>
    BY <2>2, AppendIsConcat
  <2> QED
    BY <2>1, <2>3
<1>3. CASE ~(jpeg_buf # <<>> /\ Len(Strip(jpeg_buf)) > MinFrame)
  <2>1. frames' = frames
    BY <1>3, Zenon DEF Flush, storeVars
  <2>2. CASE jpeg_buf = <<>>
    BY <1>1, <2>1, <2>2, KeptIs, Zenon
  <2>3. CASE ~(Len(Strip(jpeg_buf)) > MinFrame)
    BY <1>1, <2>1, <2>3, Zenon DEF Kept
  <2> QED
    BY <1>3, <2>2, <2>3
<1> QED
  BY <1>2, <1>3

LEMMA ParsePacketPictures ==
  ASSUME Inv, Pictures, ParsePacket
  PROVE  Pictures'
<1>1. /\ 5 <= Len(rx_buf) /\ Total(Trimmed(rx_buf)) <= Len(Trimmed(rx_buf))
      /\ \E q : /\ q = SubSeq(Trimmed(rx_buf), 1, Total(Trimmed(rx_buf)))
                /\ IF IsVideo(q) THEN Assemble(JpegData(q))
                                 ELSE UNCHANGED <<jpeg_buf, storeVars>>
      /\ ahead' = IF clean /\ ahead # <<>> THEN Tail(ahead) ELSE <<>>
      /\ UNCHANGED <<pics, clean>>
  BY DEF ParsePacket, ParseStep, Found, deviceVars
<1>2. CASE ~clean
  BY <1>1, <1>2 DEF Pictures
<1>3. CASE clean
  <2>1. /\ Stream /\ rx_buf \in Seq(Byte) /\ fifo \in Seq(Byte)
        /\ jpeg_buf \in Seq(Byte) /\ frames \in Seq(Seq(Byte))
    BY DEF Inv, Buffers, Store
  <2>2. PICK h : h = Head(ahead)
    OBVIOUS
  <2>3. /\ ahead # <<>> /\ Trimmed(rx_buf) = rx_buf /\ Total(rx_buf) = Len(h)
        /\ Len(h) <= Len(rx_buf) => SubSeq(rx_buf, 1, Len(h)) = h
    BY <1>1, <1>3, <2>1, <2>2, Recognised
  <2>4. IF IsVideo(h) THEN Assemble(JpegData(h)) ELSE UNCHANGED <<jpeg_buf, storeVars>>
    BY <1>1, <2>3
  <2>5. ahead' = Tail(ahead)
    BY <1>1, <1>3, <2>3
  <2>6. CASE Starts(h)
    <3>1. IsVideo(h) /\ IsHead(JpegData(h)) /\ Fragment(h) = JpegData(h)
      BY <2>6 DEF Starts, Fragment
    <3>2. jpeg_buf' = JpegData(h) /\ Flush
      BY <2>4, <3>1, Zenon DEF Assemble
    <3>3. frames' = frames \o Kept(jpeg_buf)
      BY <2>1, <3>2, FlushKeeps
    <3> QED
      BY <1>1, <1>3, <2>2, <2>3, <2>5, <2>6, <3>1, <3>2, <3>3, Takes
  <2>7. CASE ~Starts(h)
    <3>1. jpeg_buf' = jpeg_buf \o Fragment(h) /\ frames' = frames
      <4>1. CASE IsVideo(h)
        <5>1. ~IsHead(JpegData(h)) /\ Fragment(h) = JpegData(h)
          BY <2>7, <4>1 DEF Starts, Fragment
        <5> QED
          BY <2>4, <4>1, <5>1, Zenon DEF Assemble, storeVars
      <4>2. CASE ~IsVideo(h)
        <5>1. jpeg_buf \o <<>> = jpeg_buf
          BY <2>1, ConcatEmptySeq
        <5> QED
          BY <2>4, <4>2, <5>1, Zenon DEF Fragment, storeVars
      <4> QED
        BY <4>1, <4>2
    <3> QED
      BY <1>1, <1>3, <2>2, <2>3, <2>5, <2>7, <3>1, Takes
  <2> QED
    BY <2>6, <2>7
<1> QED
  BY <1>2, <1>3

LEMMA InitPictures == Init => Pictures
<1> SUFFICES ASSUME Init PROVE Pictures
  OBVIOUS
<1>1. /\ jpeg_buf = <<>> /\ frames = <<>> /\ pics = <<>> /\ ahead = <<>>
      /\ Len(pics) = 0 /\ Len(ahead) = 0
  BY DEF Init
<1>2. Heads(ahead) = {} /\ Begun = 0
  <2>1. Heads(ahead) = {}
    BY <1>1 DEF Heads
  <2> QED
    BY <1>1, <2>1, FS_EmptySet DEF Begun
<1>3. Published
  <2>1. [k \in 1 .. Begun - 1 |-> Kept(pics[k])] = <<>>
    BY <1>2
  <2> QED
    BY <1>1, <2>1, FlattenEmpty DEF Published
<1>4. \E num, buf : Foretold(num, buf)
  <2>1. PICK num, buf : num = [i \in {0} |-> 0] /\ buf = [i \in {0} |-> <<>>]
    OBVIOUS
  <2>2. 0 .. Len(ahead) = {0} /\ 0 .. Len(pics) = {0} /\ 1 .. Len(ahead) = {}
    BY <1>1
  <2>3. num \in [{0} -> {0}] /\ buf \in [{0} -> Seq(Byte)] /\ num[0] = 0 /\ buf[0] = <<>>
    BY <2>1
  <2>4. Foretold(num, buf)
    BY <1>1, <1>2, <2>2, <2>3 DEF Foretold, Picture
  <2> QED
    BY <2>4
<1> QED
  BY <1>3, <1>4 DEF Pictures

LEMMA NextPictures ==
  ASSUME Inv, Pictures, [Next]_vars
  PROVE  Pictures'
<1>1. CASE UNCHANGED vars
  BY <1>1, SamePictures DEF vars
<1>2. CASE ReadReply
  <2>1. (\E k : Discard(k)) \/ UNCHANGED <<fifo, clean, ahead>>
    BY <1>2 DEF ReadReply
  <2>2. UNCHANGED <<jpeg_buf, frames, pics>>
    BY <1>2 DEF ReadReply, storeVars, deviceVars
  <2> QED
    BY <2>1, <2>2, DiscardPictures, SamePictures
<1>3. CASE ReadLoses
  <2>1. (\E k : Discard(k)) /\ UNCHANGED <<jpeg_buf, frames, pics>>
    BY <1>3 DEF ReadLoses, storeVars, deviceVars
  <2> QED
    BY <2>1, DiscardPictures
<1>4. CASE Read \/ ParseDone \/ ParseNeedsMore \/ ParseSkip
  <2>1. UNCHANGED <<jpeg_buf, frames, pics, clean, ahead>>
    BY <1>4 DEF Read, ParseDone, ParseNeedsMore, ParseSkip, ParseStep, storeVars, deviceVars
  <2> QED
    BY <2>1, SamePictures
<1> QED
  BY <1>1, <1>2, <1>3, <1>4, SendHeadPictures, SendTailPictures, SendOtherPictures,
     CommandPictures, ParsePacketPictures DEF Next, Device, Camera, Parse

\* Published is WholePictures in other words.
LEMMA PicturesWhole == Inv /\ Pictures => WholePictures
<1> SUFFICES ASSUME Inv, Pictures, clean
             PROVE  frames = FlattenSeq([k \in 1 .. Len(Finished) |-> Kept(Finished[k])])
  BY DEF WholePictures
<1>1. /\ pics \in Seq(Seq(Byte)) /\ Len(pics) \in Nat /\ Begun \in Int /\ Begun <= Len(pics)
  BY AheadIs
<1>2. Begun \in Nat
  <2>1. PICK num, buf : Foretold(num, buf)
    BY DEF Pictures
  <2>2. 0 \in 0 .. Len(ahead)
    BY AheadIs
  <2>3. Begun \in 0 .. Len(pics)
    BY <2>1, <2>2 DEF Foretold
  <2> QED
    BY <2>3
<1>3. Finished = SubSeq(pics, 1, Begun - 1)
  BY DEF Finished, Begun, Heads, Starts
<1>4. PICK n : n = Begun - 1
  OBVIOUS
<1>5. n \in Int /\ n <= Len(pics)
  BY <1>1, <1>2, <1>4
<1>6. /\ Len(Finished) = IF 1 <= n THEN n ELSE 0
      /\ \A k \in 1 .. n : Finished[k] = pics[k]
  <2>1. \A k \in 1 .. n : pics[k] \in Seq(Byte)
    BY <1>1, <1>5
  <2>2. /\ Len(SubSeq(pics, 1, n)) = IF 1 <= n THEN n - 1 + 1 ELSE 0
        /\ \A k \in 1 .. n - 1 + 1 : SubSeq(pics, 1, n)[k] = pics[1 + k - 1]
    BY <1>1, <1>5, <2>1, SubSeqProperties
  <2>3. n - 1 + 1 = n /\ \A k \in 1 .. n : 1 + k - 1 = k
    BY <1>5
  <2> QED
    BY <1>3, <1>4, <2>2, <2>3
<1>7. 1 .. Len(Finished) = 1 .. n
  BY <1>5, <1>6
<1>8. frames = FlattenSeq([k \in 1 .. n |-> Kept(pics[k])])
  BY <1>4 DEF Pictures, Published
<1>9. [k \in 1 .. n |-> Kept(pics[k])] = [k \in 1 .. Len(Finished) |-> Kept(Finished[k])]
  BY <1>6, <1>7
<1> QED
  BY <1>8, <1>9

\* As long as no bytes are lost, the frames that camera_thread has published are
\* the pictures the device has sent, in order and each one whole, however the
\* reads cut them and whatever they contain.
THEOREM PicturesAreWhole == Spec => []WholePictures
<1>1. Inv /\ Pictures /\ [Next]_vars => Pictures'
  BY NextPictures
<1> QED
  BY <1>1, InitPictures, PicturesWhole, Invariant, PTL DEF Spec
=============================================================================
