-------------------------- MODULE Iap2HostsProofs --------------------------
(***************************************************************************)
(* Theorems about Iap2Hosts: any numbers of attempts, any start of the     *)
(* device's sequence numbers, any number of faults and of packets in one   *)
(* transfer.                                                               *)
(*                                                                         *)
(* What a host does to the link is one of a few moves, whatever program it *)
(* is and wherever it stands (Move).  The invariant is proved of the moves *)
(* and of the device's actions.  Without faults a link has two ages: until *)
(* the host has asked for the certificate (Early) and from then on         *)
(* (Running).                                                              *)
(***************************************************************************)
EXTENDS Iap2Hosts, SequenceFacts

-----------------------------------------------------------------------------
(* Packets on the way.                                                     *)

Octet == 0 .. 255

Flags == {"SYN", "ACK", "RST"}

Requests == {"RequestCert", "Challenge", "AuthSucceeded", "StartIdent",
             "IdentAccepted", "StartEA"}

HostPackets ==
  [ctrl : SUBSET Flags, seq : Octet, ack : Octet,
   msg : Requests \union {"marker", "none"}, frame : {0}]

DevicePackets ==
  {p \in [ctrl : SUBSET Flags, seq : Octet, ack : Octet,
          msg : Answers \union {"marker", "none", "video"}, frame : 0 .. MaxVideo] :
     /\ IsVideo(p) => p.frame # 0
     /\ ~IsLink(p) => p.ctrl = {}}

-----------------------------------------------------------------------------
(* The invariant.                                                          *)

Types ==
  /\ TypeOK
  /\ ep01 \in Seq(HostPackets) /\ ep81 \in Seq(DevicePackets)
  /\ pending = "video" => video # 0

\* The packets of video data written and to be read, in order, none of them
\* newer than the last one sent.
Watched == file \o Frames(ep81)

Ordered(w) == \A i, j \in 1 .. Len(w) : i <= j => w[i] <= w[j]

VideoInv == Ordered(Watched) /\ \A i \in 1 .. Len(Watched) : Watched[i] <= video

\* Messages of the host on the way, and their numbers.
IsMessage(q) == q.msg \in Requests

Sent(ps) == FlattenSeq([i \in 1 .. Len(ps) |-> MessageSeq(ps[i])])

InSequence(ps, h, t) ==
  /\ \A i \in 1 .. Len(Sent(ps)) : Sent(ps)[i] = (h + i) % 256
  /\ t = (h + Len(Sent(ps))) % 256

\* Until the certificate is asked for, the host sends nothing but markers and
\* answers to the SYN, and the device has nothing to say.
Opening == {q \in HostPackets :
              /\ q.msg \in {"marker", "none"}
              /\ "ACK" \in q.ctrl => "SYN" \in q.ctrl
              /\ "SYN" \in q.ctrl => q.seq = 0}

Silent == {p \in DevicePackets :
             /\ p.msg \in {"marker", "none"}
             /\ IsLink(p) => p.seq = dseq
             /\ "ACK" \in p.ctrl => link = "up"}

Early ==
  /\ pc \in {"drain", "detect", "negotiate", "failed"}
  /\ tx = 0 /\ hseq = 0 /\ pending = "none" /\ todo = <<>> /\ acked = {} /\ ~streaming
  /\ ep01 \in Seq(Opening) /\ ep81 \in Seq(Silent)
  /\ "ACK" \in seen => link = "up"
  /\ "SYN" \in seen \/ (pc = "negotiate" /\ program # "viewer") => rx = dseq

\* The device's last number but one.
Before(s) == (s + 255) % 256

\* The packet carries a message or video data.
Worded(p) == IsCsm(p) \/ IsVideo(p)

\* What the device sent before its last message, and since then.
Old == {p \in DevicePackets :
          /\ IsLink(p) => p.seq = Before(dseq)
          /\ Worded(p) => p.msg \in acked}

New == {p \in DevicePackets :
          /\ IsLink(p) => p.seq = dseq
          /\ Worded(p) => p.msg \in IF pending = "none" THEN acked ELSE {pending}
          /\ "SYN" \in p.ctrl => pending = "none"}

\* What the host sent before it had the device's last message, and since.
IsAck(q) == IsLink(q) /\ q.ctrl = {"ACK"}

Acking(s) == {q \in HostPackets : IsAck(q) => q.ack = s}

Window ==
  \/ /\ rx = dseq /\ ep81 \in Seq(New)
     /\ Parts(ep01, Acking(Before(dseq)), Acking(dseq))
     /\ pending = "none" => ep01 \in Seq(Acking(dseq))
  \/ /\ rx = Before(dseq) /\ pending # "none" /\ Parts(ep81, Old, New)
     /\ ep01 \in Seq(Acking(Before(dseq)))

\* Answers to the SYN come before the messages.
NonSyn == {q \in HostPackets : "SYN" \notin q.ctrl}

SynsFirst == ep01 \in Seq(NonSyn) \/ (hseq = 0 /\ Parts(ep01, Opening, NonSyn))

\* What has been asked for, and what may therefore be answered.
Late(places) == pc \in places \union {"failed"}

Ended == {"last_drain", "status", "video", "done"}

Said ==
  {"RequestCert", "AuthSucceeded"}
    \union (IF pc # "auth" \/ program = "viewer" THEN {"Challenge"} ELSE {})
    \union (IF Late(Ended \union {"identify"}) THEN {"StartIdent", "IdentAccepted"} ELSE {})
    \union (IF Late({"status", "video", "done"}) THEN {"StartEA"} ELSE {})

Answerable ==
  {"Cert"}
    \union (IF "Challenge" \in Said THEN {"Response"} ELSE {})
    \union (IF "StartIdent" \in Said THEN {"IdentInfo"} ELSE {})

Asked ==
  /\ ep01 \in Seq({q \in HostPackets : IsMessage(q) => q.msg \in Said})
  /\ todo \in Seq(Answerable)
  /\ pending \in Answerable \union {"none", "video"}
  /\ acked \subseteq Answerable \union {"video"}
  /\ streaming \/ pending = "video" \/ "video" \in acked => "StartEA" \in Said

\* The host has acted upon the answer m.
Used(m) ==
  CASE m = "IdentInfo" -> pc \in Ended
    [] m = "Response"  -> pc \notin {"auth", "challenge"}
    [] m = "Cert"      -> program = "viewer" \/ pc # "auth"
    [] OTHER           -> TRUE

UsedInv ==
  /\ \A m \in acked : Used(m)
  /\ rx = dseq => Used(pending)

\* The certificate is the first thing the device is asked for, and sends.
CertFirst ==
  \/ /\ pending = "none" /\ todo = <<>> /\ acked = {} /\ ~streaming
     /\ \E k \in 1 .. Len(ep01) :
          /\ ep01[k].msg = "RequestCert" /\ "SYN" \notin ep01[k].ctrl
          /\ \A i \in 1 .. k - 1 : ~IsMessage(ep01[i])
  \/ pending = "none" /\ acked = {} /\ todo # <<>> /\ Head(todo) = "Cert"
  \/ pending = "Cert" /\ acked = {}
  \/ "Cert" \in acked

\* The identification is accepted, or will be.
Accepted ==
  pc \in Ended /\ program # "full" =>
    /\ "Cert" \in acked
    /\ \/ identified
       \/ \E k \in 1 .. Len(ep01) :
            /\ ep01[k].msg = "IdentAccepted" /\ "SYN" \notin ep01[k].ctrl
            /\ \/ "IdentInfo" \in acked
               \/ pending = "IdentInfo" /\ ep01[k].ack = dseq

Running ==
  /\ link = "up" /\ pc \in Established \union {"failed"}
  /\ Window
  /\ InSequence(ep01, hseq, tx) /\ SynsFirst
  /\ Asked /\ UsedInv /\ CertFirst /\ Accepted

Inv ==
  /\ Types
  /\ VideoInv
  /\ faults = 0 => Early \/ Running

-----------------------------------------------------------------------------
(* Packets and their fields.                                               *)

LEMMA OctetIs == \A n : n \in Octet <=> n \in Nat /\ n < 256
BY DEF Octet

LEMMA Answered ==
  ASSUME NEW m \in Requests
  PROVE  Replies[m] \in Seq(Answers)
<1>1. /\ <<"Cert">> \in Seq(Answers) /\ <<"Response">> \in Seq(Answers)
      /\ <<"IdentInfo">> \in Seq(Answers) /\ <<>> \in Seq(Answers)
  BY DEF Answers
<1>2. /\ Replies["RequestCert"] = <<"Cert">> /\ Replies["Challenge"] = <<"Response">>
      /\ Replies["AuthSucceeded"] = <<>> /\ Replies["StartIdent"] = <<"IdentInfo">>
      /\ Replies["IdentAccepted"] = <<>> /\ Replies["StartEA"] = <<>>
  BY DEF Replies
<1> QED
  BY <1>1, <1>2 DEF Requests

LEMMA RequestsAre == DOMAIN Replies = Requests
BY DEF Replies, Requests

LEMMA HostPacketIs ==
  ASSUME NEW c \in SUBSET Flags, NEW s \in Octet, NEW a \in Octet,
         NEW m \in Requests \union {"marker", "none"}
  PROVE  /\ Packet(c, s, a, m) \in HostPackets
         /\ Packet(c, s, a, m).ctrl = c /\ Packet(c, s, a, m).seq = s
         /\ Packet(c, s, a, m).ack = a /\ Packet(c, s, a, m).msg = m
BY DEF Packet, HostPackets

LEMMA MarkerIs ==
  /\ Marker \in HostPackets /\ Marker \in DevicePackets
  /\ Marker.ctrl = {} /\ Marker.msg = "marker"
<1>1. 0 \in Octet /\ 0 \in 0 .. MaxVideo /\ {} \in SUBSET Flags
  BY LinkAssumption DEF Octet
<1> QED
  BY <1>1 DEF Marker, Packet, HostPackets, DevicePackets, IsVideo, IsLink

LEMMA SynAckIs ==
  ASSUME NEW s \in Octet, NEW a \in Octet
  PROVE  /\ SynAck(s, a) \in HostPackets
         /\ SynAck(s, a).ctrl = {"SYN", "ACK"} /\ SynAck(s, a).seq = s
         /\ SynAck(s, a).ack = a /\ SynAck(s, a).msg = "none"
<1>1. {"SYN", "ACK"} \in SUBSET Flags /\ "none" \in Requests \union {"marker", "none"}
  BY DEF Flags
<1> QED
  BY <1>1, HostPacketIs DEF SynAck

LEMMA AckOnlyIs ==
  ASSUME NEW s \in Octet, NEW a \in Octet
  PROVE  /\ AckOnly(s, a) \in HostPackets /\ AckOnly(s, a) \in DevicePackets
         /\ AckOnly(s, a).ctrl = {"ACK"} /\ AckOnly(s, a).seq = s
         /\ AckOnly(s, a).ack = a /\ AckOnly(s, a).msg = "none"
<1>1. {"ACK"} \in SUBSET Flags /\ "none" \in Requests \union {"marker", "none"}
  BY DEF Flags
<1>2. 0 \in 0 .. MaxVideo
  BY LinkAssumption
<1>3. AckOnly(s, a) \in DevicePackets
  BY <1>1, <1>2 DEF AckOnly, Packet, DevicePackets, IsVideo, IsLink
<1> QED
  BY <1>1, <1>3, HostPacketIs DEF AckOnly

LEMMA DataIs ==
  ASSUME NEW s \in Octet, NEW a \in Octet, NEW m \in Requests
  PROVE  /\ Data(s, a, m) \in HostPackets
         /\ Data(s, a, m).ctrl = {"ACK"} /\ Data(s, a, m).seq = s
         /\ Data(s, a, m).ack = a /\ Data(s, a, m).msg = m
<1>1. {"ACK"} \in SUBSET Flags /\ m \in Requests \union {"marker", "none"}
  BY DEF Flags
<1> QED
  BY <1>1, HostPacketIs DEF Data

LEMMA DeviceDataIs ==
  ASSUME NEW s \in Octet, NEW a \in Octet, NEW m \in Answers \union {"video"},
         NEW v \in 0 .. MaxVideo, m = "video" => v # 0
  PROVE  LET p == [Data(s, a, m) EXCEPT !.frame = v]
         IN  /\ p \in DevicePackets
             /\ p.ctrl = {"ACK"} /\ p.seq = s /\ p.ack = a /\ p.msg = m /\ p.frame = v
<1>1. {"ACK"} \in SUBSET Flags /\ m \in Answers \union {"marker", "none", "video"}
      /\ m # "marker"
  BY DEF Flags, Answers
<1> QED
  BY <1>1 DEF Data, Packet, DevicePackets, IsVideo, IsLink

LEMMA SynIs ==
  ASSUME NEW s \in Octet
  PROVE  /\ Syn(s) \in DevicePackets
         /\ Syn(s).ctrl = {"SYN"} /\ Syn(s).seq = s /\ Syn(s).msg = "none"
<1>1. {"SYN"} \in SUBSET Flags /\ 0 \in 0 .. MaxVideo /\ 0 \in Octet
  BY LinkAssumption DEF Flags, Octet
<1> QED
  BY <1>1 DEF Syn, Packet, DevicePackets, IsVideo, IsLink

LEMMA RstIs == Rst \in DevicePackets
<1>1. {"RST"} \in SUBSET Flags /\ 0 \in 0 .. MaxVideo /\ 0 \in Octet
  BY LinkAssumption DEF Flags, Octet
<1> QED
  BY <1>1 DEF Rst, Packet, DevicePackets, IsVideo, IsLink

\* What a packet is taken for.
LEMMA KindsOfPacket ==
  ASSUME NEW p \in DevicePackets
  PROVE  /\ IsCsm(p) <=> p.msg \in Answers
         /\ Worded(p) <=> p.msg \in Answers \union {"video"}
         /\ HasPayload(p) <=> Worded(p) \/ "SYN" \in p.ctrl
         /\ HasPayload(p) => IsLink(p)
         /\ p.seq \in Octet /\ p.ack \in Octet
BY RequestsAre
   DEF DevicePackets, IsCsm, HasPayload, Worded, IsVideo, IsLink, Csm, Answers, Requests

-----------------------------------------------------------------------------
(* Reading and writing.                                                    *)

\* The transfer d has been read.
Heard(d) ==
  /\ d \in Seq(DevicePackets) /\ ep81' \in Seq(DevicePackets) /\ ep81 = d \o ep81'

From(p, d) == \E i \in 1 .. Len(d) : p = d[i]

LEMMA NothingHeard ==
  ASSUME Types, UNCHANGED ep81
  PROVE  Heard(<<>>)
<1>1. ep81 \in Seq(DevicePackets)
  BY DEF Types
<1>2. <<>> \in Seq(DevicePackets) /\ <<>> \o ep81 = ep81
  BY <1>1, ConcatEmptySeq
<1> QED
  BY <1>1, <1>2 DEF Heard

LEMMA TransferHeard ==
  ASSUME Types, NEW d \in Transfers, Receive(d)
  PROVE  /\ Heard(d) /\ late' \in BOOLEAN
         /\ Head(d) \in DevicePackets /\ From(Head(d), d)
         /\ Len(d) \in Nat /\ d # <<>>
<1>1. ep81 \in Seq(DevicePackets) /\ late \in BOOLEAN /\ Len(ep81) \in Nat
  BY LenProperties DEF Types, TypeOK
<1>2. PICK k \in 1 .. Min({MaxJoin, Len(ep81)}) : d = SubSeq(ep81, 1, k)
  BY DEF Transfers
<1>3. k \in 0 .. Len(ep81)
  <2>1. MaxJoin \in Nat
    BY LinkAssumption
  <2>2. Min({MaxJoin, Len(ep81)}) \in {MaxJoin, Len(ep81)}
        /\ Min({MaxJoin, Len(ep81)}) <= Len(ep81)
    BY <1>1, <2>1, MinOf
  <2>3. Min({MaxJoin, Len(ep81)}) \in Nat
    BY <1>1, <2>1, <2>2
  <2> QED
    BY <1>1, <2>2, <2>3
<1>4. d \in Seq(DevicePackets) /\ Len(d) = k
      /\ SubSeq(ep81, k + 1, Len(ep81)) \in Seq(DevicePackets)
  BY <1>1, <1>2, <1>3, Split
<1>5. ep81' = SubSeq(ep81, k + 1, Len(ep81)) /\ ep81 = d \o SubSeq(ep81, k + 1, Len(ep81))
      /\ late' = late
  BY <1>4 DEF Receive
<1>6. Len(d) \in Nat /\ 1 <= Len(d) /\ d # <<>>
  BY <1>3, <1>4 DEF Receive
<1>7. Head(d) = d[1] /\ 1 \in 1 .. Len(d)
  BY <1>4, <1>6
<1>8. d[1] \in DevicePackets
  BY <1>4, <1>7, ElementOfSeq
<1> QED
  BY <1>1, <1>4, <1>5, <1>6, <1>7, <1>8 DEF Heard, From

\* The packets ps are written, or nothing is.
LEMMA Written ==
  ASSUME Types, NEW ps \in Seq(HostPackets), Write(ps)
  PROVE  /\ ep01' \in Seq(HostPackets) /\ faults' \in 0 .. MaxFaults
         /\ faults' = 0 => faults = 0 /\ ep01' = ep01 \o ps
<1>1. ep01 \in Seq(HostPackets) /\ faults \in 0 .. MaxFaults /\ MaxFaults \in Nat
  BY LinkAssumption DEF Types, TypeOK
<1>2. CASE ep01' = ep01 \o ps /\ UNCHANGED faults
  BY <1>1, <1>2, ConcatProperties
<1>3. CASE faults < MaxFaults /\ faults' = faults + 1
           /\ \E i \in DOMAIN ps : ep01' = ep01 \o RemoveAt(ps, i)
  <2>1. PICK i \in DOMAIN ps : ep01' = ep01 \o RemoveAt(ps, i)
    BY <1>3
  <2>2. Len(ps) \in Nat /\ i \in 1 .. Len(ps)
    BY LenProperties
  <2>3. i \in 0 .. Len(ps) /\ i - 1 \in 0 .. Len(ps)
    BY <2>2
  <2>4. SubSeq(ps, 1, i - 1) \in Seq(HostPackets) /\ SubSeq(ps, i + 1, Len(ps)) \in Seq(HostPackets)
    BY <2>3, Split
  <2>5. RemoveAt(ps, i) \in Seq(HostPackets)
    BY <2>4, ConcatProperties DEF RemoveAt
  <2>6. ep01' \in Seq(HostPackets)
    BY <1>1, <2>1, <2>5, ConcatProperties
  <2> QED
    BY <1>1, <1>3, <2>6
<1> QED
  BY <1>2, <1>3 DEF Write

-----------------------------------------------------------------------------
(* What a host's step does to the link.                                    *)

Most == Max({Tries, Drains})

Counted == pc' \in Places /\ tries' \in 0 .. Most /\ pings' \in 0 .. Pings

\* A packet in d that holds the flag f.
Flagged(d, f) == \E p \in DevicePackets : From(p, d) /\ f \in p.ctrl

Noticed(d) ==
  /\ seen' \subseteq {"marker", "SYN", "ACK"}
  /\ "ACK" \in seen' => "ACK" \in seen \/ Flagged(d, "ACK")

Keeps(d) ==
  \/ file' = file
  \/ file' = file \o Frames(d)
  \/ d # <<>> /\ file' = file \o Frames(<<Head(d)>>)

Speaks(ps) == Write(ps) \/ (ps = <<>> /\ WriteNothing)

\* rx becomes the number of a packet of the link that was read.
Follows(d) == \E p \in DevicePackets : From(p, d) /\ IsLink(p) /\ rx' = p.seq

Quiet(d) ==
  /\ UNCHANGED <<tx, rx>>
  /\ \/ Speaks(<<>>)
     \/ pc \in {"drain", "detect", "negotiate"} /\ Write(<<Marker>>)
  /\ "SYN" \in seen' => "SYN" \in seen
  /\ \/ pc' = pc
     \/ pc' = "failed" /\ pc \notin Ended
     \/ pc = "drain" /\ pc' = "detect"
     \/ pc \in {"detect", "negotiate"} /\ pc' = "negotiate" /\ program = "viewer"
     \/ pc = "auth" /\ pc' = "accept" /\ program = "stream"
     \/ pc = "last_drain" /\ pc' = "done"
     \/ pc = "status" /\ pc' = "video"
     \/ pc = "video" /\ pc' = "done"

Greet(d) ==
  /\ pc \in {"detect", "negotiate"} /\ pc' \in {"negotiate", "failed"}
  /\ Follows(d) /\ UNCHANGED tx /\ Write(<<SynAck(tx, rx')>>)

AskCert(d) ==
  /\ pc \in {"detect", "negotiate"} /\ pc' = "auth"
  /\ "ACK" \in seen \/ Flagged(d, "ACK")
  /\ \/ Follows(d)
     \/ UNCHANGED rx /\ ("SYN" \in seen \/ (pc = "negotiate" /\ program # "viewer"))
  /\ tx' = NextSeq(tx)
  /\ \/ Write(<<Data(tx', rx', "RequestCert")>>)
     \/ Write(<<SynAck(tx, rx'), Data(tx', rx', "RequestCert")>>)

Say ==
  /\ tx' = NextSeq(tx) /\ UNCHANGED rx
  /\ \E m \in Requests :
       /\ Write(<<Data(tx', rx, m)>>)
       /\ \/ pc = "accept" /\ pc' = "auth_drain" /\ m = "AuthSucceeded"
          \/ pc = "auth_drain" /\ pc' = "identify" /\ m = "StartIdent"
          \/ pc = "last_drain" /\ pc' = "status" /\ m = "StartEA"
          \/ program = "full" /\ pc = "challenge" /\ pc' = "identify" /\ m = "StartIdent"
          \/ program = "full" /\ pc = "identify" /\ pc' = "video" /\ m = "StartEA"

\* The packet p is not what the host waits for.
NotAwaited(p) ==
  /\ p.msg = "Cert" => program = "viewer" \/ pc # "auth"
  /\ p.msg = "Response" => pc # "challenge" /\ (pc = "auth" => program # "viewer")
  /\ p.msg = "IdentInfo" => pc # "identify"

TakeOnly(p) ==
  /\ UNCHANGED tx
  /\ Speaks(<<>>) \/ Write(<<AckOnly(tx, rx')>>)
  /\ \/ /\ pc' = pc /\ pc \in Established
        /\ pc \in Ended \/ (HasPayload(p) /\ NotAwaited(p))
     \/ pc = "auth" /\ p.msg = "Cert" /\ pc' = "accept"

TakeAndSay(p) ==
  /\ tx' = NextSeq(tx)
  /\ \E m \in Requests :
       /\ \/ Write(<<Data(tx', rx', m)>>)
          \/ Write(<<AckOnly(tx, rx'), Data(tx', rx', m)>>)
       /\ \/ /\ pc = "auth" /\ p.msg = "Cert" /\ m = "Challenge"
             /\ pc' = IF program = "viewer" THEN "auth" ELSE "challenge"
          \/ /\ pc = "challenge" /\ p.msg = "Response" /\ m = "AuthSucceeded"
             /\ pc' = "auth_drain"
          \/ /\ pc = "identify" /\ p.msg = "IdentInfo" /\ m = "IdentAccepted"
             /\ pc' = "last_drain"
          \/ pc \in {"auth", "challenge", "identify"} /\ IsVideo(p)

TakeAndSayTwo(p) ==
  /\ tx' = NextSeq(NextSeq(tx))
  /\ \E m, n \in Requests :
       /\ Write(<<AckOnly(tx, rx'), Data(NextSeq(tx), rx', m), Data(tx', rx', n)>>)
       /\ \/ /\ pc = "challenge" \/ (pc = "auth" /\ program = "viewer")
             /\ p.msg = "Response" /\ m = "AuthSucceeded" /\ n = "StartIdent"
             /\ pc' = "identify"
          \/ /\ pc = "identify" /\ p.msg = "IdentInfo"
             /\ m = "IdentAccepted" /\ n = "StartEA"
             /\ pc' = "video"

Take(d) ==
  \E p \in DevicePackets :
    /\ From(p, d) /\ IsLink(p) /\ rx' = p.seq
    /\ TakeOnly(p) \/ TakeAndSay(p) \/ TakeAndSayTwo(p)

AckVideo(d) ==
  /\ pc = "video" /\ pc' = pc /\ UNCHANGED tx /\ rx' = LastSeq(d)
  /\ Write(Acks(d)) \/ Speaks(<<>>)

Move(d) ==
  /\ Heard(d) /\ Keeps(d) /\ Noticed(d)
  /\ Quiet(d) \/ Greet(d) \/ AskCert(d) \/ Say \/ Take(d) \/ AckVideo(d)
  /\ Counted /\ late' \in BOOLEAN /\ UNCHANGED <<program, deviceVars>>

HostMove == \E d : Move(d)

-----------------------------------------------------------------------------
(* Every action of the programs is such a move.                            *)

LEMMA MostIs ==
  /\ Most \in Nat /\ 1 <= Most /\ Tries <= Most /\ Drains <= Most
  /\ Tries \in Nat /\ 1 <= Tries /\ Drains \in Nat /\ 1 <= Drains
<1>1. Tries \in Nat /\ 1 <= Tries /\ Drains \in Nat /\ 1 <= Drains
  BY LinkAssumption
<1> DEFINE T == {Tries, Drains}
<1>2. T \subseteq 0 .. Tries + Drains /\ T # {} /\ Tries + Drains \in Nat
  BY <1>1
<1>3. Tries \in T /\ Drains \in T /\ \A x \in T : x = Tries \/ x = Drains
  OBVIOUS
<1> HIDE DEF T
<1>4. Max(T) \in T /\ \A y \in T : Max(T) >= y
  BY <1>2, MaxOf
<1>5. Most = Max(T)
  BY DEF Most, T
<1> QED
  BY <1>1, <1>3, <1>4, <1>5

LEMMA Counting ==
  ASSUME Types
  PROVE  /\ tries \in 0 .. Most /\ pings \in 0 .. Pings /\ pc \in Places
         /\ seen \subseteq {"marker", "SYN", "ACK"}
         /\ Again => tries' \in 0 .. Most /\ pc' = pc
         /\ \A at : Enter(at) => tries' \in 0 .. Most /\ pc' = at
         /\ tries < Drains /\ tries' = tries + 1 => tries' \in 0 .. Most
         /\ tries < Tries /\ tries' = tries + 1 => tries' \in 0 .. Most
         /\ tries < Tries /\ tries' = 1 => tries' \in 0 .. Most
<1>1. /\ tries \in 0 .. Most /\ pings \in 0 .. Pings /\ pc \in Places
      /\ seen \subseteq {"marker", "SYN", "ACK"}
  BY DEF Types, TypeOK, Most
<1> QED
  BY <1>1, MostIs DEF Again, Enter

\* Nothing is read.
LEMMA Timeout ==
  ASSUME Types, NoData \/ NoDataYet \/ UNCHANGED <<ep81, late>>
  PROVE  Heard(<<>>) /\ late' \in BOOLEAN
<1>1. UNCHANGED ep81 /\ late' \in BOOLEAN
  BY DEF NoData, NoDataYet, DeviceHasMore, Types, TypeOK
<1> QED
  BY <1>1, NothingHeard

LEMMA AcceptNone ==
  ASSUME Types, NEW p, Accept(p, <<>>)
  PROVE  rx' = p.seq /\ tx' = tx /\ Write(<<AckOnly(tx, rx')>>)
<1>1. tx \in 0 .. 255
  BY DEF Types, TypeOK
<1>2. (tx + Len(<<>>)) % 256 = tx
  BY <1>1
<1> DEFINE a == AckOnly(tx, rx')
           g == [i \in DOMAIN <<>> |-> Data((tx + i) % 256, rx', <<>>[i])]
<1>3. g = <<>>
  OBVIOUS
<1>4. <<a>> \o <<>> = <<a>>
  OBVIOUS
<1>5. rx' = p.seq /\ tx' = (tx + Len(<<>>)) % 256 /\ Write(<<a>> \o g)
  BY DEF Accept
<1> HIDE DEF a, g
<1>6. rx' = p.seq /\ tx' = tx /\ Write(<<a>>)
  BY <1>2, <1>3, <1>4, <1>5, Zenon
<1> QED
  BY <1>6 DEF a

LEMMA AcceptOne ==
  ASSUME Types, NEW p, NEW m, Accept(p, <<m>>)
  PROVE  /\ rx' = p.seq /\ tx' = NextSeq(tx)
         /\ Write(<<AckOnly(tx, rx'), Data(tx', rx', m)>>)
<1> DEFINE a == AckOnly(tx, rx')
           g == [i \in DOMAIN <<m>> |-> Data((tx + i) % 256, rx', <<m>>[i])]
           x == Data(NextSeq(tx), rx', m)
<1>1. g = <<x>>
  BY DEF NextSeq
<1>2. (tx + Len(<<m>>)) % 256 = NextSeq(tx)
  BY DEF NextSeq
<1>3. <<a>> \o <<x>> = <<a, x>>
  BY TwoOf
<1>5. rx' = p.seq /\ tx' = (tx + Len(<<m>>)) % 256 /\ Write(<<a>> \o g)
  BY DEF Accept
<1> HIDE DEF a, g
<1>6. rx' = p.seq /\ tx' = NextSeq(tx) /\ Write(<<a, x>>)
  BY <1>1, <1>2, <1>3, <1>5, Zenon
<1> QED
  BY <1>6, Zenon DEF a

LEMMA AcceptTwo ==
  ASSUME Types, NEW p, NEW m, NEW n, Accept(p, <<m, n>>)
  PROVE  /\ rx' = p.seq /\ tx' = NextSeq(NextSeq(tx))
         /\ Write(<<AckOnly(tx, rx'), Data(NextSeq(tx), rx', m), Data(tx', rx', n)>>)
<1> DEFINE a == AckOnly(tx, rx')
           g == [i \in DOMAIN <<m, n>> |-> Data((tx + i) % 256, rx', <<m, n>>[i])]
           x == Data(NextSeq(tx), rx', m)
           y == Data(NextSeq(NextSeq(tx)), rx', n)
<1>0. tx \in 0 .. 255
  BY DEF Types, TypeOK
<1>1. NextSeq(tx) = (tx + 1) % 256 /\ NextSeq(NextSeq(tx)) = (tx + 2) % 256
  BY <1>0 DEF NextSeq
<1>2. g = <<x, y>>
  <2> DEFINE f(i) == Data((tx + i) % 256, rx', <<m, n>>[i])
  <2>1. f(1) = x /\ f(2) = y
    BY <1>1
  <2>2. g = [i \in 1 .. 2 |-> f(i)]
    OBVIOUS
  <2> HIDE DEF f, x, y
  <2> QED
    BY <2>1, <2>2
<1>3. (tx + Len(<<m, n>>)) % 256 = NextSeq(NextSeq(tx))
  BY <1>1
<1>4. <<a>> \o <<x, y>> = <<a, x, y>>
  BY ThreeOf
<1>5. rx' = p.seq /\ tx' = (tx + Len(<<m, n>>)) % 256 /\ Write(<<a>> \o g)
  BY DEF Accept
<1> HIDE DEF a, g
<1>6. rx' = p.seq /\ tx' = NextSeq(NextSeq(tx)) /\ Write(<<a, x, y>>)
  BY <1>2, <1>3, <1>4, <1>5, Zenon
<1> QED
  BY <1>6, Zenon DEF a

\* The transfer d is read, or nothing is and d is empty.
Hears(d) == Heard(d) /\ late' \in BOOLEAN

LEMMA HearsNothing ==
  ASSUME Types, NoData \/ NoDataYet \/ UNCHANGED <<ep81, late>> \/ OutOfTries \/ Drained
  PROVE  Hears(<<>>)
<1>1. NoData \/ NoDataYet \/ UNCHANGED <<ep81, late>>
  BY DEF OutOfTries, Drained
<1> QED
  BY <1>1, Timeout DEF Hears

\* Counters and what was seen, in a step that leaves them.
LEMMA Counts ==
  ASSUME Types
  PROVE  /\ KeepsSeen => pings' \in 0 .. Pings /\ \A d : Noticed(d)
         /\ KeepsSeen => ("SYN" \in seen' => "SYN" \in seen)
         /\ UNCHANGED pc => pc' \in Places
         /\ UNCHANGED tries => tries' \in 0 .. Most
         /\ UNCHANGED pings => pings' \in 0 .. Pings
BY Counting DEF KeepsSeen, Noticed

LEMMA QuietMove ==
  ASSUME Types, HostStep, NEW d, Hears(d), Counted, Noticed(d), Keeps(d), Quiet(d)
  PROVE  HostMove
BY DEF HostStep, Hears, Move, HostMove

LEMMA DrainReads ==
  ASSUME Types, HostStep, DrainRead
  PROVE  HostMove
<1>1. /\ KeepsSeq /\ KeepsSeen /\ UNCHANGED <<pc, file>> /\ WriteNothing
      /\ tries < Drains /\ tries' = tries + 1
  BY DEF DrainRead
<1>2. PICK d : Hears(d)
  <2>1. CASE NoDataYet
    BY <2>1, HearsNothing
  <2>2. CASE \E d \in Transfers : Receive(d)
    BY <2>2, TransferHeard DEF Hears
  <2> QED
    BY <2>1, <2>2 DEF DrainRead
<1>3. Counted
  BY <1>1, Counting, Counts DEF Counted
<1>4. Quiet(d) /\ Keeps(d) /\ Noticed(d)
  BY <1>1, Counts DEF Quiet, Keeps, Speaks, KeepsSeq
<1> QED
  BY <1>2, <1>3, <1>4, QuietMove

\* A marker written, or nothing, and no transfer read.
LEMMA StartDetectMoves ==
  ASSUME Types, HostStep, StartDetect
  PROVE  HostMove
<1>1. CASE DrainRead
  BY <1>1, DrainReads
<1>2. CASE Drained /\ Enter("detect") /\ Write(<<Marker>>) /\ KeepsSeq
  <2>1. Hears(<<>>)
    BY <1>2, HearsNothing
  <2>2. Counted /\ Noticed(<<>>) /\ Keeps(<<>>)
    BY <1>2, Counting, Counts DEF Drained, Enter, Counted, Places, Keeps
  <2>3. Quiet(<<>>)
    BY <1>2, Counts DEF Quiet, Drained, Enter, StartDetect, KeepsSeq
  <2> QED
    BY <2>1, <2>2, <2>3, QuietMove
<1> QED
  BY <1>1, <1>2 DEF StartDetect

\* The reads that bring nothing.
LEMMA SilentMoves ==
  ASSUME Types, HostStep, KeepsSeen, UNCHANGED file,
         \/ Silence
         \/ pc \in {"detect", "negotiate"} /\ DetectSilence
         \/ pc \notin Ended /\ NoAnswer
  PROVE  HostMove
<1>1. CASE Silence
  <2>1. Hears(<<>>)
    BY <1>1, HearsNothing DEF Silence
  <2>2. Counted /\ Noticed(<<>>) /\ Keeps(<<>>)
    BY <1>1, Counting, Counts DEF Silence, Again, Counted, Keeps
  <2>3. Quiet(<<>>)
    BY <1>1, Counts DEF Quiet, Silence, Again, KeepsSeq, Speaks
  <2> QED
    BY <2>1, <2>2, <2>3, QuietMove
<1>2. CASE pc \in {"detect", "negotiate"} /\ DetectSilence
  <2>1. Hears(<<>>)
    BY <1>2, HearsNothing DEF DetectSilence
  <2>2. Counted /\ Noticed(<<>>) /\ Keeps(<<>>)
    BY <1>2, Counting, Counts DEF DetectSilence, Again, Counted, Keeps
  <2>3. Quiet(<<>>)
    BY <1>2, Counts DEF Quiet, DetectSilence, Again, KeepsSeq, Speaks
  <2> QED
    BY <2>1, <2>2, <2>3, QuietMove
<1>3. CASE pc \notin Ended /\ NoAnswer
  <2>1. Hears(<<>>)
    BY <1>3, HearsNothing DEF NoAnswer
  <2>2. Counted /\ Noticed(<<>>) /\ Keeps(<<>>)
    BY <1>3, Counting, Counts DEF NoAnswer, Enter, Counted, Keeps, Places
  <2>3. Quiet(<<>>)
    BY <1>3, Counts DEF Quiet, NoAnswer, Enter, KeepsSeq, Speaks
  <2> QED
    BY <2>1, <2>2, <2>3, QuietMove
<1> QED
  BY <1>1, <1>2, <1>3

\* A packet with a flag belongs to the link.
LEMMA FlagsOnLink ==
  ASSUME NEW p \in DevicePackets, p.ctrl # {}
  PROVE  IsLink(p)
BY DEF DevicePackets

LEMMA TransferHears ==
  ASSUME Types, NEW d \in Transfers, Receive(d)
  PROVE  /\ Hears(d) /\ d # <<>>
         /\ Head(d) \in DevicePackets /\ From(Head(d), d)
BY TransferHeard DEF Hears

\* The first packet of the link in a transfer.
LEMMA LinkFound ==
  ASSUME Types, NEW d \in Transfers, Receive(d),
         NEW links, links = {i \in 1 .. Len(d) : IsLink(d[i])}, links # {}
  PROVE  /\ d[Min(links)] \in DevicePackets /\ From(d[Min(links)], d)
         /\ IsLink(d[Min(links)])
<1>1. d \in Seq(DevicePackets)
  BY TransferHeard DEF Heard
<1>2. links \subseteq Nat
  OBVIOUS
<1>3. Min(links) \in links
  BY <1>2, MinOf
<1>4. Min(links) \in 1 .. Len(d) /\ IsLink(d[Min(links)])
  BY <1>3
<1>5. d[Min(links)] \in DevicePackets
  BY <1>1, <1>4, ElementOfSeq
<1> QED
  BY <1>4, <1>5 DEF From

LEMMA GreetMove ==
  ASSUME Types, HostStep, NEW d \in Transfers, Receive(d), KeepsSeen, UNCHANGED file,
         NEW p \in DevicePackets, From(p, d), IsLink(p),
         pc \in {"detect", "negotiate"}, rx' = p.seq, UNCHANGED tx,
         Write(<<SynAck(tx, rx')>>),
         Enter("negotiate") \/ (pc = "negotiate" /\ Again)
  PROVE  HostMove
<1>1. Hears(d)
  BY TransferHears
<1>2. Counted /\ Noticed(d) /\ Keeps(d)
  BY Counting, Counts DEF Enter, Counted, Places, Keeps, KeepsSeen
<1>3. Greet(d)
  BY DEF Greet, Follows, Enter, Again
<1> QED
  BY <1>1, <1>2, <1>3 DEF HostStep, Hears, Move, HostMove

\* A transfer that changes nothing.
LEMMA IgnoreMove ==
  ASSUME Types, HostStep, NEW d \in Transfers, Receive(d), KeepsSeen, UNCHANGED file,
         Again \/ UNCHANGED <<pc, tries>> \/ (pc \notin Ended /\ Enter("failed")),
         WriteNothing, KeepsSeq
  PROVE  HostMove
<1>1. Hears(d)
  BY TransferHears
<1>2. Counted /\ Noticed(d) /\ Keeps(d)
  BY Counting, Counts DEF Again, Enter, Counted, Places, Keeps, KeepsSeen
<1>3. Quiet(d)
  BY Counts DEF Quiet, Again, Enter, KeepsSeq, Speaks
<1> QED
  BY <1>1, <1>2, <1>3, QuietMove

LEMMA DetectMoves ==
  ASSUME Types, HostStep, Detect
  PROVE  HostMove
<1>1. pc = "detect" /\ UNCHANGED file /\ KeepsSeen /\ pc \notin Ended
  BY DEF Detect, Ended
<1>2. CASE NoAnswer \/ DetectSilence
  BY <1>1, <1>2, SilentMoves
<1>3. ASSUME NEW d \in Transfers, DetectPacket(d) PROVE HostMove
  <2> DEFINE links == {i \in 1 .. Len(d) : IsLink(d[i])}
  <2>1. Receive(d)
    BY <1>3 DEF DetectPacket
  <2>2. CASE links = {}
    <3>1. Again /\ WriteNothing /\ KeepsSeq
      BY <1>3, <2>2 DEF DetectPacket
    <3> QED
      BY <1>1, <2>1, <3>1, IgnoreMove
  <2>3. CASE links # {}
    <3> DEFINE p == d[Min(links)]
    <3>1. /\ rx' = p.seq /\ Enter("negotiate") /\ Write(<<SynAck(tx, rx')>>)
          /\ UNCHANGED tx
      BY <1>3, <2>3 DEF DetectPacket
    <3>2. p \in DevicePackets /\ From(p, d) /\ IsLink(p)
      BY <2>1, <2>3, LinkFound
    <3> HIDE DEF p, links
    <3> QED
      BY <1>1, <2>1, <3>1, <3>2, GreetMove
  <2> QED
    BY <2>2, <2>3
<1> QED
  BY <1>2, <1>3 DEF Detect

LEMMA FullDetectMoves ==
  ASSUME Types, HostStep, FullDetect
  PROVE  HostMove
<1>1. pc = "detect" /\ UNCHANGED file /\ KeepsSeen /\ pc \notin Ended
  BY DEF FullDetect, Ended
<1>2. CASE NoAnswer \/ DetectSilence
  BY <1>1, <1>2, SilentMoves
<1>3. CASE ~(NoAnswer \/ DetectSilence)
  <2>1. PICK d \in Transfers :
          /\ Receive(d) /\ tries < Tries
          /\ IF {i \in 1 .. Len(d) : IsLink(d[i])} = {} THEN Again /\ WriteNothing /\ KeepsSeq
             ELSE FullSyn(d[Min({i \in 1 .. Len(d) : IsLink(d[i])})])
    BY <1>3, Zenon DEF FullDetect
  <2> DEFINE links == {i \in 1 .. Len(d) : IsLink(d[i])}
  <2>2. CASE links = {}
    <3>1. Again /\ WriteNothing /\ KeepsSeq
      BY <2>1, <2>2
    <3> QED
      BY <1>1, <2>1, <3>1, IgnoreMove
  <2>3. CASE links # {}
    <3> DEFINE p == d[Min(links)]
    <3>1. FullSyn(p)
      BY <2>1, <2>3
    <3>2. p \in DevicePackets /\ From(p, d) /\ IsLink(p)
      BY <2>1, <2>3, LinkFound
    <3> HIDE DEF p, links
    <3>3. CASE "SYN" \in p.ctrl
      <4>1. /\ rx' = p.seq /\ Enter("negotiate") /\ Write(<<SynAck(tx, rx')>>)
            /\ UNCHANGED tx
        BY <3>1, <3>3 DEF FullSyn
      <4> QED
        BY <1>1, <2>1, <4>1, <3>2, GreetMove
    <3>4. CASE "SYN" \notin p.ctrl
      <4>1. Enter("failed") /\ WriteNothing /\ KeepsSeq
        BY <3>1, <3>4 DEF FullSyn
      <4> QED
        BY <1>1, <2>1, <4>1, IgnoreMove
    <3> QED
      BY <3>3, <3>4
  <2> QED
    BY <2>2, <2>3
<1> QED
  BY <1>2, <1>3

LEMMA NegotiateMoves ==
  ASSUME Types, HostStep, Negotiate, program # "viewer"
  PROVE  HostMove
<1>1. pc = "negotiate" /\ UNCHANGED file /\ KeepsSeen /\ pc \notin Ended
  BY DEF Negotiate, Ended
<1>2. CASE NoAnswer \/ Silence
  BY <1>1, <1>2, SilentMoves
<1>3. ASSUME NEW d \in Transfers, Receive(d), NegotiatePacket(Head(d))
      PROVE HostMove
  <2> DEFINE p == Head(d)
  <2>0. Hears(d) /\ p \in DevicePackets /\ From(p, d)
    BY <1>3, TransferHears
  <2> HIDE DEF p
  <2>1. CASE "ACK" \in p.ctrl /\ Enter("auth") /\ SendCsm("RequestCert")
    <3>1. Counted /\ Noticed(d) /\ Keeps(d)
      BY <1>1, <2>1, Counting, Counts DEF Enter, Counted, Places, Keeps, KeepsSeen
    <3>2. Flagged(d, "ACK")
      BY <2>0, <2>1 DEF Flagged
    <3>3. AskCert(d)
      BY <1>1, <2>1, <3>2 DEF AskCert, SendCsm, Enter
    <3> QED
      BY <2>0, <3>1, <3>3 DEF HostStep, Hears, Move, HostMove
  <2>2. CASE "SYN" \in p.ctrl /\ Again /\ rx' = p.seq /\ Write(<<SynAck(tx, rx')>>) /\ UNCHANGED tx
    <3>1. IsLink(p)
      BY <2>0, <2>2, FlagsOnLink
    <3> QED
      BY <1>1, <1>3, <2>0, <2>2, <3>1, GreetMove
  <2>3. CASE Again /\ WriteNothing /\ KeepsSeq
    BY <1>1, <1>3, <2>3, IgnoreMove
  <2> QED
    BY <1>3, <2>1, <2>2, <2>3 DEF NegotiatePacket, p
<1> QED
  BY <1>2, <1>3 DEF Negotiate

\* The packet p is taken, and answered with nothing, one message or two.
LEMMA TakeMove ==
  ASSUME Types, HostStep, NEW d \in Transfers, Receive(d), KeepsSeen,
         NEW p \in DevicePackets, From(p, d), IsLink(p), rx' = p.seq,
         TakeOnly(p) \/ TakeAndSay(p) \/ TakeAndSayTwo(p),
         Keeps(d), pc' \in Places, tries' \in 0 .. Most
  PROVE  HostMove
<1>1. Hears(d)
  BY TransferHears
<1>2. Counted /\ Noticed(d)
  BY Counts DEF Counted
<1>3. Take(d)
  BY DEF Take
<1> QED
  BY <1>1, <1>2, <1>3 DEF HostStep, Hears, Move, HostMove

LEMMA SayMove ==
  ASSUME Types, HostStep, KeepsSeen, UNCHANGED <<ep81, late, file>>,
         NEW m \in Requests, SendCsm(m),
         NEW at \in Places, Enter(at),
         \/ pc = "accept" /\ at = "auth_drain" /\ m = "AuthSucceeded"
         \/ pc = "auth_drain" /\ at = "identify" /\ m = "StartIdent"
         \/ pc = "last_drain" /\ at = "status" /\ m = "StartEA"
         \/ program = "full" /\ pc = "challenge" /\ at = "identify" /\ m = "StartIdent"
         \/ program = "full" /\ pc = "identify" /\ at = "video" /\ m = "StartEA"
  PROVE  HostMove
<1>1. Hears(<<>>)
  BY HearsNothing
<1>2. Counted /\ Noticed(<<>>) /\ Keeps(<<>>)
  BY Counting, Counts DEF Enter, Counted, Places, Keeps
<1>3. Say
  BY DEF Say, SendCsm, Enter
<1> QED
  BY <1>1, <1>2, <1>3 DEF HostStep, Hears, Move, HostMove

-----------------------------------------------------------------------------
(* stream.py                                                               *)

LEMMA AuthMoves ==
  ASSUME Types, HostStep, Auth, program = "stream"
  PROVE  HostMove
<1>1. pc = "auth" /\ UNCHANGED file /\ KeepsSeen /\ pc \notin Ended /\ pc \in Established
  BY DEF Auth, Ended, Established, Places
<1>2. CASE OutOfTries /\ Enter("accept") /\ WriteNothing /\ KeepsSeq
  <2>1. Hears(<<>>)
    BY <1>2, HearsNothing
  <2>2. Counted /\ Noticed(<<>>) /\ Keeps(<<>>)
    BY <1>1, <1>2, Counting, Counts DEF Enter, Counted, Places, Keeps, KeepsSeen
  <2>3. Quiet(<<>>)
    BY <1>1, <1>2, Counts DEF Quiet, Enter, KeepsSeq, Speaks
  <2> QED
    BY <2>1, <2>2, <2>3, QuietMove
<1>3. CASE Silence
  BY <1>1, <1>3, SilentMoves
<1>4. ASSUME NEW d \in Transfers, Receive(d), AuthPacket(Head(d))
      PROVE HostMove
  <2> DEFINE p == Head(d)
  <2>0. Hears(d) /\ p \in DevicePackets /\ From(p, d)
    BY <1>4, TransferHears
  <2> HIDE DEF p
  <2>1. CASE IsCsm(p)
    <3>1. Accept(p, <<>>) /\ (p.msg = "Cert" => Enter("accept")) /\ (p.msg # "Cert" => Again)
      BY <1>4, <2>1 DEF AuthPacket, p
    <3>2. rx' = p.seq /\ UNCHANGED tx /\ Write(<<AckOnly(tx, rx')>>)
      BY <3>1, AcceptNone
    <3>3. IsLink(p) /\ HasPayload(p)
      BY <2>0, <2>1, KindsOfPacket DEF HasPayload
    <3>4. p.msg # "Cert" => NotAwaited(p)
      BY <1>1 DEF NotAwaited
    <3>5. TakeOnly(p) /\ Keeps(d) /\ pc' \in Places /\ tries' \in 0 .. Most
      <4>1. CASE p.msg = "Cert"
        BY <1>1, <3>1, <3>2, <4>1, Counting DEF TakeOnly, Enter, Keeps, Places
      <4>2. CASE p.msg # "Cert"
        BY <1>1, <3>1, <3>2, <3>3, <3>4, <4>2, Counting DEF TakeOnly, Again, Keeps
      <4> QED
        BY <4>1, <4>2
    <3> QED
      BY <1>1, <1>4, <2>0, <3>2, <3>3, <3>5, TakeMove
  <2>2. CASE ~IsCsm(p)
    <3>1. Again /\ WriteNothing /\ KeepsSeq
      BY <1>4, <2>2 DEF AuthPacket, p
    <3> QED
      BY <1>1, <1>4, <3>1, IgnoreMove
  <2> QED
    BY <2>1, <2>2
<1> QED
  BY <1>2, <1>3, <1>4 DEF Auth

LEMMA AuthSucceedMoves ==
  ASSUME Types, HostStep, AuthSucceed
  PROVE  HostMove
<1>1. /\ pc = "accept" /\ Enter("auth_drain") /\ SendCsm("AuthSucceeded")
      /\ UNCHANGED <<ep81, late, file>> /\ KeepsSeen
  BY DEF AuthSucceed
<1>2. "AuthSucceeded" \in Requests /\ "auth_drain" \in Places
  BY DEF Requests, Places
<1> QED
  BY <1>1, <1>2, SayMove

LEMMA StartIdentifyMoves ==
  ASSUME Types, HostStep, StartIdentify
  PROVE  HostMove
<1>1. CASE DrainRead
  BY <1>1, DrainReads
<1>2. CASE Drained /\ Enter("identify") /\ SendCsm("StartIdent")
  <2>1. UNCHANGED <<ep81, late, file>> /\ KeepsSeen /\ pc = "auth_drain"
    BY <1>2 DEF Drained, StartIdentify
  <2>2. "StartIdent" \in Requests /\ "identify" \in Places
    BY DEF Requests, Places
  <2> QED
    BY <1>2, <2>1, <2>2, SayMove
<1> QED
  BY <1>1, <1>2 DEF StartIdentify

LEMMA IdentifyMoves ==
  ASSUME Types, HostStep, Identify
  PROVE  HostMove
<1>1. pc = "identify" /\ UNCHANGED file /\ KeepsSeen /\ pc \notin Ended /\ pc \in Established
  BY DEF Identify, Ended, Established, Places
<1>2. CASE NoAnswer \/ Silence
  BY <1>1, <1>2, SilentMoves
<1>3. ASSUME NEW d \in Transfers, Receive(d), IdentifyPacket(Head(d))
      PROVE HostMove
  <2> DEFINE p == Head(d)
  <2>0. Hears(d) /\ p \in DevicePackets /\ From(p, d)
    BY <1>3, TransferHears
  <2> HIDE DEF p
  <2>1. CASE IsCsm(p) /\ p.msg = "IdentInfo"
    <3>1. Accept(p, <<"IdentAccepted">>) /\ Enter("last_drain")
      BY <1>3, <2>1 DEF IdentifyPacket, p
    <3>2. /\ rx' = p.seq /\ tx' = NextSeq(tx)
          /\ Write(<<AckOnly(tx, rx'), Data(tx', rx', "IdentAccepted")>>)
      BY <3>1, AcceptOne
    <3>3. IsLink(p)
      BY <2>0, <2>1, KindsOfPacket DEF HasPayload
    <3>4. TakeAndSay(p) /\ Keeps(d) /\ pc' \in Places /\ tries' \in 0 .. Most
      BY <1>1, <2>1, <3>1, <3>2, Counting DEF TakeAndSay, Requests, Enter, Keeps, Places
    <3> QED
      BY <1>1, <1>3, <2>0, <3>2, <3>3, <3>4, TakeMove
  <2>2. CASE IsCsm(p) /\ p.msg # "IdentInfo"
    <3>1. Accept(p, <<>>) /\ Again
      BY <1>3, <2>2 DEF IdentifyPacket, p
    <3>2. rx' = p.seq /\ UNCHANGED tx /\ Write(<<AckOnly(tx, rx')>>)
      BY <3>1, AcceptNone
    <3>3. IsLink(p) /\ HasPayload(p)
      BY <2>0, <2>2, KindsOfPacket DEF HasPayload
    <3>4. NotAwaited(p)
      BY <1>1, <2>2 DEF NotAwaited
    <3>5. TakeOnly(p) /\ Keeps(d) /\ pc' \in Places /\ tries' \in 0 .. Most
      BY <1>1, <3>1, <3>2, <3>3, <3>4, Counting DEF TakeOnly, Again, Keeps
    <3> QED
      BY <1>1, <1>3, <2>0, <3>2, <3>3, <3>5, TakeMove
  <2>3. CASE ~IsCsm(p)
    <3>1. Again /\ WriteNothing /\ KeepsSeq
      BY <1>3, <2>3 DEF IdentifyPacket, p
    <3> QED
      BY <1>1, <1>3, <3>1, IgnoreMove
  <2> QED
    BY <2>1, <2>2, <2>3
<1> QED
  BY <1>2, <1>3 DEF Identify

LEMMA FinishMoves ==
  ASSUME Types, HostStep, Finish
  PROVE  HostMove
<1>1. CASE DrainRead
  BY <1>1, DrainReads
<1>2. CASE Drained /\ Enter("done") /\ WriteNothing /\ KeepsSeq
  <2>1. Hears(<<>>)
    BY <1>2, HearsNothing
  <2>2. Counted /\ Noticed(<<>>) /\ Keeps(<<>>)
    BY <1>2, Counting, Counts DEF Drained, Enter, Counted, Places, Keeps
  <2>3. Quiet(<<>>)
    BY <1>2, Counts DEF Quiet, Drained, Enter, Finish, KeepsSeq, Speaks
  <2> QED
    BY <2>1, <2>2, <2>3, QuietMove
<1> QED
  BY <1>1, <1>2 DEF Finish

LEMMA StreamMoves ==
  ASSUME Types, StreamHost
  PROVE  HostMove
<1>1. program = "stream" /\ HostStep /\ program # "viewer"
  BY DEF StreamHost
<1> QED
  BY <1>1, StartDetectMoves, DetectMoves, NegotiateMoves, AuthMoves, AuthSucceedMoves,
     StartIdentifyMoves, IdentifyMoves, FinishMoves DEF StreamHost

-----------------------------------------------------------------------------
(* td300_connect.py                                                        *)

\* A packet is acknowledged, and nothing else comes of it.
LEMMA AcknowledgeMove ==
  ASSUME Types, HostStep, NEW d \in Transfers, Receive(d), KeepsSeen, UNCHANGED file,
         NEW p \in DevicePackets, From(p, d), IsLink(p), Accept(p, <<>>),
         pc \in Established, pc \in Ended \/ (HasPayload(p) /\ NotAwaited(p)),
         pc' = pc, tries' \in 0 .. Most
  PROVE  HostMove
<1>1. rx' = p.seq /\ UNCHANGED tx /\ Write(<<AckOnly(tx, rx')>>)
  BY AcceptNone
<1>2. TakeOnly(p) /\ Keeps(d) /\ pc' \in Places
  BY <1>1, Counting DEF TakeOnly, Keeps
<1> QED
  BY <1>1, <1>2, TakeMove

\* A drain whose loop goes on.
LEMMA IdleDrain ==
  ASSUME Types, HostStep, KeepsSeen, UNCHANGED <<pc, file>>, NoDataYet,
         WriteNothing, KeepsSeq, tries' \in 0 .. Most
  PROVE  HostMove
<1>1. Hears(<<>>)
  BY HearsNothing
<1>2. Counted /\ Noticed(<<>>) /\ Keeps(<<>>)
  BY Counting, Counts DEF Counted, Keeps
<1>3. Quiet(<<>>)
  BY Counts DEF Quiet, KeepsSeq, Speaks
<1> QED
  BY <1>1, <1>2, <1>3, QuietMove

LEMMA IgnoredDrain ==
  ASSUME Types, HostStep, NEW d \in Transfers, Receive(d), KeepsSeen, UNCHANGED <<pc, file>>,
         WriteNothing, KeepsSeq, tries' \in 0 .. Most
  PROVE  HostMove
<1>1. Hears(d)
  BY TransferHears
<1>2. Counted /\ Noticed(d) /\ Keeps(d)
  BY Counting, Counts DEF Counted, Keeps
<1>3. Quiet(d)
  BY Counts DEF Quiet, KeepsSeq, Speaks
<1> QED
  BY <1>1, <1>2, <1>3, QuietMove

LEMMA AckingDrainMoves ==
  ASSUME Types, HostStep, NEW every \in BOOLEAN, AckingDrain(every),
         (pc = "auth_drain" /\ ~every) \/ pc \in Ended
  PROVE  HostMove
<1>1. /\ UNCHANGED <<pc, file>> /\ KeepsSeen /\ pc \in Established
      /\ tries' \in 0 .. Most
  BY Counting DEF AckingDrain, Established, Places, Ended
<1>2. CASE NoDataYet /\ WriteNothing /\ KeepsSeq
  BY <1>1, <1>2, IdleDrain
<1>3. CASE ~(NoDataYet /\ WriteNothing /\ KeepsSeq)
  <2>1. PICK d \in Transfers :
          /\ Receive(d)
          /\ IF IsCsm(Head(d)) \/ (every /\ IsLink(Head(d)))
             THEN Accept(Head(d), <<>>)
             ELSE WriteNothing /\ KeepsSeq
    BY <1>3, Zenon DEF AckingDrain
  <2> DEFINE p == Head(d)
  <2>2. p \in DevicePackets /\ From(p, d)
    BY <2>1, TransferHears
  <2>3. IF IsCsm(p) \/ (every /\ IsLink(p)) THEN Accept(p, <<>>) ELSE WriteNothing /\ KeepsSeq
    BY <2>1
  <2> HIDE DEF p
  <2>4. CASE IsLink(p) /\ Accept(p, <<>>) /\ pc \in Ended
    BY <1>1, <2>1, <2>2, <2>4, AcknowledgeMove
  <2>5. CASE IsCsm(p) /\ Accept(p, <<>>) /\ pc = "auth_drain"
    <3>1. HasPayload(p) /\ IsLink(p) /\ NotAwaited(p)
      BY <2>2, <2>5, KindsOfPacket DEF HasPayload, NotAwaited
    <3> QED
      BY <1>1, <2>1, <2>2, <2>5, <3>1, AcknowledgeMove
  <2>6. CASE WriteNothing /\ KeepsSeq
    BY <1>1, <2>1, <2>6, IgnoredDrain
  <2>7. IsCsm(p) => IsLink(p)
    BY <2>2, KindsOfPacket DEF HasPayload
  <2> QED
    BY <2>3, <2>4, <2>5, <2>6, <2>7
<1> QED
  BY <1>2, <1>3


\* read_csm_response, wherever connect calls it.
LEMMA ReadCsmMoves ==
  ASSUME Types, HostStep, KeepsSeen, UNCHANGED file, program = "connect",
         NEW expected, NEW answer, NEW next, ReadCsm(expected, answer, next),
         \/ /\ pc = "auth" /\ expected = "Cert" /\ answer = "Challenge"
            /\ next = "challenge"
         \/ /\ pc = "challenge" /\ expected = "Response" /\ answer = "AuthSucceeded"
            /\ next = "auth_drain"
         \/ /\ pc = "identify" /\ expected = "IdentInfo" /\ answer = "IdentAccepted"
            /\ next = "last_drain"
  PROVE  HostMove
<1>1. /\ pc \in {"auth", "challenge", "identify"} /\ pc \in Established /\ pc \notin Ended
      /\ next \in Places /\ answer \in Requests /\ expected \in Answers
  BY DEF Established, Places, Ended, Requests, Answers
<1>2. CASE /\ late' = (late \/ DeviceHasMore \/ ep81 # <<>>)
           /\ Enter("failed") /\ WriteNothing /\ KeepsSeq /\ UNCHANGED ep81
  <2>1. Hears(<<>>)
    <3>1. late' \in BOOLEAN /\ UNCHANGED ep81
      BY <1>2 DEF Types, TypeOK, DeviceHasMore
    <3> QED
      BY <3>1, NothingHeard DEF Hears
  <2>2. Counted /\ Noticed(<<>>) /\ Keeps(<<>>)
    BY <1>2, Counting, Counts DEF Enter, Counted, Keeps, Places
  <2>3. Quiet(<<>>)
    BY <1>1, <1>2, Counts DEF Quiet, Enter, KeepsSeq, Speaks
  <2> QED
    BY <2>1, <2>2, <2>3, QuietMove
<1>3. ASSUME NEW d \in Transfers, Receive(d),
             IF Head(d).msg = expected \/ IsVideo(Head(d))
             THEN /\ IF IsVideo(Head(d)) THEN AnswerVideo(Head(d), answer)
                                         ELSE Accept(Head(d), <<answer>>)
                  /\ Enter(next)
             ELSE /\ IF IsCsm(Head(d)) THEN Accept(Head(d), <<>>)
                                       ELSE WriteNothing /\ KeepsSeq
                  /\ UNCHANGED <<pc, tries>>
      PROVE HostMove
  <2> DEFINE p == Head(d)
  <2>0. p \in DevicePackets /\ From(p, d)
    BY <1>3, TransferHears
  <2>00. IF p.msg = expected \/ IsVideo(p)
         THEN /\ IF IsVideo(p) THEN AnswerVideo(p, answer) ELSE Accept(p, <<answer>>)
              /\ Enter(next)
         ELSE /\ IF IsCsm(p) THEN Accept(p, <<>>) ELSE WriteNothing /\ KeepsSeq
              /\ UNCHANGED <<pc, tries>>
    BY <1>3
  <2> HIDE DEF p
  <2>01. /\ IsCsm(p) \/ IsVideo(p) \/ p.msg = expected => IsLink(p) /\ HasPayload(p)
    BY <1>1, <2>0, KindsOfPacket DEF HasPayload
  <2>1. CASE IsVideo(p)
    <3>1. /\ rx' = p.seq /\ tx' = NextSeq(tx) /\ Enter(next)
          /\ \E ack \in {<<>>, <<AckOnly(tx, rx')>>} :
               Write(ack \o <<Data(tx', rx', answer)>>)
      BY <2>00, <2>1 DEF AnswerVideo
    <3>2. \/ Write(<<Data(tx', rx', answer)>>)
          \/ Write(<<AckOnly(tx, rx'), Data(tx', rx', answer)>>)
      <4> DEFINE a == AckOnly(tx, rx')
                 x == Data(tx', rx', answer)
      <4>1. <<a>> \o <<x>> = <<a, x>>
        BY TwoOf
      <4>2. <<>> \o <<x>> = <<x>>
        OBVIOUS
      <4>3. Write(<<>> \o <<x>>) \/ Write(<<a>> \o <<x>>)
        BY <3>1
      <4> HIDE DEF a, x
      <4>4. Write(<<x>>) \/ Write(<<a, x>>)
        BY <4>1, <4>2, <4>3, Zenon
      <4> QED
        BY <4>4 DEF a, x
    <3>3. TakeAndSay(p) /\ Keeps(d) /\ pc' \in Places /\ tries' \in 0 .. Most
      BY <1>1, <2>1, <3>1, <3>2, Counting DEF TakeAndSay, Enter, Keeps
    <3> QED
      BY <1>3, <2>0, <2>01, <2>1, <3>1, <3>3, TakeMove
  <2>2. CASE ~IsVideo(p) /\ p.msg = expected
    <3>1. Accept(p, <<answer>>) /\ Enter(next)
      BY <2>00, <2>2
    <3>2. /\ rx' = p.seq /\ tx' = NextSeq(tx)
          /\ Write(<<AckOnly(tx, rx'), Data(tx', rx', answer)>>)
      BY <3>1, AcceptOne
    <3>3. TakeAndSay(p)
      BY <1>1, <2>2, <3>1, <3>2 DEF TakeAndSay, Enter
    <3>4. Keeps(d) /\ pc' \in Places /\ tries' \in 0 .. Most
      BY <1>1, <3>1, Counting DEF Enter, Keeps
    <3> QED
      BY <1>3, <2>0, <2>01, <2>2, <3>2, <3>3, <3>4, TakeMove
  <2>3. CASE ~IsVideo(p) /\ p.msg # expected /\ IsCsm(p)
    <3>1. Accept(p, <<>>) /\ UNCHANGED <<pc, tries>>
      BY <2>00, <2>3
    <3>2. NotAwaited(p)
      BY <2>3 DEF NotAwaited
    <3>3. pc' = pc /\ tries' \in 0 .. Most
      BY <3>1, Counting
    <3> QED
      BY <1>1, <1>3, <2>0, <2>01, <2>3, <3>1, <3>2, <3>3, AcknowledgeMove
  <2>4. CASE ~IsVideo(p) /\ p.msg # expected /\ ~IsCsm(p)
    <3>1. WriteNothing /\ KeepsSeq /\ UNCHANGED <<pc, tries>>
      BY <2>00, <2>4
    <3> QED
      BY <1>3, <3>1, IgnoreMove
  <2> QED
    BY <2>1, <2>2, <2>3, <2>4
<1> QED
  BY <1>2, <1>3 DEF ReadCsm

\* A drain whose reads are done, and what is sent then.
LEMMA DrainedSays ==
  ASSUME Types, HostStep, Drained,
         NEW m \in Requests, SendCsm(m), NEW at \in Places, Enter(at),
         \/ pc = "auth_drain" /\ at = "identify" /\ m = "StartIdent"
         \/ pc = "last_drain" /\ at = "status" /\ m = "StartEA"
  PROVE  HostMove
<1>1. UNCHANGED <<ep81, late, file>> /\ KeepsSeen
  BY DEF Drained
<1> QED
  BY <1>1, SayMove

LEMMA ConnectVideoMoves ==
  ASSUME Types, HostStep, ConnectVideo
  PROVE  HostMove
<1>1. pc = "video" /\ KeepsSeen /\ pc \in Ended
  BY DEF ConnectVideo, Ended
<1>2. CASE OutOfTries /\ Enter("done") /\ WriteNothing /\ KeepsSeq /\ UNCHANGED file
  <2>1. Hears(<<>>)
    BY <1>2, HearsNothing
  <2>2. Counted /\ Noticed(<<>>) /\ Keeps(<<>>)
    BY <1>1, <1>2, Counting, Counts DEF Enter, Counted, Places, Keeps, KeepsSeen
  <2>3. Quiet(<<>>)
    BY <1>1, <1>2, Counts DEF Quiet, Enter, KeepsSeq, Speaks
  <2> QED
    BY <2>1, <2>2, <2>3, QuietMove
<1>3. CASE Silence /\ UNCHANGED file
  BY <1>1, <1>3, SilentMoves
<1>4. ASSUME NEW d \in Transfers, Receive(d), Again, rx' = LastSeq(d), UNCHANGED tx,
             IF tries % 2 = 0 THEN Write(Acks(d)) ELSE WriteNothing,
             file' = file \o Frames(d)
      PROVE HostMove
  <2>1. Hears(d)
    BY <1>4, TransferHears
  <2>2. Counted /\ Noticed(d) /\ Keeps(d)
    BY <1>1, <1>4, Counting, Counts DEF Again, Counted, Keeps
  <2>3. AckVideo(d)
    BY <1>1, <1>4 DEF AckVideo, Again, Speaks
  <2> QED
    BY <2>1, <2>2, <2>3 DEF HostStep, Hears, Move, HostMove
<1> QED
  BY <1>2, <1>3, <1>4, Zenon DEF ConnectVideo

LEMMA ConnectMoves ==
  ASSUME Types, ConnectHost
  PROVE  HostMove
<1>1. program = "connect" /\ HostStep /\ program # "viewer"
  BY DEF ConnectHost
<1>2. CASE ConnectAuth
  BY <1>1, <1>2, ReadCsmMoves DEF ConnectAuth
<1>3. CASE ConnectChallenge
  BY <1>1, <1>3, ReadCsmMoves DEF ConnectChallenge
<1>4. CASE ConnectIdentify
  BY <1>1, <1>4, ReadCsmMoves DEF ConnectIdentify
<1>5. CASE ConnectStartIdentify
  <2>1. CASE AckingDrain(FALSE)
    <3>1. pc = "auth_drain"
      BY <1>5 DEF ConnectStartIdentify
    <3> QED
      BY <1>1, <2>1, <3>1, AckingDrainMoves, Zenon
  <2>2. CASE Drained /\ Enter("identify") /\ SendCsm("StartIdent")
    <3>1. "StartIdent" \in Requests /\ "identify" \in Places /\ pc = "auth_drain"
      BY <1>5 DEF Requests, Places, ConnectStartIdentify
    <3> QED
      BY <1>1, <2>2, <3>1, DrainedSays
  <2> QED
    BY <1>5, <2>1, <2>2, Zenon DEF ConnectStartIdentify
<1>6. CASE ConnectStartEA
  <2>1. CASE AckingDrain(TRUE)
    <3>1. pc \in Ended
      BY <1>6 DEF ConnectStartEA, Ended
    <3> QED
      BY <1>1, <2>1, <3>1, AckingDrainMoves, Zenon
  <2>2. CASE Drained /\ Enter("status") /\ SendCsm("StartEA")
    <3>1. "StartEA" \in Requests /\ "status" \in Places /\ pc = "last_drain"
      BY <1>6 DEF Requests, Places, ConnectStartEA
    <3> QED
      BY <1>1, <2>2, <3>1, DrainedSays
  <2> QED
    BY <1>6, <2>1, <2>2, Zenon DEF ConnectStartEA
<1>7. CASE ConnectStatus
  <2>0. pc = "status"
    BY <1>7 DEF ConnectStatus
  <2>1. CASE AckingDrain(TRUE)
    <3>1. pc \in Ended
      BY <2>0 DEF Ended
    <3> QED
      BY <1>1, <2>1, <3>1, AckingDrainMoves, Zenon
  <2>2. CASE Drained /\ Enter("video") /\ WriteNothing /\ KeepsSeq
    <3>1. Hears(<<>>)
      BY <2>2, HearsNothing
    <3>2. Counted /\ Noticed(<<>>) /\ Keeps(<<>>)
      BY <2>2, Counting, Counts DEF Drained, Enter, Counted, Places, Keeps
    <3>3. Quiet(<<>>)
      BY <2>0, <2>2, Counts DEF Quiet, Drained, Enter, KeepsSeq, Speaks
    <3> QED
      BY <1>1, <3>1, <3>2, <3>3, QuietMove
  <2> QED
    BY <1>7, <2>1, <2>2, Zenon DEF ConnectStatus
<1> QED
  BY <1>1, <1>2, <1>3, <1>4, <1>5, <1>6, <1>7, StartDetectMoves, DetectMoves,
     NegotiateMoves, ConnectVideoMoves DEF ConnectHost

-----------------------------------------------------------------------------
(* td300_full_connect.py                                                   *)

LEMMA FullPacketMoves ==
  ASSUME Types, HostStep, KeepsSeen, UNCHANGED file, program = "full",
         NEW d \in Transfers, Receive(d),
         NEW awaited, NEW answers, NEW next, FullPacket(Head(d), awaited, answers, next),
         \/ /\ pc = "auth" /\ awaited = "Cert" /\ answers = <<"Challenge">>
            /\ next = "challenge"
         \/ /\ pc = "challenge" /\ awaited = "Response"
            /\ answers = <<"AuthSucceeded", "StartIdent">> /\ next = "identify"
         \/ /\ pc = "identify" /\ awaited = "IdentInfo"
            /\ answers = <<"IdentAccepted", "StartEA">> /\ next = "video"
  PROVE  HostMove
<1> DEFINE p == Head(d)
<1>1. p \in DevicePackets /\ From(p, d)
  BY TransferHears
<1>2. IF ~IsCsm(p) THEN Again /\ WriteNothing /\ KeepsSeq
      ELSE IF p.msg = awaited THEN Accept(p, answers) /\ Enter(next)
           ELSE Accept(p, <<>>) /\ Again
  BY DEF FullPacket
<1> HIDE DEF p
<1>3. IsCsm(p) => IsLink(p) /\ HasPayload(p)
  BY <1>1, KindsOfPacket DEF HasPayload
<1>4. pc \in Established /\ next \in Places
  BY DEF Established, Places
<1>5. CASE ~IsCsm(p)
  <2>1. Again /\ WriteNothing /\ KeepsSeq
    BY <1>2, <1>5
  <2> QED
    BY <2>1, IgnoreMove
<1>6. CASE IsCsm(p) /\ p.msg # awaited
  <2>1. Accept(p, <<>>) /\ Again
    BY <1>2, <1>6
  <2>2. NotAwaited(p)
    BY <1>6 DEF NotAwaited
  <2>3. pc' = pc /\ tries' \in 0 .. Most
    BY <2>1, Counting
  <2> QED
    BY <1>1, <1>3, <1>4, <1>6, <2>1, <2>2, <2>3, AcknowledgeMove
<1>7. CASE IsCsm(p) /\ p.msg = awaited
  <2>1. Accept(p, answers) /\ Enter(next)
    BY <1>2, <1>7
  <2>2. Keeps(d) /\ pc' \in Places /\ tries' \in 0 .. Most
    BY <1>4, <2>1, Counting DEF Enter, Keeps
  <2>3. CASE pc = "auth"
    <3>1. Accept(p, <<"Challenge">>) /\ p.msg = "Cert" /\ pc' = "challenge"
      BY <1>7, <2>1, <2>3 DEF Enter
    <3>2. /\ rx' = p.seq /\ tx' = NextSeq(tx)
          /\ Write(<<AckOnly(tx, rx'), Data(tx', rx', "Challenge")>>)
      BY <3>1, AcceptOne
    <3>3. TakeAndSay(p)
      BY <2>3, <3>1, <3>2 DEF TakeAndSay, Requests
    <3> QED
      BY <1>1, <1>3, <1>7, <2>2, <3>2, <3>3, TakeMove
  <2>4. CASE pc = "challenge"
    <3>1. /\ Accept(p, <<"AuthSucceeded", "StartIdent">>) /\ p.msg = "Response"
          /\ pc' = "identify"
      BY <1>7, <2>1, <2>4 DEF Enter
    <3>2. /\ rx' = p.seq /\ tx' = NextSeq(NextSeq(tx))
          /\ Write(<<AckOnly(tx, rx'), Data(NextSeq(tx), rx', "AuthSucceeded"),
                     Data(tx', rx', "StartIdent")>>)
      BY <3>1, AcceptTwo
    <3>3. TakeAndSayTwo(p)
      BY <2>4, <3>1, <3>2 DEF TakeAndSayTwo, Requests
    <3> QED
      BY <1>1, <1>3, <1>7, <2>2, <3>2, <3>3, TakeMove
  <2>5. CASE pc = "identify"
    <3>1. /\ Accept(p, <<"IdentAccepted", "StartEA">>) /\ p.msg = "IdentInfo"
          /\ pc' = "video"
      BY <1>7, <2>1, <2>5 DEF Enter
    <3>2. /\ rx' = p.seq /\ tx' = NextSeq(NextSeq(tx))
          /\ Write(<<AckOnly(tx, rx'), Data(NextSeq(tx), rx', "IdentAccepted"),
                     Data(tx', rx', "StartEA")>>)
      BY <3>1, AcceptTwo
    <3>3. TakeAndSayTwo(p)
      BY <2>5, <3>1, <3>2 DEF TakeAndSayTwo, Requests
    <3> QED
      BY <1>1, <1>3, <1>7, <2>2, <3>2, <3>3, TakeMove
  <2> QED
    BY <2>3, <2>4, <2>5
<1> QED
  BY <1>5, <1>6, <1>7

LEMMA GoesOnWithout ==
  ASSUME Types, HostStep, KeepsSeen, UNCHANGED file, OutOfTries, program = "full",
         \/ pc = "challenge" /\ Enter("identify") /\ SendCsm("StartIdent")
         \/ pc = "identify" /\ Enter("video") /\ SendCsm("StartEA")
  PROVE  HostMove
<1>1. UNCHANGED <<ep81, late, file>>
  BY DEF OutOfTries
<1>2. /\ "StartIdent" \in Requests /\ "StartEA" \in Requests
      /\ "identify" \in Places /\ "video" \in Places
  BY DEF Requests, Places
<1>3. CASE pc = "challenge" /\ Enter("identify") /\ SendCsm("StartIdent")
  BY <1>1, <1>2, <1>3, SayMove
<1>4. CASE pc = "identify" /\ Enter("video") /\ SendCsm("StartEA")
  BY <1>1, <1>2, <1>4, SayMove
<1> QED
  BY <1>3, <1>4

LEMMA FullMoves ==
  ASSUME Types, FullConnectHost
  PROVE  HostMove
<1>1. program = "full" /\ HostStep /\ program # "viewer"
  BY DEF FullConnectHost
<1>2. CASE FullAuth
  <2>1. pc = "auth" /\ UNCHANGED file /\ KeepsSeen /\ pc \notin Ended
    BY <1>2 DEF FullAuth, Ended
  <2>2. CASE NoAnswer \/ Silence
    BY <1>1, <2>1, <2>2, SilentMoves
  <2>3. ASSUME NEW d \in Transfers, Receive(d),
               FullPacket(Head(d), "Cert", <<"Challenge">>, "challenge")
        PROVE HostMove
    BY <1>1, <2>1, <2>3, FullPacketMoves
  <2> QED
    BY <1>2, <2>2, <2>3, Zenon DEF FullAuth
<1>3. CASE FullChallenge
  <2>1. pc = "challenge" /\ UNCHANGED file /\ KeepsSeen /\ pc \notin Ended
    BY <1>3 DEF FullChallenge, Ended
  <2>2. CASE Silence
    BY <1>1, <2>1, <2>2, SilentMoves
  <2>3. CASE OutOfTries /\ Enter("identify") /\ SendCsm("StartIdent")
    BY <1>1, <2>1, <2>3, GoesOnWithout
  <2>4. ASSUME NEW d \in Transfers, Receive(d),
               FullPacket(Head(d), "Response", <<"AuthSucceeded", "StartIdent">>, "identify")
        PROVE HostMove
    BY <1>1, <2>1, <2>4, FullPacketMoves
  <2> QED
    BY <1>3, <2>2, <2>3, <2>4, Zenon DEF FullChallenge
<1>4. CASE FullIdentify
  <2>1. pc = "identify" /\ UNCHANGED file /\ KeepsSeen /\ pc \notin Ended
    BY <1>4 DEF FullIdentify, Ended
  <2>2. CASE Silence
    BY <1>1, <2>1, <2>2, SilentMoves
  <2>3. CASE OutOfTries /\ Enter("video") /\ SendCsm("StartEA")
    BY <1>1, <2>1, <2>3, GoesOnWithout
  <2>4. ASSUME NEW d \in Transfers, Receive(d),
               FullPacket(Head(d), "IdentInfo", <<"IdentAccepted", "StartEA">>, "video")
        PROVE HostMove
    BY <1>1, <2>1, <2>4, FullPacketMoves
  <2> QED
    BY <1>4, <2>2, <2>3, <2>4, Zenon DEF FullIdentify
<1> QED
  BY <1>1, <1>2, <1>3, <1>4, StartDetectMoves, FullDetectMoves, NegotiateMoves,
     ConnectVideoMoves DEF FullConnectHost

-----------------------------------------------------------------------------
(* td300_viewer.py                                                         *)

LEMMA ViewerStartMoves ==
  ASSUME Types, HostStep, ViewerStart
  PROVE  HostMove
<1>1. pc = "drain" /\ UNCHANGED <<tries, tx, rx, seen, file>>
  BY DEF ViewerStart
<1>2. tries' \in 0 .. Most /\ (UNCHANGED pings => pings' \in 0 .. Pings)
  BY <1>1, Counts
<1>3. (\A d : Noticed(d)) /\ ("SYN" \in seen' => "SYN" \in seen)
  BY <1>1, Counting DEF Noticed
<1>4. ASSUME NEW d \in Transfers, Receive(d), WriteNothing, UNCHANGED <<pc, pings>>
      PROVE HostMove
  <2>1. Hears(d)
    BY <1>4, TransferHears
  <2>2. Counted /\ Keeps(d)
    BY <1>1, <1>2, <1>4, Counts DEF Counted, Keeps
  <2>3. Quiet(d)
    BY <1>1, <1>3, <1>4 DEF Quiet, Speaks
  <2> QED
    BY <1>3, <2>1, <2>2, <2>3, QuietMove
<1>5. CASE NoDataYet /\ pc' = "detect" /\ pings' = 1 /\ Write(<<Marker>>)
  <2>1. Hears(<<>>)
    BY <1>5, HearsNothing
  <2>2. pings' \in 0 .. Pings
    BY <1>5, LinkAssumption
  <2>3. Counted /\ Keeps(<<>>)
    BY <1>1, <1>2, <1>5, <2>2 DEF Counted, Keeps, Places
  <2>4. Quiet(<<>>)
    BY <1>1, <1>3, <1>5 DEF Quiet
  <2> QED
    BY <1>3, <2>1, <2>3, <2>4, QuietMove
<1> QED
  BY <1>4, <1>5, Zenon DEF ViewerStart

LEMMA ViewerPacketMoves ==
  ASSUME Types, HostStep, NEW d \in Transfers, Receive(d), program = "viewer",
         pc \in {"detect", "negotiate"},
         NEW n \in 0 .. tries, tries < Tries, ViewerPacket(Head(d), n)
  PROVE  HostMove
<1> DEFINE p == Head(d)
           heard == seen \union (p.ctrl \intersect {"SYN", "ACK"})
<1>1. Hears(d) /\ p \in DevicePackets /\ From(p, d)
  BY TransferHears
<1>2. /\ seen' = heard /\ UNCHANGED <<pings, file>>
      /\ rx' = IF "SYN" \in p.ctrl THEN p.seq ELSE rx
      /\ IF {"SYN", "ACK"} \subseteq heard
         THEN /\ Enter("auth") /\ tx' = NextSeq(tx)
              /\ Write(IF "SYN" \in p.ctrl
                       THEN <<SynAck(tx, rx'), Data(tx', rx', "RequestCert")>>
                       ELSE <<Data(tx', rx', "RequestCert")>>)
         ELSE /\ UNCHANGED tx
              /\ IF "RST" \in p.ctrl
                 THEN Enter("failed")
                 ELSE pc' = "negotiate" /\ tries' = n + 1
              /\ IF "SYN" \in p.ctrl THEN Write(<<SynAck(tx, rx')>>)
                                     ELSE WriteNothing
  BY DEF ViewerPacket
<1> HIDE DEF p
<1>3. "SYN" \in p.ctrl => IsLink(p)
  BY <1>1, FlagsOnLink
<1>4. seen \subseteq {"marker", "SYN", "ACK"} /\ heard \subseteq {"marker", "SYN", "ACK"}
  BY Counting
<1>5. Noticed(d) /\ Keeps(d) /\ pings' \in 0 .. Pings
      /\ ("ACK" \in heard => "ACK" \in seen \/ Flagged(d, "ACK"))
  BY <1>1, <1>2, <1>4, Counts DEF Noticed, Keeps, Flagged
<1>6. tries \in 0 .. Most /\ Tries <= Most /\ Tries \in Nat /\ Most \in Nat
  BY Counting, MostIs
<1>7. CASE {"SYN", "ACK"} \subseteq heard
  <2>1. Enter("auth") /\ tx' = NextSeq(tx)
    BY <1>2, <1>7
  <2>2. Counted
    BY <1>5, <2>1, Counting DEF Counted, Enter, Places
  <2>3. \/ Write(<<Data(tx', rx', "RequestCert")>>)
        \/ Write(<<SynAck(tx, rx'), Data(tx', rx', "RequestCert")>>)
    BY <1>2, <1>7
  <2>4. "ACK" \in seen \/ Flagged(d, "ACK")
    BY <1>5, <1>7
  <2>5. Follows(d) \/ (UNCHANGED rx /\ "SYN" \in seen)
    <3>1. CASE "SYN" \in p.ctrl
      BY <1>1, <1>2, <1>3, <3>1 DEF Follows
    <3>2. CASE "SYN" \notin p.ctrl
      BY <1>2, <1>7, <3>2
    <3> QED
      BY <3>1, <3>2
  <2>6. AskCert(d)
    BY <2>1, <2>3, <2>4, <2>5 DEF AskCert, Enter
  <2> QED
    BY <1>1, <1>5, <2>2, <2>6 DEF HostStep, Hears, Move, HostMove
<1>8. CASE ~({"SYN", "ACK"} \subseteq heard)
  <2>1. /\ UNCHANGED tx
        /\ IF "RST" \in p.ctrl THEN Enter("failed")
                               ELSE pc' = "negotiate" /\ tries' = n + 1
        /\ IF "SYN" \in p.ctrl THEN Write(<<SynAck(tx, rx')>>) ELSE WriteNothing
    BY <1>2, <1>8
  <2>2. /\ pc' \in {"failed", "negotiate"} /\ tries' \in 0 .. Most
    <3>1. n + 1 \in 0 .. Most
      BY <1>6
    <3> QED
      BY <1>6, <2>1, <3>1 DEF Enter
  <2>3. Counted
    BY <1>5, <2>2 DEF Counted, Places
  <2>4. CASE "SYN" \in p.ctrl
    <3>1. Greet(d)
      BY <1>1, <1>2, <1>3, <2>1, <2>2, <2>4 DEF Greet, Follows
    <3> QED
      BY <1>1, <1>5, <2>3, <3>1 DEF HostStep, Hears, Move, HostMove
  <2>5. CASE "SYN" \notin p.ctrl
    <3>1. UNCHANGED rx /\ WriteNothing /\ ("SYN" \in seen' => "SYN" \in seen)
      BY <1>2, <2>1, <2>5
    <3>2. Quiet(d)
      BY <2>1, <2>2, <3>1 DEF Quiet, Speaks, Ended
    <3> QED
      BY <1>1, <1>5, <2>3, <3>2, QuietMove
  <2> QED
    BY <2>4, <2>5
<1> QED
  BY <1>7, <1>8

\* A step of the first two phases that looks at no packet of the link.
LEMMA ViewerQuietMove ==
  ASSUME Types, HostStep, NEW d, Hears(d), UNCHANGED file, KeepsSeq, Again,
         pings' \in 0 .. Pings, seen' = seen \/ seen' = seen \union {"marker"},
         WriteNothing \/ (Write(<<Marker>>) /\ pc \in {"detect", "negotiate"})
  PROVE  HostMove
<1>1. Counted /\ Keeps(d)
  BY Counting DEF Counted, Keeps, Again
<1>2. Noticed(d) /\ ("SYN" \in seen' => "SYN" \in seen)
  BY Counting DEF Noticed
<1>3. Quiet(d)
  BY <1>2 DEF Quiet, Speaks, Again, KeepsSeq
<1> QED
  BY <1>1, <1>2, <1>3, QuietMove

LEMMA ViewerDetectMoves ==
  ASSUME Types, HostStep, ViewerDetect, program = "viewer"
  PROVE  HostMove
<1>1. pc = "detect" /\ pc \notin Ended /\ pings \in 0 .. Pings
  BY Counting DEF ViewerDetect, Ended
<1>2. CASE NoAnswer /\ UNCHANGED file /\ KeepsSeen
  BY <1>1, <1>2, SilentMoves
<1>3. CASE ViewerDetectSilence /\ KeepsSeq /\ UNCHANGED file
  <2>1. Hears(<<>>) /\ Again /\ UNCHANGED seen
    BY <1>3, HearsNothing DEF ViewerDetectSilence
  <2>2. pings' \in 0 .. Pings
    BY <1>1, <1>3, LinkAssumption DEF ViewerDetectSilence
  <2>3. WriteNothing \/ Write(<<Marker>>)
    BY <1>3 DEF ViewerDetectSilence
  <2> QED
    BY <1>1, <1>3, <2>1, <2>2, <2>3, ViewerQuietMove
<1>4. ASSUME NEW d \in Transfers, tries < Tries, Receive(d),
             IF IsLink(Head(d))
             THEN ViewerPacket(Head(d), 0)
             ELSE /\ KeepsSeq /\ UNCHANGED file
                  /\ IF Len(d) = 1 THEN ViewerMarker
                     ELSE Again /\ WriteNothing /\ KeepsSeen
      PROVE HostMove
  <2>1. CASE IsLink(Head(d))
    <3>1. 0 \in 0 .. tries
      BY Counting
    <3>2. ViewerPacket(Head(d), 0)
      BY <1>4, <2>1
    <3> QED
      BY <1>1, <1>4, <3>1, <3>2, ViewerPacketMoves
  <2>2. CASE ~IsLink(Head(d))
    <3>1. Hears(d) /\ KeepsSeq /\ UNCHANGED file
      BY <1>4, <2>2, TransferHears
    <3>2. ViewerMarker \/ (Again /\ WriteNothing /\ KeepsSeen)
      BY <1>4, <2>2
    <3>3. /\ Again /\ UNCHANGED pings
          /\ seen' = seen \/ seen' = seen \union {"marker"}
          /\ WriteNothing \/ Write(<<Marker>>)
      BY <3>2 DEF ViewerMarker, KeepsSeen
    <3> QED
      BY <1>1, <3>1, <3>3, ViewerQuietMove
  <2> QED
    BY <2>1, <2>2
<1> QED
  BY <1>2, <1>3, <1>4, Zenon DEF ViewerDetect

LEMMA ViewerNegotiateMoves ==
  ASSUME Types, HostStep, ViewerNegotiate, program = "viewer"
  PROVE  HostMove
<1>1. pc = "negotiate" /\ pc \notin Ended /\ pings \in 0 .. Pings
  BY Counting DEF ViewerNegotiate, Ended
<1>2. CASE (NoAnswer \/ Silence) /\ UNCHANGED file /\ KeepsSeen
  BY <1>1, <1>2, SilentMoves
<1>4. ASSUME NEW d \in Transfers, tries < Tries, Receive(d),
             IF IsLink(Head(d))
             THEN ViewerPacket(Head(d), tries)
             ELSE /\ Again /\ KeepsSeq /\ UNCHANGED file /\ KeepsSeen
                  /\ IF Len(d) = 1 THEN Write(<<Marker>>) ELSE WriteNothing
      PROVE HostMove
  <2>1. CASE IsLink(Head(d))
    <3>1. tries \in 0 .. tries
      BY Counting
    <3>2. ViewerPacket(Head(d), tries)
      BY <1>4, <2>1
    <3> QED
      BY <1>1, <1>4, <3>1, <3>2, ViewerPacketMoves
  <2>2. CASE ~IsLink(Head(d))
    <3>1. Hears(d) /\ KeepsSeq /\ UNCHANGED file /\ Again /\ KeepsSeen
      BY <1>4, <2>2, TransferHears
    <3>2. Write(<<Marker>>) \/ WriteNothing
      BY <1>4, <2>2
    <3> QED
      BY <1>1, <3>1, <3>2, ViewerQuietMove DEF KeepsSeen
  <2> QED
    BY <2>1, <2>2
<1> QED
  BY <1>2, <1>4, Zenon DEF ViewerNegotiate

\* A packet with a payload that is answered with two messages, or with one.
LEMMA ViewerAuthMoves ==
  ASSUME Types, HostStep, ViewerAuth, program = "viewer"
  PROVE  HostMove
<1>1. pc = "auth" /\ UNCHANGED file /\ KeepsSeen /\ pc \notin Ended /\ pc \in Established
  BY DEF ViewerAuth, Ended, Established, Places
<1>2. CASE NoAnswer \/ Silence
  BY <1>1, <1>2, SilentMoves
<1>3. ASSUME NEW d \in Transfers, Receive(d), ViewerAuthPacket(Head(d))
      PROVE HostMove
  <2> DEFINE p == Head(d)
  <2>0. p \in DevicePackets /\ From(p, d)
    BY <1>3, TransferHears
  <2>1. /\ ~HasPayload(p) => Again /\ WriteNothing /\ KeepsSeq
        /\ HasPayload(p) /\ p.msg = "Cert" => Accept(p, <<"Challenge">>) /\ Again
        /\ HasPayload(p) /\ p.msg = "Response" =>
             Accept(p, <<"AuthSucceeded", "StartIdent">>) /\ Enter("identify")
        /\ HasPayload(p) /\ p.msg # "Cert" /\ p.msg # "Response" =>
             Accept(p, <<>>) /\ Again
    BY <1>3 DEF ViewerAuthPacket
  <2> HIDE DEF p
  <2>2. HasPayload(p) => IsLink(p)
    BY <2>0, KindsOfPacket
  <2>3. CASE ~HasPayload(p)
    BY <1>1, <1>3, <2>1, <2>3, IgnoreMove
  <2>4. CASE HasPayload(p) /\ p.msg = "Cert"
    <3>1. /\ rx' = p.seq /\ tx' = NextSeq(tx) /\ Again
          /\ Write(<<AckOnly(tx, rx'), Data(tx', rx', "Challenge")>>)
      BY <2>1, <2>4, AcceptOne
    <3>2. TakeAndSay(p)
      BY <1>1, <2>4, <3>1 DEF TakeAndSay, Requests, Again
    <3>3. Keeps(d) /\ pc' \in Places /\ tries' \in 0 .. Most
      BY <1>1, <3>1, Counting DEF Keeps
    <3> QED
      BY <1>1, <1>3, <2>0, <2>2, <2>4, <3>1, <3>2, <3>3, TakeMove
  <2>5. CASE HasPayload(p) /\ p.msg = "Response"
    <3>1. /\ rx' = p.seq /\ tx' = NextSeq(NextSeq(tx)) /\ Enter("identify")
          /\ Write(<<AckOnly(tx, rx'), Data(NextSeq(tx), rx', "AuthSucceeded"),
                     Data(tx', rx', "StartIdent")>>)
      BY <2>1, <2>5, AcceptTwo
    <3>2. TakeAndSayTwo(p)
      BY <1>1, <2>5, <3>1 DEF TakeAndSayTwo, Requests, Enter
    <3>3. Keeps(d) /\ pc' \in Places /\ tries' \in 0 .. Most
      BY <1>1, <3>1, Counting DEF Keeps, Enter, Places
    <3> QED
      BY <1>1, <1>3, <2>0, <2>2, <2>5, <3>1, <3>2, <3>3, TakeMove
  <2>6. CASE HasPayload(p) /\ p.msg # "Cert" /\ p.msg # "Response"
    <3>1. Accept(p, <<>>) /\ Again
      BY <2>1, <2>6
    <3>2. pc' = pc /\ tries' \in 0 .. Most /\ NotAwaited(p)
      BY <1>1, <2>6, <3>1, Counting DEF NotAwaited
    <3> QED
      BY <1>1, <1>3, <2>0, <2>2, <2>6, <3>1, <3>2, AcknowledgeMove
  <2> QED
    BY <2>3, <2>4, <2>5, <2>6
<1> QED
  BY <1>2, <1>3, Zenon DEF ViewerAuth

LEMMA ViewerIdentifyMoves ==
  ASSUME Types, HostStep, ViewerIdentify, program = "viewer"
  PROVE  HostMove
<1>1. pc = "identify" /\ UNCHANGED file /\ KeepsSeen /\ pc \notin Ended /\ pc \in Established
  BY DEF ViewerIdentify, Ended, Established, Places
<1>2. CASE NoAnswer \/ Silence
  BY <1>1, <1>2, SilentMoves
<1>3. ASSUME NEW d \in Transfers, Receive(d), ViewerIdentifyPacket(Head(d))
      PROVE HostMove
  <2> DEFINE p == Head(d)
  <2>0. p \in DevicePackets /\ From(p, d)
    BY <1>3, TransferHears
  <2>1. /\ ~HasPayload(p) => Again /\ WriteNothing /\ KeepsSeq
        /\ HasPayload(p) /\ p.msg = "IdentInfo" =>
             Accept(p, <<"IdentAccepted", "StartEA">>) /\ Enter("video")
        /\ HasPayload(p) /\ p.msg # "IdentInfo" => Accept(p, <<>>) /\ Again
    BY <1>3 DEF ViewerIdentifyPacket
  <2> HIDE DEF p
  <2>2. HasPayload(p) => IsLink(p)
    BY <2>0, KindsOfPacket
  <2>3. CASE ~HasPayload(p)
    BY <1>1, <1>3, <2>1, <2>3, IgnoreMove
  <2>5. CASE HasPayload(p) /\ p.msg = "IdentInfo"
    <3>1. /\ rx' = p.seq /\ tx' = NextSeq(NextSeq(tx)) /\ Enter("video")
          /\ Write(<<AckOnly(tx, rx'), Data(NextSeq(tx), rx', "IdentAccepted"),
                     Data(tx', rx', "StartEA")>>)
      BY <2>1, <2>5, AcceptTwo
    <3>2. TakeAndSayTwo(p)
      BY <1>1, <2>5, <3>1 DEF TakeAndSayTwo, Requests, Enter
    <3>3. Keeps(d) /\ pc' \in Places /\ tries' \in 0 .. Most
      BY <1>1, <3>1, Counting DEF Keeps, Enter, Places
    <3> QED
      BY <1>1, <1>3, <2>0, <2>2, <2>5, <3>1, <3>2, <3>3, TakeMove
  <2>6. CASE HasPayload(p) /\ p.msg # "IdentInfo"
    <3>1. Accept(p, <<>>) /\ Again
      BY <2>1, <2>6
    <3>2. pc' = pc /\ tries' \in 0 .. Most /\ NotAwaited(p)
      BY <1>1, <2>6, <3>1, Counting DEF NotAwaited
    <3> QED
      BY <1>1, <1>3, <2>0, <2>2, <2>6, <3>1, <3>2, AcknowledgeMove
  <2> QED
    BY <2>3, <2>5, <2>6
<1> QED
  BY <1>2, <1>3, Zenon DEF ViewerIdentify

LEMMA ViewerVideoMoves ==
  ASSUME Types, HostStep, ViewerVideo
  PROVE  HostMove
<1>1. pc = "video" /\ KeepsSeen /\ pc \in Ended /\ pc \in Established
  BY DEF ViewerVideo, Ended, Established, Places
<1>2. CASE OutOfTries /\ Enter("done") /\ WriteNothing /\ KeepsSeq /\ UNCHANGED file
  <2>1. Hears(<<>>)
    BY <1>2, HearsNothing
  <2>2. Counted /\ Noticed(<<>>) /\ Keeps(<<>>)
    BY <1>1, <1>2, Counting, Counts DEF Enter, Counted, Places, Keeps, KeepsSeen
  <2>3. Quiet(<<>>)
    BY <1>1, <1>2, Counts DEF Quiet, Enter, KeepsSeq, Speaks
  <2> QED
    BY <2>1, <2>2, <2>3, QuietMove
<1>3. CASE Silence /\ UNCHANGED file
  BY <1>1, <1>3, SilentMoves
<1>4. ASSUME NEW d \in Transfers, Receive(d), Again, ViewerVideoPacket(Head(d))
      PROVE HostMove
  <2> DEFINE p == Head(d)
  <2>0. p \in DevicePackets /\ From(p, d) /\ d # <<>>
    BY <1>4, TransferHears
  <2>1. CASE ~IsLink(p)
    <3>1. WriteNothing /\ KeepsSeq /\ UNCHANGED file
      BY <1>4, <2>1 DEF ViewerVideoPacket, KeepsSeq
    <3> QED
      BY <1>1, <1>4, <3>1, IgnoreMove
  <2>2. CASE IsLink(p)
    <3>1. /\ rx' = p.seq /\ UNCHANGED tx
          /\ Speaks(<<>>) \/ Write(<<AckOnly(tx, rx')>>)
          /\ file' = file \o Frames(<<Head(d)>>)
      BY <1>4, <2>2 DEF ViewerVideoPacket, Speaks
    <3>2. Keeps(d)
      BY <2>0, <3>1 DEF Keeps
    <3> HIDE DEF p
    <3>3. pc' = pc /\ tries' \in 0 .. Most
      BY <1>4, Counting
    <3>4. TakeOnly(p) /\ pc' \in Places
      BY <1>1, <3>1, <3>3, Counting DEF TakeOnly
    <3> QED
      BY <1>1, <1>4, <2>0, <2>2, <3>1, <3>2, <3>3, <3>4, TakeMove
  <2> QED
    BY <2>1, <2>2
<1> QED
  BY <1>2, <1>3, <1>4, Zenon DEF ViewerVideo

LEMMA ViewerMoves ==
  ASSUME Types, ViewerHost
  PROVE  HostMove
<1>1. program = "viewer" /\ HostStep
  BY DEF ViewerHost
<1> QED
  BY <1>1, ViewerStartMoves, ViewerDetectMoves, ViewerNegotiateMoves, ViewerAuthMoves,
     ViewerIdentifyMoves, ViewerVideoMoves DEF ViewerHost

\* Whatever a program does is one of the moves.
LEMMA HostMoves ==
  ASSUME Types, Host
  PROVE  HostMove
BY StreamMoves, ConnectMoves, FullMoves, ViewerMoves DEF Host

-----------------------------------------------------------------------------
(* Types, and the video data in order.                                     *)

LEMMA WriteIs ==
  ASSUME Types, NEW ps \in Seq(HostPackets), Speaks(ps)
  PROVE  /\ ep01' \in Seq(HostPackets) /\ faults' \in 0 .. MaxFaults
         /\ faults' = 0 => faults = 0 /\ ep01' = ep01 \o ps
<1>1. CASE Write(ps)
  BY <1>1, Written
<1>2. CASE ps = <<>> /\ WriteNothing
  <2>1. ep01 \in Seq(HostPackets) /\ faults \in 0 .. MaxFaults
    BY DEF Types, TypeOK
  <2>2. ep01 \o <<>> = ep01
    BY <2>1, ConcatEmptySeq
  <2> QED
    BY <1>2, <2>1, <2>2 DEF WriteNothing
<1> QED
  BY <1>1, <1>2 DEF Speaks

LEMMA OctetsOfState ==
  ASSUME Types
  PROVE  /\ tx \in Octet /\ rx \in Octet /\ dseq \in Octet /\ hseq \in Octet
         /\ NextSeq(tx) \in Octet /\ NextSeq(NextSeq(tx)) \in Octet
         /\ NextSeq(dseq) \in Octet /\ NextSeq(hseq) \in Octet
<1>1. tx \in 0 .. 255 /\ rx \in 0 .. 255 /\ dseq \in 0 .. 255 /\ hseq \in 0 .. 255
  BY DEF Types, TypeOK
<1> QED
  BY <1>1 DEF Octet, NextSeq

FrameIn == [p \in DevicePackets |-> FrameOf(p)]

LEMMA FramesAre ==
  /\ FrameIn \in [DevicePackets -> Seq(1 .. MaxVideo)]
  /\ \A d \in Seq(DevicePackets) : Frames(d) = Gather(FrameIn, d)
<1>1. ASSUME NEW p \in DevicePackets PROVE FrameOf(p) \in Seq(1 .. MaxVideo)
  <2>1. MaxVideo \in Nat
    BY LinkAssumption
  <2>2. IsVideo(p) => p.frame \in 1 .. MaxVideo
    BY <2>1 DEF DevicePackets
  <2> DEFINE V == 1 .. MaxVideo
  <2>3. p.frame \in V => <<p.frame>> \in Seq(V)
    OBVIOUS
  <2>4. <<>> \in Seq(V)
    OBVIOUS
  <2> QED
    BY <2>2, <2>3, <2>4, Zenon DEF FrameOf
<1>2. ASSUME NEW d \in Seq(DevicePackets) PROVE Frames(d) = Gather(FrameIn, d)
  <2>1. \A i \in 1 .. Len(d) : d[i] \in DevicePackets
    BY ElementOfSeq
  <2>2. \A i \in 1 .. Len(d) : FrameIn[d[i]] = FrameOf(d[i])
    BY <2>1 DEF FrameIn
  <2>3. [i \in 1 .. Len(d) |-> FrameIn[d[i]]] = [i \in 1 .. Len(d) |-> FrameOf(d[i])]
    BY <2>2
  <2> QED
    BY <2>3, Zenon DEF Frames, Gather
<1> QED
  BY <1>1, <1>2 DEF FrameIn

LEMMA FramesType ==
  ASSUME NEW d \in Seq(DevicePackets)
  PROVE  Frames(d) \in Seq(1 .. MaxVideo)
BY FramesAre, GatherType

LEMMA FramesJoin ==
  ASSUME NEW d \in Seq(DevicePackets), NEW e \in Seq(DevicePackets)
  PROVE  Frames(d \o e) = Frames(d) \o Frames(e)
<1>1. d \o e \in Seq(DevicePackets)
  BY ConcatProperties
<1>2. Gather(FrameIn, d \o e) = Gather(FrameIn, d) \o Gather(FrameIn, e)
  <2> DEFINE T == 1 .. MaxVideo
  <2>1. FrameIn \in [DevicePackets -> Seq(T)]
    BY FramesAre
  <2> HIDE DEF T
  <2> QED
    BY <2>1, GatherConcat
<1> QED
  BY <1>1, <1>2, FramesAre

LEMMA FramesOfOne ==
  ASSUME NEW p \in DevicePackets
  PROVE  <<p>> \in Seq(DevicePackets) /\ Frames(<<p>>) = FrameOf(p)
<1>1. <<p>> \in Seq(DevicePackets)
  OBVIOUS
<1>2. Gather(FrameIn, <<p>>) = FrameIn[p]
  BY FramesAre, GatherOne
<1> QED
  BY <1>1, <1>2, FramesAre DEF FrameIn

AckIn == [p \in DevicePackets |-> AckOf(p)]

LEMMA AcksAre ==
  ASSUME Types, NEW d \in Seq(DevicePackets)
  PROVE  /\ AckIn \in [DevicePackets -> Seq(HostPackets)]
         /\ Acks(d) = Gather(AckIn, d) /\ Acks(d) \in Seq(HostPackets)
<1>1. ASSUME NEW p \in DevicePackets PROVE AckOf(p) \in Seq(HostPackets)
  <2>1. AckOnly(tx, p.seq) \in HostPackets
    BY OctetsOfState, KindsOfPacket, AckOnlyIs
  <2> QED
    BY <2>1 DEF AckOf
<1>2. AckIn \in [DevicePackets -> Seq(HostPackets)]
  BY <1>1 DEF AckIn
<1>3. Acks(d) = Gather(AckIn, d)
  <2>1. \A i \in 1 .. Len(d) : d[i] \in DevicePackets
    BY ElementOfSeq
  <2>2. \A i \in 1 .. Len(d) : AckIn[d[i]] = AckOf(d[i])
    BY <2>1 DEF AckIn
  <2>3. [i \in 1 .. Len(d) |-> AckIn[d[i]]] = [i \in 1 .. Len(d) |-> AckOf(d[i])]
    BY <2>2
  <2> QED
    BY <2>3, Zenon DEF Acks, Gather
<1>4. Gather(AckIn, d) \in Seq(HostPackets)
  BY <1>2, GatherType
<1> QED
  BY <1>2, <1>3, <1>4

\* The number of the last packet with a payload.
LEMMA LastSeqIs ==
  ASSUME Types, NEW d \in Seq(DevicePackets)
  PROVE  \/ /\ LastSeq(d) = rx /\ \A i \in 1 .. Len(d) : ~HasPayload(d[i])
         \/ \E i \in 1 .. Len(d) : HasPayload(d[i]) /\ LastSeq(d) = d[i].seq
                                   /\ \A j \in 1 .. Len(d) : HasPayload(d[j]) => j <= i
<1> DEFINE payloads == {i \in 1 .. Len(d) : HasPayload(d[i])}
<1>1. LastSeq(d) = IF payloads = {} THEN rx ELSE d[Max(payloads)].seq
  BY DEF LastSeq
<1>2. Len(d) \in Nat /\ payloads \subseteq 0 .. Len(d)
  BY LenProperties
<1>3. CASE payloads = {}
  BY <1>1, <1>3
<1>4. CASE payloads # {}
  <2>1. Max(payloads) \in payloads /\ \A y \in payloads : Max(payloads) >= y
    <3> HIDE DEF payloads
    <3> QED
      BY <1>2, <1>4, MaxOf
  <2> DEFINE m == Max(payloads)
  <2>2. m \in 1 .. Len(d) /\ HasPayload(d[m]) /\ LastSeq(d) = d[m].seq
    BY <1>1, <1>4, <2>1
  <2>3. \A j \in 1 .. Len(d) : HasPayload(d[j]) => j \in payloads
    OBVIOUS
  <2>4. \A j \in 1 .. Len(d) : HasPayload(d[j]) => m >= j
    BY <2>1, <2>3
  <2> HIDE DEF m
  <2> QED
    BY <1>2, <2>2, <2>4
<1> QED
  BY <1>3, <1>4

\* What a host writes is well formed.
LEMMA MessagesIn ==
  ASSUME NEW s \in Octet, NEW t \in Octet, NEW a \in Octet, NEW m \in Requests,
         NEW n \in Requests
  PROVE  /\ <<>> \in Seq(HostPackets) /\ <<Marker>> \in Seq(HostPackets)
         /\ <<SynAck(s, a)>> \in Seq(HostPackets) /\ <<AckOnly(s, a)>> \in Seq(HostPackets)
         /\ <<Data(s, a, m)>> \in Seq(HostPackets)
         /\ <<SynAck(s, a), Data(t, a, m)>> \in Seq(HostPackets)
         /\ <<AckOnly(s, a), Data(t, a, m)>> \in Seq(HostPackets)
         /\ <<AckOnly(s, a), Data(s, a, m), Data(t, a, n)>> \in Seq(HostPackets)
         /\ <<AckOnly(s, a), Data(t, a, m), Data(s, a, n)>> \in Seq(HostPackets)
<1> DEFINE H == HostPackets
<1>1. /\ Marker \in H /\ SynAck(s, a) \in H /\ AckOnly(s, a) \in H
      /\ Data(s, a, m) \in H /\ Data(t, a, m) \in H /\ Data(s, a, n) \in H
      /\ Data(t, a, n) \in H
  BY MarkerIs, SynAckIs, AckOnlyIs, DataIs
<1>2. \A x, y, z \in H : /\ <<>> \in Seq(H) /\ <<x>> \in Seq(H) /\ <<x, y>> \in Seq(H)
                         /\ <<x, y, z>> \in Seq(H)
  OBVIOUS
<1> HIDE DEF H
<1> QED
  BY <1>1, <1>2, Zenon DEF H

LEMMA FromIs ==
  ASSUME NEW d \in Seq(DevicePackets), NEW p, From(p, d)
  PROVE  p \in DevicePackets /\ p.seq \in Octet
BY ElementOfSeq, KindsOfPacket DEF From

LEMMA MoveWrites ==
  ASSUME Types, NEW d, Move(d)
  PROVE  /\ tx' \in Octet /\ rx' \in Octet
         /\ ep01' \in Seq(HostPackets) /\ faults' \in 0 .. MaxFaults
         /\ faults' = 0 => faults = 0
<1>1. d \in Seq(DevicePackets)
  BY DEF Move, Heard
<1>2. /\ tx \in Octet /\ rx \in Octet
      /\ NextSeq(tx) \in Octet /\ NextSeq(NextSeq(tx)) \in Octet
  BY OctetsOfState
<1>3. "RequestCert" \in Requests
  BY DEF Requests
<1>4. CASE Quiet(d)
  <2>1. tx' \in Octet /\ rx' \in Octet
    BY <1>2, <1>4 DEF Quiet
  <2>2. <<>> \in Seq(HostPackets) /\ <<Marker>> \in Seq(HostPackets)
    BY <1>2, <1>3, MessagesIn
  <2>3. Speaks(<<>>) \/ Speaks(<<Marker>>)
    BY <1>4 DEF Quiet, Speaks
  <2> QED
    BY <2>1, <2>2, <2>3, WriteIs
<1>5. CASE Greet(d)
  <2>1. tx' \in Octet /\ rx' \in Octet
    BY <1>1, <1>2, <1>5, FromIs DEF Greet, Follows
  <2>2. <<SynAck(tx, rx')>> \in Seq(HostPackets)
    BY <1>2, <1>3, <2>1, MessagesIn
  <2>3. Speaks(<<SynAck(tx, rx')>>)
    BY <1>5 DEF Greet, Speaks
  <2> QED
    BY <2>1, <2>2, <2>3, WriteIs
<1>6. CASE AskCert(d)
  <2>1. tx' \in Octet /\ rx' \in Octet
    BY <1>1, <1>2, <1>6, FromIs DEF AskCert, Follows
  <2>2. /\ <<Data(tx', rx', "RequestCert")>> \in Seq(HostPackets)
        /\ <<SynAck(tx, rx'), Data(tx', rx', "RequestCert")>> \in Seq(HostPackets)
    BY <1>2, <1>3, <2>1, MessagesIn
  <2>3. \/ Speaks(<<Data(tx', rx', "RequestCert")>>)
        \/ Speaks(<<SynAck(tx, rx'), Data(tx', rx', "RequestCert")>>)
    BY <1>6 DEF AskCert, Speaks
  <2> QED
    BY <2>1, <2>2, <2>3, WriteIs
<1>7. CASE Say
  <2>1. tx' \in Octet /\ rx' \in Octet
    BY <1>2, <1>7 DEF Say
  <2>2. PICK m \in Requests : Write(<<Data(tx', rx, m)>>)
    BY <1>7 DEF Say
  <2>3. <<Data(tx', rx, m)>> \in Seq(HostPackets)
    BY <1>2, <2>1, MessagesIn
  <2>4. Speaks(<<Data(tx', rx, m)>>)
    BY <2>2 DEF Speaks
  <2> QED
    BY <2>1, <2>3, <2>4, WriteIs
<1>8. CASE Take(d)
  <2>1. PICK p \in DevicePackets : /\ rx' = p.seq
                                   /\ TakeOnly(p) \/ TakeAndSay(p) \/ TakeAndSayTwo(p)
    BY <1>8 DEF Take
  <2>2. rx' \in Octet
    BY <2>1, KindsOfPacket
  <2>3. CASE TakeOnly(p)
    <3>1. tx' \in Octet
      BY <1>2, <2>3 DEF TakeOnly
    <3>2. <<>> \in Seq(HostPackets) /\ <<AckOnly(tx, rx')>> \in Seq(HostPackets)
      BY <1>2, <1>3, <2>2, MessagesIn
    <3>3. Speaks(<<>>) \/ Speaks(<<AckOnly(tx, rx')>>)
      BY <2>3 DEF TakeOnly, Speaks
    <3> QED
      BY <2>2, <3>1, <3>2, <3>3, WriteIs
  <2>4. CASE TakeAndSay(p)
    <3>1. tx' \in Octet
      BY <1>2, <2>4 DEF TakeAndSay
    <3>2. PICK m \in Requests : \/ Write(<<Data(tx', rx', m)>>)
                                \/ Write(<<AckOnly(tx, rx'), Data(tx', rx', m)>>)
      BY <2>4 DEF TakeAndSay
    <3>3. /\ <<Data(tx', rx', m)>> \in Seq(HostPackets)
          /\ <<AckOnly(tx, rx'), Data(tx', rx', m)>> \in Seq(HostPackets)
      BY <1>2, <2>2, <3>1, MessagesIn
    <3>4. \/ Speaks(<<Data(tx', rx', m)>>)
          \/ Speaks(<<AckOnly(tx, rx'), Data(tx', rx', m)>>)
      BY <3>2 DEF Speaks
    <3> QED
      BY <2>2, <3>1, <3>3, <3>4, WriteIs
  <2>5. CASE TakeAndSayTwo(p)
    <3>1. tx' \in Octet
      BY <1>2, <2>5 DEF TakeAndSayTwo
    <3>2. PICK m \in Requests, n \in Requests :
            Write(<<AckOnly(tx, rx'), Data(NextSeq(tx), rx', m), Data(tx', rx', n)>>)
      BY <2>5 DEF TakeAndSayTwo
    <3> DEFINE ps == <<AckOnly(tx, rx'), Data(NextSeq(tx), rx', m), Data(tx', rx', n)>>
    <3>3. ps \in Seq(HostPackets)
      <4>1. /\ AckOnly(tx, rx') \in HostPackets /\ Data(NextSeq(tx), rx', m) \in HostPackets
            /\ Data(tx', rx', n) \in HostPackets
        BY <1>2, <2>2, <3>1, AckOnlyIs, DataIs
      <4> QED
        BY <4>1
    <3>4. Speaks(ps)
      BY <3>2 DEF Speaks
    <3> HIDE DEF ps
    <3> QED
      BY <2>2, <3>1, <3>3, <3>4, WriteIs
  <2> QED
    BY <2>1, <2>3, <2>4, <2>5
<1>9. CASE AckVideo(d)
  <2>1. tx' \in Octet
    BY <1>2, <1>9 DEF AckVideo
  <2>2. rx' \in Octet
    <3>1. \A i \in 1 .. Len(d) : d[i] \in DevicePackets
      BY <1>1, ElementOfSeq
    <3>2. \A i \in 1 .. Len(d) : d[i].seq \in Octet
      BY <3>1, KindsOfPacket
    <3> QED
      BY <1>1, <1>2, <1>9, <3>2, LastSeqIs DEF AckVideo
  <2>3. Acks(d) \in Seq(HostPackets) /\ <<>> \in Seq(HostPackets)
    BY <1>1, <1>2, <1>3, AcksAre, MessagesIn
  <2>4. Speaks(Acks(d)) \/ Speaks(<<>>)
    BY <1>9 DEF AckVideo, Speaks
  <2> QED
    BY <2>1, <2>2, <2>3, <2>4, WriteIs
<1> QED
  BY <1>4, <1>5, <1>6, <1>7, <1>8, <1>9 DEF Move

\* What a host writes to its file is what comes first in what it has read.
FirstOf(d, kept) ==
  \E e \in Seq(DevicePackets), f \in Seq(DevicePackets) :
    d = e \o f /\ (kept = <<>> \/ kept = Frames(e))

LEMMA MoveKeeps ==
  ASSUME Types, NEW d, Move(d)
  PROVE  \E kept \in Seq(1 .. MaxVideo) : file' = file \o kept /\ FirstOf(d, kept)
<1> DEFINE F == 1 .. MaxVideo
<1>1. d \in Seq(DevicePackets) /\ Keeps(d)
  BY DEF Move, Heard
<1>2. file \in Seq(F)
  BY DEF Types, TypeOK
<1>3. Frames(d) \in Seq(F) /\ d \o <<>> = d /\ <<>> \in Seq(DevicePackets)
  BY <1>1, FramesType, ConcatEmptySeq
<1>4. CASE file' = file
  <2>1. file \o <<>> = file /\ <<>> \in Seq(F)
    BY <1>2, ConcatEmptySeq
  <2> HIDE DEF F
  <2> QED
    BY <1>1, <1>3, <1>4, <2>1 DEF F, FirstOf
<1>5. CASE file' = file \o Frames(d)
  <2> HIDE DEF F
  <2> QED
    BY <1>1, <1>3, <1>5 DEF F, FirstOf
<1>6. CASE d # <<>> /\ file' = file \o Frames(<<Head(d)>>)
  <2>1. /\ 1 \in 0 .. Len(d) /\ Head(d) = d[1] /\ Head(d) \in DevicePackets
        /\ SubSeq(d, 1, 1) = <<Head(d)>>
    <3>1. Len(d) \in Nat /\ Len(d) >= 1
      BY <1>1, <1>6, EmptySeq, LenProperties
    <3>2. 1 \in 1 .. Len(d) /\ 1 \in 0 .. Len(d)
      BY <3>1
    <3>4. d[1] \in DevicePackets
      BY <1>1, <3>2, ElementOfSeq
    <3>3. SubSeq(d, 1, 1) = <<d[1]>>
      <4>1. SubSeq(d, 1, 1) = <<d[1]>> \o SubSeq(d, 2, 1)
        BY <1>1, <3>2, SubSeqRecursiveFirst
      <4>2. SubSeq(d, 2, 1) = <<>>
        BY <1>1, SubSeqEmpty
      <4>3. <<d[1]>> \in Seq(DevicePackets)
        BY <3>4
      <4> QED
        BY <4>1, <4>2, <4>3, ConcatEmptySeq
    <3>5. Head(d) = d[1]
      OBVIOUS
    <3> QED
      BY <3>2, <3>3, <3>4, <3>5
  <2> DEFINE e == <<Head(d)>>
             f == SubSeq(d, 1 + 1, Len(d))
  <2>2. e \in Seq(DevicePackets) /\ f \in Seq(DevicePackets) /\ d = e \o f
    BY <1>1, <2>1, Split
  <2>3. Frames(e) \in Seq(F)
    BY <2>2, FramesType
  <2> HIDE DEF F, e, f
  <2>4. file' = file \o Frames(e)
    BY <1>6 DEF e
  <2> QED
    BY <2>2, <2>3, <2>4 DEF F, FirstOf
<1> QED
  BY <1>1, <1>4, <1>5, <1>6 DEF Keeps

LEMMA MoveTypes ==
  ASSUME Types, NEW d, Move(d)
  PROVE  Types'
<1>1. /\ tx' \in 0 .. 255 /\ rx' \in 0 .. 255
      /\ ep01' \in Seq(HostPackets) /\ faults' \in 0 .. MaxFaults
  BY MoveWrites DEF Octet
<1>2. file' \in Seq(1 .. MaxVideo)
  <2> DEFINE F == 1 .. MaxVideo
  <2>1. PICK kept \in Seq(F) : file' = file \o kept
    BY MoveKeeps
  <2>2. file \in Seq(F)
    BY DEF Types, TypeOK
  <2> HIDE DEF F
  <2>3. file' \in Seq(F)
    BY <2>1, <2>2, ConcatProperties
  <2> QED
    BY <2>3 DEF F
<1>3. /\ pc' \in Places /\ tries' \in 0 .. Max({Tries, Drains}) /\ pings' \in 0 .. Pings
      /\ late' \in BOOLEAN /\ seen' \subseteq {"marker", "SYN", "ACK"}
      /\ ep81' \in Seq(DevicePackets)
      /\ UNCHANGED <<program, link, dseq, hseq, pending, todo, early, markers, video,
                     streaming, identified, acked>>
  BY DEF Move, Counted, Noticed, Heard, Most, deviceVars
<1>4. /\ program' \in Programs /\ link' \in {"detect", "syn", "up"}
      /\ dseq' \in 0 .. 255 /\ hseq' \in 0 .. 255
      /\ pending' \in Answers \union {"video", "none"} /\ todo' \in Seq(Answers)
      /\ markers' \in 0 .. MaxMarkers /\ video' \in 0 .. MaxVideo
      /\ pending' = "video" => video' # 0
  BY <1>3 DEF Types, TypeOK
<1>5. /\ early' \in BOOLEAN /\ streaming' \in BOOLEAN /\ identified' \in BOOLEAN
      /\ acked' \subseteq Answers \union {"video"}
  BY <1>3, Zenon DEF Types, TypeOK
<1>6. TypeOK'
  BY <1>1, <1>2, <1>3, <1>4, <1>5, Zenon DEF TypeOK
<1> QED
  BY <1>1, <1>3, <1>4, <1>6, Zenon DEF Types

\* The device's answers are well formed.
LEMMA UnackedIs ==
  ASSUME Types, pending # "none"
  PROVE  /\ Unacked \in DevicePackets
         /\ Unacked.ctrl = {"ACK"} /\ Unacked.seq = dseq
         /\ Unacked.msg = pending /\ Unacked.frame = video
<1>1. /\ dseq \in Octet /\ hseq \in Octet /\ pending \in Answers \union {"video"}
      /\ video \in 0 .. MaxVideo /\ (pending = "video" => video # 0)
  BY OctetsOfState DEF Types, TypeOK
<1> QED
  BY <1>1, DeviceDataIs DEF Unacked

LEMMA HeadOfHost ==
  ASSUME Types, ep01 # <<>>
  PROVE  /\ Head(ep01) \in HostPackets /\ Tail(ep01) \in Seq(HostPackets)
         /\ Head(ep01).seq \in Octet /\ Head(ep01).ack \in Octet
         /\ Head(ep01).ctrl \subseteq Flags
         /\ IsLink(Head(ep01)) /\ Head(ep01).msg # "none" =>
              Head(ep01).msg \in Requests
<1>1. ep01 \in Seq(HostPackets)
  BY DEF Types
<1>2. Head(ep01) \in HostPackets /\ Tail(ep01) \in Seq(HostPackets)
  BY <1>1, HeadTailProperties
<1> QED
  BY <1>2 DEF HostPackets, IsLink

\* What an acknowledged message and a request change.
LEMMA TakeAckTypes ==
  ASSUME Types, ep01 # <<>>, TakeAck
  PROVE  /\ hseq' \in Octet /\ pending' \in Answers \union {"video", "none"}
         /\ todo' \in Seq(Answers)
         /\ streaming' \in BOOLEAN /\ identified' \in BOOLEAN
         /\ acked' \subseteq Answers \union {"video"}
         /\ ep81' \in Seq(DevicePackets)
         /\ pending' = "video" => pending = "video"
<1> DEFINE p == Head(ep01)
           new == p.msg # "none" /\ p.seq = NextSeq(hseq)
<1>1. /\ p.seq \in Octet /\ (IsLink(p) /\ p.msg # "none" => p.msg \in Requests)
  BY HeadOfHost
<1>2. /\ hseq \in Octet /\ dseq \in Octet /\ pending \in Answers \union {"video", "none"}
      /\ todo \in Seq(Answers) /\ acked \subseteq Answers \union {"video"}
      /\ ep81 \in Seq(DevicePackets)
  BY OctetsOfState DEF Types, TypeOK
<1>3. streaming \in BOOLEAN /\ identified \in BOOLEAN
  BY DEF Types, TypeOK
<1>4. /\ p.ctrl = {"ACK"} /\ IsLink(p)
      /\ IF link = "up"
         THEN /\ IF pending # "none" /\ p.ack = dseq
                 THEN pending' = "none" /\ acked' = acked \union {pending}
                 ELSE UNCHANGED <<pending, acked>>
              /\ IF new
                 THEN /\ hseq' = p.seq
                      /\ todo' = todo \o Replies[p.msg]
                      /\ streaming' = (streaming \/ p.msg = "StartEA")
                      /\ identified' =
                           \/ identified
                           \/ p.msg = "IdentAccepted" /\ "IdentInfo" \in acked'
                 ELSE UNCHANGED <<hseq, todo, streaming, identified>>
              /\ ep81' = IF p.msg = "none" THEN ep81
                         ELSE Append(ep81, AckOnly(dseq, hseq'))
         ELSE UNCHANGED <<hseq, pending, todo, streaming, identified, acked, ep81>>
  BY DEF TakeAck
<1>5. IsLink(p) /\ p.msg # "none" => Replies[p.msg] \in Seq(Answers)
  BY <1>1, Answered
<1> HIDE DEF p
<1>6. /\ pending' \in Answers \union {"video", "none"} /\ (pending' = "video" => pending = "video")
      /\ acked' \subseteq Answers \union {"video"}
  BY <1>2, <1>4
<1>7. streaming' \in BOOLEAN /\ identified' \in BOOLEAN
  BY <1>3, <1>4
<1>8. hseq' \in Octet
  BY <1>1, <1>2, <1>4
<1>9. todo' \in Seq(Answers)
  <2>1. CASE link = "up" /\ new
    <3>1. todo' = todo \o Replies[p.msg] /\ Replies[p.msg] \in Seq(Answers)
      BY <1>4, <1>5, <2>1
    <3> QED
      BY <1>2, <3>1, ConcatProperties
  <2>2. CASE ~(link = "up" /\ new)
    BY <1>2, <1>4, <2>2
  <2> QED
    BY <2>1, <2>2
<1>10. ep81' \in Seq(DevicePackets)
  <2>1. AckOnly(dseq, hseq') \in DevicePackets
    BY <1>2, <1>8, AckOnlyIs
  <2>2. Append(ep81, AckOnly(dseq, hseq')) \in Seq(DevicePackets)
    BY <1>2, <2>1, AppendProperties
  <2> QED
    BY <1>2, <1>4, <2>2
<1> QED
  BY <1>6, <1>7, <1>8, <1>9, <1>10

\* A state whose changes are well typed.
LEMMA DeviceTyped ==
  ASSUME Types, DeviceStep,
         ep01' \in Seq(HostPackets), ep81' \in Seq(DevicePackets),
         link' \in {"detect", "syn", "up"}, dseq' \in Octet, hseq' \in Octet,
         pending' \in Answers \union {"video", "none"}, todo' \in Seq(Answers),
         early' \in BOOLEAN, streaming' \in BOOLEAN, identified' \in BOOLEAN,
         acked' \subseteq Answers \union {"video"},
         markers' \in 0 .. MaxMarkers, video' \in 0 .. MaxVideo,
         faults' \in 0 .. MaxFaults, pending' = "video" => video' # 0
  PROVE  Types'
<1>1. UNCHANGED <<program, pc, tries, tx, rx, pings, seen, file, late>>
  BY DEF DeviceStep, hostVars
<1>2. /\ program' \in Programs /\ pc' \in Places /\ tries' \in 0 .. Max({Tries, Drains})
      /\ tx' \in 0 .. 255 /\ rx' \in 0 .. 255 /\ pings' \in 0 .. Pings
      /\ seen' \subseteq {"marker", "SYN", "ACK"} /\ file' \in Seq(1 .. MaxVideo)
      /\ late' \in BOOLEAN
  BY <1>1, Zenon DEF Types, TypeOK
<1>3. dseq' \in 0 .. 255 /\ hseq' \in 0 .. 255
  BY DEF Octet
<1>4. TypeOK'
  BY <1>2, <1>3, Zenon DEF TypeOK
<1> QED
  BY <1>4, Zenon DEF Types

LEMMA DeviceTypes ==
  ASSUME Types, Device
  PROVE  Types'
<1>1. /\ dseq \in Octet /\ hseq \in Octet /\ NextSeq(dseq) \in Octet
      /\ pending \in Answers \union {"video", "none"} /\ todo \in Seq(Answers)
      /\ acked \subseteq Answers \union {"video"}
      /\ ep01 \in Seq(HostPackets) /\ ep81 \in Seq(DevicePackets)
      /\ link \in {"detect", "syn", "up"} /\ faults \in 0 .. MaxFaults
      /\ markers \in 0 .. MaxMarkers /\ video \in 0 .. MaxVideo
      /\ (pending = "video" => video # 0)
  BY OctetsOfState DEF Types, TypeOK
<1>2. early \in BOOLEAN /\ streaming \in BOOLEAN /\ identified \in BOOLEAN
  BY Zenon DEF Types, TypeOK
<1>3. MaxMarkers \in Nat /\ MaxFaults \in Nat /\ MaxVideo \in Nat
  BY LinkAssumption
<1>4. \A p \in DevicePackets : Append(ep81, p) \in Seq(DevicePackets)
  BY <1>1, AppendProperties
<1>5. Marker \in DevicePackets /\ Syn(dseq) \in DevicePackets /\ Rst \in DevicePackets
  BY <1>1, MarkerIs, SynIs, RstIs
<1>6. CASE DeviceMarker
  <2>1. markers' \in 0 .. MaxMarkers
    BY <1>1, <1>3, <1>6 DEF DeviceMarker
  <2>2. /\ DeviceStep /\ ep81' \in Seq(DevicePackets)
        /\ UNCHANGED <<ep01, link, dseq, hseq, pending, todo, early, video, streaming,
                       identified, acked, faults>>
    BY <1>4, <1>5, <1>6 DEF DeviceMarker
  <2> QED
    BY <1>1, <1>2, <2>1, <2>2, DeviceTyped
<1>7. ASSUME NEW p \in DevicePackets, Resend(p) PROVE Types'
  <2>1. early' \in BOOLEAN
    BY <1>2, <1>7 DEF Resend
  <2>2. /\ DeviceStep /\ ep81' \in Seq(DevicePackets)
        /\ UNCHANGED <<ep01, link, dseq, hseq, pending, todo, markers, video, streaming,
                       identified, acked, faults>>
    BY <1>4, <1>7 DEF Resend
  <2> QED
    BY <1>1, <1>2, <2>1, <2>2, DeviceTyped
<1>8. CASE DeviceSyn
  BY <1>5, <1>7, <1>8 DEF DeviceSyn
<1>9. CASE DeviceResend
  BY <1>7, <1>9, UnackedIs DEF DeviceResend
<1>10. CASE DeviceSend
  <2>1. /\ dseq' \in Octet /\ early' \in BOOLEAN /\ hseq' \in Octet
        /\ DeviceStep /\ ep81' = Append(ep81, Unacked')
        /\ UNCHANGED <<ep01, link, hseq, markers, streaming, identified, acked, faults>>
    BY <1>1, <1>10 DEF DeviceSend
  <2>2. /\ pending' \in Answers \union {"video"} /\ todo' \in Seq(Answers)
        /\ video' \in 0 .. MaxVideo /\ (pending' = "video" => video' # 0)
    <3>1. CASE todo # <<>> /\ pending' = Head(todo) /\ todo' = Tail(todo) /\ UNCHANGED video
      <4>1. Head(todo) \in Answers /\ Tail(todo) \in Seq(Answers)
        BY <1>1, <3>1, HeadTailProperties
      <4>2. "video" \notin Answers
        BY DEF Answers
      <4> QED
        BY <1>1, <3>1, <4>1, <4>2
    <3>2. CASE /\ todo = <<>> /\ streaming /\ video < MaxVideo
               /\ pending' = "video" /\ video' = video + 1 /\ UNCHANGED todo
      BY <1>1, <1>3, <3>2
    <3> QED
      BY <1>10, <3>1, <3>2 DEF DeviceSend
  <2>3. Unacked' \in DevicePackets
    <3>1. LET p == [Data(dseq', hseq', pending') EXCEPT !.frame = video']
          IN  p \in DevicePackets
      BY <2>1, <2>2, DeviceDataIs
    <3> QED
      BY <3>1 DEF Unacked
  <2>4. ep81' \in Seq(DevicePackets)
    BY <1>4, <2>1, <2>3
  <2> QED
    BY <1>1, <1>2, <2>1, <2>2, <2>4, DeviceTyped
<1>11. CASE DeviceTake
  <2>0. ep01 # <<>> /\ ep01' = Tail(ep01) /\ UNCHANGED <<markers, video, faults>> /\ DeviceStep
    BY <1>11 DEF DeviceTake
  <2>1. ep01' \in Seq(HostPackets) /\ Head(ep01).seq \in Octet
    BY <2>0, HeadOfHost
  <2>2. CASE TakeMarker
    <3>1. /\ link' \in {"detect", "syn", "up"}
          /\ UNCHANGED <<dseq, hseq, pending, todo, streaming, identified, acked>>
      BY <1>1, <2>2 DEF TakeMarker
    <3>2. early' \in BOOLEAN
      BY <1>2, <2>2 DEF TakeMarker
    <3>3. ep81' \in Seq(DevicePackets)
      <4>1. <<Marker, Syn(dseq)>> \in Seq(DevicePackets)
        BY <1>5
      <4>2. ep81 \o <<Marker, Syn(dseq)>> \in Seq(DevicePackets)
        BY <1>1, <4>1, ConcatProperties
      <4> QED
        BY <1>1, <1>4, <1>5, <2>2, <4>2 DEF TakeMarker
    <3> QED
      BY <1>1, <1>2, <2>0, <2>1, <3>1, <3>2, <3>3, DeviceTyped
  <2>3. CASE TakeSynAck
    <3>1. /\ link' \in {"detect", "syn", "up"} /\ hseq' \in Octet
          /\ UNCHANGED <<dseq, pending, todo, early, streaming, identified, acked>>
      BY <1>1, <2>1, <2>3 DEF TakeSynAck
    <3>2. ep81' \in Seq(DevicePackets)
      <4>1. AckOnly(dseq, Head(ep01).seq) \in DevicePackets
        BY <1>1, <2>1, AckOnlyIs
      <4> QED
        BY <1>1, <1>4, <2>3, <4>1 DEF TakeSynAck
    <3> QED
      BY <1>1, <1>2, <2>0, <2>1, <3>1, <3>2, DeviceTyped
  <2>4. CASE TakeAck
    <3>1. UNCHANGED <<link, dseq, early>>
      BY <2>4 DEF TakeAck
    <3>2. /\ hseq' \in Octet /\ pending' \in Answers \union {"video", "none"}
          /\ todo' \in Seq(Answers)
          /\ streaming' \in BOOLEAN /\ identified' \in BOOLEAN
          /\ acked' \subseteq Answers \union {"video"}
          /\ ep81' \in Seq(DevicePackets)
          /\ pending' = "video" => pending = "video"
      BY <2>0, <2>4, TakeAckTypes
    <3> QED
      BY <1>1, <1>2, <2>0, <2>1, <3>1, <3>2, DeviceTyped
  <2> QED
    BY <1>11, <2>2, <2>3, <2>4 DEF DeviceTake
<1>12. CASE DeviceReset
  <2>1. /\ DeviceStep /\ link' = "detect" /\ dseq' = NextSeq(dseq) /\ hseq' = 0
        /\ pending' = "none" /\ todo' = <<>> /\ early' = FALSE /\ streaming' = FALSE
        /\ identified' = FALSE /\ ep81' = Append(ep81, Rst)
        /\ UNCHANGED <<ep01, markers, video, acked>>
    BY <1>12 DEF DeviceReset
  <2>2. faults' \in 0 .. MaxFaults
    BY <1>1, <1>3, <1>12 DEF DeviceReset
  <2>3. ep81' \in Seq(DevicePackets) /\ 0 \in Octet /\ <<>> \in Seq(Answers)
    BY <1>4, <1>5, <2>1 DEF Octet
  <2>4. /\ dseq' \in Octet /\ hseq' \in Octet /\ todo' \in Seq(Answers)
        /\ pending' \in Answers \union {"video", "none"} /\ pending' # "video"
        /\ link' \in {"detect", "syn", "up"}
        /\ early' \in BOOLEAN /\ streaming' \in BOOLEAN /\ identified' \in BOOLEAN
    BY <1>1, <2>1, <2>3
  <2> QED
    BY <1>1, <2>1, <2>2, <2>3, <2>4, DeviceTyped
<1> QED
  BY <1>6, <1>8, <1>9, <1>10, <1>11, <1>12 DEF Device, DeviceActs

Bounded(w, v) == \A i \in 1 .. Len(w) : w[i] <= v

\* What is left of an ordered sequence is ordered.
LEMMA OrderedWithout ==
  ASSUME NEW S, S \subseteq Nat, NEW u \in Seq(S), NEW v \in Seq(S), NEW w \in Seq(S),
         NEW n \in Nat, Ordered((u \o v) \o w), Bounded((u \o v) \o w, n)
  PROVE  Ordered(u \o w) /\ Bounded(u \o w, n)
<1> DEFINE a == (u \o v) \o w
           b == u \o w
           at(i) == IF i <= Len(u) THEN i ELSE i + Len(v)
<1>1. Len(u) \in Nat /\ Len(v) \in Nat /\ Len(w) \in Nat
  BY LenProperties
<1>2. /\ u \o v \in Seq(S) /\ Len(u \o v) = Len(u) + Len(v)
      /\ \A i \in 1 .. Len(u) + Len(v) :
           (u \o v)[i] = IF i <= Len(u) THEN u[i] ELSE v[i - Len(u)]
  BY ConcatProperties
<1>3. /\ Len(a) = Len(u) + Len(v) + Len(w)
      /\ \A i \in 1 .. Len(u) + Len(v) + Len(w) :
           a[i] = IF i <= Len(u) + Len(v) THEN (u \o v)[i] ELSE w[i - (Len(u) + Len(v))]
  <2>1. /\ Len(a) = Len(u \o v) + Len(w)
        /\ \A i \in 1 .. Len(u \o v) + Len(w) :
             a[i] = IF i <= Len(u \o v) THEN (u \o v)[i] ELSE w[i - Len(u \o v)]
    BY <1>2, ConcatProperties
  <2> HIDE DEF a
  <2> QED
    BY <1>1, <1>2, <2>1
<1>4. /\ Len(b) = Len(u) + Len(w)
      /\ \A i \in 1 .. Len(u) + Len(w) : b[i] = IF i <= Len(u) THEN u[i] ELSE w[i - Len(u)]
  BY ConcatProperties
<1> HIDE DEF a, b
<1>5. ASSUME NEW i \in 1 .. Len(b) PROVE at(i) \in 1 .. Len(a) /\ b[i] = a[at(i)]
  <2>1. CASE i <= Len(u)
    <3>1. i \in 1 .. Len(u) + Len(v) /\ i \in 1 .. Len(u) + Len(v) + Len(w)
          /\ i <= Len(u) + Len(v) /\ i \in 1 .. Len(u) + Len(w)
      BY <1>1, <1>4, <2>1
    <3>2. b[i] = u[i] /\ a[i] = (u \o v)[i] /\ (u \o v)[i] = u[i]
      BY <1>2, <1>3, <1>4, <2>1, <3>1
    <3> QED
      BY <1>3, <2>1, <3>1, <3>2
  <2>2. CASE ~(i <= Len(u))
    <3>1. i + Len(v) \in 1 .. Len(u) + Len(v) + Len(w) /\ ~(i + Len(v) <= Len(u) + Len(v))
          /\ i \in 1 .. Len(u) + Len(w)
          /\ i + Len(v) - (Len(u) + Len(v)) = i - Len(u)
      BY <1>1, <1>4, <2>2
    <3>2. b[i] = w[i - Len(u)] /\ a[i + Len(v)] = w[i - Len(u)]
      BY <1>3, <1>4, <2>2, <3>1
    <3> QED
      BY <1>3, <2>2, <3>1, <3>2
  <2> QED
    BY <2>1, <2>2
<1>6. \A i, j \in 1 .. Len(b) : i <= j => at(i) <= at(j)
  BY <1>1, <1>4
<1> HIDE DEF at
<1>7. Ordered(b)
  BY <1>5, <1>6 DEF Ordered, a
<1>8. Bounded(b, n)
  BY <1>5 DEF Bounded, a
<1> QED
  BY <1>7, <1>8 DEF b

LEMMA OrderedWith ==
  ASSUME NEW S, S \subseteq Nat, NEW w \in Seq(S), NEW n \in Nat, NEW m \in S, n <= m,
         Ordered(w), Bounded(w, n)
  PROVE  Ordered(w \o <<m>>) /\ Bounded(w \o <<m>>, m)
<1>1. /\ Len(w) \in Nat /\ Append(w, m) \in Seq(S) /\ Len(Append(w, m)) = Len(w) + 1
      /\ \A i \in 1 .. Len(w) : Append(w, m)[i] = w[i]
      /\ Append(w, m)[Len(w) + 1] = m
  BY AppendProperties, LenProperties
<1>2. w \o <<m>> = Append(w, m)
  BY AppendIsConcat
<1> DEFINE b == Append(w, m)
<1> HIDE DEF b
<1>3. \A i \in 1 .. Len(w) : w[i] \in Nat /\ w[i] <= n
  BY ElementOfSeq DEF Bounded
<1>4. \A i \in 1 .. Len(b) : i \in 1 .. Len(w) \/ i = Len(w) + 1
  BY <1>1 DEF b
<1>5. \A i \in 1 .. Len(b) : b[i] <= m
  BY <1>1, <1>3, <1>4 DEF b
<1>6. \A i, j \in 1 .. Len(b) : i <= j => b[i] <= b[j]
  <2> SUFFICES ASSUME NEW i \in 1 .. Len(b), NEW j \in 1 .. Len(b), i <= j PROVE b[i] <= b[j]
    OBVIOUS
  <2>1. CASE j = Len(w) + 1
    BY <1>1, <1>5, <2>1 DEF b
  <2>2. CASE j \in 1 .. Len(w)
    <3>1. i \in 1 .. Len(w)
      BY <1>1, <1>4, <2>2
    <3> QED
      BY <1>1, <2>2, <3>1 DEF b, Ordered
  <2> QED
    BY <1>4, <2>1, <2>2
<1> QED
  BY <1>2, <1>5, <1>6 DEF Ordered, Bounded, b

LEMMA WatchedIs ==
  ASSUME Types
  PROVE  /\ file \in Seq(1 .. MaxVideo) /\ Frames(ep81) \in Seq(1 .. MaxVideo)
         /\ Watched \in Seq(1 .. MaxVideo) /\ 1 .. MaxVideo \subseteq Nat
         /\ VideoInv <=> Ordered(Watched) /\ Bounded(Watched, video)
<1> DEFINE F == 1 .. MaxVideo
<1>1. file \in Seq(F) /\ Frames(ep81) \in Seq(F)
  BY FramesType DEF Types, TypeOK
<1>2. F \subseteq Nat
  BY LinkAssumption
<1> HIDE DEF F
<1>3. Watched \in Seq(F)
  BY <1>1, ConcatProperties DEF Watched
<1>4. VideoInv <=> Ordered(Watched) /\ Bounded(Watched, video)
  BY DEF VideoInv, Bounded
<1> QED
  BY <1>1, <1>2, <1>3, <1>4 DEF F

LEMMA Regrouped ==
  ASSUME NEW S, NEW a \in Seq(S), NEW b \in Seq(S), NEW c \in Seq(S), NEW e \in Seq(S)
  PROVE  /\ a \o ((b \o c) \o e) = (a \o (b \o c)) \o e
         /\ a \o ((b \o c) \o e) = ((a \o b) \o c) \o e
         /\ a \o b \in Seq(S) /\ b \o c \in Seq(S)
<1>1. a \o b \in Seq(S) /\ b \o c \in Seq(S) /\ c \o e \in Seq(S)
  BY ConcatProperties
<1>2. \A x \in Seq(S) : a \o (x \o e) = (a \o x) \o e
  BY ConcatAssociative, SMTT(20)
<1>3. a \o (b \o c) = (a \o b) \o c
  BY ConcatAssociative, SMTT(20)
<1>4. a \o ((b \o c) \o e) = (a \o (b \o c)) \o e
  BY <1>1, <1>2, Zenon
<1> QED
  BY <1>1, <1>3, <1>4, Zenon

LEMMA MoveVideo ==
  ASSUME Types, VideoInv, NEW d, Move(d)
  PROVE  VideoInv'
<1>1. /\ d \in Seq(DevicePackets) /\ ep81' \in Seq(DevicePackets) /\ ep81 = d \o ep81'
      /\ video' = video
  BY DEF Move, Heard, deviceVars
<1>2. PICK kept \in Seq(1 .. MaxVideo) : file' = file \o kept /\ FirstOf(d, kept)
  BY MoveKeeps
<1>3. PICK e \in Seq(DevicePackets), f \in Seq(DevicePackets) :
        d = e \o f /\ (kept = <<>> \/ kept = Frames(e))
  BY <1>2, Zenon DEF FirstOf
<1> DEFINE F == 1 .. MaxVideo
<1>4. Frames(e) \in Seq(F) /\ Frames(f) \in Seq(F) /\ Frames(ep81') \in Seq(F)
  BY <1>1, FramesType
<1>5. /\ file \in Seq(F) /\ kept \in Seq(F) /\ F \subseteq Nat /\ video \in Nat
      /\ Ordered(Watched) /\ Bounded(Watched, video)
  <2>1. video \in Nat
    BY LinkAssumption DEF Types, TypeOK
  <2> QED
    BY <1>2, <2>1, WatchedIs
<1> HIDE DEF F
<1>6. PICK u \in Seq(F), A \in Seq(F), B \in Seq(F), C \in Seq(F) :
        u = file /\ A = Frames(e) /\ B = Frames(f) /\ C = Frames(ep81')
  BY <1>4, <1>5
<1>7. Watched = u \o ((A \o B) \o C)
  <2>1. Frames(d) = A \o B
    BY <1>3, <1>6, FramesJoin
  <2>2. Frames(ep81) = Frames(d) \o C
    BY <1>1, <1>6, FramesJoin
  <2> QED
    BY <1>6, <2>1, <2>2 DEF Watched
<1>8. /\ u \o ((A \o B) \o C) = (u \o (A \o B)) \o C
      /\ u \o ((A \o B) \o C) = ((u \o A) \o B) \o C
      /\ u \o A \in Seq(F) /\ A \o B \in Seq(F)
  BY Regrouped
<1>9. Watched' = (u \o kept) \o C
  BY <1>2, <1>6 DEF Watched
<1>10. CASE kept = <<>>
  <2>1. u \o kept = u
    BY <1>10, ConcatEmptySeq
  <2>2. Ordered(u \o C) /\ Bounded(u \o C, video)
    BY <1>5, <1>7, <1>8, OrderedWithout
  <2> QED
    BY <1>1, <1>9, <2>1, <2>2 DEF VideoInv, Bounded
<1>11. CASE kept = A
  <2>1. Ordered((u \o A) \o C) /\ Bounded((u \o A) \o C, video)
    BY <1>5, <1>7, <1>8, OrderedWithout
  <2> QED
    BY <1>1, <1>9, <1>11, <2>1 DEF VideoInv, Bounded
<1> QED
  BY <1>3, <1>6, <1>10, <1>11

\* The device sends no video data, or the last of them.
LEMMA SentVideo ==
  ASSUME Types, VideoInv, UNCHANGED file, NEW e \in Seq(DevicePackets), ep81' = ep81 \o e,
         video' \in 0 .. MaxVideo, video <= video',
         Frames(e) = <<>> \/ (Frames(e) = <<video'>> /\ video' # 0)
  PROVE  VideoInv'
<1> DEFINE F == 1 .. MaxVideo
<1>1. /\ file \in Seq(F) /\ Frames(ep81) \in Seq(F) /\ F \subseteq Nat
      /\ Watched \in Seq(F) /\ Ordered(Watched) /\ Bounded(Watched, video)
  BY WatchedIs
<1>2. video \in Nat /\ video' \in Nat /\ ep81 \in Seq(DevicePackets) /\ MaxVideo \in Nat
  BY LinkAssumption DEF Types, TypeOK
<1>3. Frames(ep81') = Frames(ep81) \o Frames(e)
  BY <1>2, FramesJoin
<1>4. video' # 0 => video' \in F
  BY <1>2
<1> HIDE DEF F
<1>5. CASE Frames(e) = <<>>
  <2>1. Watched' = Watched
    BY <1>1, <1>3, <1>5, ConcatEmptySeq DEF Watched
  <2>2. \A i \in 1 .. Len(Watched) : Watched[i] \in Nat
    BY <1>1, ElementOfSeq
  <2>3. \A i \in 1 .. Len(Watched) : Watched[i] <= video'
    BY <1>1, <1>2, <2>2 DEF Bounded
  <2> QED
    BY <1>1, <2>1, <2>3 DEF VideoInv, Ordered
<1>6. CASE Frames(e) = <<video'>> /\ video' # 0
  <2>1. <<video'>> \in Seq(F)
    BY <1>4, <1>6
  <2>2. Watched' = Watched \o <<video'>>
    BY <1>1, <1>3, <1>6, <2>1, ConcatAssociative DEF Watched
  <2>3. Ordered(Watched \o <<video'>>) /\ Bounded(Watched \o <<video'>>, video')
    BY <1>1, <1>2, <1>4, <1>6, OrderedWith
  <2> QED
    BY <2>2, <2>3 DEF VideoInv, Bounded
<1> QED
  BY <1>5, <1>6

LEMMA SentOne ==
  ASSUME Types, VideoInv, UNCHANGED file, NEW p \in DevicePackets, ep81' = Append(ep81, p),
         video' \in 0 .. MaxVideo, video <= video', IsVideo(p) => p.frame = video'
  PROVE  VideoInv'
<1>1. <<p>> \in Seq(DevicePackets) /\ Frames(<<p>>) = FrameOf(p)
  BY FramesOfOne
<1>2. ep81 \in Seq(DevicePackets)
  BY DEF Types
<1>3. ep81' = ep81 \o <<p>>
  BY <1>2, AppendIsConcat
<1>4. Frames(<<p>>) = <<>> \/ (Frames(<<p>>) = <<video'>> /\ video' # 0)
  <2>1. IsVideo(p) => p.frame # 0
    BY DEF DevicePackets
  <2> QED
    BY <1>1, <2>1 DEF FrameOf
<1> QED
  BY <1>1, <1>3, <1>4, SentVideo

LEMMA SentNone ==
  ASSUME Types, VideoInv, UNCHANGED <<file, video, ep81>>
  PROVE  VideoInv'
BY DEF VideoInv, Watched, Ordered

LEMMA DeviceVideo ==
  ASSUME Types, VideoInv, Device
  PROVE  VideoInv'
<1>1. /\ dseq \in Octet /\ hseq \in Octet /\ NextSeq(dseq) \in Octet
      /\ video \in 0 .. MaxVideo /\ video \in Nat /\ MaxVideo \in Nat /\ video <= video
      /\ ep81 \in Seq(DevicePackets)
  BY OctetsOfState, LinkAssumption DEF Types, TypeOK
<1>2. UNCHANGED file
  BY DEF Device, DeviceActs, DeviceMarker, DeviceSyn, DeviceResend, Resend, DeviceSend,
         DeviceTake, DeviceReset, DeviceStep, hostVars
<1>3. /\ Marker \in DevicePackets /\ ~IsVideo(Marker)
      /\ Syn(dseq) \in DevicePackets /\ ~IsVideo(Syn(dseq))
      /\ Rst \in DevicePackets /\ ~IsVideo(Rst)
  BY <1>1, MarkerIs, SynIs, RstIs DEF IsVideo, Rst, Packet
<1>4. CASE DeviceMarker
  BY <1>1, <1>2, <1>3, <1>4, SentOne DEF DeviceMarker
<1>5. CASE DeviceSyn
  BY <1>1, <1>2, <1>3, <1>5, SentOne DEF DeviceSyn, Resend
<1>6. CASE DeviceResend
  <2>1. Unacked \in DevicePackets /\ Unacked.frame = video
    BY <1>6, UnackedIs DEF DeviceResend
  <2>2. ep81' = Append(ep81, Unacked) /\ video' = video
    BY <1>6 DEF DeviceResend, Resend
  <2> QED
    BY <1>1, <1>2, <2>1, <2>2, SentOne
<1>7. CASE DeviceSend
  <2>1. Types'
    BY <1>7, DeviceTypes DEF Device, DeviceActs
  <2>2. /\ pending' # "none" /\ ep81' = Append(ep81, Unacked') /\ video <= video'
    <3>1. CASE todo # <<>> /\ pending' = Head(todo) /\ UNCHANGED video
      <4>1. Head(todo) \in Answers
        BY <3>1, HeadTailProperties DEF Types, TypeOK
      <4>2. "none" \notin Answers
        BY DEF Answers
      <4> QED
        BY <1>1, <1>7, <3>1, <4>1, <4>2 DEF DeviceSend
    <3>2. CASE pending' = "video" /\ video' = video + 1
      BY <1>1, <1>7, <3>2 DEF DeviceSend
    <3> QED
      BY <1>7, <3>1, <3>2 DEF DeviceSend
  <2>3. /\ dseq' \in Octet /\ hseq' \in Octet /\ pending' \in Answers \union {"video"}
        /\ video' \in 0 .. MaxVideo /\ (pending' = "video" => video' # 0)
    BY <2>1, <2>2 DEF Types, TypeOK, Octet
  <2>4. Unacked' \in DevicePackets /\ Unacked'.frame = video'
    <3>1. LET p == [Data(dseq', hseq', pending') EXCEPT !.frame = video']
          IN  p \in DevicePackets /\ p.frame = video'
      BY <2>3, DeviceDataIs
    <3> QED
      BY <3>1 DEF Unacked
  <2> QED
    BY <1>1, <1>2, <2>2, <2>3, <2>4, SentOne
<1>8. CASE DeviceTake
  <2>0. ep01 # <<>> /\ UNCHANGED video
    BY <1>8 DEF DeviceTake
  <2>1. Head(ep01).seq \in Octet
    BY <2>0, HeadOfHost
  <2>2. CASE TakeMarker
    <3>1. CASE ep81' = ep81 \o <<Marker, Syn(dseq)>>
      <4> DEFINE e == <<Marker, Syn(dseq)>>
      <4>1. e \in Seq(DevicePackets)
        BY <1>3
      <4>2. Frames(e) = <<>>
        <5>1. <<Marker>> \o <<Syn(dseq)>> = e
          BY TwoOf
        <5>2. /\ <<Marker>> \in Seq(DevicePackets) /\ Frames(<<Marker>>) = <<>>
              /\ <<Syn(dseq)>> \in Seq(DevicePackets) /\ Frames(<<Syn(dseq)>>) = <<>>
          BY <1>3, FramesOfOne DEF FrameOf
        <5>3. Frames(<<Marker>> \o <<Syn(dseq)>>) = Frames(<<Marker>>) \o Frames(<<Syn(dseq)>>)
          BY <5>2, FramesJoin
        <5>4. <<>> \o <<>> = <<>>
          OBVIOUS
        <5> QED
          BY <5>1, <5>2, <5>3, <5>4, Zenon
      <4> HIDE DEF e
      <4>3. ep81' = ep81 \o e
        BY <3>1 DEF e
      <4> QED
        BY <1>1, <1>2, <2>0, <4>1, <4>2, <4>3, SentVideo
    <3>2. CASE ep81' = Append(ep81, Syn(dseq))
      BY <1>1, <1>2, <1>3, <2>0, <3>2, SentOne
    <3>3. CASE UNCHANGED ep81
      BY <1>2, <2>0, <3>3, SentNone
    <3> QED
      BY <2>2, <3>1, <3>2, <3>3 DEF TakeMarker
  <2>3. ASSUME NEW s \in Octet, ep81' = Append(ep81, AckOnly(dseq, s)) PROVE VideoInv'
    <3>1. AckOnly(dseq, s) \in DevicePackets /\ ~IsVideo(AckOnly(dseq, s))
      BY <1>1, AckOnlyIs DEF IsVideo
    <3> QED
      BY <1>1, <1>2, <2>0, <2>3, <3>1, SentOne
  <2>4. CASE TakeSynAck
    <3>1. ep81' = Append(ep81, AckOnly(dseq, Head(ep01).seq)) \/ UNCHANGED ep81
      BY <2>4 DEF TakeSynAck
    <3> QED
      BY <1>2, <2>0, <2>1, <2>3, <3>1, SentNone
  <2>5. CASE TakeAck
    <3>1. hseq' \in Octet
      BY <2>0, <2>5, TakeAckTypes
    <3>2. ep81' = Append(ep81, AckOnly(dseq, hseq')) \/ UNCHANGED ep81
      BY <2>5 DEF TakeAck
    <3> QED
      BY <1>2, <2>0, <2>3, <3>1, <3>2, SentNone
  <2> QED
    BY <1>8, <2>2, <2>4, <2>5 DEF DeviceTake
<1>9. CASE DeviceReset
  BY <1>1, <1>2, <1>3, <1>9, SentOne DEF DeviceReset
<1> QED
  BY <1>4, <1>5, <1>6, <1>7, <1>8, <1>9 DEF Device, DeviceActs

LEMMA InitTypes == Init => Types /\ VideoInv
<1> SUFFICES ASSUME Init PROVE Types /\ VideoInv
  OBVIOUS
<1>1. /\ program \in Programs
      /\ pc = "drain" /\ tries = 0 /\ tx = 0 /\ rx = 0 /\ pings = 0 /\ seen = {} /\ file = <<>>
      /\ ep01 = <<>> /\ ep81 = <<>>
      /\ link = "detect" /\ dseq \in DeviceSeqs /\ hseq = 0
      /\ pending = "none" /\ todo = <<>> /\ markers = 0
      /\ video = 0 /\ acked = {} /\ faults = 0
  BY DEF Init, LinkInit
<1>2. early = FALSE /\ streaming = FALSE /\ identified = FALSE /\ late = FALSE
  BY DEF Init, LinkInit
<1>3. /\ MaxMarkers \in Nat /\ MaxFaults \in Nat /\ MaxVideo \in Nat /\ Pings \in Nat
      /\ DeviceSeqs \subseteq 0 .. 255 /\ Most \in Nat
  BY LinkAssumption, MostIs
<1>4. /\ pc \in Places /\ tries \in 0 .. Max({Tries, Drains}) /\ tx \in 0 .. 255
      /\ rx \in 0 .. 255 /\ pings \in 0 .. Pings /\ seen \subseteq {"marker", "SYN", "ACK"}
      /\ link \in {"detect", "syn", "up"} /\ dseq \in 0 .. 255 /\ hseq \in 0 .. 255
      /\ pending \in Answers \union {"video", "none"}
      /\ markers \in 0 .. MaxMarkers /\ video \in 0 .. MaxVideo
      /\ acked \subseteq Answers \union {"video"} /\ faults \in 0 .. MaxFaults
  BY <1>1, <1>3 DEF Places, Most
<1>5. early \in BOOLEAN /\ streaming \in BOOLEAN /\ identified \in BOOLEAN /\ late \in BOOLEAN
  BY <1>2
<1>6. /\ file \in Seq(1 .. MaxVideo) /\ todo \in Seq(Answers)
      /\ ep01 \in Seq(HostPackets) /\ ep81 \in Seq(DevicePackets)
  <2>1. \A S : <<>> \in Seq(S)
    OBVIOUS
  <2> QED
    BY <1>1, <2>1, Zenon
<1>7. TypeOK
  BY <1>1, <1>4, <1>5, <1>6, Zenon DEF TypeOK
<1>8. Types
  BY <1>1, <1>6, <1>7 DEF Types
<1>9. Watched = <<>>
  <2>1. [i \in 1 .. Len(<<>>) |-> FrameOf(<<>>[i])] = <<>>
    OBVIOUS
  <2>2. Frames(<<>>) = <<>>
    BY <2>1, FlattenEmpty, Zenon DEF Frames
  <2>3. <<>> \o <<>> = <<>>
    OBVIOUS
  <2> QED
    BY <1>1, <2>2, <2>3, Zenon DEF Watched
<1>10. VideoInv
  BY <1>9 DEF VideoInv, Ordered
<1> QED
  BY <1>8, <1>10

LEMMA NextTypes == Types /\ VideoInv /\ [Next]_vars => Types' /\ VideoInv'
<1> SUFFICES ASSUME Types, VideoInv, [Next]_vars PROVE Types' /\ VideoInv'
  OBVIOUS
<1>1. CASE Host
  <2>1. PICK d : Move(d)
    BY <1>1, HostMoves DEF HostMove
  <2> QED
    BY <2>1, MoveTypes, MoveVideo
<1>2. CASE Device
  BY <1>2, DeviceTypes, DeviceVideo
<1>3. CASE UNCHANGED vars
  <2>1. UNCHANGED <<program, hostVars, ep01, ep81, deviceVars, late, faults>>
    BY <1>3 DEF vars
  <2>2. UNCHANGED <<program, pc, tries, tx, rx, pings, seen, file, ep01, ep81, late, faults>>
        /\ UNCHANGED <<link, dseq, hseq, pending, todo, early, markers, video, streaming,
                       identified, acked>>
    BY <2>1 DEF hostVars, deviceVars
  <2>3. Types'
    BY <2>2, Zenon DEF Types, TypeOK
  <2> QED
    BY <2>2, <2>3, SentNone
<1> QED
  BY <1>1, <1>2, <1>3 DEF Next

\* Types and the order of the video data hold in every reachable state.
THEOREM TypesInvariant == Spec => [](Types /\ VideoInv)
<1>1. Init => Types /\ VideoInv
  BY InitTypes
<1>2. Types /\ VideoInv /\ [Next]_vars => (Types /\ VideoInv)'
  BY NextTypes
<1> QED
  BY <1>1, <1>2, PTL DEF Spec

\* Every variable has its type.
THEOREM TypeCorrect == Spec => []TypeOK
<1>1. Types /\ VideoInv => TypeOK
  BY DEF Types
<1> QED
  BY <1>1, TypesInvariant, PTL

\* Video data reach the file in the order in which the device sent them,
\* whatever is lost, sent twice or read in one transfer.
THEOREM VideoIsInOrder == Spec => []VideoInOrder
<1>1. Types /\ VideoInv => VideoInOrder
  <2> SUFFICES ASSUME Types, VideoInv, NEW i \in 1 .. Len(file) - 1
               PROVE  file[i] <= file[i + 1]
    BY DEF VideoInOrder
  <2> DEFINE F == 1 .. MaxVideo
             w == file \o Frames(ep81)
  <2>1. file \in Seq(F) /\ Frames(ep81) \in Seq(F) /\ Ordered(w)
    BY WatchedIs DEF Watched
  <2> HIDE DEF F
  <2>2. /\ Len(file) \in Nat /\ Len(Frames(ep81)) \in Nat
        /\ Len(w) = Len(file) + Len(Frames(ep81))
        /\ \A k \in 1 .. Len(file) + Len(Frames(ep81)) :
             w[k] = IF k <= Len(file) THEN file[k] ELSE Frames(ep81)[k - Len(file)]
    BY <2>1, ConcatProperties, LenProperties
  <2> HIDE DEF w
  <2>3. i \in 1 .. Len(w) /\ i + 1 \in 1 .. Len(w) /\ w[i] = file[i] /\ w[i + 1] = file[i + 1]
    BY <2>2
  <2> QED
    BY <2>1, <2>3 DEF Ordered
<1> QED
  BY <1>1, TypesInvariant, PTL

-----------------------------------------------------------------------------
(* The numbers of the messages on the way.                                 *)

SeqIn == [q \in HostPackets |-> MessageSeq(q)]

LEMMA MessageSeqIs ==
  ASSUME NEW q \in HostPackets
  PROVE  /\ IsMessage(q) => MessageSeq(q) = <<q.seq>>
         /\ ~IsMessage(q) => MessageSeq(q) = <<>>
         /\ MessageSeq(q) \in Seq(Octet)
         /\ q.seq \in Octet
<1>1. q.seq \in Octet /\ q.msg \in Requests \union {"marker", "none"}
      /\ "marker" \notin Requests /\ "none" \notin Requests
  BY DEF HostPackets, Requests
<1>2. IsMessage(q) <=> IsLink(q) /\ q.msg # "none"
  BY <1>1 DEF IsMessage, IsLink
<1>3. <<>> \in Seq(Octet) /\ <<q.seq>> \in Seq(Octet)
  BY <1>1
<1> QED
  BY <1>1, <1>2, <1>3 DEF MessageSeq

LEMMA SentIs ==
  /\ SeqIn \in [HostPackets -> Seq(Octet)]
  /\ \A ps \in Seq(HostPackets) : Sent(ps) = Gather(SeqIn, ps) /\ Sent(ps) \in Seq(Octet)
<1>1. SeqIn \in [HostPackets -> Seq(Octet)]
  BY MessageSeqIs DEF SeqIn
<1>2. ASSUME NEW ps \in Seq(HostPackets)
      PROVE  Sent(ps) = Gather(SeqIn, ps) /\ Sent(ps) \in Seq(Octet)
  <2>1. \A i \in 1 .. Len(ps) : ps[i] \in HostPackets
    BY ElementOfSeq
  <2>2. [i \in 1 .. Len(ps) |-> MessageSeq(ps[i])] = [i \in 1 .. Len(ps) |-> SeqIn[ps[i]]]
    BY <2>1 DEF SeqIn
  <2>3. Gather(SeqIn, ps) \in Seq(Octet)
    BY <1>1, GatherType
  <2> QED
    BY <2>2, <2>3, Zenon DEF Sent, Gather
<1> QED
  BY <1>1, <1>2

LEMMA SentJoin ==
  ASSUME NEW ps \in Seq(HostPackets), NEW qs \in Seq(HostPackets)
  PROVE  /\ ps \o qs \in Seq(HostPackets) /\ Sent(ps \o qs) = Sent(ps) \o Sent(qs)
         /\ Sent(ps) \in Seq(Octet) /\ Sent(qs) \in Seq(Octet)
<1>1. ps \o qs \in Seq(HostPackets)
  BY ConcatProperties
<1>2. Gather(SeqIn, ps \o qs) = Gather(SeqIn, ps) \o Gather(SeqIn, qs)
  <2>1. SeqIn \in [HostPackets -> Seq(Octet)]
    BY SentIs
  <2> QED
    BY <2>1, GatherConcat
<1>3. /\ Sent(ps \o qs) = Gather(SeqIn, ps \o qs) /\ Sent(ps) = Gather(SeqIn, ps)
      /\ Sent(qs) = Gather(SeqIn, qs)
      /\ Sent(ps) \in Seq(Octet) /\ Sent(qs) \in Seq(Octet)
  BY <1>1, SentIs
<1> QED
  BY <1>1, <1>2, <1>3, Zenon

LEMMA SentOfOne ==
  ASSUME NEW q \in HostPackets
  PROVE  <<q>> \in Seq(HostPackets) /\ Sent(<<q>>) = MessageSeq(q)
<1>1. <<q>> \in Seq(HostPackets)
  OBVIOUS
<1>2. SeqIn \in [HostPackets -> Seq(Octet)] /\ Sent(<<q>>) = Gather(SeqIn, <<q>>)
  BY <1>1, SentIs
<1>3. Gather(SeqIn, <<q>>) = SeqIn[q]
  BY <1>2, GatherOne
<1> QED
  BY <1>1, <1>2, <1>3 DEF SeqIn

LEMMA SentEmpty == Sent(<<>>) = <<>>
<1>1. <<>> \in Seq(HostPackets)
  OBVIOUS
<1> QED
  BY <1>1, SentIs, GatherEmpty, Zenon

\* What is no message takes no number.
LEMMA SentSilent ==
  ASSUME NEW X, NEW ps \in Seq(HostPackets), ps \in Seq(X), \A q \in X : ~IsMessage(q)
  PROVE  Sent(ps) = <<>>
<1> DEFINE Y == HostPackets \intersect X
<1> DEFINE f == [q \in Y |-> MessageSeq(q)]
<1>1. \A q \in Y : MessageSeq(q) = <<>>
  BY MessageSeqIs
<1>2. f \in [Y -> Seq({})]
  <2>1. <<>> \in Seq({})
    OBVIOUS
  <2> QED
    BY <1>1, <2>1
<1>3. \A i \in 1 .. Len(ps) : ps[i] \in Y
  BY ElementOfSeq
<1>4. ps \in Seq(Y)
  BY <1>3, SeqWithin
<1>5. Gather(f, ps) \in Seq({})
  BY <1>2, <1>4, GatherType
<1>6. [i \in 1 .. Len(ps) |-> MessageSeq(ps[i])] = [i \in 1 .. Len(ps) |-> f[ps[i]]]
  BY <1>3
<1>7. Sent(ps) = Gather(f, ps)
  BY <1>6, Zenon DEF Sent, Gather
<1>8. \A s \in Seq({}) : s = <<>>
  <2> TAKE s \in Seq({})
  <2>1. Len(s) \in Nat /\ \A i \in 1 .. Len(s) : s[i] \in {}
    BY ElementOfSeq, LenProperties
  <2>2. Len(s) = 0
    BY <2>1
  <2> QED
    BY <2>2, EmptySeq
<1> QED
  BY <1>5, <1>7, <1>8

LEMMA SumsWrap ==
  \A h, i, j \in Nat : (((h + i) % 256) + j) % 256 = (h + i + j) % 256
OBVIOUS

LEMMA InSequenceNone ==
  ASSUME NEW ps \in Seq(HostPackets), Sent(ps) = <<>>, NEW h \in Octet
  PROVE  InSequence(ps, h, h)
<1>1. h % 256 = h /\ h \in Nat /\ h + 0 = h
  BY DEF Octet
<1> QED
  BY <1>1 DEF InSequence

LEMMA InSequenceOne ==
  ASSUME NEW q \in HostPackets, IsMessage(q), NEW h \in Octet, q.seq = NextSeq(h)
  PROVE  InSequence(<<q>>, h, q.seq)
<1>1. Sent(<<q>>) = <<q.seq>>
  BY SentOfOne, MessageSeqIs
<1> DEFINE s == Sent(<<q>>)
<1>2. Len(s) = 1 /\ s[1] = q.seq
  BY <1>1
<1> HIDE DEF s
<1>3. InSequence(<<q>>, h, q.seq) <=> (\A i \in 1 .. Len(s) : s[i] = (h + i) % 256)
                                    /\ q.seq = (h + Len(s)) % 256
  BY DEF InSequence, s
<1> QED
  BY <1>2, <1>3 DEF NextSeq, Octet

LEMMA InSequenceJoin ==
  ASSUME NEW ps \in Seq(HostPackets), NEW qs \in Seq(HostPackets),
         NEW h \in Octet, NEW t, NEW u, InSequence(ps, h, t), InSequence(qs, t, u)
  PROVE  InSequence(ps \o qs, h, u)
<1> DEFINE a == Sent(ps)
           b == Sent(qs)
           c == Sent(ps \o qs)
<1>1. a \in Seq(Octet) /\ b \in Seq(Octet) /\ c = a \o b
  BY SentJoin
<1>2. /\ \A i \in 1 .. Len(a) : a[i] = (h + i) % 256
      /\ t = (h + Len(a)) % 256
      /\ \A i \in 1 .. Len(b) : b[i] = (t + i) % 256
      /\ u = (t + Len(b)) % 256
  BY DEF InSequence
<1> HIDE DEF a, b, c
<1>3. /\ Len(a) \in Nat /\ Len(b) \in Nat /\ Len(c) = Len(a) + Len(b)
      /\ \A i \in 1 .. Len(a) : c[i] = a[i]
      /\ \A i \in 1 .. Len(b) : c[Len(a) + i] = b[i]
  BY <1>1, IndexOfConcat
<1>4. h \in Nat
  BY DEF Octet
<1>5. u = (h + Len(c)) % 256
  BY <1>2, <1>3, <1>4, SumsWrap
<1>6. ASSUME NEW i \in 1 .. Len(c) PROVE c[i] = (h + i) % 256
  <2>1. CASE i <= Len(a)
    BY <1>2, <1>3, <2>1
  <2>2. CASE i > Len(a)
    <3>1. PICK j \in 1 .. Len(b) : i = Len(a) + j
      <4>1. i - Len(a) \in 1 .. Len(b) /\ i = Len(a) + (i - Len(a))
        BY <1>3, <2>2
      <4> QED
        BY <4>1
    <3>2. c[i] = (t + j) % 256
      BY <1>2, <1>3, <3>1
    <3>3. (t + j) % 256 = (h + Len(a) + j) % 256
      BY <1>2, <1>3, <1>4, SumsWrap
    <3> QED
      BY <1>3, <1>4, <3>1, <3>2, <3>3
  <2> QED
    BY <1>3, <2>1, <2>2
<1> QED
  BY <1>5, <1>6 DEF InSequence, c

LEMMA InSequenceTail ==
  ASSUME NEW ps \in Seq(HostPackets), ps # <<>>, NEW h \in Octet, NEW t,
         InSequence(ps, h, t)
  PROVE  /\ IsMessage(Head(ps)) =>
              Head(ps).seq = NextSeq(h) /\ InSequence(Tail(ps), NextSeq(h), t)
         /\ ~IsMessage(Head(ps)) => InSequence(Tail(ps), h, t)
<1> DEFINE q == Head(ps)
           a == Sent(<<q>>)
           b == Sent(Tail(ps))
           c == Sent(ps)
<1>1. q \in HostPackets /\ Tail(ps) \in Seq(HostPackets) /\ <<q>> \in Seq(HostPackets)
      /\ ps = <<q>> \o Tail(ps)
  BY FirstAndRest
<1>2. c = a \o b /\ a = MessageSeq(q) /\ a \in Seq(Octet) /\ b \in Seq(Octet)
  <2>1. Sent(<<q>> \o Tail(ps)) = a \o b /\ a \in Seq(Octet) /\ b \in Seq(Octet)
    BY <1>1, SentJoin
  <2>2. Sent(<<q>>) = MessageSeq(q)
    BY <1>1, SentOfOne
  <2> QED
    BY <1>1, <2>1, <2>2, Zenon
<1>3. /\ \A i \in 1 .. Len(c) : c[i] = (h + i) % 256
      /\ t = (h + Len(c)) % 256
  BY DEF InSequence
<1> HIDE DEF a, b, c
<1>4. CASE IsMessage(q)
  <2>1. a = <<q.seq>>
    BY <1>1, <1>2, <1>4, MessageSeqIs
  <2>2. /\ Len(b) \in Nat /\ Len(c) = 1 + Len(b) /\ c[1] = q.seq
        /\ \A i \in 1 .. Len(b) : c[1 + i] = b[i]
    <3>1. Len(a) = 1 /\ a[1] = q.seq
      BY <2>1
    <3> QED
      BY <1>2, <3>1, IndexOfConcat, SMTT(20)
  <2>3. q.seq = NextSeq(h) /\ h \in Nat
    BY <1>3, <2>2 DEF NextSeq, Octet
  <2>4. t = (NextSeq(h) + Len(b)) % 256
    BY <1>3, <2>2, <2>3, SumsWrap DEF NextSeq
  <2>5. \A i \in 1 .. Len(b) : b[i] = (NextSeq(h) + i) % 256
    <3> TAKE i \in 1 .. Len(b)
    <3>1. b[i] = (h + (1 + i)) % 256
      BY <1>3, <2>2
    <3>2. (NextSeq(h) + i) % 256 = (h + 1 + i) % 256
      BY <2>3, SumsWrap DEF NextSeq
    <3> QED
      BY <2>3, <3>1, <3>2
  <2> QED
    BY <1>4, <2>3, <2>4, <2>5 DEF InSequence, b
<1>5. CASE ~IsMessage(q)
  <2>1. a = <<>>
    BY <1>1, <1>2, <1>5, MessageSeqIs
  <2>2. c = b
    BY <1>2, <2>1, ConcatEmptySeq
  <2> QED
    BY <1>3, <1>5, <2>2 DEF InSequence, b
<1> QED
  BY <1>4, <1>5

-----------------------------------------------------------------------------
(* The window: what was sent before and after the device's last message.   *)

LEMMA BeforeIs ==
  \A s \in Octet : /\ Before(s) \in Octet /\ Before(s) # s
                   /\ NextSeq(s) \in Octet /\ NextSeq(s) # s
                   /\ Before(NextSeq(s)) = s
BY DEF Before, NextSeq, Octet

LEMMA SameWindow ==
  ASSUME UNCHANGED <<dseq, pending, acked>>
  PROVE  New' = New /\ Old' = Old
BY DEF New, Old

LEMMA FromPart ==
  ASSUME NEW S, NEW X, NEW Y, NEW d \in Seq(S), NEW p, From(p, d)
  PROVE  /\ d \in Seq(X) => p \in X
         /\ Parts(d, X, Y) => p \in X \/ p \in Y
<1>1. PICK i \in 1 .. Len(d) : p = d[i]
  BY DEF From
<1>2. ASSUME d \in Seq(X) PROVE p \in X
  BY <1>1, <1>2, ElementOfSeq
<1>3. ASSUME Parts(d, X, Y) PROVE p \in X \/ p \in Y
  <2>1. PICK k \in 0 .. Len(d) :
          (\A j \in 1 .. k : d[j] \in X) /\ \A j \in k + 1 .. Len(d) : d[j] \in Y
    BY <1>3 DEF Parts
  <2>2. Len(d) \in Nat
    BY LenProperties
  <2>3. i \in 1 .. k \/ i \in k + 1 .. Len(d)
    BY <1>1, <2>1, <2>2
  <2> QED
    BY <1>1, <2>1, <2>3
<1> QED
  BY <1>2, <1>3

\* What is left of the window when the transfer d has been read.
LeftOver(d) ==
  \/ rx = dseq /\ d \in Seq(New) /\ ep81' \in Seq(New)
  \/ /\ rx = Before(dseq) /\ pending # "none"
     /\ d \in Seq(Old) /\ Parts(ep81', Old, New)
  \/ /\ rx = Before(dseq) /\ pending # "none"
     /\ Parts(d, Old, New) /\ ep81' \in Seq(New)

LEMMA WindowSplits ==
  ASSUME Types, Window, NEW d, Heard(d)
  PROVE  LeftOver(d)
<1>1. d \in Seq(DevicePackets) /\ ep81' \in Seq(DevicePackets) /\ ep81 = d \o ep81'
  BY DEF Heard
<1>2. CASE rx = dseq /\ ep81 \in Seq(New)
  <2>1. d \o ep81' \in Seq(New)
    BY <1>1, <1>2
  <2>2. d \in Seq(New) /\ ep81' \in Seq(New)
    BY <1>1, <2>1, ConcatWithin
  <2> QED
    BY <1>2, <2>2 DEF LeftOver
<1>3. CASE rx = Before(dseq) /\ pending # "none" /\ Parts(ep81, Old, New)
  <2>1. Parts(d \o ep81', Old, New)
    BY <1>1, <1>3
  <2>2. \/ d \in Seq(Old) /\ Parts(ep81', Old, New)
        \/ Parts(d, Old, New) /\ ep81' \in Seq(New)
    BY <1>1, <2>1, PartsRest
  <2> QED
    BY <1>3, <2>2 DEF LeftOver
<1> QED
  BY <1>2, <1>3 DEF Window

LEMMA PacketHeard ==
  ASSUME Types, Window, NEW d, Heard(d), NEW p, From(p, d)
  PROVE  /\ p \in DevicePackets
         /\ p \in New \/ (rx = Before(dseq) /\ rx # dseq /\ pending # "none" /\ p \in Old)
         /\ IsLink(p) => p.seq \in {dseq, Before(dseq)}
         /\ IsLink(p) /\ rx = dseq => p.seq = dseq
         /\ Worded(p) => p.msg \in acked \/ (p.msg = pending /\ p.seq = dseq)
         /\ IsLink(p) /\ p.seq = dseq /\ rx # dseq /\ HasPayload(p) => p.msg = pending
<1>1. d \in Seq(DevicePackets) /\ p \in DevicePackets
  BY FromIs DEF Heard
<1>2. p \in New \/ (rx = Before(dseq) /\ pending # "none" /\ p \in Old)
  <2>1. LeftOver(d)
    BY WindowSplits
  <2>2. /\ d \in Seq(New) => p \in New
        /\ d \in Seq(Old) => p \in Old
        /\ Parts(d, Old, New) => p \in Old \/ p \in New
    BY <1>1, FromPart
  <2> QED
    BY <2>1, <2>2 DEF LeftOver
<1>3. dseq \in Octet /\ Before(dseq) # dseq
  BY OctetsOfState, BeforeIs
<1>4. rx = dseq => p \in New
  BY <1>2, <1>3
<1>5. (HasPayload(p) => IsLink(p)) /\ (HasPayload(p) <=> Worded(p) \/ "SYN" \in p.ctrl)
  BY <1>1, KindsOfPacket
<1>6. p \in New => /\ IsLink(p) => p.seq = dseq
                   /\ "SYN" \in p.ctrl => pending = "none"
                   /\ Worded(p) => p.msg \in acked \/ p.msg = pending
                   /\ Worded(p) /\ pending # "none" => p.msg = pending
  BY DEF New
<1>7. p \in Old => /\ IsLink(p) => p.seq = Before(dseq)
                   /\ Worded(p) => p.msg \in acked
  BY DEF Old
<1>8. rx = dseq \/ (rx = Before(dseq) /\ pending # "none")
  BY DEF Window
<1> QED
  BY <1>1, <1>2, <1>3, <1>4, <1>5, <1>6, <1>7, <1>8

\* The packets of a transfer are acknowledged in the order in which they came.
LEMMA AcksIn ==
  ASSUME Types, NEW d \in Seq(DevicePackets), NEW X, d \in Seq(X), NEW Z,
         \A p \in DevicePackets \intersect X : HasPayload(p) => AckOnly(tx, p.seq) \in Z
  PROVE  Acks(d) \in Seq(Z)
<1> DEFINE Y == DevicePackets \intersect X
           f == [p \in Y |-> AckOf(p)]
<1>1. \A i \in 1 .. Len(d) : d[i] \in Y
  BY ElementOfSeq
<1>2. d \in Seq(Y)
  BY <1>1, SeqWithin
<1>3. ASSUME NEW p \in Y PROVE AckOf(p) \in Seq(Z)
  <2>1. CASE HasPayload(p)
    <3>1. AckOnly(tx, p.seq) \in Z /\ AckOf(p) = <<AckOnly(tx, p.seq)>>
      BY <2>1 DEF AckOf
    <3> QED
      BY <3>1
  <2>2. CASE ~HasPayload(p)
    <3>1. AckOf(p) = <<>>
      BY <2>2 DEF AckOf
    <3> QED
      BY <3>1
  <2> QED
    BY <2>1, <2>2
<1>4. f \in [Y -> Seq(Z)]
  BY <1>3
<1>5. Gather(f, d) \in Seq(Z)
  BY <1>2, <1>4, GatherType
<1>6. [i \in 1 .. Len(d) |-> AckOf(d[i])] = [i \in 1 .. Len(d) |-> f[d[i]]]
  BY <1>1
<1>7. Acks(d) = Gather(f, d)
  BY <1>6, Zenon DEF Acks, Gather
<1> QED
  BY <1>5, <1>7

LEMMA AcksWithin ==
  ASSUME Types, NEW d \in Seq(DevicePackets), NEW X, d \in Seq(X), NEW s \in Octet,
         \A p \in X : HasPayload(p) => p.seq = s
  PROVE  Acks(d) \in Seq(Acking(s))
<1>1. tx \in Octet
  BY OctetsOfState
<1>2. AckOnly(tx, s) \in HostPackets /\ AckOnly(tx, s).ack = s
  BY <1>1, AckOnlyIs
<1>3. \A p \in DevicePackets \intersect X : HasPayload(p) => AckOnly(tx, p.seq) \in Acking(s)
  BY <1>2 DEF Acking
<1> QED
  BY <1>3, AcksIn

LEMMA AcksJoin ==
  ASSUME Types, NEW a \in Seq(DevicePackets), NEW b \in Seq(DevicePackets)
  PROVE  Acks(a \o b) = Acks(a) \o Acks(b)
<1>1. a \o b \in Seq(DevicePackets)
  BY ConcatProperties
<1>2. AckIn \in [DevicePackets -> Seq(HostPackets)]
  BY AcksAre
<1>3. Gather(AckIn, a \o b) = Gather(AckIn, a) \o Gather(AckIn, b)
  BY <1>2, GatherConcat
<1>4. Acks(a \o b) = Gather(AckIn, a \o b) /\ Acks(a) = Gather(AckIn, a)
      /\ Acks(b) = Gather(AckIn, b)
  BY <1>1, AcksAre
<1> QED
  BY <1>3, <1>4, Zenon

\* The acknowledgements ps continue those on the way.
Answering(d, ps) ==
  /\ rx = dseq => rx' = dseq /\ ps \in Seq(Acking(dseq))
  /\ rx # dseq /\ d \in Seq(Old) =>
       rx' = Before(dseq) /\ ps \in Seq(Acking(Before(dseq)))
  /\ rx # dseq =>
       \/ rx' = dseq /\ Parts(ps, Acking(Before(dseq)), Acking(dseq))
       \/ rx' = Before(dseq) /\ ps \in Seq(Acking(Before(dseq)))

LEMMA FollowingAnswers ==
  ASSUME Types, Window, NEW d, Heard(d), NEW ps \in Seq(HostPackets),
         rx' = rx \/ Follows(d), ps \in Seq(Acking(rx'))
  PROVE  Answering(d, ps)
<1>1. dseq \in Octet /\ Before(dseq) # dseq /\ d \in Seq(DevicePackets)
  BY OctetsOfState, BeforeIs DEF Heard
<1>2. rx = dseq \/ rx = Before(dseq)
  BY DEF Window
<1>3. /\ rx' \in {dseq, Before(dseq)}
      /\ rx = dseq => rx' = dseq
      /\ rx # dseq /\ d \in Seq(Old) => rx' = Before(dseq)
  <2>1. CASE rx' = rx
    BY <1>1, <1>2, <2>1
  <2>2. CASE Follows(d)
    <3>1. PICK p \in DevicePackets : From(p, d) /\ IsLink(p) /\ rx' = p.seq
      BY <2>2 DEF Follows
    <3>2. p.seq \in {dseq, Before(dseq)} /\ (rx = dseq => p.seq = dseq)
      BY <3>1, PacketHeard
    <3>3. d \in Seq(Old) => p.seq = Before(dseq)
      <4>1. d \in Seq(Old) => p \in Old
        BY <1>1, <3>1, FromPart
      <4> QED
        BY <3>1, <4>1 DEF Old
    <3> QED
      BY <3>1, <3>2, <3>3
  <2> QED
    BY <2>1, <2>2
<1>4. rx' = dseq => Parts(ps, Acking(Before(dseq)), Acking(dseq))
  BY PartsOfOne
<1> QED
  BY <1>1, <1>3, <1>4 DEF Answering

LEMMA AcksInParts ==
  ASSUME Types, NEW d \in Seq(DevicePackets), Parts(d, Old, New)
  PROVE  Parts(Acks(d), Acking(Before(dseq)), Acking(dseq))
<1>1. PICK a \in Seq(DevicePackets), b \in Seq(DevicePackets) :
        d = a \o b /\ a \in Seq(Old) /\ b \in Seq(New)
  BY PartsSplit
<1>2. dseq \in Octet /\ Before(dseq) \in Octet
  BY OctetsOfState, BeforeIs
<1>3. /\ \A p \in Old : HasPayload(p) => p.seq = Before(dseq)
      /\ \A p \in New : HasPayload(p) => p.seq = dseq
  BY KindsOfPacket DEF Old, New
<1>4. Acks(a) \in Seq(Acking(Before(dseq))) /\ Acks(b) \in Seq(Acking(dseq))
  BY <1>1, <1>2, <1>3, AcksWithin
<1>5. Acks(a) \in Seq(HostPackets) /\ Acks(b) \in Seq(HostPackets)
  BY <1>1, AcksAre
<1>6. Parts(Acks(a), Acking(Before(dseq)), Acking(dseq))
  BY <1>4, <1>5, PartsOfOne
<1>7. Parts(Acks(a) \o Acks(b), Acking(Before(dseq)), Acking(dseq))
  BY <1>4, <1>5, <1>6, PartsAfter
<1>8. Acks(d) = Acks(a) \o Acks(b)
  BY <1>1, AcksJoin
<1> QED
  BY <1>7, <1>8

LEMMA VideoAnswers ==
  ASSUME Types, Window, NEW d, Heard(d), NEW ps, rx' = LastSeq(d), ps = Acks(d) \/ ps = <<>>
  PROVE  Answering(d, ps)
<1>1. dseq \in Octet /\ Before(dseq) # dseq /\ Before(dseq) \in Octet
      /\ d \in Seq(DevicePackets)
  BY OctetsOfState, BeforeIs DEF Heard
<1>2. rx = dseq \/ rx = Before(dseq)
  BY DEF Window
<1>3. /\ \A p \in Old : HasPayload(p) => p.seq = Before(dseq)
      /\ \A p \in New : HasPayload(p) => p.seq = dseq
  BY KindsOfPacket DEF Old, New
<1>4. \/ rx' = rx /\ \A i \in 1 .. Len(d) : ~HasPayload(d[i])
      \/ \E i \in 1 .. Len(d) : HasPayload(d[i]) /\ rx' = d[i].seq
                                /\ \A j \in 1 .. Len(d) : HasPayload(d[j]) => j <= i
  BY <1>1, LastSeqIs
<1>5. ASSUME NEW i \in 1 .. Len(d), HasPayload(d[i])
      PROVE  /\ d[i].seq \in {dseq, Before(dseq)}
             /\ rx = dseq => d[i].seq = dseq
             /\ d \in Seq(Old) => d[i].seq = Before(dseq)
  <2>1. From(d[i], d)
    BY DEF From
  <2>2. d[i] \in DevicePackets /\ IsLink(d[i])
    BY <1>1, <1>5, ElementOfSeq, KindsOfPacket
  <2>3. d \in Seq(Old) => d[i] \in Old
    BY <1>1, ElementOfSeq
  <2> QED
    BY <1>3, <1>5, <2>1, <2>2, <2>3, PacketHeard
<1>6. <<>> \in Seq(Acking(dseq)) /\ <<>> \in Seq(Acking(Before(dseq)))
      /\ <<>> \in Seq(HostPackets)
  OBVIOUS
<1>7. /\ rx' \in {dseq, Before(dseq)}
      /\ rx = dseq => rx' = dseq
      /\ rx # dseq /\ d \in Seq(Old) => rx' = Before(dseq)
  BY <1>1, <1>2, <1>4, <1>5
<1>8. rx = dseq => ps \in Seq(Acking(dseq))
  <2> SUFFICES ASSUME rx = dseq PROVE Acks(d) \in Seq(Acking(dseq))
    BY <1>6
  <2>1. LeftOver(d)
    BY WindowSplits
  <2>2. d \in Seq(New)
    BY <1>1, <2>1 DEF LeftOver
  <2> QED
    BY <1>1, <1>3, <2>2, AcksWithin
<1>9. rx # dseq /\ rx' = Before(dseq) => ps \in Seq(Acking(Before(dseq)))
  <2> SUFFICES ASSUME rx # dseq, rx' = Before(dseq)
               PROVE  Acks(d) \in Seq(Acking(Before(dseq)))
    BY <1>6
  <2> DEFINE X == {p \in DevicePackets : HasPayload(p) => p.seq = Before(dseq)}
  <2>1. ASSUME NEW i \in 1 .. Len(d) PROVE d[i] \in X
    <3>1. d[i] \in DevicePackets
      BY <1>1, ElementOfSeq
    <3>2. CASE ~HasPayload(d[i])
      BY <3>1, <3>2
    <3>3. CASE HasPayload(d[i])
      <4>1. PICK n \in 1 .. Len(d) : HasPayload(d[n]) /\ d[n].seq = Before(dseq)
              /\ \A j \in 1 .. Len(d) : HasPayload(d[j]) => j <= n
        BY <1>4, <3>3
      <4>2. d \in Seq(Old) \/ Parts(d, Old, New)
        <5>1. LeftOver(d)
          BY WindowSplits
        <5> QED
          BY <5>1 DEF LeftOver
      <4>3. Parts(d, Old, New)
        BY <1>1, <4>2, PartsOfOne
      <4>4. PICK k \in 0 .. Len(d) :
              (\A j \in 1 .. k : d[j] \in Old) /\ \A j \in k + 1 .. Len(d) : d[j] \in New
        BY <4>3 DEF Parts
      <4>5. Len(d) \in Nat
        BY <1>1, LenProperties
      <4>6. n <= k
        <5>1. n > k => d[n] \in New
          BY <4>4, <4>5
        <5> QED
          BY <1>1, <1>3, <4>1, <4>4, <4>5, <5>1
      <4>7. i <= n
        BY <3>3, <4>1
      <4>8. d[i] \in Old
        BY <4>4, <4>5, <4>6, <4>7
      <4> QED
        BY <1>3, <3>1, <4>8
    <3> QED
      BY <3>2, <3>3
  <2>2. d \in Seq(X)
    BY <1>1, <2>1, SeqWithin
  <2>3. \A p \in X : HasPayload(p) => p.seq = Before(dseq)
    OBVIOUS
  <2> HIDE DEF X
  <2> QED
    BY <1>1, <2>2, <2>3, AcksWithin
<1>10. rx # dseq => Parts(ps, Acking(Before(dseq)), Acking(dseq))
  <2> SUFFICES ASSUME rx # dseq PROVE Parts(ps, Acking(Before(dseq)), Acking(dseq))
    OBVIOUS
  <2>1. d \in Seq(Old) \/ Parts(d, Old, New)
    <3>1. LeftOver(d)
      BY WindowSplits
    <3> QED
      BY <3>1 DEF LeftOver
  <2>2. Parts(d, Old, New)
    BY <1>1, <2>1, PartsOfOne
  <2>3. Parts(Acks(d), Acking(Before(dseq)), Acking(dseq))
    BY <1>1, <2>2, AcksInParts
  <2>4. Parts(<<>>, Acking(Before(dseq)), Acking(dseq))
    BY <1>6, PartsOfOne
  <2> QED
    BY <2>3, <2>4
<1> QED
  BY <1>1, <1>7, <1>8, <1>9, <1>10 DEF Answering

LEMMA HostWindow ==
  ASSUME Types, Window, NEW d, Heard(d), UNCHANGED <<dseq, pending, acked>>,
         NEW ps \in Seq(HostPackets), ep01' = ep01 \o ps, Answering(d, ps)
  PROVE  Window'
<1>1. dseq \in Octet /\ Before(dseq) # dseq /\ ep01 \in Seq(HostPackets)
      /\ ep81' \in Seq(DevicePackets)
  BY OctetsOfState, BeforeIs DEF Types, Heard
<1>2. New' = New /\ Old' = Old /\ dseq' = dseq /\ pending' = pending
  BY SameWindow
<1>3. LeftOver(d)
  BY WindowSplits
<1>4. CASE rx = dseq
  <2>1. /\ ep81' \in Seq(New) /\ rx' = dseq /\ ps \in Seq(Acking(dseq))
        /\ Parts(ep01, Acking(Before(dseq)), Acking(dseq))
        /\ pending = "none" => ep01 \in Seq(Acking(dseq))
    BY <1>1, <1>3, <1>4 DEF LeftOver, Answering, Window
  <2>2. Parts(ep01', Acking(Before(dseq)), Acking(dseq))
    BY <1>1, <2>1, PartsAfter
  <2>3. pending = "none" => ep01' \in Seq(Acking(dseq))
    BY <2>1, ConcatProperties
  <2> QED
    BY <1>2, <2>1, <2>2, <2>3 DEF Window
<1>5. CASE rx # dseq
  <2>1. rx = Before(dseq) /\ pending # "none" /\ ep01 \in Seq(Acking(Before(dseq)))
    BY <1>5 DEF Window
  <2>2. CASE rx' = Before(dseq) /\ ps \in Seq(Acking(Before(dseq)))
    <3>1. ep01' \in Seq(Acking(Before(dseq)))
      BY <2>1, <2>2, ConcatProperties
    <3>2. Parts(ep81', Old, New)
      BY <1>1, <1>3, <1>5, PartsOfOne DEF LeftOver
    <3> QED
      BY <1>2, <2>1, <2>2, <3>1, <3>2 DEF Window
  <2>3. CASE rx' = dseq /\ Parts(ps, Acking(Before(dseq)), Acking(dseq))
    <3>1. ep81' \in Seq(New)
      BY <1>1, <1>3, <1>5, <2>3 DEF LeftOver, Answering
    <3>2. Parts(ep01', Acking(Before(dseq)), Acking(dseq))
      BY <1>1, <2>1, <2>3, PartsJoin
    <3> QED
      BY <1>2, <2>1, <2>3, <3>1, <3>2 DEF Window
  <2> QED
    BY <1>5, <2>2, <2>3 DEF Answering
<1> QED
  BY <1>4, <1>5

-----------------------------------------------------------------------------
(* The host on a link that runs.                                           *)

Spoken == {q \in HostPackets : IsAck(q) /\ (IsMessage(q) => q.msg \in Said')}

Speech(d, ps) ==
  /\ ps \in Seq(HostPackets) /\ ps \in Seq(Spoken)
  /\ ep01' = ep01 \o ps
  /\ Answering(d, ps) /\ InSequence(ps, tx, tx')

\* The host goes on: nothing that was said or used is taken back.
Onward ==
  /\ pc' \in Established \union {"failed"}
  /\ Said \subseteq Said'
  /\ \A m \in Answers : Used(m) => Used(m)'

LEMMA NoVideoYet ==
  ASSUME Types, Running, NEW d, Heard(d), NEW p, From(p, d), IsVideo(p)
  PROVE  pc \notin {"auth", "challenge", "identify"}
<1>1. p \in DevicePackets /\ Worded(p) /\ p.msg = "video"
  BY PacketHeard DEF Running, Worded, IsVideo
<1>2. "video" \in acked \/ pending = "video"
  BY <1>1, PacketHeard DEF Running
<1>3. "StartEA" \in Said
  BY <1>2 DEF Running, Asked
<1> QED
  BY <1>3 DEF Said, Late

LEMMA EstablishedIs ==
  Established = {"auth", "challenge", "accept", "auth_drain", "identify", "last_drain",
                 "status", "video", "done"}
BY DEF Established, Places

\* Where a move leads to from a place where the link is established.
Leads ==
  \/ pc' = pc
  \/ pc' = "failed" /\ pc \notin Ended
  \/ pc = "auth" /\ pc' \in {"accept", "challenge", "identify"}
  \/ pc = "challenge" /\ pc' \in {"auth_drain", "identify"}
  \/ pc = "accept" /\ pc' = "auth_drain"
  \/ pc = "auth_drain" /\ pc' = "identify"
  \/ pc = "identify" /\ pc' \in {"last_drain", "video"}
  \/ pc \in Ended /\ pc' \in Ended /\ pc # "done" /\ pc' # "last_drain"

LEMMA LeadsOnward ==
  ASSUME pc \in Established \union {"failed"}, program' = program, Leads
  PROVE  Onward
<1>1. pc' \in Established \union {"failed"}
  BY EstablishedIs DEF Leads, Ended
<1>2. Said \subseteq Said'
  BY DEF Leads, Said, Late, Ended
<1>3. \A m \in Answers : Used(m) => Used(m)'
  <2> SUFFICES ASSUME NEW m \in Answers, Used(m) PROVE Used(m)'
    OBVIOUS
  <2>1. CASE m = "Cert"
    BY <2>1 DEF Leads, Used, Ended
  <2>2. CASE m = "Response"
    BY <2>2 DEF Leads, Used, Ended
  <2>3. CASE m = "IdentInfo"
    BY <2>3 DEF Leads, Used, Ended
  <2> QED
    BY <2>1, <2>2, <2>3 DEF Answers
<1> QED
  BY <1>1, <1>2, <1>3 DEF Onward

LEMMA MoveLeads ==
  ASSUME Types, Running, NEW d, Move(d)
  PROVE  Leads /\ ~Greet(d) /\ ~AskCert(d)
<1>1. pc \in Established \union {"failed"} /\ Heard(d)
  BY DEF Running, Move
<1>2. ~Greet(d) /\ ~AskCert(d)
  BY <1>1, EstablishedIs DEF Greet, AskCert
<1> SUFFICES Leads
  BY <1>2
<1>3. CASE Quiet(d)
  BY <1>1, <1>3, EstablishedIs DEF Quiet, Leads, Ended
<1>4. CASE Say
  BY <1>4 DEF Say, Leads, Ended
<1>5. CASE Take(d)
  <2>1. PICK p \in DevicePackets :
          From(p, d) /\ (TakeOnly(p) \/ TakeAndSay(p) \/ TakeAndSayTwo(p))
    BY <1>5 DEF Take
  <2>2. CASE TakeOnly(p)
    BY <2>2 DEF TakeOnly, Leads
  <2>3. CASE TakeAndSay(p)
    <3>1. ~(pc \in {"auth", "challenge", "identify"} /\ IsVideo(p))
      BY <1>1, <2>1, NoVideoYet
    <3> QED
      BY <2>3, <3>1 DEF TakeAndSay, Leads
  <2>4. CASE TakeAndSayTwo(p)
    BY <2>4 DEF TakeAndSayTwo, Leads
  <2> QED
    BY <2>1, <2>2, <2>3, <2>4
<1>6. CASE AckVideo(d)
  BY <1>6 DEF AckVideo, Leads
<1> QED
  BY <1>2, <1>3, <1>4, <1>5, <1>6 DEF Move

\* What the messages written at once are.
LEMMA Utterances ==
  ASSUME Types, rx' \in Octet, NEW m \in Requests, NEW n \in Requests
  PROVE  LET a == AckOnly(tx, rx')
             b == Data(NextSeq(tx), rx', m)
             c == Data(NextSeq(NextSeq(tx)), rx', n)
         IN  /\ <<a>> \in Seq(Acking(rx')) /\ <<b>> \in Seq(Acking(rx'))
             /\ <<a, b>> \in Seq(Acking(rx')) /\ <<a, b, c>> \in Seq(Acking(rx'))
             /\ <<a>> \in Seq(Spoken)
             /\ m \in Said' => <<b>> \in Seq(Spoken) /\ <<a, b>> \in Seq(Spoken)
             /\ m \in Said' /\ n \in Said' => <<a, b, c>> \in Seq(Spoken)
             /\ InSequence(<<a>>, tx, tx)
             /\ InSequence(<<b>>, tx, NextSeq(tx))
             /\ InSequence(<<a, b>>, tx, NextSeq(tx))
             /\ InSequence(<<a, b, c>>, tx, NextSeq(NextSeq(tx)))
<1> DEFINE a == AckOnly(tx, rx')
           b == Data(NextSeq(tx), rx', m)
           c == Data(NextSeq(NextSeq(tx)), rx', n)
<1>1. tx \in Octet /\ NextSeq(tx) \in Octet /\ NextSeq(NextSeq(tx)) \in Octet
  BY OctetsOfState
<1>2. /\ a \in HostPackets /\ a.ctrl = {"ACK"} /\ a.ack = rx' /\ a.msg = "none"
      /\ a.seq = tx
  BY <1>1, AckOnlyIs
<1>3. /\ b \in HostPackets /\ b.ctrl = {"ACK"} /\ b.ack = rx' /\ b.msg = m
      /\ b.seq = NextSeq(tx)
  BY <1>1, DataIs
<1>4. /\ c \in HostPackets /\ c.ctrl = {"ACK"} /\ c.ack = rx' /\ c.msg = n
      /\ c.seq = NextSeq(NextSeq(tx))
  BY <1>1, DataIs
<1> HIDE DEF a, b, c
<1>5. "none" \notin Requests /\ "marker" \notin Requests
  BY DEF Requests
<1>6. a \in Acking(rx') /\ b \in Acking(rx') /\ c \in Acking(rx')
  BY <1>2, <1>3, <1>4 DEF Acking
<1>7. a \in Spoken /\ (m \in Said' => b \in Spoken) /\ (n \in Said' => c \in Spoken)
  BY <1>2, <1>3, <1>4, <1>5 DEF Spoken, IsAck, IsLink, IsMessage
<1>8. IsMessage(b) /\ IsMessage(c) /\ ~IsMessage(a)
  BY <1>2, <1>3, <1>4, <1>5 DEF IsMessage
<1>9. InSequence(<<a>>, tx, tx)
  <2>1. Sent(<<a>>) = <<>>
    BY <1>2, <1>8, SentOfOne, MessageSeqIs
  <2>2. <<a>> \in Seq(HostPackets)
    BY <1>2
  <2> QED
    BY <1>1, <2>1, <2>2, InSequenceNone
<1>10. InSequence(<<b>>, tx, NextSeq(tx))
  <2>1. InSequence(<<b>>, tx, b.seq)
    BY <1>1, <1>3, <1>8, InSequenceOne
  <2> QED
    BY <1>3, <2>1
<1>11. InSequence(<<c>>, NextSeq(tx), NextSeq(NextSeq(tx)))
  <2>1. InSequence(<<c>>, NextSeq(tx), c.seq)
    BY <1>1, <1>4, <1>8, InSequenceOne
  <2> QED
    BY <1>4, <2>1
<1>12. <<a>> \in Seq(HostPackets) /\ <<b>> \in Seq(HostPackets) /\ <<c>> \in Seq(HostPackets)
  BY <1>2, <1>3, <1>4
<1>13. InSequence(<<a, b>>, tx, NextSeq(tx))
  <2>1. InSequence(<<a>> \o <<b>>, tx, NextSeq(tx))
    BY <1>1, <1>9, <1>10, <1>12, InSequenceJoin
  <2> QED
    BY <2>1, TwoOf, Zenon
<1>14. InSequence(<<a, b, c>>, tx, NextSeq(NextSeq(tx)))
  <2>1. InSequence(<<b>> \o <<c>>, tx, NextSeq(NextSeq(tx)))
    BY <1>1, <1>10, <1>11, <1>12, InSequenceJoin
  <2>2. InSequence(<<b, c>>, tx, NextSeq(NextSeq(tx)))
    BY <2>1, TwoOf, Zenon
  <2>3. <<b, c>> \in Seq(HostPackets)
    BY <1>3, <1>4
  <2>4. InSequence(<<a>> \o <<b, c>>, tx, NextSeq(NextSeq(tx)))
    BY <1>1, <1>9, <1>12, <2>2, <2>3, InSequenceJoin
  <2> QED
    BY <2>4, ThreeOf, Zenon
<1>15. /\ <<a>> \in Seq(Acking(rx')) /\ <<b>> \in Seq(Acking(rx'))
       /\ <<a, b>> \in Seq(Acking(rx')) /\ <<a, b, c>> \in Seq(Acking(rx'))
  <2> DEFINE X == Acking(rx')
  <2> HIDE DEF X
  <2>1. a \in X /\ b \in X /\ c \in X
    BY <1>6 DEF X
  <2>2. <<a>> \in Seq(X) /\ <<b>> \in Seq(X) /\ <<a, b>> \in Seq(X) /\ <<a, b, c>> \in Seq(X)
    BY <2>1
  <2> QED
    BY <2>2 DEF X
<1>16. /\ <<a>> \in Seq(Spoken)
       /\ m \in Said' => <<b>> \in Seq(Spoken) /\ <<a, b>> \in Seq(Spoken)
       /\ m \in Said' /\ n \in Said' => <<a, b, c>> \in Seq(Spoken)
  BY <1>7
<1> QED
  BY <1>9, <1>10, <1>13, <1>14, <1>15, <1>16 DEF a, b, c

LEMMA VideoSpeech ==
  ASSUME Types, Window, NEW d, Heard(d), NEW ps, ps = Acks(d) \/ ps = <<>>,
         rx' = LastSeq(d), UNCHANGED tx, ep01' = ep01 \o ps
  PROVE  Speech(d, ps)
<1> DEFINE Z == {q \in HostPackets : IsAck(q) /\ q.msg = "none"}
<1>1. d \in Seq(DevicePackets) /\ tx \in Octet
  BY OctetsOfState DEF Heard
<1>2. \A p \in DevicePackets : AckOnly(tx, p.seq) \in Z
  <2> TAKE p \in DevicePackets
  <2>1. p.seq \in Octet
    BY KindsOfPacket
  <2>2. /\ AckOnly(tx, p.seq) \in HostPackets /\ AckOnly(tx, p.seq).ctrl = {"ACK"}
        /\ AckOnly(tx, p.seq).msg = "none"
    BY <1>1, <2>1, AckOnlyIs
  <2> QED
    BY <2>2 DEF IsAck, IsLink
<1>3. \A q \in Z : q \in HostPackets /\ ~IsMessage(q) /\ q \in Spoken
  BY DEF IsMessage, Spoken, Requests
<1> HIDE DEF Z
<1>4. Acks(d) \in Seq(Z)
  BY <1>1, <1>2, AcksIn
<1>5. ps \in Seq(Z)
  <2>1. <<>> \in Seq(Z)
    OBVIOUS
  <2> QED
    BY <1>4, <2>1
<1>6. ps \in Seq(HostPackets) /\ ps \in Seq(Spoken)
  BY <1>3, <1>5
<1>7. Sent(ps) = <<>>
  BY <1>3, <1>5, <1>6, SentSilent
<1>8. InSequence(ps, tx, tx')
  BY <1>1, <1>6, <1>7, InSequenceNone
<1>9. Answering(d, ps)
  BY VideoAnswers
<1> QED
  BY <1>6, <1>8, <1>9 DEF Speech

LEMMA SilentSpeech ==
  ASSUME Types, Window, NEW d, Heard(d), UNCHANGED tx, rx' = rx \/ Follows(d),
         Speaks(<<>>), faults' = 0
  PROVE  Speech(d, <<>>)
<1>1. <<>> \in Seq(HostPackets) /\ <<>> \in Seq(Spoken) /\ <<>> \in Seq(Acking(rx'))
  OBVIOUS
<1>2. ep01' = ep01 \o <<>>
  BY <1>1, WriteIs
<1>3. Answering(d, <<>>)
  BY <1>1, FollowingAnswers
<1>4. InSequence(<<>>, tx, tx')
  BY <1>1, OctetsOfState, SentEmpty, InSequenceNone
<1> QED
  BY <1>1, <1>2, <1>3, <1>4 DEF Speech

LEMMA MessageSpeech ==
  ASSUME Types, Window, NEW d, Heard(d), rx' = rx \/ Follows(d), faults' = 0,
         NEW ps \in Seq(HostPackets), Write(ps),
         ps \in Seq(Acking(rx')), ps \in Seq(Spoken), InSequence(ps, tx, tx')
  PROVE  Speech(d, ps)
<1>1. ep01' = ep01 \o ps
  BY WriteIs DEF Speaks
<1>2. Answering(d, ps)
  BY FollowingAnswers
<1> QED
  BY <1>1, <1>2 DEF Speech

Speaking(d) == \E ps : Speech(d, ps)

LEMMA MoveSpeaks ==
  ASSUME Types, Running, NEW d, Move(d), faults' = 0
  PROVE  Speaking(d)
<1>1. Heard(d) /\ Window /\ Leads /\ pc \in Established \union {"failed"}
      /\ program' = program
  BY MoveLeads DEF Running, Move
<1>2. Onward
  BY <1>1, LeadsOnward
<1>3. CASE Quiet(d)
  <2>1. Speech(d, <<>>)
    BY <1>1, <1>3, EstablishedIs, SilentSpeech DEF Quiet
  <2> QED
    BY <2>1 DEF Speaking
<1>4. CASE Say
  <2>1. PICK m \in Requests :
          /\ Write(<<Data(tx', rx, m)>>)
          /\ \/ pc = "accept" /\ pc' = "auth_drain" /\ m = "AuthSucceeded"
             \/ pc = "auth_drain" /\ pc' = "identify" /\ m = "StartIdent"
             \/ pc = "last_drain" /\ pc' = "status" /\ m = "StartEA"
             \/ program = "full" /\ pc = "challenge" /\ pc' = "identify" /\ m = "StartIdent"
             \/ program = "full" /\ pc = "identify" /\ pc' = "video" /\ m = "StartEA"
    BY <1>4 DEF Say
  <2>2. m \in Said'
    BY <2>1 DEF Said, Late, Ended
  <2>3. tx' = NextSeq(tx) /\ rx' = rx /\ rx' \in Octet
    BY <1>4, OctetsOfState DEF Say
  <2> DEFINE ps == <<Data(NextSeq(tx), rx', m)>>
  <2>4. ps \in Seq(Acking(rx')) /\ ps \in Seq(Spoken) /\ InSequence(ps, tx, NextSeq(tx))
    BY <2>2, <2>3, Utterances
  <2>5. Write(ps) /\ ps \in Seq(HostPackets)
    BY <2>1, <2>3, OctetsOfState, MessagesIn
  <2> HIDE DEF ps
  <2>6. Speech(d, ps)
    BY <1>1, <2>3, <2>4, <2>5, MessageSpeech
  <2> QED
    BY <2>6 DEF Speaking
<1>5. CASE Take(d)
  <2>1. PICK p \in DevicePackets :
          /\ From(p, d) /\ IsLink(p) /\ rx' = p.seq
          /\ TakeOnly(p) \/ TakeAndSay(p) \/ TakeAndSayTwo(p)
    BY <1>5 DEF Take
  <2>2. Follows(d) /\ rx' \in Octet
    BY <2>1, KindsOfPacket DEF Follows
  <2>3. PICK r \in Requests : TRUE
    BY DEF Requests
  <2>4. CASE TakeOnly(p)
    <3>1. CASE Speaks(<<>>)
      <4>1. Speech(d, <<>>)
        BY <1>1, <2>2, <2>4, <3>1, SilentSpeech DEF TakeOnly
      <4> QED
        BY <4>1 DEF Speaking
    <3>2. CASE Write(<<AckOnly(tx, rx')>>)
      <4> DEFINE ps == <<AckOnly(tx, rx')>>
      <4>1. ps \in Seq(Acking(rx')) /\ ps \in Seq(Spoken) /\ InSequence(ps, tx, tx)
        BY <2>2, <2>3, Utterances
      <4>2. Write(ps) /\ ps \in Seq(HostPackets) /\ tx' = tx
        BY <2>2, <2>3, <2>4, <3>2, OctetsOfState, MessagesIn DEF TakeOnly
      <4> HIDE DEF ps
      <4>3. Speech(d, ps)
        BY <1>1, <2>2, <4>1, <4>2, MessageSpeech
      <4> QED
        BY <4>3 DEF Speaking
    <3> QED
      BY <2>4, <3>1, <3>2 DEF TakeOnly
  <2>5. CASE TakeAndSay(p)
    <3>1. PICK m \in Requests :
            /\ \/ Write(<<Data(tx', rx', m)>>)
               \/ Write(<<AckOnly(tx, rx'), Data(tx', rx', m)>>)
            /\ \/ /\ pc = "auth" /\ p.msg = "Cert" /\ m = "Challenge"
                  /\ pc' = IF program = "viewer" THEN "auth" ELSE "challenge"
               \/ /\ pc = "challenge" /\ p.msg = "Response" /\ m = "AuthSucceeded"
                  /\ pc' = "auth_drain"
               \/ /\ pc = "identify" /\ p.msg = "IdentInfo" /\ m = "IdentAccepted"
                  /\ pc' = "last_drain"
               \/ pc \in {"auth", "challenge", "identify"} /\ IsVideo(p)
      BY <2>5 DEF TakeAndSay
    <3>2. ~(pc \in {"auth", "challenge", "identify"} /\ IsVideo(p))
      BY <1>1, <2>1, NoVideoYet
    <3>3. m \in Said'
      BY <1>1, <3>1, <3>2 DEF Said, Late, Ended
    <3>4. tx' = NextSeq(tx)
      BY <2>5 DEF TakeAndSay
    <3> DEFINE ps == <<Data(NextSeq(tx), rx', m)>>
               qs == <<AckOnly(tx, rx'), Data(NextSeq(tx), rx', m)>>
    <3>5. /\ ps \in Seq(Acking(rx')) /\ ps \in Seq(Spoken) /\ InSequence(ps, tx, NextSeq(tx))
          /\ qs \in Seq(Acking(rx')) /\ qs \in Seq(Spoken) /\ InSequence(qs, tx, NextSeq(tx))
      BY <2>2, <3>3, Utterances
    <3>6. Write(ps) \/ Write(qs)
      BY <3>1, <3>4
    <3>7. ps \in Seq(HostPackets) /\ qs \in Seq(HostPackets)
      BY <2>2, OctetsOfState, MessagesIn
    <3> HIDE DEF ps, qs
    <3>8. Speech(d, ps) \/ Speech(d, qs)
      BY <1>1, <2>2, <3>4, <3>5, <3>6, <3>7, MessageSpeech
    <3> QED
      BY <3>8 DEF Speaking
  <2>6. CASE TakeAndSayTwo(p)
    <3>1. PICK m \in Requests, n \in Requests :
            /\ Write(<<AckOnly(tx, rx'), Data(NextSeq(tx), rx', m), Data(tx', rx', n)>>)
            /\ \/ /\ m = "AuthSucceeded" /\ n = "StartIdent" /\ pc' = "identify"
               \/ /\ m = "IdentAccepted" /\ n = "StartEA" /\ pc' = "video"
      BY <2>6 DEF TakeAndSayTwo
    <3>2. m \in Said' /\ n \in Said'
      BY <3>1 DEF Said, Late, Ended
    <3>3. tx' = NextSeq(NextSeq(tx))
      BY <2>6 DEF TakeAndSayTwo
    <3> DEFINE ps == <<AckOnly(tx, rx'), Data(NextSeq(tx), rx', m),
                       Data(NextSeq(NextSeq(tx)), rx', n)>>
    <3>4. ps \in Seq(Acking(rx')) /\ ps \in Seq(Spoken)
          /\ InSequence(ps, tx, NextSeq(NextSeq(tx)))
      BY <2>2, <3>2, Utterances
    <3>5. Write(ps)
      BY <3>1, <3>3
    <3>6. ps \in Seq(HostPackets)
      <4>1. tx \in Octet /\ NextSeq(tx) \in Octet /\ NextSeq(NextSeq(tx)) \in Octet
        BY OctetsOfState
      <4>2. /\ AckOnly(tx, rx') \in HostPackets /\ Data(NextSeq(tx), rx', m) \in HostPackets
            /\ Data(NextSeq(NextSeq(tx)), rx', n) \in HostPackets
        BY <2>2, <4>1, AckOnlyIs, DataIs
      <4> QED
        BY <4>2
    <3> HIDE DEF ps
    <3>7. Speech(d, ps)
      BY <1>1, <2>2, <3>3, <3>4, <3>5, <3>6, MessageSpeech
    <3> QED
      BY <3>7 DEF Speaking
  <2> QED
    BY <2>1, <2>4, <2>5, <2>6
<1>6. CASE AckVideo(d)
  <2>1. rx' = LastSeq(d) /\ tx' = tx /\ (Write(Acks(d)) \/ Speaks(<<>>))
    BY <1>6 DEF AckVideo
  <2>2. Acks(d) \in Seq(HostPackets) /\ <<>> \in Seq(HostPackets)
    BY <1>1, AcksAre DEF Heard
  <2>3. ep01' = ep01 \o Acks(d) \/ ep01' = ep01 \o <<>>
    BY <2>1, <2>2, WriteIs DEF Speaks
  <2>4. Speech(d, Acks(d)) \/ Speech(d, <<>>)
    BY <1>1, <2>1, <2>3, VideoSpeech
  <2> QED
    BY <2>4 DEF Speaking
<1> QED
  BY <1>3, <1>4, <1>5, <1>6, MoveLeads DEF Move

LEMMA AllUsed ==
  ASSUME pc' \in Ended
  PROVE  \A m : Used(m)'
BY DEF Used, Ended

\* The device's last message, once it is read, is acted upon.
LEMMA TakeUses ==
  ASSUME Types, Running, NEW d, Heard(d), Take(d), UNCHANGED <<program, deviceVars>>,
         rx # dseq, rx' = dseq
  PROVE  Used(pending)'
<1>1. Window /\ pc \in Established \union {"failed"} /\ pending' = pending
      /\ program' = program
  BY DEF Running, deviceVars
<1>2. PICK p \in DevicePackets :
        /\ From(p, d) /\ IsLink(p) /\ rx' = p.seq
        /\ TakeOnly(p) \/ TakeAndSay(p) \/ TakeAndSayTwo(p)
  BY DEF Take
<1>3. HasPayload(p) => p.msg = pending
  BY <1>1, <1>2, PacketHeard
<1>4. p.msg \in Answers => HasPayload(p)
  BY <1>2, KindsOfPacket
<1>5. /\ pending \in Answerable \union {"none", "video"}
      /\ pending = "Response" => pc # "auth" \/ program = "viewer"
      /\ pending = "IdentInfo" => pc \in Ended \union {"identify", "failed"}
  BY DEF Running, Asked, Answerable, Said, Late
<1>6. CASE TakeOnly(p)
  <2>1. CASE pc' = pc /\ pc \in Ended
    BY <2>1, AllUsed
  <2>2. CASE pc' = pc /\ pc \in Established /\ HasPayload(p) /\ NotAwaited(p)
    <3>1. pending = "Cert" => program = "viewer" \/ pc # "auth"
      BY <1>3, <2>2 DEF NotAwaited
    <3>2. pending = "Response" => pc \notin {"auth", "challenge"}
      BY <1>3, <1>5, <2>2 DEF NotAwaited
    <3>3. pending = "IdentInfo" => pc \in Ended
      BY <1>3, <1>5, <2>2, EstablishedIs DEF NotAwaited
    <3> QED
      BY <1>1, <2>2, <3>1, <3>2, <3>3 DEF Used
  <2>3. CASE pc = "auth" /\ p.msg = "Cert" /\ pc' = "accept"
    <3>1. pending' = "Cert"
      BY <1>1, <1>3, <1>4, <2>3 DEF Answers
    <3> QED
      BY <2>3, <3>1 DEF Used
  <2> QED
    BY <1>6, <2>1, <2>2, <2>3 DEF TakeOnly
<1>7. CASE TakeAndSay(p)
  <2>1. ~(pc \in {"auth", "challenge", "identify"} /\ IsVideo(p))
    BY <1>2, NoVideoYet
  <2>2. CASE p.msg = "Cert" /\ pc' = IF program = "viewer" THEN "auth" ELSE "challenge"
    <3>1. pending' = "Cert"
      BY <1>1, <1>3, <1>4, <2>2 DEF Answers
    <3> QED
      BY <1>1, <2>2, <3>1 DEF Used
  <2>3. CASE p.msg = "Response" /\ pc' = "auth_drain"
    <3>1. pending' = "Response"
      BY <1>1, <1>3, <1>4, <2>3 DEF Answers
    <3> QED
      BY <2>3, <3>1 DEF Used
  <2>4. CASE p.msg = "IdentInfo" /\ pc' = "last_drain"
    BY <2>4, AllUsed DEF Ended
  <2> QED
    BY <1>7, <2>1, <2>2, <2>3, <2>4 DEF TakeAndSay
<1>8. CASE TakeAndSayTwo(p)
  <2>1. CASE p.msg = "Response" /\ pc' = "identify"
    <3>1. pending' = "Response"
      BY <1>1, <1>3, <1>4, <2>1 DEF Answers
    <3> QED
      BY <2>1, <3>1 DEF Used
  <2>2. CASE pc' = "video"
    BY <2>2, AllUsed DEF Ended
  <2> QED
    BY <1>8, <2>1, <2>2 DEF TakeAndSayTwo
<1> QED
  BY <1>2, <1>6, <1>7, <1>8

LEMMA MoveUses ==
  ASSUME Types, Running, NEW d, Move(d)
  PROVE  UsedInv'
<1>1. Heard(d) /\ Window /\ Leads /\ pc \in Established \union {"failed"}
      /\ UNCHANGED <<program, deviceVars>> /\ program' = program
  BY MoveLeads DEF Running, Move
<1>2. Onward
  BY <1>1, LeadsOnward
<1>3. pending' = pending /\ acked' = acked /\ dseq' = dseq
  BY <1>1 DEF deviceVars
<1>4. \A m : Used(m) => Used(m)'
  <2>1. \A m : m \notin Answers => Used(m)'
    BY DEF Used, Answers
  <2> QED
    BY <1>2, <2>1 DEF Onward
<1>5. \A m \in acked' : Used(m)'
  BY <1>3, <1>4 DEF Running, UsedInv
<1>6. ASSUME rx' = dseq' PROVE Used(pending)'
  <2>1. CASE rx = dseq
    <3>1. Used(pending)
      BY <2>1 DEF Running, UsedInv
    <3>2. PICK n : n = pending
      OBVIOUS
    <3>3. Used(n)'
      BY <1>4, <3>1, <3>2
    <3> QED
      BY <1>3, <3>2, <3>3 DEF Used
  <2>2. CASE rx # dseq
    <3>1. rx' # rx
      BY <1>3, <1>6, <2>2
    <3>2. CASE Take(d)
      BY <1>1, <1>3, <1>6, <2>2, <3>2, TakeUses
    <3>3. CASE AckVideo(d)
      <4>1. pc' \in Ended
        BY <3>3 DEF AckVideo, Ended
      <4>2. \A m : Used(m)'
        BY <4>1, AllUsed
      <4> QED
        BY <4>1 DEF Used, Ended
    <3> QED
      BY <3>1, <3>2, <3>3, MoveLeads DEF Move, Quiet, Say
  <2> QED
    BY <2>1, <2>2
<1> QED
  BY <1>5, <1>6 DEF UsedInv

LEMMA Appended ==
  ASSUME Types, NEW ps \in Seq(HostPackets), ep01' = ep01 \o ps
  PROVE  /\ ep01 \in Seq(HostPackets) /\ ep01' \in Seq(HostPackets)
         /\ Len(ep01) \in Nat /\ Len(ps) \in Nat /\ Len(ep01') = Len(ep01) + Len(ps)
         /\ \A i \in 1 .. Len(ep01) : ep01'[i] = ep01[i]
         /\ \A i \in 1 .. Len(ps) : ep01'[Len(ep01) + i] = ps[i]
<1>1. ep01 \in Seq(HostPackets)
  BY DEF Types
<1> QED
  BY <1>1, IndexOfConcat

LEMMA MoveAsksFirst ==
  ASSUME Types, CertFirst, UNCHANGED deviceVars,
         NEW ps \in Seq(HostPackets), ep01' = ep01 \o ps
  PROVE  CertFirst'
<1>1. /\ pending' = pending /\ todo' = todo /\ acked' = acked /\ streaming' = streaming
  BY DEF deviceVars
<1>2. CASE /\ pending = "none" /\ todo = <<>> /\ acked = {} /\ ~streaming
           /\ \E k \in 1 .. Len(ep01) :
                /\ ep01[k].msg = "RequestCert" /\ "SYN" \notin ep01[k].ctrl
                /\ \A i \in 1 .. k - 1 : ~IsMessage(ep01[i])
  <2>1. PICK k \in 1 .. Len(ep01) :
          /\ ep01[k].msg = "RequestCert" /\ "SYN" \notin ep01[k].ctrl
          /\ \A i \in 1 .. k - 1 : ~IsMessage(ep01[i])
    BY <1>2
  <2>2. k \in 1 .. Len(ep01') /\ ep01'[k] = ep01[k]
        /\ \A i \in 1 .. k - 1 : ep01'[i] = ep01[i]
    BY Appended
  <2>3. /\ ep01'[k].msg = "RequestCert" /\ "SYN" \notin ep01'[k].ctrl
        /\ \A i \in 1 .. k - 1 : ~IsMessage(ep01'[i])
    BY <2>1, <2>2
  <2> QED
    BY <1>1, <1>2, <2>2, <2>3 DEF CertFirst
<1> QED
  BY <1>1, <1>2 DEF CertFirst

\* The packet that accepts the identification.
Accepting(q) ==
  /\ q.msg = "IdentAccepted" /\ "SYN" \notin q.ctrl
  /\ \/ "IdentInfo" \in acked
     \/ pending = "IdentInfo" /\ q.ack = dseq

\* The device has been told that its identification is accepted, or is about
\* to be.
Identification ==
  "Cert" \in acked /\ (identified \/ \E k \in 1 .. Len(ep01) : Accepting(ep01[k]))

LEMMA AcceptedIs == Accepted <=> (pc \in Ended /\ program # "full" => Identification)
BY DEF Accepted, Accepting, Identification

\* The host has been sent the identification after the certificate.
LEMMA IdentificationHeard ==
  ASSUME Types, Running, NEW d, Heard(d), NEW p, From(p, d), IsLink(p), p.msg = "IdentInfo",
         NEW s \in Octet
  PROVE  /\ "Cert" \in acked
         /\ Data(s, p.seq, "IdentAccepted") \in HostPackets
         /\ Accepting(Data(s, p.seq, "IdentAccepted"))
<1>1. p \in DevicePackets /\ Window /\ CertFirst
  BY PacketHeard DEF Running
<1>2. Worded(p) /\ p.seq \in Octet
  BY <1>1, KindsOfPacket DEF Answers
<1>3. "IdentInfo" \in acked \/ (pending = "IdentInfo" /\ p.seq = dseq)
  BY <1>1, <1>2, PacketHeard
<1>4. "Cert" \in acked
  BY <1>1, <1>3 DEF CertFirst
<1>5. "IdentAccepted" \in Requests
  BY DEF Requests
<1> DEFINE q == Data(s, p.seq, "IdentAccepted")
<1>6. q \in HostPackets /\ q.ctrl = {"ACK"} /\ q.ack = p.seq /\ q.msg = "IdentAccepted"
  BY <1>2, <1>5, DataIs
<1> HIDE DEF q
<1>7. Accepting(q)
  BY <1>3, <1>6 DEF Accepting
<1> QED
  BY <1>4, <1>6, <1>7 DEF q

LEMMA MoveAccepts ==
  ASSUME Types, Running, NEW d, Move(d), faults' = 0,
         NEW ps \in Seq(HostPackets), ep01' = ep01 \o ps
  PROVE  Accepted'
<1>1. /\ Heard(d) /\ Window /\ Accepted /\ pc \in Established \union {"failed"}
      /\ UNCHANGED <<program, deviceVars>> /\ program' = program
      /\ pending' = pending /\ acked' = acked /\ dseq' = dseq /\ identified' = identified
  BY DEF Running, Move, deviceVars
<1> SUFFICES ASSUME pc' \in Ended, program # "full"
             PROVE  /\ "Cert" \in acked
                    /\ identified \/ \E k \in 1 .. Len(ep01') : Accepting(ep01'[k])
  BY <1>1 DEF Accepted, Accepting
<1>2. CASE pc \in Ended
  <2>1. "Cert" \in acked /\ (identified \/ \E k \in 1 .. Len(ep01) : Accepting(ep01[k]))
    BY <1>1, <1>2, AcceptedIs DEF Identification
  <2>2. ASSUME NEW k \in 1 .. Len(ep01), Accepting(ep01[k])
        PROVE  k \in 1 .. Len(ep01') /\ Accepting(ep01'[k])
    BY <2>2, Appended
  <2> QED
    BY <2>1, <2>2
<1>3. CASE pc \notin Ended
  <2>1. Take(d)
    BY <1>1, <1>3, MoveLeads, EstablishedIs DEF Move, Quiet, Say, AckVideo, Ended
  <2>2. PICK p \in DevicePackets :
          /\ From(p, d) /\ IsLink(p) /\ rx' = p.seq
          /\ TakeOnly(p) \/ TakeAndSay(p) \/ TakeAndSayTwo(p)
    BY <2>1 DEF Take
  <2>3. tx \in Octet /\ NextSeq(tx) \in Octet /\ NextSeq(NextSeq(tx)) \in Octet
        /\ p.seq \in Octet /\ "IdentAccepted" \in Requests
    BY OctetsOfState, KindsOfPacket DEF Requests
  <2> DEFINE a == AckOnly(tx, p.seq)
             b == Data(NextSeq(tx), p.seq, "IdentAccepted")
  <2>4. a \in HostPackets
    BY <2>3, AckOnlyIs
  <2>5. p.msg = "IdentInfo" => "Cert" \in acked /\ b \in HostPackets /\ Accepting(b)
    BY <1>1, <2>2, <2>3, IdentificationHeard
  <2>6. CASE TakeOnly(p)
    BY <1>3, <2>6 DEF TakeOnly, Ended
  <2>7. CASE TakeAndSay(p)
    <3>1. ~(pc \in {"auth", "challenge", "identify"} /\ IsVideo(p))
      BY <1>1, <2>2, NoVideoYet
    <3>2. /\ p.msg = "IdentInfo" /\ tx' = NextSeq(tx)
          /\ Write(<<b>>) \/ Write(<<a, b>>)
      BY <1>3, <2>2, <2>7, <3>1 DEF TakeAndSay, Ended
    <3>3. b \in HostPackets /\ Accepting(b) /\ "Cert" \in acked
      BY <2>5, <3>2
    <3> HIDE DEF a, b
    <3>4. <<b>> \in Seq(HostPackets) /\ <<a, b>> \in Seq(HostPackets)
      BY <2>4, <3>3
    <3>5. ep01' = ep01 \o <<b>> \/ ep01' = ep01 \o <<a, b>>
      BY <3>2, <3>4, WriteIs DEF Speaks
    <3>6. CASE ep01' = ep01 \o <<b>>
      <4>1. Len(<<b>>) = 1 /\ <<b>>[1] = b
        OBVIOUS
      <4>2. Len(ep01) \in Nat /\ Len(ep01') = Len(ep01) + 1 /\ ep01'[Len(ep01) + 1] = b
        BY <3>4, <3>6, <4>1, Appended
      <4>3. Len(ep01) + 1 \in 1 .. Len(ep01')
        BY <4>2
      <4> QED
        BY <3>3, <4>2, <4>3
    <3>7. CASE ep01' = ep01 \o <<a, b>>
      <4>1. Len(<<a, b>>) = 2 /\ <<a, b>>[2] = b
        OBVIOUS
      <4>2. Len(ep01) \in Nat /\ Len(ep01') = Len(ep01) + 2 /\ ep01'[Len(ep01) + 2] = b
        BY <3>4, <3>7, <4>1, Appended
      <4>3. Len(ep01) + 2 \in 1 .. Len(ep01')
        BY <4>2
      <4> QED
        BY <3>3, <4>2, <4>3
    <3> QED
      BY <3>5, <3>6, <3>7
  <2>8. CASE TakeAndSayTwo(p)
    <3>1. PICK m \in Requests, n \in Requests :
            /\ Write(<<AckOnly(tx, rx'), Data(NextSeq(tx), rx', m), Data(tx', rx', n)>>)
            /\ tx' = NextSeq(NextSeq(tx))
            /\ \/ pc' = "identify"
               \/ p.msg = "IdentInfo" /\ m = "IdentAccepted"
      BY <2>8 DEF TakeAndSayTwo
    <3> DEFINE c == Data(NextSeq(NextSeq(tx)), p.seq, n)
    <3>2. p.msg = "IdentInfo" /\ Write(<<a, b, c>>)
      BY <2>2, <3>1 DEF Ended
    <3>3. b \in HostPackets /\ Accepting(b) /\ "Cert" \in acked
      BY <2>5, <3>2
    <3>4. c \in HostPackets
      BY <2>3, DataIs
    <3> HIDE DEF a, b, c
    <3>5. <<a, b, c>> \in Seq(HostPackets)
      BY <2>4, <3>3, <3>4
    <3>6. ep01' = ep01 \o <<a, b, c>>
      BY <3>2, <3>5, WriteIs DEF Speaks
    <3>7. Len(<<a, b, c>>) = 3 /\ <<a, b, c>>[2] = b
      OBVIOUS
    <3>8. Len(ep01) \in Nat /\ Len(ep01') = Len(ep01) + 3 /\ ep01'[Len(ep01) + 2] = b
      BY <3>5, <3>6, <3>7, Appended
    <3>9. Len(ep01) + 2 \in 1 .. Len(ep01')
      BY <3>8
    <3> QED
      BY <3>3, <3>8, <3>9
  <2> QED
    BY <2>2, <2>6, <2>7, <2>8
<1> QED
  BY <1>2, <1>3

LEMMA RunningMoves ==
  ASSUME Types, Running, NEW d, Move(d), faults' = 0
  PROVE  Running'
<1>1. PICK ps : Speech(d, ps)
  BY MoveSpeaks DEF Speaking
<1>2. /\ ps \in Seq(HostPackets) /\ ps \in Seq(Spoken) /\ ep01' = ep01 \o ps
      /\ Answering(d, ps) /\ InSequence(ps, tx, tx')
  BY <1>1 DEF Speech
<1>3. /\ Heard(d) /\ Window /\ Leads /\ pc \in Established \union {"failed"}
      /\ UNCHANGED deviceVars /\ program' = program
  BY MoveLeads DEF Running, Move
<1>4. /\ dseq' = dseq /\ pending' = pending /\ acked' = acked /\ hseq' = hseq
      /\ link' = link /\ todo' = todo /\ streaming' = streaming
  BY <1>3 DEF deviceVars
<1>5. Onward
  BY <1>3, LeadsOnward
<1>6. ep01 \in Seq(HostPackets) /\ hseq \in Octet /\ dseq \in Octet
  BY OctetsOfState DEF Types
<1>7. Window'
  BY <1>2, <1>3, <1>4, HostWindow
<1>8. InSequence(ep01, hseq, tx)'
  <2>1. InSequence(ep01, hseq, tx)
    BY DEF Running
  <2>2. InSequence(ep01 \o ps, hseq, tx')
    BY <1>2, <1>6, <2>1, InSequenceJoin
  <2>3. InSequence(ep01', hseq', tx')
    BY <1>2, <1>4, <2>2, Zenon
  <2> QED
    BY <2>3
<1>9. SynsFirst'
  <2>1. ps \in Seq(NonSyn)
    <3>1. Spoken \subseteq NonSyn
      BY DEF Spoken, NonSyn, IsAck
    <3> QED
      BY <1>2, <3>1
  <2>2. CASE ep01 \in Seq(NonSyn)
    <3>1. ep01' \in Seq(NonSyn)
      BY <1>2, <2>1, <2>2, ConcatProperties
    <3> QED
      BY <3>1 DEF SynsFirst
  <2>3. CASE hseq = 0 /\ Parts(ep01, Opening, NonSyn)
    <3>1. Parts(ep01 \o ps, Opening, NonSyn)
      BY <1>2, <1>6, <2>1, <2>3, PartsAfter
    <3> QED
      BY <1>2, <1>4, <2>3, <3>1 DEF SynsFirst
  <2> QED
    BY <2>2, <2>3 DEF Running, SynsFirst
<1>10. Asked'
  <2> DEFINE X == {q \in HostPackets : IsMessage(q) => q.msg \in Said}
             Y == {q \in HostPackets : IsMessage(q) => q.msg \in Said'}
  <2>1. ep01 \in Seq(X)
    BY DEF Running, Asked
  <2>2. X \subseteq Y /\ Spoken \subseteq Y
    BY <1>5 DEF Onward, Spoken
  <2> HIDE DEF X, Y
  <2>3. ep01 \in Seq(Y) /\ ps \in Seq(Y)
    BY <1>2, <2>1, <2>2
  <2>4. ep01' \in Seq(Y)
    BY <1>2, <2>3, ConcatProperties
  <2>5. Answerable \subseteq Answerable'
    BY <1>5 DEF Onward, Answerable
  <2>6. todo' \in Seq(Answerable')
    BY <1>4, <2>5 DEF Running, Asked
  <2>7. pending' \in Answerable' \union {"none", "video"}
        /\ acked' \subseteq Answerable' \union {"video"}
    BY <1>4, <2>5 DEF Running, Asked
  <2>8. streaming' \/ pending' = "video" \/ "video" \in acked' => "StartEA" \in Said'
    BY <1>4, <1>5 DEF Running, Asked, Onward
  <2> QED
    BY <2>4, <2>6, <2>7, <2>8 DEF Asked, Y
<1>11. UsedInv'
  BY MoveUses
<1>12. CertFirst'
  BY <1>2, <1>3, MoveAsksFirst DEF Running
<1>13. Accepted'
  BY <1>2, MoveAccepts
<1>14. link' = "up" /\ pc' \in Established' \union {"failed"}
  <2>1. Established' = Established
    BY DEF Established, Places
  <2> QED
    BY <1>4, <1>5, <2>1 DEF Running, Onward
<1> QED
  BY <1>7, <1>8, <1>9, <1>10, <1>11, <1>12, <1>13, <1>14 DEF Running

-----------------------------------------------------------------------------
(* The host before the link is up.                                         *)

LEMMA SilentHeard ==
  ASSUME Types, Early, NEW d, Heard(d)
  PROVE  /\ ep81' \in Seq(Silent)
         /\ \A p : From(p, d) => p \in Silent
         /\ Follows(d) => rx' = dseq
         /\ Flagged(d, "ACK") => link = "up"
<1>1. d \in Seq(DevicePackets) /\ ep81' \in Seq(DevicePackets) /\ ep81 = d \o ep81'
      /\ ep81 \in Seq(Silent)
  BY DEF Heard, Early
<1>2. d \o ep81' \in Seq(Silent)
  BY <1>1
<1>3. d \in Seq(Silent) /\ ep81' \in Seq(Silent)
  BY <1>1, <1>2, ConcatWithin
<1>4. \A p : From(p, d) => p \in Silent
  BY <1>3, ElementOfSeq DEF From
<1> QED
  BY <1>3, <1>4 DEF Follows, Flagged, Silent

LEMMA SameSilent ==
  ASSUME UNCHANGED <<dseq, link>>
  PROVE  Silent' = Silent
BY DEF Silent

LEMMA OpeningIs ==
  /\ Marker \in Opening
  /\ \A a \in Octet : SynAck(0, a) \in Opening
  /\ \A q \in Opening : ~IsMessage(q) /\ ~IsAck(q) /\ q \in HostPackets
<1>1. 0 \in Octet
  BY DEF Octet
<1>2. Marker \in Opening
  BY MarkerIs DEF Opening
<1>3. ASSUME NEW a \in Octet PROVE SynAck(0, a) \in Opening
  BY <1>1, SynAckIs DEF Opening
<1>4. ASSUME NEW q \in Opening PROVE ~IsMessage(q) /\ ~IsAck(q) /\ q \in HostPackets
  BY DEF Opening, IsMessage, IsAck, Requests
<1> QED
  BY <1>2, <1>3, <1>4

LEMMA StaysEarly ==
  ASSUME Types, Early, NEW d, Move(d), Quiet(d) \/ Greet(d), faults' = 0
  PROVE  Early'
<1>1. Heard(d) /\ Noticed(d) /\ UNCHANGED deviceVars /\ program' = program
  BY DEF Move
<1>2. /\ link' = link /\ dseq' = dseq /\ hseq' = hseq /\ pending' = pending
      /\ todo' = todo /\ acked' = acked /\ streaming' = streaming
  BY <1>1 DEF deviceVars
<1>3. ep81' \in Seq(Silent')
  BY <1>1, <1>2, SilentHeard, SameSilent
<1>4. "ACK" \in seen' => link' = "up"
  BY <1>1, <1>2, SilentHeard DEF Noticed, Early
<1>5. dseq \in Octet /\ tx = 0 /\ ep01 \in Seq(Opening)
      /\ pc \in {"drain", "detect", "negotiate", "failed"}
  BY OctetsOfState DEF Early
<1>6. CASE Quiet(d)
  <2>1. tx' = tx /\ rx' = rx
    BY <1>6 DEF Quiet
  <2>2. Speaks(<<>>) \/ Speaks(<<Marker>>)
    BY <1>6 DEF Quiet, Speaks
  <2>3. /\ <<>> \in Seq(HostPackets) /\ <<Marker>> \in Seq(HostPackets)
        /\ <<>> \in Seq(Opening) /\ <<Marker>> \in Seq(Opening)
    BY MarkerIs, OpeningIs
  <2>4. ep01' = ep01 \o <<>> \/ ep01' = ep01 \o <<Marker>>
    BY <2>2, <2>3, WriteIs
  <2>5. ep01' \in Seq(Opening)
    BY <1>5, <2>3, <2>4, ConcatProperties
  <2>6. pc' \in {"drain", "detect", "negotiate", "failed"}
    BY <1>5, <1>6 DEF Quiet, Ended
  <2>7. "SYN" \in seen' \/ (pc' = "negotiate" /\ program' # "viewer") => rx' = dseq'
    BY <1>1, <1>2, <1>5, <1>6, <2>1 DEF Quiet, Early
  <2> QED
    BY <1>2, <1>3, <1>4, <2>1, <2>5, <2>6, <2>7 DEF Early
<1>7. CASE Greet(d)
  <2>1. tx' = tx /\ rx' = dseq /\ Speaks(<<SynAck(tx, rx')>>)
        /\ pc' \in {"negotiate", "failed"}
    BY <1>1, <1>7, SilentHeard DEF Greet, Speaks
  <2>2. <<SynAck(0, dseq)>> \in Seq(HostPackets) /\ <<SynAck(0, dseq)>> \in Seq(Opening)
    BY <1>5, OpeningIs
  <2>3. ep01' = ep01 \o <<SynAck(0, dseq)>>
    <3>1. Speaks(<<SynAck(0, dseq)>>)
      BY <1>5, <2>1
    <3> QED
      BY <2>2, <3>1, WriteIs
  <2>4. ep01' \in Seq(Opening)
    BY <1>5, <2>2, <2>3, ConcatProperties
  <2> QED
    BY <1>2, <1>3, <1>4, <2>1, <2>4 DEF Early
<1> QED
  BY <1>6, <1>7

LEMMA BeginsToRun ==
  ASSUME Types, Early, NEW d, Move(d), AskCert(d), faults' = 0
  PROVE  Running'
<1>1. Heard(d) /\ UNCHANGED deviceVars /\ program' = program
  BY DEF Move
<1>2. /\ link' = link /\ dseq' = dseq /\ hseq' = hseq /\ pending' = pending
      /\ todo' = todo /\ acked' = acked /\ streaming' = streaming
  BY <1>1 DEF deviceVars
<1>3. /\ dseq \in Octet /\ tx = 0 /\ hseq = 0 /\ pending = "none" /\ todo = <<>>
      /\ acked = {} /\ ~streaming /\ ep01 \in Seq(Opening) /\ ep01 \in Seq(HostPackets)
  BY OctetsOfState DEF Early, Types
<1>4. link = "up" /\ pc' = "auth"
  BY <1>1, SilentHeard DEF AskCert, Early
<1>5. rx' = dseq
  BY <1>1, SilentHeard DEF AskCert, Early
<1>6. tx' = 1 /\ 1 \in Octet /\ 0 \in Octet /\ NextSeq(0) = 1
  BY <1>3 DEF AskCert, NextSeq, Octet
<1> DEFINE a == SynAck(0, dseq)
           b == Data(1, dseq, "RequestCert")
<1>7. /\ b \in HostPackets /\ b.ctrl = {"ACK"} /\ b.seq = 1 /\ b.ack = dseq
      /\ b.msg = "RequestCert" /\ "RequestCert" \in Requests
  <2>1. "RequestCert" \in Requests
    BY DEF Requests
  <2> QED
    BY <1>3, <1>6, <2>1, DataIs
<1>8. a \in Opening
  BY <1>3, OpeningIs
<1>9. Speaks(<<b>>) \/ Speaks(<<a, b>>)
  BY <1>3, <1>5, <1>6 DEF AskCert, Speaks
<1> HIDE DEF a, b
<1>10. PICK u \in Seq(Opening) : ep01' = u \o <<b>>
  <2>1. a \in HostPackets
    BY <1>8, OpeningIs
  <2>2. <<b>> \in Seq(HostPackets) /\ <<a, b>> \in Seq(HostPackets)
        /\ <<a>> \in Seq(HostPackets) /\ <<a>> \in Seq(Opening)
    BY <1>7, <1>8, <2>1
  <2>3. ep01' = ep01 \o <<b>> \/ ep01' = ep01 \o <<a, b>>
    BY <1>9, <2>2, WriteIs
  <2>4. <<a, b>> = <<a>> \o <<b>>
    BY TwoOf
  <2>5. ep01 \o (<<a>> \o <<b>>) = (ep01 \o <<a>>) \o <<b>>
    BY <1>3, <2>2, ConcatAssociative
  <2>6. ep01 \o <<a>> \in Seq(Opening)
    BY <1>3, <2>2, ConcatProperties
  <2> QED
    BY <1>3, <2>3, <2>4, <2>5, <2>6
<1>11. u \in Seq(HostPackets) /\ <<b>> \in Seq(HostPackets)
  BY <1>7, OpeningIs
<1> DEFINE n == Len(u) + 1
<1>12. /\ Len(u) \in Nat /\ Len(ep01') = n /\ n \in 1 .. Len(ep01') /\ ep01'[n] = b
       /\ \A i \in 1 .. n - 1 : ep01'[i] \in Opening
  <2>1. Len(<<b>>) = 1 /\ <<b>>[1] = b
    OBVIOUS
  <2>2. /\ Len(u) \in Nat /\ Len(ep01') = Len(u) + 1 /\ ep01'[Len(u) + 1] = b
        /\ \A i \in 1 .. Len(u) : ep01'[i] = u[i]
    BY <1>10, <1>11, <2>1, IndexOfConcat
  <2>3. \A i \in 1 .. Len(u) : u[i] \in Opening
    BY ElementOfSeq
  <2> QED
    BY <2>2, <2>3
<1> HIDE DEF n
<1>13. \A s : u \in Seq(Acking(s))
  <2> TAKE s
  <2>1. Opening \subseteq Acking(s)
    BY OpeningIs DEF Acking
  <2> QED
    BY <2>1
<1>14. ep01' \in Seq(Acking(dseq))
  <2>1. <<b>> \in Seq(Acking(dseq))
    BY <1>7 DEF Acking
  <2> QED
    BY <1>10, <1>13, <2>1, ConcatProperties
<1>15. Window'
  <2>1. ep01' \in Seq(HostPackets)
    BY <1>10, <1>11, ConcatProperties
  <2>2. Parts(ep01', Acking(Before(dseq)), Acking(dseq))
    BY <1>14, <2>1, PartsOfOne
  <2>3. Silent \subseteq New
    BY <1>3, KindsOfPacket DEF Silent, New, Answers
  <2>4. ep81' \in Seq(New)
    BY <1>1, <2>3, SilentHeard
  <2>5. New' = New
    BY <1>2, SameWindow
  <2> QED
    BY <1>2, <1>5, <1>14, <2>2, <2>4, <2>5 DEF Window
<1>16. InSequence(ep01, hseq, tx)'
  <2>1. Sent(u) = <<>>
    BY <1>11, OpeningIs, SentSilent
  <2>2. InSequence(u, 0, 0)
    BY <1>6, <1>11, <2>1, InSequenceNone
  <2>3. InSequence(<<b>>, 0, 1)
    <3>1. IsMessage(b)
      BY <1>7 DEF IsMessage
    <3>2. InSequence(<<b>>, 0, b.seq)
      BY <1>6, <1>7, <3>1, InSequenceOne
    <3> QED
      BY <1>7, <3>2
  <2>4. InSequence(u \o <<b>>, 0, 1)
    BY <1>6, <1>11, <2>2, <2>3, InSequenceJoin
  <2> QED
    BY <1>2, <1>3, <1>6, <1>10, <2>4
<1>17. SynsFirst'
  <2>1. <<b>> \in Seq(NonSyn)
    BY <1>7 DEF NonSyn
  <2>2. Parts(u, Opening, NonSyn)
    BY <1>11, PartsOfOne
  <2>3. Parts(u \o <<b>>, Opening, NonSyn)
    BY <1>11, <2>1, <2>2, PartsAfter
  <2> QED
    BY <1>2, <1>3, <1>10, <2>3 DEF SynsFirst
<1>18. Asked'
  <2> DEFINE Y == {q \in HostPackets : IsMessage(q) => q.msg \in Said'}
  <2>1. Opening \subseteq Y
    BY OpeningIs
  <2>2. b \in Y
    BY <1>7 DEF Said
  <2> HIDE DEF Y
  <2>3. u \in Seq(Y) /\ <<b>> \in Seq(Y)
    BY <2>1, <2>2
  <2>4. ep01' \in Seq(Y)
    BY <1>10, <2>3, ConcatProperties
  <2>5. todo' \in Seq(Answerable')
    BY <1>2, <1>3
  <2> QED
    BY <1>2, <1>3, <2>4, <2>5 DEF Asked, Y
<1>19. UsedInv'
  BY <1>2, <1>3 DEF UsedInv, Used
<1>20. CertFirst'
  <2>1. ep01'[n].msg = "RequestCert" /\ "SYN" \notin ep01'[n].ctrl
        /\ \A i \in 1 .. n - 1 : ~IsMessage(ep01'[i])
    BY <1>7, <1>12, OpeningIs
  <2> QED
    BY <1>2, <1>3, <1>12, <2>1 DEF CertFirst
<1>21. Accepted'
  BY <1>4 DEF Accepted, Ended
<1>22. link' = "up" /\ pc' \in Established'
  BY <1>2, <1>4 DEF Established, Places
<1> QED
  BY <1>15, <1>16, <1>17, <1>18, <1>19, <1>20, <1>21, <1>22 DEF Running

LEMMA EarlyMoves ==
  ASSUME Types, Early, NEW d, Move(d), faults' = 0
  PROVE  Early' \/ Running'
<1>1. pc \in {"drain", "detect", "negotiate", "failed"}
  BY DEF Early
<1>2. ~Say /\ ~Take(d) /\ ~AckVideo(d)
  BY <1>1, EstablishedIs DEF Say, Take, TakeOnly, TakeAndSay, TakeAndSayTwo, AckVideo, Ended
<1> QED
  BY <1>2, StaysEarly, BeginsToRun DEF Move

-----------------------------------------------------------------------------
(* The device before the link is up.                                       *)

LEMMA EarlyDevice ==
  ASSUME Types, Early, DeviceStep,
         UNCHANGED <<dseq, pending, todo, acked, streaming>>,
         hseq' = 0, ep01' \in Seq(Opening), ep81' \in Seq(Silent'),
         link' = link \/ link # "up"
  PROVE  Early'
<1>1. UNCHANGED <<pc, tx, rx, seen, program>>
  BY DEF DeviceStep, hostVars
<1>2. link = "up" => link' = "up"
  OBVIOUS
<1> QED
  BY <1>1, <1>2 DEF Early

LEMMA StillSilent ==
  ASSUME Types, Early, dseq' = dseq, link' = link \/ link # "up",
         NEW e \in Seq(Silent'), ep81' = ep81 \o e
  PROVE  ep81' \in Seq(Silent')
<1>1. Silent \subseteq Silent'
  BY DEF Silent
<1>2. ep81 \in Seq(Silent')
  BY <1>1 DEF Early
<1> QED
  BY <1>2, ConcatProperties

LEMMA SilentIs ==
  ASSUME Types, dseq' = dseq
  PROVE  /\ Marker \in Silent' /\ Syn(dseq) \in Silent'
         /\ \A s \in Octet : link' = "up" => AckOnly(dseq, s) \in Silent'
<1>1. dseq \in Octet
  BY OctetsOfState
<1>2. Marker \in Silent'
  BY MarkerIs DEF Silent, IsLink
<1>3. Syn(dseq) \in Silent'
  BY <1>1, SynIs DEF Silent, IsLink
<1>4. \A s \in Octet : link' = "up" => AckOnly(dseq, s) \in Silent'
  BY <1>1, AckOnlyIs DEF Silent, IsLink
<1> QED
  BY <1>2, <1>3, <1>4

LEMMA EarlyActs ==
  ASSUME Types, Early, Device, faults' = 0
  PROVE  Early'
<1>1. /\ ep81 \in Seq(DevicePackets) /\ ep01 \in Seq(HostPackets) /\ dseq \in Octet
      /\ hseq = 0 /\ ep01 \in Seq(Opening) /\ pending = "none" /\ todo = <<>> /\ ~streaming
      /\ faults \in Nat /\ ep81 \in Seq(Silent)
  BY OctetsOfState DEF Types, TypeOK, Early
<1>2. ~DeviceResend /\ ~DeviceSend
  BY <1>1 DEF DeviceResend, DeviceSend
<1>3. ~DeviceReset
  BY <1>1 DEF DeviceReset
<1>4. ASSUME NEW p \in Silent', ep81' = Append(ep81, p), link' = link \/ link # "up",
             dseq' = dseq
      PROVE  ep81' \in Seq(Silent')
  <2>1. ep81' = ep81 \o <<p>>
    BY <1>1, <1>4, AppendIsConcat
  <2>2. <<p>> \in Seq(Silent')
    BY <1>4
  <2> QED
    BY <1>4, <2>1, <2>2, StillSilent
<1>5. CASE DeviceMarker
  <2>1. /\ DeviceStep /\ UNCHANGED <<dseq, pending, todo, acked, streaming>>
        /\ hseq' = 0 /\ ep01' = ep01 /\ link' = link /\ ep81' = Append(ep81, Marker)
    BY <1>1, <1>5 DEF DeviceMarker
  <2>2. ep81' \in Seq(Silent')
    BY <1>4, <2>1, SilentIs
  <2> QED
    BY <1>1, <2>1, <2>2, EarlyDevice
<1>6. CASE DeviceSyn
  <2>1. /\ DeviceStep /\ UNCHANGED <<dseq, pending, todo, acked, streaming>>
        /\ hseq' = 0 /\ ep01' = ep01 /\ link' = link /\ ep81' = Append(ep81, Syn(dseq))
    BY <1>1, <1>6 DEF DeviceSyn, Resend
  <2>2. ep81' \in Seq(Silent')
    BY <1>4, <2>1, SilentIs
  <2> QED
    BY <1>1, <2>1, <2>2, EarlyDevice
<1>7. CASE DeviceTake
  <2> DEFINE q == Head(ep01)
  <2>1. /\ q \in Opening /\ ep01' \in Seq(Opening) /\ DeviceStep /\ ep01 # <<>>
        /\ TakeMarker \/ TakeSynAck \/ TakeAck
    BY <1>1, <1>7, TailWithin DEF DeviceTake
  <2>2. CASE TakeMarker
    <3>1. UNCHANGED <<dseq, pending, todo, acked, streaming>> /\ hseq' = 0
          /\ (link' = link \/ link # "up")
      BY <1>1, <2>2 DEF TakeMarker
    <3>2. CASE link # "detect"
      <4>1. link' = link /\ ep81' = ep81
        BY <2>2, <3>2 DEF TakeMarker
      <4>2. Silent' = Silent
        BY <3>1, <4>1, SameSilent
      <4> QED
        BY <1>1, <2>1, <3>1, <4>1, <4>2, EarlyDevice
    <3>3. CASE link = "detect"
      <4>1. ep81' = ep81 \o <<Marker, Syn(dseq)>> \/ ep81' = Append(ep81, Syn(dseq))
        BY <2>2, <3>3 DEF TakeMarker
      <4>2. <<Marker, Syn(dseq)>> \in Seq(Silent')
        BY <3>1, SilentIs
      <4>3. ep81' \in Seq(Silent')
        BY <1>4, <3>1, <4>1, <4>2, SilentIs, StillSilent
      <4> QED
        BY <2>1, <3>1, <4>3, EarlyDevice
    <3> QED
      BY <3>2, <3>3
  <2>3. CASE TakeSynAck
    <3>1. "SYN" \in q.ctrl /\ UNCHANGED <<dseq, pending, todo, acked, streaming>>
      BY <2>3 DEF TakeSynAck
    <3>2. q.seq = 0
      BY <2>1, <3>1 DEF Opening
    <3>3. CASE link # "detect" /\ q.ack = dseq
      <4>1. link' = "up" /\ hseq' = 0 /\ ep81' = Append(ep81, AckOnly(dseq, 0))
        BY <2>3, <3>2, <3>3 DEF TakeSynAck
      <4>2. AckOnly(dseq, 0) \in Silent'
        <5>1. 0 \in Octet
          BY DEF Octet
        <5> QED
          BY <3>1, <4>1, <5>1, SilentIs
      <4>3. link' = link \/ link # "up"
        BY <4>1
      <4>4. ep81' \in Seq(Silent')
        BY <1>4, <3>1, <4>1, <4>2, <4>3
      <4> QED
        BY <2>1, <3>1, <4>1, <4>3, <4>4, EarlyDevice
    <3>4. CASE ~(link # "detect" /\ q.ack = dseq)
      <4>1. link' = link /\ hseq' = 0 /\ ep81' = ep81
        BY <1>1, <2>3, <3>4 DEF TakeSynAck
      <4>2. Silent' = Silent
        BY <3>1, <4>1, SameSilent
      <4> QED
        BY <1>1, <2>1, <3>1, <4>1, <4>2, EarlyDevice
    <3> QED
      BY <3>3, <3>4
  <2>4. ~TakeAck
    <3>1. ~IsAck(q)
      BY <2>1, OpeningIs
    <3> QED
      BY <3>1 DEF TakeAck, IsAck
  <2> QED
    BY <2>1, <2>2, <2>3, <2>4
<1> QED
  BY <1>2, <1>3, <1>5, <1>6, <1>7 DEF Device, DeviceActs

-----------------------------------------------------------------------------
(* The device on a link that runs.                                         *)

\* The device says something that belongs to its last message.
Repeats == \E e \in Seq(New) : ep81' = ep81 \o e

LEMMA RepeatsIs ==
  ASSUME Types
  PROVE  /\ UNCHANGED ep81 => Repeats
         /\ \A p \in New : ep81' = Append(ep81, p) => Repeats
<1>1. ep81 \in Seq(DevicePackets)
  BY DEF Types
<1>2. ASSUME UNCHANGED ep81 PROVE Repeats
  <2>1. <<>> \in Seq(New) /\ ep81 \o <<>> = ep81
    BY <1>1, ConcatEmptySeq
  <2> QED
    BY <1>2, <2>1 DEF Repeats
<1>3. ASSUME NEW p \in New, ep81' = Append(ep81, p) PROVE Repeats
  <2>1. <<p>> \in Seq(New)
    OBVIOUS
  <2>2. Append(ep81, p) = ep81 \o <<p>>
    BY <1>1, AppendIsConcat
  <2> QED
    BY <1>3, <2>1, <2>2 DEF Repeats
<1> QED
  BY <1>2, <1>3

LEMMA RepeatedWindow ==
  ASSUME Types, Window, Repeats, UNCHANGED <<rx, dseq, pending, acked>>,
         NEW X, X = ep01', X \in Seq(HostPackets),
         \A Y, Z : Parts(ep01, Y, Z) => Parts(X, Y, Z),
         \A Y : ep01 \in Seq(Y) => X \in Seq(Y)
  PROVE  Window'
<1>1. New' = New /\ Old' = Old /\ rx' = rx /\ dseq' = dseq /\ pending' = pending
  BY SameWindow
<1>2. PICK e \in Seq(New) : ep81' = ep81 \o e
  BY DEF Repeats
<1>3. ep81 \in Seq(DevicePackets) /\ e \in Seq(DevicePackets)
  BY <1>2 DEF Types, New
<1>4. ep81 \in Seq(New) => ep81' \in Seq(New)
  BY <1>2, ConcatProperties
<1>5. Parts(ep81, Old, New) => Parts(ep81', Old, New)
  BY <1>2, <1>3, PartsAfter
<1> QED
  BY <1>1, <1>4, <1>5 DEF Window

LEMMA ReplyIs ==
  ASSUME Types
  PROVE  \A s \in Octet : AckOnly(dseq, s) \in New
<1> TAKE s \in Octet
<1>1. dseq \in Octet
  BY OctetsOfState
<1>2. /\ AckOnly(dseq, s) \in DevicePackets /\ AckOnly(dseq, s).seq = dseq
      /\ AckOnly(dseq, s).msg = "none" /\ AckOnly(dseq, s).ctrl = {"ACK"}
  BY <1>1, AckOnlyIs
<1> QED
  BY <1>2, KindsOfPacket DEF New, Answers

LEMMA ResendRuns ==
  ASSUME Types, Running, DeviceResend
  PROVE  Running'
<1>1. /\ pending # "none" /\ Resend(Unacked)
      /\ UNCHANGED <<ep01, link, dseq, hseq, pending, todo, streaming, identified, acked>>
      /\ UNCHANGED <<program, pc, tx, rx>>
      /\ ep81' = Append(ep81, Unacked)
  BY DEF DeviceResend, Resend, DeviceStep, hostVars
<1>2. Unacked \in New
  <2>1. /\ Unacked \in DevicePackets /\ Unacked.seq = dseq /\ Unacked.msg = pending
        /\ Unacked.ctrl = {"ACK"}
    BY <1>1, UnackedIs
  <2> QED
    BY <1>1, <2>1 DEF New
<1>3. Repeats
  BY <1>1, <1>2, RepeatsIs
<1>4. Window'
  <2>1. ep01' = ep01 /\ ep01' \in Seq(HostPackets)
    BY <1>1 DEF Types
  <2>2. \A Y, Z : Parts(ep01, Y, Z) => Parts(ep01', Y, Z)
    BY <2>1
  <2> QED
    BY <1>1, <1>3, <2>1, <2>2, RepeatedWindow DEF Running
<1>5. InSequence(ep01, hseq, tx)'
  BY <1>1 DEF Running, InSequence, Sent
<1>6. SynsFirst'
  BY <1>1 DEF Running, SynsFirst
<1>7. Said' = Said /\ Answerable' = Answerable
  BY <1>1 DEF Said, Late, Answerable
<1>8. Asked'
  BY <1>1, <1>7 DEF Running, Asked
<1>9. UsedInv'
  BY <1>1 DEF Running, UsedInv, Used
<1>10. CertFirst'
  BY <1>1 DEF Running, CertFirst
<1>11. Accepted'
  BY <1>1 DEF Running, Accepted
<1>12. link' = "up" /\ pc' \in Established' \union {"failed"}
  BY <1>1 DEF Running, Established, Places
<1> QED
  BY <1>4, <1>5, <1>6, <1>8, <1>9, <1>10, <1>11, <1>12 DEF Running

LEMMA SendRuns ==
  ASSUME Types, Types', Running, DeviceSend
  PROVE  Running'
<1>1. /\ pending = "none" /\ dseq' = NextSeq(dseq)
      /\ \/ todo # <<>> /\ pending' = Head(todo) /\ todo' = Tail(todo)
         \/ todo = <<>> /\ streaming /\ pending' = "video" /\ todo' = todo
      /\ UNCHANGED <<ep01, link, hseq, streaming, identified, acked>>
      /\ UNCHANGED <<program, pc, tx, rx>>
      /\ ep81' = Append(ep81, Unacked')
  BY DEF DeviceSend, DeviceStep, hostVars
<1>2. Said' = Said /\ Answerable' = Answerable
  BY <1>1 DEF Said, Late, Answerable
<1>3. /\ Asked /\ UsedInv /\ CertFirst /\ Accepted /\ SynsFirst
      /\ InSequence(ep01, hseq, tx) /\ Window
  BY DEF Running
<1>4. todo \in Seq(Answerable) /\ (todo # <<>> => Head(todo) \in Answerable /\ Tail(todo) \in Seq(Answerable))
  <2>1. todo \in Seq(Answerable)
    BY <1>3 DEF Asked
  <2> QED
    BY <2>1, HeadTailProperties
<1>5. pending' \in Answerable \union {"video"} /\ pending' # "none"
      /\ todo' \in Seq(Answerable) /\ "none" \notin Answerable
  BY <1>1, <1>4 DEF Answerable
<1>6. dseq \in Octet /\ Before(dseq') = dseq /\ dseq' # dseq /\ Before(dseq) # dseq
  BY <1>1, OctetsOfState, BeforeIs
<1>7. /\ rx = dseq /\ ep81 \in Seq(New) /\ ep01 \in Seq(Acking(dseq))
  BY <1>1, <1>3, <1>6 DEF Window
<1>8. Window'
  <2>1. Old' = New
    BY <1>1, <1>6 DEF Old, New
  <2>2. Unacked' \in New'
    <3>1. /\ Unacked' \in DevicePackets /\ Unacked'.seq = dseq' /\ Unacked'.msg = pending'
          /\ Unacked'.ctrl = {"ACK"}
      <4>1. Types' /\ pending' # "none"
        BY <1>5
      <4>2. Unacked' = [Data(dseq', hseq', pending') EXCEPT !.frame = video']
        BY DEF Unacked
      <4>3. /\ dseq' \in Octet /\ hseq' \in Octet /\ video' \in 0 .. MaxVideo
            /\ pending' \in Answers \union {"video"}
            /\ pending' = "video" => video' # 0
        BY <4>1 DEF Types, TypeOK, Octet
      <4> QED
        BY <4>2, <4>3, DeviceDataIs
    <3> QED
      BY <1>5, <3>1 DEF New
  <2>3. ep81 \in Seq(DevicePackets) /\ ep81' \in Seq(DevicePackets)
    BY DEF Types
  <2>4. Parts(ep81, New, New')
    BY <1>7, <2>3, PartsOfOne
  <2>5. ep81' = ep81 \o <<Unacked'>>
    BY <1>1, <2>3, AppendIsConcat
  <2>6. <<Unacked'>> \in Seq(New') /\ <<Unacked'>> \in Seq(DevicePackets)
    BY <2>2 DEF New
  <2>7. Parts(ep81 \o <<Unacked'>>, New, New')
    BY <2>3, <2>4, <2>6, PartsAfter
  <2>8. Parts(ep81', Old', New')
    BY <2>1, <2>5, <2>7
  <2>9. rx' = Before(dseq') /\ ep01' \in Seq(Acking(Before(dseq')))
    BY <1>1, <1>6, <1>7
  <2> QED
    BY <1>5, <2>8, <2>9 DEF Window
<1>9. InSequence(ep01, hseq, tx)'
  BY <1>1, <1>3 DEF InSequence, Sent
<1>10. SynsFirst'
  BY <1>1, <1>3 DEF SynsFirst
<1>11. Asked'
  <2>1. "video" \notin Answerable
    BY DEF Answerable
  <2>2. streaming' \/ pending' = "video" \/ "video" \in acked' => "StartEA" \in Said'
    BY <1>1, <1>2, <1>3, <1>4, <2>1 DEF Asked
  <2>3. ep01' \in Seq({q \in HostPackets : IsMessage(q) => q.msg \in Said'})
    BY <1>1, <1>2, <1>3 DEF Asked
  <2>4. acked' \subseteq Answerable' \union {"video"}
    BY <1>1, <1>2, <1>3 DEF Asked
  <2> QED
    BY <1>2, <1>5, <2>2, <2>3, <2>4 DEF Asked
<1>12. UsedInv'
  BY <1>1, <1>3, <1>6, <1>7 DEF UsedInv, Used
<1>13. CertFirst'
  BY <1>1, <1>3, <1>5 DEF CertFirst
<1>14. Accepted'
  BY <1>1, <1>3 DEF Accepted
<1>15. link' = "up" /\ pc' \in Established' \union {"failed"}
  BY <1>1 DEF Running, Established, Places
<1> QED
  BY <1>8, <1>9, <1>10, <1>11, <1>12, <1>13, <1>14, <1>15 DEF Running

\* The device has taken the first packet on the way to it.
Taken ==
  /\ ep01 # <<>> /\ ep01' = Tail(ep01)
  /\ DeviceStep /\ UNCHANGED <<faults, dseq>>

LEMMA TakenIs ==
  ASSUME Types, Taken
  PROVE  /\ ep01 \in Seq(HostPackets) /\ ep01' \in Seq(HostPackets)
         /\ Head(ep01) \in HostPackets
         /\ Len(ep01) \in Nat /\ Len(ep01') = Len(ep01) - 1 /\ 1 <= Len(ep01)
         /\ ep01[1] = Head(ep01)
         /\ \A i \in 1 .. Len(ep01') : ep01'[i] = ep01[i + 1]
         /\ \A Y : ep01 \in Seq(Y) => Head(ep01) \in Y /\ ep01' \in Seq(Y)
         /\ \A Y, Z : Parts(ep01, Y, Z) => Parts(ep01', Y, Z)
         /\ UNCHANGED <<program, pc, tx, rx>>
<1>1. ep01 \in Seq(HostPackets) /\ ep01 # <<>> /\ ep01' = Tail(ep01)
  BY DEF Types, Taken
<1>2. Len(ep01) \in Nat /\ Len(ep01) >= 1 /\ Head(ep01) = ep01[1]
      /\ Tail(ep01) \in Seq(HostPackets) /\ Head(ep01) \in HostPackets
      /\ Len(Tail(ep01)) = Len(ep01) - 1
      /\ \A i \in 1 .. Len(Tail(ep01)) : Tail(ep01)[i] = ep01[i + 1]
  BY <1>1, EmptySeq, LenProperties, HeadTailProperties
<1>3. \A Y : ep01 \in Seq(Y) => Head(ep01) \in Y /\ ep01' \in Seq(Y)
  BY <1>1, TailWithin
<1>4. \A Y, Z : Parts(ep01, Y, Z) => Parts(ep01', Y, Z)
  BY <1>1, PartsTail
<1> QED
  BY <1>1, <1>2, <1>3, <1>4 DEF Taken, DeviceStep, hostVars

LEMMA TakenSaid ==
  ASSUME Types, Taken
  PROVE  /\ Said' = Said /\ Answerable' = Answerable
         /\ \A m : Used(m) => Used(m)'
<1>1. program' = program /\ pc' = pc
  BY TakenIs
<1> QED
  BY <1>1 DEF Said, Late, Answerable, Used

LEMMA TakenWindow ==
  ASSUME Types, Window, Taken, Repeats, UNCHANGED <<pending, acked>>
  PROVE  Window'
<1>1. PICK X : X = ep01'
  OBVIOUS
<1>2. /\ X \in Seq(HostPackets) /\ rx' = rx /\ dseq' = dseq
      /\ \A Y, Z : Parts(ep01, Y, Z) => Parts(X, Y, Z)
      /\ \A Y : ep01 \in Seq(Y) => X \in Seq(Y)
  BY <1>1, TakenIs DEF Taken
<1> QED
  BY <1>1, <1>2, RepeatedWindow

LEMMA TakenSyns ==
  ASSUME Types, SynsFirst, Taken
  PROVE  /\ hseq' = hseq => SynsFirst'
         /\ "SYN" \in Head(ep01).ctrl => hseq = 0 /\ Head(ep01) \in Opening
         /\ IsAck(Head(ep01)) => SynsFirst'
<1>1. ep01 \in Seq(HostPackets) /\ ep01 # <<>>
  BY DEF Types, Taken
<1>2. ASSUME hseq' = hseq PROVE SynsFirst'
  BY <1>2, TakenIs DEF SynsFirst
<1>3. \/ ep01 \in Seq(NonSyn) /\ Head(ep01) \in NonSyn
      \/ hseq = 0 /\ Head(ep01) \in Opening
  <2>1. CASE ep01 \in Seq(NonSyn)
    BY <2>1, TakenIs
  <2>2. CASE hseq = 0 /\ Parts(ep01, Opening, NonSyn)
    BY <1>1, <2>2, PartsTail
  <2> QED
    BY <2>1, <2>2 DEF SynsFirst
<1>4. ASSUME "SYN" \in Head(ep01).ctrl PROVE hseq = 0 /\ Head(ep01) \in Opening
  BY <1>3, <1>4 DEF NonSyn
<1>5. ASSUME IsAck(Head(ep01)) PROVE SynsFirst'
  <2>1. Head(ep01) \notin Opening
    BY <1>5, OpeningIs
  <2>2. ep01 \in Seq(NonSyn)
    <3>1. CASE hseq = 0 /\ Parts(ep01, Opening, NonSyn)
      BY <1>1, <2>1, <3>1, PartsTail
    <3> QED
      BY <3>1 DEF SynsFirst
  <2> QED
    BY <2>2, TakenIs DEF SynsFirst
<1> QED
  BY <1>2, <1>4, <1>5

LEMMA TakenAsked ==
  ASSUME Types, Asked, Taken,
         todo' \in Seq(Answerable), pending' \in {pending, "none"},
         acked' \subseteq acked \union {pending}, acked' \subseteq Answers \union {"video"},
         streaming' => streaming \/ "StartEA" \in Said
  PROVE  Asked'
<1>1. Said' = Said /\ Answerable' = Answerable
  BY TakenSaid
<1>2. ep01' \in Seq({q \in HostPackets : IsMessage(q) => q.msg \in Said})
  BY TakenIs DEF Asked
<1>3. pending \in Answerable \union {"none", "video"} /\ "none" \notin Answers \union {"video"}
  BY DEF Asked, Answers
<1>4. acked' \subseteq Answerable \union {"video"}
  BY <1>3 DEF Asked
<1>5. streaming' \/ pending' = "video" \/ "video" \in acked' => "StartEA" \in Said
  BY DEF Asked
<1> QED
  BY <1>1, <1>2, <1>3, <1>4, <1>5 DEF Asked

StillAccepting(q) ==
  /\ q.msg = "IdentAccepted" /\ "SYN" \notin q.ctrl
  /\ \/ "IdentInfo" \in acked'
     \/ pending' = "IdentInfo" /\ q.ack = dseq'

\* An acceptance on the way stays one when the device takes another packet.
LEMMA IdentificationTaken ==
  ASSUME Types, Taken, Identification,
         acked \subseteq acked', identified => identified',
         pending' = pending \/ pending \in acked',
         Accepting(Head(ep01)) => identified'
  PROVE  Identification'
<1>1. dseq' = dseq
  BY DEF Taken
<1>2. ASSUME NEW k \in 1 .. Len(ep01), Accepting(ep01[k])
      PROVE  identified' \/ \E i \in 1 .. Len(ep01') : StillAccepting(ep01'[i])
  <2>1. CASE k = 1
    BY <1>2, <2>1, TakenIs
  <2>2. CASE k # 1
    <3>1. k - 1 \in 1 .. Len(ep01') /\ (k - 1) + 1 = k
      BY <2>2, TakenIs
    <3>2. ep01'[k - 1] = ep01[k]
      BY <3>1, TakenIs
    <3>3. StillAccepting(ep01'[k - 1])
      BY <1>1, <1>2, <3>2 DEF Accepting, StillAccepting
    <3> QED
      BY <3>1, <3>3
  <2> QED
    BY <2>1, <2>2
<1>3. identified' \/ \E i \in 1 .. Len(ep01') : StillAccepting(ep01'[i])
  BY <1>2 DEF Identification
<1> QED
  BY <1>3 DEF Identification, Accepting, StillAccepting

LEMMA TakenAccepted ==
  ASSUME Types, Accepted, Taken,
         acked \subseteq acked', identified => identified',
         pending' = pending \/ pending \in acked',
         Accepting(Head(ep01)) => identified'
  PROVE  Accepted'
<1>1. program' = program /\ pc' = pc
  BY TakenIs
<1>2. Accepted' <=> (pc' \in Ended /\ program' # "full" => Identification')
  BY DEF Accepted, Accepting, Identification
<1> QED
  BY <1>1, <1>2, AcceptedIs, IdentificationTaken

\* The request for the certificate is still on the way.
Awaited(k) ==
  /\ ep01[k].msg = "RequestCert" /\ "SYN" \notin ep01[k].ctrl
  /\ \A i \in 1 .. k - 1 : ~IsMessage(ep01[i])

LEMMA TakenAwaited ==
  ASSUME Types, Taken, NEW k \in 1 .. Len(ep01), Awaited(k)
  PROVE  /\ k = 1 => Head(ep01).msg = "RequestCert" /\ "SYN" \notin Head(ep01).ctrl
         /\ k # 1 => /\ ~IsMessage(Head(ep01))
                     /\ \E j \in 1 .. Len(ep01') : Awaited(j)'
<1>1. CASE k = 1
  BY <1>1, TakenIs DEF Awaited
<1>2. CASE k # 1
  <2>1. k - 1 \in 1 .. Len(ep01') /\ (k - 1) + 1 = k /\ 1 \in 1 .. k - 1
    BY <1>2, TakenIs
  <2>2. ~IsMessage(Head(ep01))
    BY <2>1, TakenIs DEF Awaited
  <2>3. ep01'[k - 1] = ep01[k]
    BY <2>1, TakenIs
  <2>4. ASSUME NEW i \in 1 .. (k - 1) - 1 PROVE ~IsMessage(ep01'[i])
    <3>1. i \in 1 .. Len(ep01') /\ i + 1 \in 1 .. k - 1
      BY <2>1, TakenIs
    <3>2. ep01'[i] = ep01[i + 1]
      BY <3>1, TakenIs
    <3> QED
      BY <3>1, <3>2 DEF Awaited
  <2>5. Awaited(k - 1)'
    BY <2>3, <2>4 DEF Awaited
  <2> QED
    BY <1>2, <2>1, <2>2, <2>5
<1> QED
  BY <1>1, <1>2

LEMMA CertFirstIs ==
  CertFirst <=>
    \/ /\ pending = "none" /\ todo = <<>> /\ acked = {} /\ ~streaming
       /\ \E k \in 1 .. Len(ep01) : Awaited(k)
    \/ pending = "none" /\ acked = {} /\ todo # <<>> /\ Head(todo) = "Cert"
    \/ pending = "Cert" /\ acked = {}
    \/ "Cert" \in acked
BY DEF CertFirst, Awaited

LEMMA TakenCert ==
  ASSUME Types, CertFirst, Taken, UNCHANGED <<pending, todo, acked, streaming>>,
         Head(ep01).msg # "RequestCert" \/ "SYN" \in Head(ep01).ctrl
  PROVE  CertFirst'
<1>1. CASE /\ pending = "none" /\ todo = <<>> /\ acked = {} /\ ~streaming
           /\ \E k \in 1 .. Len(ep01) : Awaited(k)
  <2>1. \E j \in 1 .. Len(ep01') : Awaited(j)'
    BY <1>1, TakenAwaited
  <2> QED
    BY <1>1, <2>1 DEF CertFirst, Awaited
<1> QED
  BY <1>1, CertFirstIs DEF CertFirst

\* A packet that is no message changes nothing of what the device has to say.
LEMMA TakenRuns ==
  ASSUME Types, Running, Taken, Repeats,
         UNCHANGED <<link, pending, todo, acked, streaming, identified, hseq>>,
         ~IsMessage(Head(ep01))
  PROVE  Running'
<1>1. /\ Asked /\ UsedInv /\ CertFirst /\ Accepted /\ SynsFirst
      /\ InSequence(ep01, hseq, tx) /\ Window /\ link = "up"
  BY DEF Running
<1>2. Window'
  BY <1>1, TakenWindow
<1>3. InSequence(ep01, hseq, tx)'
  <2>1. ep01 \in Seq(HostPackets) /\ ep01 # <<>> /\ hseq \in Octet /\ ep01' = Tail(ep01)
        /\ tx' = tx
    BY OctetsOfState, TakenIs DEF Types, Taken
  <2>2. InSequence(Tail(ep01), hseq, tx)
    BY <1>1, <2>1, InSequenceTail
  <2> QED
    BY <2>1, <2>2
<1>4. SynsFirst'
  BY <1>1, TakenSyns
<1>5. todo \in Seq(Answerable) /\ acked \subseteq Answers \union {"video"}
  BY <1>1 DEF Asked, Types, TypeOK
<1>6. Asked'
  BY <1>1, <1>5, TakenAsked
<1>7. UsedInv'
  <2>1. \A m : Used(m) => Used(m)'
    BY TakenSaid
  <2>2. program' = program /\ pc' = pc /\ rx' = rx /\ dseq' = dseq
    BY TakenIs DEF Taken
  <2> QED
    BY <1>1, <2>1, <2>2 DEF UsedInv, Used
<1>8. Head(ep01).msg # "RequestCert" /\ Head(ep01).msg # "IdentAccepted"
  BY DEF IsMessage, Requests
<1>9. CertFirst'
  BY <1>1, <1>8, TakenCert
<1>10. Accepted'
  BY <1>1, <1>8, TakenAccepted DEF Accepting
<1>11. link' = "up" /\ pc' \in Established' \union {"failed"}
  BY <1>1, TakenIs DEF Running, Established, Places
<1> QED
  BY <1>2, <1>3, <1>4, <1>6, <1>7, <1>9, <1>10, <1>11 DEF Running

LEMMA TakeMarkerRuns ==
  ASSUME Types, Running, Taken, TakeMarker
  PROVE  Running'
<1>1. link = "up" /\ ~IsLink(Head(ep01))
  BY DEF Running, TakeMarker
<1>2. UNCHANGED <<link, ep81, pending, todo, acked, streaming, identified, hseq>>
  BY <1>1 DEF TakeMarker
<1>3. ~IsMessage(Head(ep01))
  BY <1>1 DEF IsMessage, IsLink, Requests
<1>4. Repeats
  BY <1>2, RepeatsIs
<1> QED
  BY <1>2, <1>3, <1>4, TakenRuns

LEMMA TakeSynAckRuns ==
  ASSUME Types, Running, Taken, TakeSynAck
  PROVE  Running'
<1> DEFINE q == Head(ep01)
<1>1. link = "up" /\ "SYN" \in q.ctrl /\ SynsFirst
  BY DEF Running, TakeSynAck
<1>2. hseq = 0 /\ q \in Opening
  BY <1>1, TakenSyns
<1>3. q.seq = 0 /\ ~IsMessage(q)
  BY <1>1, <1>2, OpeningIs DEF Opening
<1>4. /\ UNCHANGED <<pending, todo, acked, streaming, identified>>
      /\ link' = "up" /\ hseq' = hseq
      /\ ep81' = ep81 \/ ep81' = Append(ep81, AckOnly(dseq, 0))
  BY <1>1, <1>2, <1>3 DEF TakeSynAck
<1>5. Repeats
  <2>1. 0 \in Octet
    BY DEF Octet
  <2> QED
    BY <1>4, <2>1, ReplyIs, RepeatsIs
<1> QED
  BY <1>1, <1>3, <1>4, <1>5, TakenRuns

\* The packet acknowledges what the device has sent last.
Acknowledges(q) == pending # "none" /\ q.ack = dseq

LEMMA AcknowledgedWindow ==
  ASSUME Types, Window, Taken, IsAck(Head(ep01)), Acknowledges(Head(ep01)),
         pending' = "none", acked' = acked \union {pending},
         Repeats
  PROVE  rx = dseq /\ Window'
<1> DEFINE q == Head(ep01)
<1>1. /\ ep01 \in Seq(HostPackets) /\ ep01 # <<>> /\ q \in HostPackets /\ dseq \in Octet
      /\ Before(dseq) # dseq /\ ep01' = Tail(ep01) /\ dseq' = dseq /\ rx' = rx
      /\ ep81 \in Seq(DevicePackets)
  BY TakenIs, OctetsOfState, BeforeIs DEF Taken, Types
<1>2. q \notin Acking(Before(dseq))
  BY <1>1 DEF Acking, Acknowledges
<1>3. ~(ep01 \in Seq(Acking(Before(dseq))))
  BY <1>2, TakenIs
<1>4. rx = dseq /\ ep81 \in Seq(New) /\ Parts(ep01, Acking(Before(dseq)), Acking(dseq))
  BY <1>3 DEF Window
<1>5. Tail(ep01) \in Seq(Acking(dseq))
  BY <1>1, <1>2, <1>4, PartsTail
<1>6. Parts(Tail(ep01), Acking(Before(dseq)), Acking(dseq))
  BY <1>1, <1>4, PartsTail
<1>7. New \subseteq New'
  BY <1>1 DEF New, Acknowledges
<1>8. ep81' \in Seq(New')
  <2>1. PICK e \in Seq(New) : ep81' = ep81 \o e
    BY DEF Repeats
  <2>2. ep81 \in Seq(New') /\ e \in Seq(New')
    BY <1>4, <1>7
  <2> QED
    BY <2>1, <2>2, ConcatProperties
<1>9. Window'
  BY <1>1, <1>4, <1>5, <1>6, <1>8 DEF Window
<1> QED
  BY <1>4, <1>9

LEMMA RepliesWithin ==
  ASSUME NEW m \in Requests, m \in Said
  PROVE  Replies[m] \in Seq(Answerable)
<1>1. /\ Replies["RequestCert"] = <<"Cert">> /\ Replies["Challenge"] = <<"Response">>
      /\ Replies["AuthSucceeded"] = <<>> /\ Replies["StartIdent"] = <<"IdentInfo">>
      /\ Replies["IdentAccepted"] = <<>> /\ Replies["StartEA"] = <<>>
  BY DEF Replies
<1>2. "Cert" \in Answerable
  BY DEF Answerable
<1>3. m = "Challenge" => "Response" \in Answerable
  BY DEF Answerable
<1>4. m = "StartIdent" => "IdentInfo" \in Answerable
  BY DEF Answerable
<1>5. <<>> \in Seq(Answerable) /\ \A x \in Answerable : <<x>> \in Seq(Answerable)
  OBVIOUS
<1> QED
  BY <1>1, <1>2, <1>3, <1>4, <1>5 DEF Requests

LEMMA TakeAckRuns ==
  ASSUME Types, Types', Running, Taken, TakeAck
  PROVE  Running'
<1> DEFINE q == Head(ep01)
           ok == Acknowledges(q)
<1>1. /\ Asked /\ UsedInv /\ CertFirst /\ Accepted /\ SynsFirst
      /\ InSequence(ep01, hseq, tx) /\ Window /\ link = "up"
  BY DEF Running
<1>2. /\ ep01 \in Seq(HostPackets) /\ ep01 # <<>> /\ q \in HostPackets
      /\ hseq \in Octet /\ dseq \in Octet /\ hseq' \in Octet
      /\ ep01' = Tail(ep01) /\ tx' = tx /\ rx' = rx /\ dseq' = dseq
      /\ program' = program /\ pc' = pc /\ todo \in Seq(Answerable)
      /\ acked' \subseteq Answers \union {"video"}
  BY <1>1, TakenIs, OctetsOfState DEF Taken, Types, TypeOK, Octet, Asked
<1>3. IsAck(q) /\ "SYN" \notin q.ctrl
  BY DEF TakeAck, IsAck
<1>4. /\ ok => pending' = "none" /\ acked' = acked \union {pending}
      /\ ~ok => pending' = pending /\ acked' = acked
  BY <1>1 DEF TakeAck, Acknowledges
<1>5. IsMessage(q) =>
        /\ hseq' = NextSeq(hseq) /\ todo' = todo \o Replies[q.msg]
        /\ streaming' = (streaming \/ q.msg = "StartEA")
        /\ identified' = (identified \/ (q.msg = "IdentAccepted" /\ "IdentInfo" \in acked'))
  <2> SUFFICES ASSUME IsMessage(q)
               PROVE  /\ hseq' = NextSeq(hseq) /\ todo' = todo \o Replies[q.msg]
                      /\ streaming' = (streaming \/ q.msg = "StartEA")
                      /\ identified' = (identified \/ (q.msg = "IdentAccepted" /\ "IdentInfo" \in acked'))
    OBVIOUS
  <2>1. q.seq = NextSeq(hseq)
    BY <1>1, <1>2, InSequenceTail
  <2>2. q.msg # "none"
    BY DEF IsMessage, Requests
  <2> QED
    BY <1>1, <2>1, <2>2 DEF TakeAck
<1>6. ~IsMessage(q) => UNCHANGED <<hseq, todo, streaming, identified>>
  <2> SUFFICES ASSUME ~IsMessage(q) PROVE UNCHANGED <<hseq, todo, streaming, identified>>
    OBVIOUS
  <2>1. q.msg = "none"
    BY <1>2, <1>3 DEF HostPackets, IsMessage, IsAck, IsLink
  <2> QED
    BY <1>1, <2>1 DEF TakeAck
<1>7. Repeats
  <2>1. ep81' = ep81 \/ ep81' = Append(ep81, AckOnly(dseq, hseq'))
    BY <1>1 DEF TakeAck
  <2> QED
    BY <1>2, <2>1, ReplyIs, RepeatsIs
<1>8. Window'
  <2>1. CASE ok
    BY <1>1, <1>3, <1>4, <1>7, <2>1, AcknowledgedWindow
  <2>2. CASE ~ok
    BY <1>1, <1>4, <1>7, <2>2, TakenWindow
  <2> QED
    BY <2>1, <2>2
<1>9. InSequence(ep01, hseq, tx)'
  <2>1. InSequence(Tail(ep01), hseq', tx)
    BY <1>1, <1>2, <1>5, <1>6, InSequenceTail
  <2> QED
    BY <1>2, <2>1
<1>10. SynsFirst'
  BY <1>1, <1>3, TakenSyns
<1>11. IsMessage(q) => q.msg \in Requests /\ q.msg \in Said
  <2>1. q \in {p \in HostPackets : IsMessage(p) => p.msg \in Said}
    BY <1>1, TakenIs DEF Asked
  <2> QED
    BY <2>1 DEF IsMessage
<1>12. todo' \in Seq(Answerable)
  <2>1. CASE IsMessage(q)
    <3>1. Replies[q.msg] \in Seq(Answerable)
      BY <1>11, <2>1, RepliesWithin
    <3> QED
      BY <1>2, <1>5, <2>1, <3>1, ConcatProperties
  <2>2. CASE ~IsMessage(q)
    BY <1>2, <1>6, <2>2
  <2> QED
    BY <2>1, <2>2
<1>13. Asked'
  <2>1. pending' \in {pending, "none"} /\ acked' \subseteq acked \union {pending}
    BY <1>4
  <2>2. streaming' => streaming \/ "StartEA" \in Said
    BY <1>5, <1>6, <1>11
  <2> QED
    BY <1>1, <1>2, <1>12, <2>1, <2>2, TakenAsked
<1>14. UsedInv'
  <2>1. \A m : Used(m) => Used(m)'
    BY TakenSaid
  <2>2. ok => rx = dseq
    BY <1>1, <1>3, <1>4, <1>7, AcknowledgedWindow
  <2>3. \A m \in acked' : Used(m)
    BY <1>1, <1>4, <2>2 DEF UsedInv
  <2>4. rx' = dseq' => Used(pending)'
    <3>1. CASE ok
      BY <1>4, <3>1 DEF Used
    <3>2. CASE ~ok
      BY <1>1, <1>2, <1>4, <3>2 DEF UsedInv, Used
    <3> QED
      BY <3>1, <3>2
  <2> QED
    BY <2>1, <2>3, <2>4 DEF UsedInv
<1>15. CertFirst'
  <2>1. CASE /\ pending = "none" /\ todo = <<>> /\ acked = {} /\ ~streaming
             /\ \E k \in 1 .. Len(ep01) : Awaited(k)
    <3>1. PICK k \in 1 .. Len(ep01) : Awaited(k)
      BY <2>1
    <3>2. pending' = "none" /\ acked' = {}
      BY <1>4, <2>1 DEF Acknowledges
    <3>3. CASE k = 1
      <4>1. q.msg = "RequestCert" /\ IsMessage(q)
        BY <3>1, <3>3, TakenAwaited DEF IsMessage, Requests
      <4>2. todo' = <<>> \o <<"Cert">>
        BY <1>5, <2>1, <4>1 DEF Replies
      <4>3. todo' = <<"Cert">>
        BY <4>2
      <4>4. todo' # <<>> /\ Head(todo') = "Cert"
        BY <4>3
      <4> QED
        BY <3>2, <4>4 DEF CertFirst
    <3>4. CASE k # 1
      <4>1. ~IsMessage(q) /\ \E j \in 1 .. Len(ep01') : Awaited(j)'
        BY <3>1, <3>4, TakenAwaited
      <4>2. todo' = <<>> /\ ~streaming'
        BY <1>6, <2>1, <4>1
      <4> QED
        BY <3>2, <4>1, <4>2 DEF CertFirst, Awaited
    <3> QED
      BY <3>3, <3>4
  <2>2. CASE pending = "none" /\ acked = {} /\ todo # <<>> /\ Head(todo) = "Cert"
    <3>1. pending' = "none" /\ acked' = {}
      BY <1>4, <2>2 DEF Acknowledges
    <3>2. todo' # <<>> /\ Head(todo') = "Cert"
      <4>1. CASE IsMessage(q)
        <5>1. PICK u \in Seq(Answerable) : u = Replies[q.msg]
          BY <1>11, <4>1, RepliesWithin
        <5>2. todo' = todo \o u
          BY <1>5, <4>1, <5>1
        <5>3. Len(todo') = Len(todo) + Len(u) /\ Len(todo) \in Nat /\ Len(todo) # 0
              /\ Len(u) \in Nat
          BY <1>2, <2>2, <5>2, ConcatProperties, LenProperties, EmptySeq
        <5>4. todo'[1] = todo[1]
          <6>1. 1 \in 1 .. Len(todo)
            BY <5>3
          <6> QED
            BY <1>2, <5>2, <6>1, IndexOfConcat
        <5>5. todo' # <<>>
          BY <5>3
        <5> QED
          BY <1>2, <1>12, <2>2, <5>4, <5>5
      <4>2. CASE ~IsMessage(q)
        BY <1>6, <2>2, <4>2
      <4> QED
        BY <4>1, <4>2
    <3> QED
      BY <3>1, <3>2 DEF CertFirst
  <2>3. CASE pending = "Cert" /\ acked = {}
    BY <1>4, <2>3 DEF CertFirst
  <2>4. CASE "Cert" \in acked
    BY <1>4, <2>4 DEF CertFirst
  <2> QED
    BY <1>1, <2>1, <2>2, <2>3, <2>4, CertFirstIs
<1>16. Accepted'
  <2>1. acked \subseteq acked' /\ (pending' = pending \/ pending \in acked')
    BY <1>4
  <2>2. identified => identified'
    BY <1>5, <1>6
  <2>3. Accepting(q) => identified'
    <3> SUFFICES ASSUME Accepting(q) PROVE identified'
      OBVIOUS
    <3>1. q.msg = "IdentAccepted" /\ IsMessage(q)
      BY DEF Accepting, IsMessage, Requests
    <3>2. "IdentInfo" \in acked'
      BY <1>4, <2>1 DEF Accepting, Acknowledges
    <3> QED
      BY <1>5, <3>1, <3>2
  <2> QED
    BY <1>1, <2>1, <2>2, <2>3, TakenAccepted
<1>17. link' = "up" /\ pc' \in Established' \union {"failed"}
  BY <1>1, <1>2 DEF Running, Established, Places, TakeAck
<1> QED
  BY <1>8, <1>9, <1>10, <1>13, <1>14, <1>15, <1>16, <1>17 DEF Running

LEMMA RunningActs ==
  ASSUME Types, Types', Running, Device, faults' = 0
  PROVE  Running'
<1>1. link = "up" /\ faults \in Nat
  BY DEF Running, Types, TypeOK
<1>2. ~DeviceReset /\ ~DeviceMarker /\ ~DeviceSyn
  BY <1>1 DEF DeviceReset, DeviceMarker, DeviceSyn
<1>3. CASE DeviceTake
  <2>1. Taken /\ (TakeMarker \/ TakeSynAck \/ TakeAck)
    BY <1>3 DEF DeviceTake, Taken, TakeMarker, TakeSynAck, TakeAck
  <2> QED
    BY <2>1, TakeMarkerRuns, TakeSynAckRuns, TakeAckRuns
<1> QED
  BY <1>2, <1>3, ResendRuns, SendRuns DEF Device, DeviceActs

-----------------------------------------------------------------------------
(* The invariant, and what follows from it.                                *)

LEMMA InitEarly == Init => Early
<1> SUFFICES ASSUME Init PROVE Early
  OBVIOUS
<1>1. <<>> \in Seq(Opening) /\ <<>> \in Seq(Silent)
  OBVIOUS
<1> QED
  BY <1>1 DEF Init, LinkInit, Early

LEMMA NothingHappens ==
  ASSUME Early \/ Running, UNCHANGED vars
  PROVE  Early' \/ Running'
<1>1. /\ UNCHANGED <<program, pc, tries, tx, rx, pings, seen, file, ep01, ep81>>
      /\ UNCHANGED <<link, dseq, hseq, pending, todo, early, markers, video,
                     streaming, identified, acked>>
  BY DEF vars, hostVars, deviceVars
<1>2. Silent' = Silent /\ New' = New /\ Old' = Old
  BY <1>1, SameSilent, SameWindow
<1>3. Said' = Said /\ Answerable' = Answerable /\ Established' = Established
  BY <1>1 DEF Said, Late, Answerable, Established, Places
<1>4. ASSUME Early PROVE Early'
  BY <1>1, <1>2, <1>4 DEF Early
<1>5. ASSUME Running PROVE Running'
  <2>1. Window'
    BY <1>1, <1>2, <1>5 DEF Running, Window
  <2>2. InSequence(ep01, hseq, tx)'
    BY <1>1, <1>5 DEF Running, InSequence, Sent
  <2>3. SynsFirst'
    BY <1>1, <1>5 DEF Running, SynsFirst
  <2>4. Asked'
    BY <1>1, <1>3, <1>5 DEF Running, Asked
  <2>5. UsedInv'
    BY <1>1, <1>5 DEF Running, UsedInv, Used
  <2>6. CertFirst'
    BY <1>1, <1>5 DEF Running, CertFirst
  <2>7. Accepted'
    BY <1>1, <1>5 DEF Running, Accepted
  <2> QED
    BY <1>1, <1>3, <1>5, <2>1, <2>2, <2>3, <2>4, <2>5, <2>6, <2>7 DEF Running
<1> QED
  BY <1>4, <1>5

LEMMA FaultsAdd ==
  ASSUME Types, [Next]_vars, faults' = 0
  PROVE  faults = 0
<1>1. faults \in Nat
  BY DEF Types, TypeOK
<1>2. CASE UNCHANGED vars
  BY <1>2 DEF vars
<1>3. CASE Host
  <2>1. PICK d : Move(d)
    BY <1>3, HostMoves DEF HostMove
  <2> QED
    BY <2>1, MoveWrites
<1>4. CASE Device
  BY <1>1, <1>4 DEF Device, DeviceActs, DeviceMarker, DeviceSyn, DeviceResend, Resend, DeviceSend,
     DeviceTake, DeviceReset
<1> QED
  BY <1>2, <1>3, <1>4 DEF Next

LEMMA InitInv == Init => Inv
BY InitTypes, InitEarly DEF Inv

LEMMA NextInv == Inv /\ [Next]_vars => Inv'
<1> SUFFICES ASSUME Inv, [Next]_vars PROVE Inv'
  OBVIOUS
<1>1. Types' /\ VideoInv' /\ Types
  BY NextTypes DEF Inv
<1>2. ASSUME faults' = 0 PROVE Early' \/ Running'
  <2>1. Early \/ Running
    BY <1>1, <1>2, FaultsAdd DEF Inv
  <2>2. CASE Host
    <3>1. PICK d : Move(d)
      BY <1>1, <2>2, HostMoves DEF HostMove
    <3> QED
      BY <1>1, <1>2, <2>1, <3>1, EarlyMoves, RunningMoves
  <2>3. CASE Device
    BY <1>1, <1>2, <2>1, <2>3, EarlyActs, RunningActs
  <2>4. CASE UNCHANGED vars
    BY <2>1, <2>4, NothingHappens
  <2> QED
    BY <2>2, <2>3, <2>4 DEF Next
<1> QED
  BY <1>1, <1>2 DEF Inv

\* The inductive invariant: types, the order of the video data and, while the
\* link has had no faults, one of the two phases of the session.
THEOREM Invariant == Spec => []Inv
<1>1. Init => Inv
  BY InitInv
<1>2. Inv /\ [Next]_vars => Inv'
  BY NextInv
<1> QED
  BY <1>1, <1>2, PTL DEF Spec

\* A host goes on to authenticate only when the device too has the link up.
THEOREM BothSidesUp == Spec => []BothUp
<1>1. Inv => BothUp
  BY DEF Inv, Early, Running, BothUp, Established
<1> QED
  BY <1>1, Invariant, PTL

\* Without faults, the numbers of the messages on the way to the device go on
\* from the last one it has taken, and the host's counter stands at the last.
THEOREM ArrivesWithoutGap == Spec => []NoGap
<1>1. Inv => NoGap
  <2> SUFFICES ASSUME Inv, faults = 0, link = "up"
               PROVE  /\ \A i \in 1 .. Len(Sent(ep01)) : Sent(ep01)[i] = (hseq + i) % 256
                      /\ tx = (hseq + Len(Sent(ep01))) % 256
    BY DEF NoGap, Sent
  <2>1. CASE Early
    <3>1. Sent(ep01) = <<>>
      BY <2>1, OpeningIs, SentSilent DEF Early, Inv, Types
    <3> QED
      BY <2>1, <3>1 DEF Early
  <2>2. CASE Running
    BY <2>2 DEF Running, InSequence
  <2> QED
    BY <2>1, <2>2 DEF Inv
<1> QED
  BY <1>1, Invariant, PTL

\* Without faults, no answer a host waits for is acknowledged and then not
\* acted upon; the device would not send it again.
THEOREM UsedWhenAcknowledged == Spec => []AcknowledgedIsUsed
<1>1. Inv => AcknowledgedIsUsed
  BY DEF Inv, Early, Running, UsedInv, Used, Ended, AcknowledgedIsUsed
<1> QED
  BY <1>1, Invariant, PTL

\* Without faults, stream.py, td300_connect.py and td300_viewer.py finish only
\* with the certificate received and the identification accepted, or about to
\* be; td300_full_connect.py may give up the identification and go on.
LEMMA IdentifiedWithoutFaults ==
  Spec => [](faults = 0 /\ program # "full" => DoneMeansIdentified)
<1>1. Inv => (faults = 0 /\ program # "full" => DoneMeansIdentified)
  <2> SUFFICES ASSUME Inv, faults = 0, program # "full", pc = "done"
               PROVE  "Cert" \in acked /\ (ep01 = <<>> => identified)
    BY DEF DoneMeansIdentified
  <2>1. Accepted
    BY DEF Inv, Early, Running
  <2> QED
    BY <2>1 DEF Accepted, Ended
<1> QED
  BY <1>1, Invariant, PTL

-----------------------------------------------------------------------------
(* The certificate, whatever fails.                                        *)

\* Until the device has acknowledged the request for the certificate the host
\* has said at most three things, of which only the request continues the
\* device's sequence, and the device has said nothing.
Plain == {q \in HostPackets : IsLink(q) /\ "SYN" \notin q.ctrl}

Calls == {q \in Plain :
            IsMessage(q) => (q.msg = "RequestCert" /\ q.seq = 1) \/ q.seq \in {2, 3}}

Wordless == {p \in DevicePackets : ~Worded(p)}

Asking ==
  /\ pc \in {"drain", "detect", "negotiate", "auth", "accept", "auth_drain",
             "identify", "failed"}
  /\ hseq = 0 /\ pending = "none" /\ todo = <<>> /\ ~streaming
  /\ pc \in {"drain", "detect", "negotiate"} => tx = 0 /\ ep01 \in Seq(Opening)
  /\ pc \in {"auth", "accept"} => tx = 1
  /\ pc = "auth_drain" => tx = 2
  /\ Parts(ep01, Opening, Calls) /\ ep81 \in Seq(Wordless)

\* From then on it says nothing but the certificate until that is acknowledged,
\* and nothing at all once it has given the link up: no marker is on the way
\* any more, with which the link would come up again.
Certifying == {p \in DevicePackets : Worded(p) => p.msg = "Cert"}

Replying ==
  /\ pc \in {"auth", "challenge", "accept", "auth_drain", "identify", "failed"}
  /\ ep01 \in Seq(Plain) /\ ep81 \in Seq(Certifying)
  /\ link \in {"up", "detect"}
  /\ link = "up" =>
       pending = "Cert" \/ (pending = "none" /\ todo # <<>> /\ Head(todo) = "Cert")

CertInv == program = "full" \/ "Cert" \in acked \/ Asking \/ Replying

-----------------------------------------------------------------------------
(* Writing, when a write may fail.                                         *)

LEMMA WritesNothing ==
  ASSUME Types, Speaks(<<>>)
  PROVE  ep01' = ep01
<1>1. ep01 \in Seq(HostPackets)
  BY DEF Types
<1>2. ep01 \o <<>> = ep01
  BY <1>1, ConcatEmptySeq
<1>3. ~ \E i \in DOMAIN <<>> : ep01' = ep01 \o RemoveAt(<<>>, i)
  OBVIOUS
<1> QED
  BY <1>2, <1>3 DEF Speaks, Write, WriteNothing

\* Any part of what was to be written may be missing.
LEMMA WritesWithin ==
  ASSUME Types, NEW X, NEW ps \in Seq(HostPackets), ps \in Seq(X), Write(ps)
  PROVE  \E e \in Seq(HostPackets) : e \in Seq(X) /\ ep01' = ep01 \o e
<1>1. CASE ep01' = ep01 \o ps
  BY <1>1
<1>2. CASE \E i \in DOMAIN ps : ep01' = ep01 \o RemoveAt(ps, i)
  <2>1. PICK i \in DOMAIN ps : ep01' = ep01 \o RemoveAt(ps, i)
    BY <1>2
  <2>2. Len(ps) \in Nat /\ i \in 1 .. Len(ps)
    BY LenProperties
  <2>3. i \in 0 .. Len(ps) /\ i - 1 \in 0 .. Len(ps)
    BY <2>2
  <2>4. /\ SubSeq(ps, 1, i - 1) \in Seq(HostPackets) /\ SubSeq(ps, i + 1, Len(ps)) \in Seq(HostPackets)
        /\ SubSeq(ps, 1, i - 1) \in Seq(X) /\ SubSeq(ps, i + 1, Len(ps)) \in Seq(X)
    BY <2>3, Split
  <2>5. RemoveAt(ps, i) \in Seq(HostPackets) /\ RemoveAt(ps, i) \in Seq(X)
    BY <2>4, ConcatProperties DEF RemoveAt
  <2> QED
    BY <2>1, <2>5
<1> QED
  BY <1>1, <1>2 DEF Write

LEMMA WritesTwo ==
  ASSUME Types, NEW a \in HostPackets, NEW b \in HostPackets, Write(<<a, b>>)
  PROVE  ep01' = (ep01 \o <<a>>) \o <<b>> \/ ep01' = ep01 \o <<a>> \/ ep01' = ep01 \o <<b>>
<1> DEFINE ps == <<a, b>>
<1>1. ps \in Seq(HostPackets) /\ Len(ps) = 2 /\ ps[1] = a /\ ps[2] = b
      /\ DOMAIN ps = 1 .. 2 /\ ep01 \in Seq(HostPackets)
      /\ <<a>> \in Seq(HostPackets) /\ <<b>> \in Seq(HostPackets)
  BY DEF Types
<1>2. RemoveAt(ps, 1) = <<b>> /\ RemoveAt(ps, 2) = <<a>>
  <2>1. SubSeq(ps, 1, 0) = <<>> /\ SubSeq(ps, 3, 2) = <<>>
    BY <1>1, SubSeqEmpty
  <2>2. SubSeq(ps, 1, 1) = <<a>> /\ SubSeq(ps, 2, 2) = <<b>>
    <3> HIDE DEF ps
    <3>1. /\ SubSeq(ps, 1, 1) = <<ps[1]>> \o SubSeq(ps, 2, 1)
          /\ SubSeq(ps, 2, 2) = <<ps[2]>> \o SubSeq(ps, 3, 2)
      <4>1. \A i \in 1 .. Len(ps) :
              SubSeq(ps, i, i) = <<ps[i]>> \o SubSeq(ps, i + 1, i)
        BY <1>1, SubSeqRecursiveFirst
      <4>2. 1 \in 1 .. Len(ps) /\ 2 \in 1 .. Len(ps) /\ 1 + 1 = 2 /\ 2 + 1 = 3
        BY <1>1
      <4>3. /\ SubSeq(ps, 1, 1) = <<ps[1]>> \o SubSeq(ps, 1 + 1, 1)
            /\ SubSeq(ps, 2, 2) = <<ps[2]>> \o SubSeq(ps, 2 + 1, 2)
        BY <4>1, <4>2, Zenon
      <4> QED
        BY <4>2, <4>3
    <3>2. SubSeq(ps, 2, 1) = <<>>
      BY <1>1, SubSeqEmpty
    <3>3. <<a>> \o <<>> = <<a>> /\ <<b>> \o <<>> = <<b>>
      BY <1>1, ConcatEmptySeq
    <3> QED
      BY <1>1, <2>1, <3>1, <3>2, <3>3
  <2>3. /\ RemoveAt(ps, 1) = SubSeq(ps, 1, 0) \o SubSeq(ps, 2, 2)
        /\ RemoveAt(ps, 2) = SubSeq(ps, 1, 1) \o SubSeq(ps, 3, 2)
    BY <1>1 DEF RemoveAt
  <2>4. <<>> \o <<b>> = <<b>> /\ <<a>> \o <<>> = <<a>>
    BY <1>1, ConcatEmptySeq
  <2> HIDE DEF ps
  <2> QED
    BY <2>1, <2>2, <2>3, <2>4
<1>3. ep01 \o ps = (ep01 \o <<a>>) \o <<b>>
  <2>1. ps = <<a>> \o <<b>>
    BY TwoOf
  <2>2. ep01 \o (<<a>> \o <<b>>) = (ep01 \o <<a>>) \o <<b>>
    BY <1>1, ConcatAssociative
  <2> HIDE DEF ps
  <2> QED
    BY <2>1, <2>2
<1>4. Write(ps)
  OBVIOUS
<1> HIDE DEF ps
<1>5. CASE ep01' = ep01 \o ps
  BY <1>3, <1>5
<1>6. CASE \E i \in DOMAIN ps : ep01' = ep01 \o RemoveAt(ps, i)
  <2>1. PICK i \in 1 .. 2 : ep01' = ep01 \o RemoveAt(ps, i)
    BY <1>1, <1>6
  <2>2. i = 1 \/ i = 2
    OBVIOUS
  <2> QED
    BY <1>2, <2>1, <2>2
<1> QED
  BY <1>4, <1>5, <1>6 DEF Write

\* What was on the way to the host is what it has heard and what is left.
LEMMA HeardWithin ==
  ASSUME NEW X, NEW d, Heard(d), ep81 \in Seq(X)
  PROVE  ep81' \in Seq(X) /\ \A p : From(p, d) => p \in X
<1>1. d \in Seq(DevicePackets) /\ ep81' \in Seq(DevicePackets) /\ d \o ep81' \in Seq(X)
  BY DEF Heard
<1>2. d \in Seq(X) /\ ep81' \in Seq(X)
  BY <1>1, ConcatWithin
<1> QED
  BY <1>2, ElementOfSeq DEF From

-----------------------------------------------------------------------------
(* The host until it has the certificate.                                  *)

LEMMA CallsAre ==
  /\ Calls \subseteq Plain /\ Plain \subseteq HostPackets
  /\ Wordless \subseteq Certifying
  /\ \A s \in Octet, a \in Octet, m \in Requests :
       /\ Data(s, a, m) \in Plain /\ AckOnly(s, a) \in Calls
       /\ (s = 1 /\ m = "RequestCert") \/ s \in {2, 3} => Data(s, a, m) \in Calls
<1>1. ASSUME NEW s \in Octet, NEW a \in Octet, NEW m \in Requests
      PROVE  /\ Data(s, a, m) \in Plain /\ AckOnly(s, a) \in Calls
             /\ (s = 1 /\ m = "RequestCert") \/ s \in {2, 3} => Data(s, a, m) \in Calls
  <2>1. /\ Data(s, a, m) \in HostPackets /\ Data(s, a, m).ctrl = {"ACK"}
        /\ Data(s, a, m).seq = s /\ Data(s, a, m).msg = m
    BY DataIs
  <2>2. AckOnly(s, a) \in HostPackets /\ AckOnly(s, a).ctrl = {"ACK"}
        /\ AckOnly(s, a).msg = "none"
    BY AckOnlyIs
  <2>3. m # "marker" /\ "none" \notin Requests
    BY DEF Requests
  <2> QED
    BY <2>1, <2>2, <2>3 DEF Plain, Calls, IsLink, IsMessage
<1> QED
  BY <1>1 DEF Calls, Plain, Wordless, Certifying

\* The device's part of Asking, and what is left to read.
AskingDevice ==
  hseq = 0 /\ pending = "none" /\ todo = <<>> /\ ~streaming /\ ep81 \in Seq(Wordless)

LEMMA AskingKept ==
  ASSUME Types, Asking, NEW d, Move(d)
  PROVE  /\ AskingDevice' /\ ~AckVideo(d)
         /\ Take(d) => /\ pc' = pc /\ pc \in Established /\ tx' = tx
                       /\ Speaks(<<>>) \/ Write(<<AckOnly(tx, rx')>>)
<1>1. Heard(d) /\ UNCHANGED deviceVars
  BY DEF Move
<1>2. ep81' \in Seq(Wordless) /\ \A p : From(p, d) => p \in Wordless
  BY <1>1, HeardWithin DEF Asking
<1>3. AskingDevice'
  BY <1>1, <1>2 DEF deviceVars, Asking, AskingDevice
<1>4. ASSUME NEW p \in DevicePackets, From(p, d),
             TakeOnly(p) \/ TakeAndSay(p) \/ TakeAndSayTwo(p)
      PROVE  /\ pc' = pc /\ pc \in Established /\ tx' = tx
             /\ Speaks(<<>>) \/ Write(<<AckOnly(tx, rx')>>)
  <2>1. ~Worded(p)
    BY <1>2, <1>4 DEF Wordless
  <2>2. p.msg \notin {"Cert", "Response", "IdentInfo", "video"}
    BY <2>1, KindsOfPacket DEF Answers
  <2>3. ~TakeAndSay(p)
    BY <2>2 DEF TakeAndSay, IsVideo
  <2>4. ~TakeAndSayTwo(p)
    BY <2>2 DEF TakeAndSayTwo
  <2> QED
    BY <1>4, <2>2, <2>3, <2>4 DEF TakeOnly
<1>5. ~AckVideo(d)
  BY DEF AckVideo, Asking
<1> QED
  BY <1>3, <1>4, <1>5 DEF Take

LEMMA AskingQuiet ==
  ASSUME Types, Asking, NEW d, Move(d), Quiet(d)
  PROVE  Asking'
<1>1. AskingDevice' /\ tx' = tx /\ ep01 \in Seq(HostPackets)
  BY AskingKept DEF Quiet, Types
<1>2. CASE Speaks(<<>>)
  <2>1. ep01' = ep01
    BY <1>2, WritesNothing
  <2>2. /\ pc' \in {"drain", "detect", "negotiate", "auth", "accept", "auth_drain",
                    "identify", "failed"}
        /\ pc' \in {"drain", "detect", "negotiate"} => pc \in {"drain", "detect", "negotiate"}
        /\ pc' \in {"auth", "accept"} => pc \in {"auth", "accept"}
        /\ pc' = "auth_drain" => pc = "auth_drain"
    BY DEF Quiet, Asking
  <2>3. Parts(ep01', Opening, Calls)
    BY <2>1 DEF Asking
  <2> QED
    BY <1>1, <2>1, <2>2, <2>3 DEF Asking, AskingDevice
<1>3. CASE pc \in {"drain", "detect", "negotiate"} /\ Write(<<Marker>>)
  <2>1. <<Marker>> \in Seq(HostPackets) /\ <<Marker>> \in Seq(Opening)
    BY MarkerIs, OpeningIs
  <2>2. PICK e \in Seq(HostPackets) : e \in Seq(Opening) /\ ep01' = ep01 \o e
    BY <1>3, <2>1, WritesWithin
  <2>3. ep01 \in Seq(Opening) /\ tx = 0
    BY <1>3 DEF Asking
  <2>4. ep01' \in Seq(Opening) /\ ep01' \in Seq(HostPackets)
    BY <1>1, <2>2, <2>3, ConcatProperties
  <2>5. Parts(ep01', Opening, Calls)
    BY <2>4, PartsOfOne
  <2>6. pc' \in {"drain", "detect", "negotiate", "failed"}
    BY <1>3 DEF Quiet
  <2> QED
    BY <1>1, <2>3, <2>4, <2>5, <2>6 DEF Asking, AskingDevice
<1> QED
  BY <1>2, <1>3 DEF Quiet

LEMMA AskingGreets ==
  ASSUME Types, Asking, NEW d, Move(d), Greet(d)
  PROVE  Asking'
<1>1. AskingDevice' /\ tx' = tx /\ ep01 \in Seq(HostPackets) /\ rx' \in Octet
      /\ Write(<<SynAck(tx, rx')>>) /\ pc' \in {"negotiate", "failed"}
  BY AskingKept, MoveWrites DEF Greet, Types
<1>2. tx = 0 /\ ep01 \in Seq(Opening) /\ 0 \in Octet
  BY DEF Greet, Asking, Octet
<1>3. SynAck(0, rx') \in HostPackets /\ SynAck(0, rx') \in Opening
  BY <1>1, <1>2, OpeningIs
<1>4. <<SynAck(0, rx')>> \in Seq(HostPackets) /\ <<SynAck(0, rx')>> \in Seq(Opening)
      /\ Write(<<SynAck(0, rx')>>)
  BY <1>1, <1>2, <1>3
<1>5. PICK e \in Seq(HostPackets) : e \in Seq(Opening) /\ ep01' = ep01 \o e
  BY <1>4, WritesWithin
<1>6. ep01' \in Seq(Opening) /\ ep01' \in Seq(HostPackets)
  BY <1>1, <1>2, <1>5, ConcatProperties
<1>7. Parts(ep01', Opening, Calls)
  BY <1>6, PartsOfOne
<1> QED
  BY <1>1, <1>2, <1>6, <1>7 DEF Asking, AskingDevice

LEMMA AskingAsks ==
  ASSUME Types, Asking, NEW d, Move(d), AskCert(d)
  PROVE  Asking'
<1>1. AskingDevice' /\ ep01 \in Seq(HostPackets) /\ rx' \in Octet
  BY AskingKept, MoveWrites DEF Types
<1>2. tx = 0 /\ ep01 \in Seq(Opening) /\ 0 \in Octet /\ 1 \in Octet
  BY DEF AskCert, Asking, Octet
<1>3. pc' = "auth" /\ tx' = 1
  BY <1>2 DEF AskCert, NextSeq
<1> DEFINE a == SynAck(0, rx')
           b == Data(1, rx', "RequestCert")
<1>4. a \in HostPackets /\ a \in Opening
  BY <1>1, <1>2, OpeningIs
<1>5. b \in HostPackets /\ b \in Calls
  <2>1. "RequestCert" \in Requests
    BY DEF Requests
  <2> QED
    BY <1>1, <1>2, <2>1, CallsAre, DataIs
<1>6. Write(<<b>>) \/ Write(<<a, b>>)
  BY <1>2, <1>3 DEF AskCert
<1> HIDE DEF a, b
<1>7. /\ <<a>> \in Seq(HostPackets) /\ <<a>> \in Seq(Opening)
      /\ <<b>> \in Seq(HostPackets) /\ <<b>> \in Seq(Calls)
  BY <1>4, <1>5
<1>8. ep01' = (ep01 \o <<a>>) \o <<b>> \/ ep01' = ep01 \o <<a>>
      \/ \E e \in Seq(HostPackets) : e \in Seq(Calls) /\ ep01' = ep01 \o e
  <2>1. CASE Write(<<b>>)
    BY <1>7, <2>1, WritesWithin
  <2>2. CASE Write(<<a, b>>)
    BY <1>4, <1>5, <1>7, <2>2, WritesTwo
  <2> QED
    BY <1>6, <2>1, <2>2
<1>9. ep01 \o <<a>> \in Seq(Opening) /\ ep01 \o <<a>> \in Seq(HostPackets)
  BY <1>1, <1>2, <1>7, ConcatProperties
<1>10. Parts(ep01, Opening, Calls) /\ Parts(ep01 \o <<a>>, Opening, Calls)
  BY <1>1, <1>2, <1>9, PartsOfOne
<1>11. Parts(ep01', Opening, Calls)
  BY <1>1, <1>7, <1>8, <1>9, <1>10, PartsAfter
<1> QED
  BY <1>1, <1>3, <1>11 DEF Asking, AskingDevice

LEMMA AskingSays ==
  ASSUME Types, Asking, program # "full", NEW d, Move(d), Say
  PROVE  Asking'
<1>1. AskingDevice' /\ ep01 \in Seq(HostPackets) /\ rx \in Octet /\ tx' = NextSeq(tx)
  BY AskingKept, OctetsOfState DEF Types, Say
<1>2. PICK m \in Requests :
        /\ Write(<<Data(tx', rx, m)>>)
        /\ \/ pc = "accept" /\ pc' = "auth_drain"
           \/ pc = "auth_drain" /\ pc' = "identify"
  BY DEF Say, Asking
<1>3. tx' \in {2, 3} /\ (pc' = "auth_drain" => tx' = 2) /\ tx' \in Octet
  BY <1>1, <1>2 DEF Asking, NextSeq, Octet
<1>4. Data(tx', rx, m) \in HostPackets /\ Data(tx', rx, m) \in Calls
  BY <1>1, <1>3, CallsAre
<1>5. <<Data(tx', rx, m)>> \in Seq(HostPackets) /\ <<Data(tx', rx, m)>> \in Seq(Calls)
  BY <1>4
<1>6. PICK e \in Seq(HostPackets) : e \in Seq(Calls) /\ ep01' = ep01 \o e
  BY <1>2, <1>5, WritesWithin
<1>7. Parts(ep01', Opening, Calls)
  BY <1>1, <1>6, PartsAfter DEF Asking
<1> QED
  BY <1>1, <1>2, <1>3, <1>7 DEF Asking, AskingDevice

\* A SYN that comes late is acknowledged, and no more.
LEMMA AskingAcknowledges ==
  ASSUME Types, Asking, NEW d, Move(d), Take(d)
  PROVE  Asking'
<1>1. /\ AskingDevice' /\ pc' = pc /\ pc \in Established /\ tx' = tx
      /\ Speaks(<<>>) \/ Write(<<AckOnly(tx, rx')>>)
      /\ ep01 \in Seq(HostPackets) /\ tx \in Octet /\ rx' \in Octet
  BY AskingKept, MoveWrites, OctetsOfState DEF Types
<1>2. AckOnly(tx, rx') \in HostPackets /\ AckOnly(tx, rx') \in Calls
  <2>1. "RequestCert" \in Requests
    BY DEF Requests
  <2> QED
    BY <1>1, <2>1, AckOnlyIs, CallsAre
<1>3. <<AckOnly(tx, rx')>> \in Seq(HostPackets) /\ <<AckOnly(tx, rx')>> \in Seq(Calls)
  BY <1>2
<1>4. Parts(ep01', Opening, Calls)
  <2>1. CASE Speaks(<<>>)
    BY <2>1, WritesNothing DEF Asking
  <2>2. CASE Write(<<AckOnly(tx, rx')>>)
    <3>1. PICK e \in Seq(HostPackets) : e \in Seq(Calls) /\ ep01' = ep01 \o e
      BY <1>3, <2>2, WritesWithin
    <3> QED
      BY <1>1, <3>1, PartsAfter DEF Asking
  <2> QED
    BY <1>1, <2>1, <2>2
<1>5. pc \notin {"drain", "detect", "negotiate"}
  BY <1>1, EstablishedIs
<1> QED
  BY <1>1, <1>4, <1>5 DEF Asking, AskingDevice

LEMMA AskingMoves ==
  ASSUME Types, Asking, program # "full", NEW d, Move(d)
  PROVE  Asking'
BY AskingKept, AskingQuiet, AskingGreets, AskingAsks, AskingSays, AskingAcknowledges
   DEF Move

-----------------------------------------------------------------------------
(* The host once the certificate is on its way.                            *)

\* What the host writes leaves no marker and no answer to a SYN on the way.
LEMMA ReplyingWrites ==
  ASSUME Types, Replying, NEW ps \in Seq(HostPackets), ps \in Seq(Plain),
         Speaks(<<>>) \/ Write(ps)
  PROVE  ep01' \in Seq(Plain)
<1>1. ep01 \in Seq(Plain) /\ ep01 \in Seq(HostPackets)
  BY DEF Replying, Types
<1>2. CASE Speaks(<<>>)
  BY <1>1, <1>2, WritesNothing
<1>3. CASE Write(ps)
  <2>1. PICK e \in Seq(HostPackets) : e \in Seq(Plain) /\ ep01' = ep01 \o e
    BY <1>3, WritesWithin
  <2> QED
    BY <1>1, <2>1, ConcatProperties
<1> QED
  BY <1>2, <1>3

LEMMA ReplyingKept ==
  ASSUME Types, Replying, NEW d, Move(d), ep01' \in Seq(Plain),
         pc' \in {"auth", "challenge", "accept", "auth_drain", "identify", "failed"}
  PROVE  Replying'
<1>1. Heard(d) /\ UNCHANGED deviceVars
  BY DEF Move
<1>2. ep81' \in Seq(Certifying)
  BY <1>1, HeardWithin DEF Replying
<1> QED
  BY <1>1, <1>2 DEF deviceVars, Replying

LEMMA ReplyingTakes ==
  ASSUME Types, Replying, program # "full", NEW d, Move(d), Take(d)
  PROVE  Replying'
<1>1. Heard(d)
  BY DEF Move
<1>2. PICK p \in DevicePackets :
        /\ From(p, d)
        /\ TakeOnly(p) \/ TakeAndSay(p) \/ TakeAndSayTwo(p)
  BY DEF Take
<1>3. p \in Certifying
  BY <1>1, <1>2, HeardWithin DEF Replying
<1>4. p.msg \notin {"Response", "IdentInfo", "video"}
  BY <1>3, KindsOfPacket DEF Certifying, Answers
<1>5. tx \in Octet /\ tx' \in Octet /\ rx' \in Octet
  BY OctetsOfState, MoveWrites
<1>6. ~TakeAndSayTwo(p)
  BY <1>4 DEF TakeAndSayTwo
<1>7. CASE TakeOnly(p)
  <2>1. "RequestCert" \in Requests
    BY DEF Requests
  <2>2. AckOnly(tx, rx') \in HostPackets /\ AckOnly(tx, rx') \in Plain
    BY <1>5, <2>1, AckOnlyIs, CallsAre
  <2>3. <<AckOnly(tx, rx')>> \in Seq(HostPackets) /\ <<AckOnly(tx, rx')>> \in Seq(Plain)
    BY <2>2
  <2>4. ep01' \in Seq(Plain)
    BY <1>7, <2>3, ReplyingWrites DEF TakeOnly
  <2>5. pc' \in {"auth", "challenge", "accept", "auth_drain", "identify", "failed"}
    BY <1>7 DEF TakeOnly, Replying
  <2> QED
    BY <2>4, <2>5, ReplyingKept
<1>8. CASE TakeAndSay(p)
  <2>1. PICK m \in Requests :
          \/ Write(<<Data(tx', rx', m)>>)
          \/ Write(<<AckOnly(tx, rx'), Data(tx', rx', m)>>)
    BY <1>8 DEF TakeAndSay
  <2> DEFINE a == AckOnly(tx, rx')
             b == Data(tx', rx', m)
  <2>2. a \in HostPackets /\ a \in Plain /\ b \in HostPackets /\ b \in Plain
    BY <1>5, AckOnlyIs, DataIs, CallsAre
  <2>3. Write(<<b>>) \/ Write(<<a, b>>)
    BY <2>1
  <2> HIDE DEF a, b
  <2>4. /\ <<b>> \in Seq(HostPackets) /\ <<b>> \in Seq(Plain)
        /\ <<a, b>> \in Seq(HostPackets) /\ <<a, b>> \in Seq(Plain)
    BY <2>2
  <2>5. ep01' \in Seq(Plain)
    BY <2>3, <2>4, ReplyingWrites
  <2>6. pc' \in {"auth", "challenge"}
    BY <1>4, <1>8 DEF TakeAndSay, IsVideo
  <2> QED
    BY <2>5, <2>6, ReplyingKept
<1> QED
  BY <1>2, <1>6, <1>7, <1>8

LEMMA ReplyingMoves ==
  ASSUME Types, Replying, program # "full", NEW d, Move(d)
  PROVE  Replying'
<1>1. ~Greet(d) /\ ~AskCert(d) /\ ~AckVideo(d)
  BY DEF Greet, AskCert, AckVideo, Replying
<1>2. CASE Quiet(d)
  <2>1. Speaks(<<>>)
    BY <1>2 DEF Quiet, Replying
  <2>2. <<>> \in Seq(HostPackets) /\ <<>> \in Seq(Plain)
    OBVIOUS
  <2>3. ep01' \in Seq(Plain)
    BY <2>1, <2>2, ReplyingWrites
  <2>4. pc' \in {"auth", "challenge", "accept", "auth_drain", "identify", "failed"}
    BY <1>2 DEF Quiet, Replying
  <2> QED
    BY <2>3, <2>4, ReplyingKept
<1>3. CASE Say
  <2>1. PICK m \in Requests :
          /\ Write(<<Data(tx', rx, m)>>)
          /\ pc' \in {"auth_drain", "identify"}
    BY <1>3 DEF Say, Replying
  <2>2. tx' \in Octet /\ rx \in Octet
    BY OctetsOfState, MoveWrites
  <2>3. Data(tx', rx, m) \in HostPackets /\ Data(tx', rx, m) \in Plain
    BY <2>2, DataIs, CallsAre
  <2>4. <<Data(tx', rx, m)>> \in Seq(HostPackets) /\ <<Data(tx', rx, m)>> \in Seq(Plain)
    BY <2>3
  <2>5. ep01' \in Seq(Plain)
    BY <2>1, <2>4, ReplyingWrites
  <2> QED
    BY <2>1, <2>5, ReplyingKept
<1>4. CASE Take(d)
  BY <1>4, ReplyingTakes
<1> QED
  BY <1>1, <1>2, <1>3, <1>4 DEF Move

-----------------------------------------------------------------------------
(* The device until the certificate is acknowledged.                       *)

\* What the device may say before it has the request, and before it has the
\* acknowledgement of the certificate.
LEMMA WordlessAre ==
  /\ Marker \in Wordless /\ Rst \in Wordless
  /\ \A s \in Octet : Syn(s) \in Wordless
  /\ \A s \in Octet, a \in Octet : AckOnly(s, a) \in Wordless
<1>1. \A p \in DevicePackets : p.msg \in {"marker", "none"} => p \in Wordless
  BY KindsOfPacket DEF Wordless, Answers
<1>2. Rst.msg = "none"
  BY DEF Rst, Packet
<1> QED
  BY <1>1, <1>2, MarkerIs, RstIs, SynIs, AckOnlyIs

LEMMA AppendWithin ==
  ASSUME NEW S, NEW X, NEW s \in Seq(S), s \in Seq(X), NEW e \in S, e \in X
  PROVE  Append(s, e) \in Seq(X)
<1>1. Append(s, e) = s \o <<e>> /\ <<e>> \in Seq(X)
  BY AppendIsConcat
<1> QED
  BY <1>1, ConcatProperties

LEMMA HeadOfConcat ==
  ASSUME NEW S, NEW s \in Seq(S), NEW t \in Seq(S), s # <<>>
  PROVE  s \o t # <<>> /\ Head(s \o t) = Head(s)
<1> DEFINE c == s \o t
<1>1. /\ Len(s) \in Nat /\ Len(t) \in Nat /\ Len(c) = Len(s) + Len(t)
      /\ \A i \in 1 .. Len(s) : c[i] = s[i]
  BY IndexOfConcat
<1>2. Len(s) >= 1
  BY EmptySeq, LenProperties
<1> HIDE DEF c
<1>3. Len(c) # 0 /\ c[1] = s[1]
  BY <1>1, <1>2
<1>4. c # <<>>
  BY <1>3
<1>5. Head(c) = c[1] /\ Head(s) = s[1]
  OBVIOUS
<1> QED
  BY <1>3, <1>4, <1>5 DEF c

LEMMA AskingTakes ==
  ASSUME Types, Asking, DeviceTake
  PROVE  Asking' \/ Replying'
<1> DEFINE q == Head(ep01)
<1>1. /\ ep01 # <<>> /\ ep01' = Tail(ep01) /\ UNCHANGED <<pc, tx>>
      /\ TakeMarker \/ TakeSynAck \/ TakeAck
      /\ ep01 \in Seq(HostPackets) /\ ep81 \in Seq(DevicePackets)
      /\ dseq \in Octet /\ hseq = 0 /\ 0 \in Octet
  BY OctetsOfState DEF DeviceTake, DeviceStep, hostVars, Types, Octet, Asking
<1>2. /\ Parts(ep01', Opening, Calls)
      /\ q \in Opening \/ (q \in Calls /\ ep01' \in Seq(Calls))
  BY <1>1, PartsTail DEF Asking
<1>3. pc \in {"drain", "detect", "negotiate"} => q \in Opening /\ ep01' \in Seq(Opening)
  BY <1>1, TailWithin DEF Asking
<1>4. ASSUME hseq' = 0, pending' = "none", todo' = <<>>, ~streaming', ep81' \in Seq(Wordless)
      PROVE  Asking'
  BY <1>1, <1>2, <1>3, <1>4 DEF Asking
<1>5. CASE TakeMarker
  <2>1. ep81' \in {ep81, ep81 \o <<Marker, Syn(dseq)>>, Append(ep81, Syn(dseq))}
    BY <1>5 DEF TakeMarker
  <2>2. /\ Syn(dseq) \in Wordless /\ Marker \in Wordless /\ Syn(dseq) \in DevicePackets
        /\ ep81 \in Seq(Wordless)
    BY <1>1, SynIs, WordlessAre DEF Asking
  <2>3. <<Marker, Syn(dseq)>> \in Seq(Wordless)
    BY <2>2
  <2>4. ep81 \o <<Marker, Syn(dseq)>> \in Seq(Wordless)
    BY <2>2, <2>3, ConcatProperties
  <2>5. Append(ep81, Syn(dseq)) \in Seq(Wordless)
    BY <1>1, <2>2, AppendWithin
  <2>6. ep81' \in Seq(Wordless)
    BY <2>1, <2>2, <2>4, <2>5
  <2> QED
    BY <1>1, <1>4, <1>5, <2>6 DEF TakeMarker, Asking
<1>6. CASE TakeSynAck
  <2>1. "SYN" \in q.ctrl
    BY <1>6 DEF TakeSynAck
  <2>2. q.seq = 0
    BY <1>2, <2>1 DEF Opening, Calls, Plain
  <2>3. hseq' = 0 /\ ep81' \in {ep81, Append(ep81, AckOnly(dseq, 0))}
    BY <1>1, <1>6, <2>2 DEF TakeSynAck
  <2>4. AckOnly(dseq, 0) \in Wordless /\ AckOnly(dseq, 0) \in DevicePackets
        /\ ep81 \in Seq(Wordless)
    BY <1>1, AckOnlyIs, WordlessAre DEF Asking
  <2>5. ep81' \in Seq(Wordless)
    BY <1>1, <2>3, <2>4, AppendWithin
  <2> QED
    BY <1>4, <1>6, <2>3, <2>5 DEF TakeSynAck, Asking
<1>7. CASE TakeAck
  <2>1. q.ctrl = {"ACK"} /\ IsLink(q) /\ UNCHANGED link
    BY <1>7 DEF TakeAck
  <2>2. q \in Calls /\ ep01' \in Seq(Calls) /\ q \notin Opening
    BY <1>2, <2>1 DEF Opening
  <2>3. pc \notin {"drain", "detect", "negotiate"}
    BY <1>3, <2>2
  <2>4. CASE link # "up"
    BY <1>4, <1>7, <2>4 DEF TakeAck, Asking
  <2>5. CASE link = "up" /\ q.msg = "none"
    BY <1>4, <1>7, <2>5 DEF TakeAck, Asking
  <2>6. CASE link = "up" /\ q.msg # "none"
    <3>1. pending' = "none" /\ ep81' = Append(ep81, AckOnly(dseq, hseq'))
      BY <1>7, <2>6 DEF TakeAck, Asking
    <3>2. q.msg \in Requests /\ q.seq \in Octet /\ NextSeq(hseq) = 1
      BY <1>1, <2>1, <2>6, HeadOfHost DEF NextSeq
    <3>3. hseq' \in Octet
      BY <1>1, <1>7, <2>6, <3>2 DEF TakeAck
    <3>4. AckOnly(dseq, hseq') \in Wordless /\ AckOnly(dseq, hseq') \in DevicePackets
          /\ ep81 \in Seq(Wordless)
      BY <1>1, <3>3, AckOnlyIs, WordlessAre DEF Asking
    <3>5. ep81' \in Seq(Wordless)
      BY <1>1, <3>1, <3>4, AppendWithin
    <3>6. CASE q.seq # 1
      <4>1. UNCHANGED <<hseq, todo, streaming>>
        BY <1>7, <2>6, <3>2, <3>6 DEF TakeAck
      <4> QED
        BY <1>1, <1>4, <3>1, <3>5, <4>1 DEF Asking
    <3>7. CASE q.seq = 1
      <4>1. q.msg = "RequestCert"
        BY <2>2, <3>2, <3>7 DEF Calls, IsMessage
      <4>2. todo' = todo \o Replies[q.msg]
        BY <1>7, <2>6, <3>2, <3>7 DEF TakeAck
      <4>3. todo' = <<"Cert">>
        <5>1. Replies["RequestCert"] = <<"Cert">> /\ todo = <<>>
          BY DEF Replies, Asking
        <5>2. <<>> \o <<"Cert">> = <<"Cert">>
          BY ConcatEmptySeq
        <5> QED
          BY <4>1, <4>2, <5>1, <5>2
      <4>4. todo' # <<>> /\ Head(todo') = "Cert"
        BY <4>3
      <4>5. ep01' \in Seq(Plain) /\ ep81' \in Seq(Certifying)
        BY <2>2, <3>5, CallsAre
      <4>6. pc' \in {"auth", "accept", "auth_drain", "identify", "failed"}
        BY <1>1, <2>3 DEF Asking
      <4> QED
        BY <2>1, <2>6, <3>1, <4>4, <4>5, <4>6 DEF Replying
    <3> QED
      BY <3>6, <3>7
  <2> QED
    BY <2>4, <2>5, <2>6
<1> QED
  BY <1>1, <1>5, <1>6, <1>7

LEMMA AskingActs ==
  ASSUME Types, Asking, Device
  PROVE  Asking' \/ Replying'
<1>1. ep81 \in Seq(DevicePackets) /\ ep81 \in Seq(Wordless) /\ dseq \in Octet
  BY OctetsOfState DEF Types, Asking
<1>2. ~DeviceResend /\ ~DeviceSend
  BY DEF DeviceResend, DeviceSend, Asking
<1>3. ASSUME UNCHANGED <<pc, tx, ep01>>, hseq' = 0, pending' = "none", todo' = <<>>,
             ~streaming', ep81' \in Seq(Wordless)
      PROVE  Asking'
  BY <1>3 DEF Asking
<1>4. CASE DeviceMarker
  <2>1. Append(ep81, Marker) \in Seq(Wordless)
    BY <1>1, MarkerIs, WordlessAre, AppendWithin
  <2> QED
    BY <1>3, <1>4, <2>1 DEF DeviceMarker, DeviceStep, hostVars, Asking
<1>5. CASE DeviceSyn
  <2>1. Append(ep81, Syn(dseq)) \in Seq(Wordless)
    BY <1>1, SynIs, WordlessAre, AppendWithin
  <2> QED
    BY <1>3, <1>5, <2>1 DEF DeviceSyn, Resend, DeviceStep, hostVars, Asking
<1>6. CASE DeviceReset
  <2>1. Append(ep81, Rst) \in Seq(Wordless)
    BY <1>1, RstIs, WordlessAre, AppendWithin
  <2> QED
    BY <1>3, <1>6, <2>1 DEF DeviceReset, DeviceStep, hostVars, Asking
<1>7. CASE DeviceTake
  BY <1>7, AskingTakes
<1> QED
  BY <1>2, <1>4, <1>5, <1>6, <1>7 DEF Device, DeviceActs

LEMMA ReplyingActs ==
  ASSUME Types, Replying, Device
  PROVE  Replying' \/ "Cert" \in acked'
<1>1. /\ ep81 \in Seq(DevicePackets) /\ ep81 \in Seq(Certifying) /\ dseq \in Octet
      /\ ep01 \in Seq(HostPackets) /\ ep01 \in Seq(Plain)
      /\ Wordless \subseteq Certifying
  BY OctetsOfState, CallsAre DEF Types, Replying
<1>2. pc' = pc
  <2>1. DeviceStep
    BY DEF Device, DeviceActs, DeviceMarker, DeviceSyn, DeviceResend, Resend, DeviceSend,
           DeviceTake, DeviceReset
  <2> QED
    BY <2>1 DEF DeviceStep, hostVars
<1>3. ASSUME ep01' \in Seq(Plain), ep81' \in Seq(Certifying), link' \in {"up", "detect"},
             link' = "up" =>
               pending' = "Cert" \/ (pending' = "none" /\ todo' # <<>> /\ Head(todo') = "Cert")
      PROVE  Replying'
  BY <1>2, <1>3 DEF Replying
<1>4. CASE DeviceMarker
  <2>1. Append(ep81, Marker) \in Seq(Certifying)
    BY <1>1, MarkerIs, WordlessAre, AppendWithin
  <2> QED
    BY <1>1, <1>3, <1>4, <2>1 DEF DeviceMarker, Replying
<1>5. ~DeviceSyn
  BY DEF DeviceSyn, Replying
<1>6. CASE DeviceResend
  <2>1. pending = "Cert" /\ link = "up" /\ ep81' = Append(ep81, Unacked)
        /\ UNCHANGED <<ep01, link, pending>>
    BY <1>6 DEF DeviceResend, Resend, Replying
  <2>2. Unacked \in DevicePackets /\ Unacked \in Certifying
    BY <2>1, UnackedIs DEF Certifying
  <2>3. ep81' \in Seq(Certifying)
    BY <1>1, <2>1, <2>2, AppendWithin
  <2> QED
    BY <1>1, <1>3, <2>1, <2>3
<1>7. CASE DeviceSend
  <2>1. /\ link = "up" /\ todo # <<>> /\ Head(todo) = "Cert"
        /\ pending' = "Cert" /\ UNCHANGED <<ep01, link>> /\ ep81' = Append(ep81, Unacked')
    BY <1>7 DEF DeviceSend, Replying
  <2>2. Unacked'.msg = "Cert"
    BY <2>1 DEF Unacked, Data, Packet
  <2>3. Types'
    BY <1>7, DeviceTypes DEF Device, DeviceActs
  <2>4. Unacked' \in DevicePackets
    <3>1. /\ dseq' \in Octet /\ hseq' \in Octet /\ video' \in 0 .. MaxVideo
          /\ pending' \in Answers \union {"video"} /\ pending' # "video"
      BY <2>1, <2>3 DEF Types, TypeOK, Octet, Answers
    <3> QED
      BY <3>1, DeviceDataIs DEF Unacked
  <2>5. ep81' \in Seq(Certifying)
    BY <1>1, <2>1, <2>2, <2>4, AppendWithin DEF Certifying
  <2> QED
    BY <1>1, <1>3, <2>1, <2>5 DEF Replying
<1>8. CASE DeviceReset
  <2>1. Append(ep81, Rst) \in Seq(Certifying)
    BY <1>1, RstIs, WordlessAre, AppendWithin
  <2> QED
    BY <1>1, <1>3, <1>8, <2>1 DEF DeviceReset
<1>9. CASE DeviceTake
  <2> DEFINE q == Head(ep01)
  <2>1. /\ ep01 # <<>> /\ q \in Plain /\ ep01' \in Seq(Plain)
        /\ TakeMarker \/ TakeSynAck \/ TakeAck
    BY <1>1, <1>9, TailWithin DEF DeviceTake
  <2>2. TakeAck
    BY <2>1 DEF TakeMarker, TakeSynAck, Plain
  <2>3. UNCHANGED link
    BY <2>2 DEF TakeAck
  <2>4. CASE link # "up"
    BY <1>1, <1>3, <2>1, <2>2, <2>3, <2>4 DEF TakeAck, Replying
  <2>5. CASE link = "up"
    <3>1. /\ hseq' \in Octet /\ todo \in Seq(Answers) /\ q.msg \in Requests \union {"none", "marker"}
          /\ IsLink(q) /\ (q.msg # "none" => q.msg \in Requests)
      BY <2>1, <2>2, HeadOfHost, TakeAckTypes DEF Types, TypeOK, Plain
    <3>2. ep81' \in Seq(Certifying)
      <4>1. AckOnly(dseq, hseq') \in DevicePackets /\ AckOnly(dseq, hseq') \in Certifying
        BY <1>1, <3>1, AckOnlyIs, WordlessAre
      <4>2. ep81' = ep81 \/ ep81' = Append(ep81, AckOnly(dseq, hseq'))
        BY <2>2, <2>5 DEF TakeAck
      <4> QED
        BY <1>1, <4>1, <4>2, AppendWithin
    <3>3. CASE pending = "Cert" /\ q.ack = dseq
      BY <2>2, <2>5, <3>3 DEF TakeAck
    <3>4. CASE pending = "Cert" /\ q.ack # dseq
      <4>1. pending' = "Cert"
        BY <2>2, <2>5, <3>4 DEF TakeAck
      <4> QED
        BY <1>3, <2>1, <2>3, <2>5, <3>2, <4>1
    <3>5. CASE pending # "Cert"
      <4>1. pending = "none" /\ todo # <<>> /\ Head(todo) = "Cert"
        BY <2>5, <3>5 DEF Replying
      <4>2. pending' = "none"
        BY <2>2, <2>5, <4>1 DEF TakeAck
      <4>3. todo' = todo \/ (q.msg # "none" /\ todo' = todo \o Replies[q.msg])
        BY <2>2, <2>5 DEF TakeAck
      <4>4. todo' # <<>> /\ Head(todo') = "Cert"
        <5>1. CASE todo' = todo
          BY <4>1, <5>1
        <5>2. CASE q.msg # "none" /\ todo' = todo \o Replies[q.msg]
          <6>1. Replies[q.msg] \in Seq(Answers)
            BY <3>1, <5>2, Answered
          <6> QED
            BY <3>1, <4>1, <5>2, <6>1, HeadOfConcat
        <5> QED
          BY <4>3, <5>1, <5>2
      <4> QED
        BY <1>3, <2>1, <2>3, <2>5, <3>2, <4>2, <4>4
    <3> QED
      BY <3>3, <3>4, <3>5
  <2> QED
    BY <2>4, <2>5
<1> QED
  BY <1>4, <1>5, <1>6, <1>7, <1>8, <1>9 DEF Device, DeviceActs

LEMMA CertStays ==
  ASSUME [Next]_vars
  PROVE  program' = program /\ acked \subseteq acked'
<1>1. CASE Host
  BY <1>1 DEF Host, StreamHost, ConnectHost, FullConnectHost, ViewerHost, HostStep, deviceVars
<1>2. CASE DeviceTake
  <2>1. program' = program
    BY <1>2 DEF DeviceTake, DeviceStep
  <2>2. acked \subseteq acked'
    BY <1>2 DEF DeviceTake, TakeMarker, TakeSynAck, TakeAck
  <2> QED
    BY <2>1, <2>2
<1>3. CASE Device /\ ~DeviceTake
  BY <1>3 DEF Device, DeviceActs, DeviceMarker, DeviceSyn, DeviceResend, Resend, DeviceSend,
     DeviceReset, DeviceStep
<1>4. CASE UNCHANGED vars
  BY <1>4 DEF vars, deviceVars
<1> QED
  BY <1>1, <1>2, <1>3, <1>4 DEF Next

LEMMA InitCert == Init => CertInv
<1> SUFFICES ASSUME Init PROVE Asking
  BY DEF CertInv
<1>1. ep01 = <<>> /\ ep81 = <<>> /\ ep01 \in Seq(HostPackets)
      /\ ep01 \in Seq(Opening) /\ ep81 \in Seq(Wordless)
  BY DEF Init, LinkInit
<1>2. Parts(ep01, Opening, Calls)
  BY <1>1, PartsOfOne
<1> QED
  BY <1>1, <1>2 DEF Init, LinkInit, Asking

LEMMA NextCert == Types /\ CertInv /\ [Next]_vars => CertInv'
<1> SUFFICES ASSUME Types, CertInv, [Next]_vars PROVE CertInv'
  OBVIOUS
<1>1. CASE program = "full" \/ "Cert" \in acked
  BY <1>1, CertStays DEF CertInv
<1>2. CASE program # "full" /\ Host
  <2>1. PICK d : Move(d)
    BY <1>2, HostMoves DEF HostMove
  <2> QED
    BY <1>1, <1>2, <2>1, AskingMoves, ReplyingMoves DEF CertInv
<1>3. CASE Device
  BY <1>1, <1>3, AskingActs, ReplyingActs DEF CertInv
<1>4. CASE UNCHANGED vars
  <2>1. UNCHANGED <<program, acked, pc, tx, ep01, ep81, link, hseq, pending, todo, streaming>>
    BY <1>4 DEF vars, hostVars, deviceVars
  <2>2. Asking' = Asking /\ Replying' = Replying
    BY <2>1 DEF Asking, Replying
  <2> QED
    BY <2>1, <2>2 DEF CertInv
<1> QED
  BY <1>1, <1>2, <1>3, <1>4 DEF Next

\* Whatever fails, and however often the device starts over, stream.py,
\* td300_connect.py and td300_viewer.py finish only when the certificate has
\* been received and acknowledged, although stream.py's loop goes on without
\* it; without faults their identification is accepted, or about to be.
THEOREM DoneIdentified == Spec => [](program # "full" => DoneMeansIdentified)
<1>1. Types /\ CertInv => (program # "full" /\ pc = "done" => "Cert" \in acked)
  BY DEF CertInv, Asking, Replying
<1>2. Types /\ CertInv /\ (faults = 0 /\ program # "full" => DoneMeansIdentified)
        => (program # "full" => DoneMeansIdentified)
  BY <1>1 DEF DoneMeansIdentified
<1>3. Init => CertInv
  BY InitCert
<1>4. Types /\ CertInv /\ [Next]_vars => CertInv'
  BY NextCert
<1>5. Inv => Types
  BY DEF Inv
<1> QED
  BY <1>2, <1>3, <1>4, <1>5, Invariant, IdentifiedWithoutFaults, PTL DEF Spec

-----------------------------------------------------------------------------
(* td300_full_connect.py, which insists on the certificate only.           *)

\* What the messages on the way say.
MessageIn == [q \in HostPackets |-> IF IsMessage(q) THEN <<q.msg>> ELSE <<>>]

Says(ps) == Gather(MessageIn, ps)

\* Where it waits for an answer, and what it has asked there last.
Waits == {"auth", "challenge", "identify"}

Answer == CASE pc = "auth"      -> "Cert"
            [] pc = "challenge" -> "Response"
            [] OTHER            -> "IdentInfo"

Questions == CASE pc = "auth"      -> {<<"RequestCert">>}
               [] pc = "challenge" -> {<<"Challenge">>}
               [] OTHER            -> {<<"AuthSucceeded", "StartIdent">>, <<"StartIdent">>}

Else == {p \in DevicePackets : p.msg # Answer}

Confirming(s) == {q \in HostPackets : IsMessage(q) => q.ack = s}

\* It has attempts left for n packets that are not the answer.
Slack(n) == pc # "auth" => tries + n <= 3

\* How often the device may still send its last packet unprompted.
Twice == IF early THEN 0 ELSE 1

\* The question is on the way, and acknowledges what the device sent last.
Due ==
  /\ Says(ep01) \in Questions /\ todo = <<>> /\ pending # Answer
  /\ IF pc = "auth" THEN pending = "none" ELSE ep01 \in Seq(NonSyn)
  /\ pending # "none" => ep01 \in Seq(Confirming(dseq))
  /\ ep81 \in Seq(Else)
  /\ Slack(Len(ep81) + Len(Says(ep01)) + (IF pending = "none" THEN 0 ELSE Twice))

\* The device has the question, and will answer.
Queued ==
  /\ Says(ep01) = <<>> /\ todo = <<Answer>> /\ pending = "none"
  /\ ep01 \in Seq(NonSyn) /\ ep81 \in Seq(Else)
  /\ Slack(Len(ep81))

\* It has answered: after k other packets only the answer is on the way, or
\* nothing is any more and the device will send it again.
Apart(k) ==
  /\ \A i \in 1 .. k : ep81[i].msg # Answer
  /\ \A i \in k + 1 .. Len(ep81) : ep81[i].msg = Answer
  /\ Slack(k) /\ Len(ep81) - k + Twice <= 2

Coming ==
  /\ Says(ep01) = <<>> /\ todo = <<>> /\ pending = Answer /\ ep01 \in Seq(NonSyn)
  /\ \E k \in 0 .. Len(ep81) : Apart(k)

Patient == Due \/ Queued \/ Coming

Insistent ==
  program = "full" /\ faults = 0 /\ ~late =>
    /\ pc \in Waits => Patient
    /\ pc \in {"video", "done"} => Identification

-----------------------------------------------------------------------------
(* What the messages say.                                                  *)

LEMMA SaysIs ==
  /\ MessageIn \in [HostPackets -> Seq(Requests)]
  /\ \A ps \in Seq(HostPackets) : Says(ps) \in Seq(Requests)
<1>1. MessageIn \in [HostPackets -> Seq(Requests)]
  <2>1. <<>> \in Seq(Requests) /\ \A m \in Requests : <<m>> \in Seq(Requests)
    OBVIOUS
  <2> QED
    BY <2>1 DEF MessageIn, IsMessage
<1>2. ASSUME NEW ps \in Seq(HostPackets) PROVE Says(ps) \in Seq(Requests)
  BY <1>1, GatherType DEF Says
<1> QED
  BY <1>1, <1>2

LEMMA SaysJoin ==
  ASSUME NEW ps \in Seq(HostPackets), NEW qs \in Seq(HostPackets)
  PROVE  Says(ps \o qs) = Says(ps) \o Says(qs)
<1>1. MessageIn \in [HostPackets -> Seq(Requests)]
  BY SaysIs
<1>2. Gather(MessageIn, ps \o qs) = Gather(MessageIn, ps) \o Gather(MessageIn, qs)
  BY <1>1, GatherConcat
<1> QED
  BY <1>2 DEF Says

LEMMA SaysEmpty == Says(<<>>) = <<>>
<1>1. Gather(MessageIn, <<>>) = <<>>
  BY GatherEmpty
<1> QED
  BY <1>1 DEF Says

LEMMA SaysOne ==
  ASSUME NEW q \in HostPackets
  PROVE  /\ IsMessage(q) => Says(<<q>>) = <<q.msg>>
         /\ ~IsMessage(q) => Says(<<q>>) = <<>>
<1>1. Says(<<q>>) = MessageIn[q]
  BY SaysIs, GatherOne DEF Says
<1> QED
  BY <1>1 DEF MessageIn

\* The first packet, and the others.
LEMMA SaysFirst ==
  ASSUME NEW ps \in Seq(HostPackets), ps # <<>>
  PROVE  /\ IsMessage(Head(ps)) => Says(ps) = <<Head(ps).msg>> \o Says(Tail(ps))
         /\ ~IsMessage(Head(ps)) => Says(ps) = Says(Tail(ps))
<1> DEFINE q == Head(ps)
           t == Tail(ps)
<1>1. q \in HostPackets /\ t \in Seq(HostPackets) /\ <<q>> \in Seq(HostPackets)
      /\ ps = <<q>> \o t
  BY FirstAndRest
<1>2. Says(<<q>> \o t) = Says(<<q>>) \o Says(t) /\ Says(t) \in Seq(Requests)
  BY <1>1, SaysJoin, SaysIs
<1>3. /\ IsMessage(q) => Says(<<q>>) = <<q.msg>>
      /\ ~IsMessage(q) => Says(<<q>>) = <<>>
  BY <1>1, SaysOne
<1> HIDE DEF q, t
<1>4. Says(ps) = Says(<<q>>) \o Says(t)
  BY <1>1, <1>2
<1>5. <<>> \o Says(t) = Says(t)
  BY <1>2, ConcatEmptySeq
<1> QED
  BY <1>3, <1>4, <1>5 DEF q, t

\* What says nothing has no message in it.
LEMMA SaysNothing ==
  ASSUME NEW ps \in Seq(HostPackets), Says(ps) = <<>>
  PROVE  \A i \in 1 .. Len(ps) : ~IsMessage(ps[i])
<1> SUFFICES ASSUME NEW i \in 1 .. Len(ps), IsMessage(ps[i]) PROVE FALSE
  OBVIOUS
<1>1. Len(ps) \in Nat /\ i - 1 \in 0 .. Len(ps) /\ (i - 1) + 1 = i /\ ps[i] \in HostPackets
  BY LenProperties, ElementOfSeq
<1> DEFINE a == SubSeq(ps, 1, i - 1)
           b == SubSeq(ps, i, Len(ps))
<1>2. /\ a \in Seq(HostPackets) /\ b \in Seq(HostPackets) /\ ps = a \o b
      /\ Len(a) = i - 1 /\ Len(b) = Len(ps) - (i - 1)
  BY <1>1, Split
<1> HIDE DEF a, b
<1>3. b # <<>> /\ Head(b) = ps[i]
  <2>1. 1 \in 1 .. Len(b) /\ Len(a) + 1 = i
    BY <1>1, <1>2
  <2>2. (a \o b)[Len(a) + 1] = b[1]
    BY <1>2, <2>1, IndexOfConcat
  <2> QED
    BY <1>2, <2>1, <2>2
<1>4. Says(b) = <<ps[i].msg>> \o Says(Tail(b)) /\ Tail(b) \in Seq(HostPackets)
  BY <1>2, <1>3, SaysFirst, FirstAndRest
<1>5. Says(a) \in Seq(Requests) /\ Says(Tail(b)) \in Seq(Requests) /\ ps[i].msg \in Requests
      /\ Says(ps) = Says(a) \o Says(b)
  BY <1>2, <1>4, SaysJoin, SaysIs DEF IsMessage
<1>6. PICK x, y : x = Says(a) /\ y = Says(Tail(b))
  OBVIOUS
<1>7. <<>> = x \o (<<ps[i].msg>> \o y) /\ x \in Seq(Requests) /\ y \in Seq(Requests)
  BY <1>4, <1>5, <1>6
<1>8. Len(x) \in Nat /\ Len(y) \in Nat /\ Len(<<ps[i].msg>>) = 1
      /\ <<ps[i].msg>> \in Seq(Requests)
  BY <1>5, <1>7, LenProperties
<1>9. /\ <<ps[i].msg>> \o y \in Seq(Requests) /\ Len(<<ps[i].msg>> \o y) = 1 + Len(y)
  BY <1>7, <1>8, ConcatProperties
<1>10. Len(x \o (<<ps[i].msg>> \o y)) = Len(x) + (1 + Len(y))
  BY <1>7, <1>9, ConcatProperties
<1>11. Len(<<>>) = Len(x) + (1 + Len(y))
  BY <1>7, <1>10, Zenon
<1>12. Len(<<>>) = 0
  OBVIOUS
<1> QED
  BY <1>8, <1>11, <1>12

-----------------------------------------------------------------------------
(* What it reads while it waits.                                           *)

LEMMA AnswerIs ==
  ASSUME pc \in Waits, program = "full"
  PROVE  /\ Answer \in Answers /\ Answer \notin {"none", "video"}
         /\ ~Used(Answer)
         /\ pc \in Established /\ pc \notin Ended
BY DEF Waits, Answer, Answers, Used, Ended, Established, Places

LEMMA SameAnswer ==
  ASSUME UNCHANGED <<pc, dseq>>
  PROVE  Answer' = Answer /\ Questions' = Questions /\ Else' = Else /\ Confirming(dseq)' = Confirming(dseq)
BY DEF Answer, Questions, Else, Confirming

\* While it waits the device owes it something.
LEMMA PatienceMore ==
  ASSUME Types, link = "up", pc \in Waits, program = "full", Patient
  PROVE  DeviceHasMore
<1>1. CASE Due
  <2>1. ep01 # <<>>
    <3>1. ep01 = <<>> => Says(ep01) = <<>>
      BY SaysEmpty
    <3>2. Says(ep01) \in Questions
      BY <1>1 DEF Due
    <3>3. \A s \in Questions : Len(s) # 0
      BY DEF Questions
    <3>4. Len(<<>>) = 0
      OBVIOUS
    <3> QED
      BY <3>1, <3>2, <3>3, <3>4
  <2> QED
    BY <2>1 DEF DeviceHasMore
<1>2. CASE Queued
  BY <1>2 DEF Queued, DeviceHasMore
<1>3. CASE Coming
  BY <1>3, AnswerIs DEF Coming, DeviceHasMore
<1> QED
  BY <1>1, <1>2, <1>3 DEF Patient

\* It has read a transfer that does not begin with the answer.
Unanswered(d) ==
  /\ Heard(d) /\ d # <<>> /\ Head(d).msg # Answer
  /\ tries' = tries + 1 /\ pc' = pc /\ UNCHANGED deviceVars

LEMMA HeardIs ==
  ASSUME NEW d, Heard(d), d # <<>>
  PROVE  /\ Len(d) \in Nat /\ Len(d) >= 1 /\ Len(ep81') \in Nat
         /\ Len(ep81) = Len(d) + Len(ep81')
         /\ ep81[1] = Head(d) /\ From(Head(d), d) /\ Head(d) \in DevicePackets
         /\ \A i \in 1 .. Len(ep81') : ep81'[i] = ep81[Len(d) + i]
<1>1. d \in Seq(DevicePackets) /\ ep81' \in Seq(DevicePackets) /\ ep81 = d \o ep81'
  BY DEF Heard
<1>2. /\ Len(d) \in Nat /\ Len(ep81') \in Nat /\ Len(ep81) = Len(d) + Len(ep81')
      /\ \A i \in 1 .. Len(d) : ep81[i] = d[i]
      /\ \A i \in 1 .. Len(ep81') : ep81[Len(d) + i] = ep81'[i]
  BY <1>1, IndexOfConcat
<1>3. Len(d) >= 1
  BY <1>1, <1>2, EmptySeq
<1>4. Head(d) = d[1] /\ 1 \in 1 .. Len(d)
  BY <1>1, <1>2, <1>3
<1>5. d[1] \in DevicePackets
  BY <1>1, <1>4, ElementOfSeq
<1> QED
  BY <1>2, <1>3, <1>4, <1>5 DEF From

LEMMA ApartHears ==
  ASSUME Types, NEW d, Unanswered(d), NEW k \in 0 .. Len(ep81), Apart(k)
  PROVE  \E j \in 0 .. Len(ep81') : Apart(j)'
<1> DEFINE n == Len(d)
           j == IF k >= n THEN k - n ELSE 0
<1>1. /\ n \in Nat /\ n >= 1 /\ Len(ep81') \in Nat /\ Len(ep81) = n + Len(ep81')
      /\ ep81[1] = Head(d)
      /\ \A i \in 1 .. Len(ep81') : ep81'[i] = ep81[n + i]
  BY HeardIs DEF Unanswered
<1>2. /\ Head(d).msg # Answer /\ tries' = tries + 1 /\ pc' = pc
      /\ Answer' = Answer /\ Twice' = Twice /\ Twice \in Nat
  BY SameAnswer DEF Unanswered, deviceVars, Twice
<1>3. tries \in Nat /\ k \in Nat
  BY <1>1, Counting, MostIs
<1> HIDE DEF n
<1>4. k >= 1
  <2> SUFFICES ASSUME k = 0 PROVE FALSE
    BY <1>3
  <2>1. 1 \in k + 1 .. Len(ep81)
    BY <1>1
  <2> QED
    BY <1>1, <1>2, <2>1 DEF Apart
<1>5. j \in 0 .. Len(ep81') /\ j + 1 <= k /\ Len(ep81') - j <= Len(ep81) - k
  BY <1>1, <1>3, <1>4
<1>6. \A i \in 1 .. j : ep81'[i].msg # Answer
  <2> TAKE i \in 1 .. j
  <2>1. i \in 1 .. Len(ep81') /\ n + i \in 1 .. k
    BY <1>1, <1>3, <1>5
  <2> QED
    BY <1>1, <2>1 DEF Apart
<1>7. \A i \in j + 1 .. Len(ep81') : ep81'[i].msg = Answer
  <2> TAKE i \in j + 1 .. Len(ep81')
  <2>1. i \in 1 .. Len(ep81') /\ n + i \in k + 1 .. Len(ep81)
    BY <1>1, <1>3, <1>5
  <2> QED
    BY <1>1, <2>1 DEF Apart
<1>8. /\ pc # "auth" => tries + k <= 3
      /\ Len(ep81) - k + Twice <= 2
  BY DEF Apart, Slack
<1> HIDE DEF j
<1>9. /\ pc' # "auth" => tries' + j <= 3
      /\ Len(ep81') - j + Twice' <= 2
  BY <1>1, <1>2, <1>3, <1>5, <1>8
<1>10. Apart(j)'
  BY <1>2, <1>6, <1>7, <1>9 DEF Apart, Slack
<1> QED
  BY <1>5, <1>10

\* What it writes meanwhile is no message.
Mute == {q \in HostPackets : ~IsMessage(q) /\ "SYN" \notin q.ctrl}

LEMMA SaysMute ==
  ASSUME NEW ps \in Seq(HostPackets), NEW q \in Mute
  PROVE  Says(ps \o <<q>>) = Says(ps)
<1>1. q \in HostPackets /\ ~IsMessage(q) /\ <<q>> \in Seq(HostPackets)
  BY DEF Mute
<1>2. Says(ps \o <<q>>) = Says(ps) \o Says(<<q>>) /\ Says(<<q>>) = <<>>
      /\ Says(ps) \in Seq(Requests)
  BY <1>1, SaysJoin, SaysOne, SaysIs
<1>3. Says(ps) \o <<>> = Says(ps)
  BY <1>2, ConcatEmptySeq
<1> QED
  BY <1>2, <1>3

LEMMA PatienceHears ==
  ASSUME Types, pc \in Waits, Patient, NEW d, Unanswered(d),
         ep01' = ep01 \/ \E q \in Mute : ep01' = ep01 \o <<q>>
  PROVE  Patient'
<1>1. /\ Answer' = Answer /\ Questions' = Questions /\ Else' = Else /\ Confirming(dseq)' = Confirming(dseq)
      /\ Twice' = Twice /\ Twice \in Nat /\ tries' = tries + 1 /\ pc' = pc
      /\ todo' = todo /\ pending' = pending
  BY SameAnswer DEF Unanswered, deviceVars, Twice
<1>2. ep01 \in Seq(HostPackets) /\ tries \in Nat /\ ep81 \in Seq(DevicePackets)
  BY Counting, MostIs DEF Types
<1>3. Says(ep01') = Says(ep01) /\ Says(ep01) \in Seq(Requests)
  BY <1>2, SaysMute, SaysIs
<1>4. \A X : ep01 \in Seq(X) /\ Mute \subseteq X => ep01' \in Seq(X)
  <2> TAKE X
  <2> SUFFICES ASSUME ep01 \in Seq(X), Mute \subseteq X PROVE ep01' \in Seq(X)
    OBVIOUS
  <2>1. \A q \in Mute : ep01 \o <<q>> \in Seq(X)
    <3> TAKE q \in Mute
    <3>1. <<q>> \in Seq(X)
      OBVIOUS
    <3> QED
      BY <3>1, ConcatProperties
  <2> QED
    BY <2>1
<1>5. Mute \subseteq NonSyn /\ Mute \subseteq Confirming(dseq)
  BY DEF Mute, NonSyn, Confirming
<1>6. /\ Len(ep81') \in Nat /\ Len(ep81) \in Nat /\ Len(ep81') + 1 <= Len(ep81)
  BY HeardIs DEF Unanswered
<1>7. ep81 \in Seq(Else) => ep81' \in Seq(Else)
  BY HeardWithin DEF Unanswered
<1>8. CASE Due
  <2>1. PICK n \in Nat : n = Len(Says(ep01)) + (IF pending = "none" THEN 0 ELSE Twice)
    <3>1. Len(Says(ep01)) \in Nat
      BY <1>3, LenProperties
    <3> QED
      BY <1>1, <3>1
  <2>2. pc # "auth" => tries + (Len(ep81) + n) <= 3
    <3>1. Slack(Len(ep81) + Len(Says(ep01)) + (IF pending = "none" THEN 0 ELSE Twice))
      BY <1>8 DEF Due
    <3>2. Len(Says(ep01)) \in Nat
      BY <1>3, LenProperties
    <3> QED
      BY <1>1, <1>6, <2>1, <3>1, <3>2 DEF Slack
  <2>3. pc' # "auth" => tries' + (Len(ep81') + n) <= 3
    BY <1>1, <1>2, <1>6, <2>2
  <2>4. n = Len(Says(ep01')) + (IF pending' = "none" THEN 0 ELSE Twice')
    BY <1>1, <1>3, <2>1
  <2>5. Slack(Len(ep81) + Len(Says(ep01)) + (IF pending = "none" THEN 0 ELSE Twice))'
    <3>1. Len(Says(ep01')) \in Nat
      BY <1>3, LenProperties
    <3> QED
      BY <1>1, <1>6, <2>3, <2>4, <3>1 DEF Slack
  <2> QED
    BY <1>1, <1>3, <1>4, <1>5, <1>7, <1>8, <2>5 DEF Patient, Due
<1>9. CASE Queued
  <2>1. Slack(Len(ep81))'
    BY <1>1, <1>2, <1>6, <1>9 DEF Queued, Slack
  <2> QED
    BY <1>1, <1>3, <1>4, <1>5, <1>7, <1>9, <2>1 DEF Patient, Queued
<1>10. CASE Coming
  <2>1. \E k \in 0 .. Len(ep81') : Apart(k)'
    BY <1>10, ApartHears DEF Coming
  <2> QED
    BY <1>1, <1>3, <1>4, <1>5, <1>10, <2>1 DEF Patient, Coming
<1> QED
  BY <1>8, <1>9, <1>10 DEF Patient

\* It has read the answer: nothing else is on the way, and at most one more.
LEMMA PatienceEnds ==
  ASSUME Types, Running, program = "full", pc \in Waits, Patient,
         NEW d, Heard(d), d # <<>>, Head(d).msg = Answer
  PROVE  /\ pending = Answer /\ todo = <<>> /\ Says(ep01) = <<>> /\ ep01 \in Seq(NonSyn)
         /\ Head(d).seq = dseq /\ IsLink(Head(d))
         /\ Len(ep81') + Twice <= 1
         /\ \A i \in 1 .. Len(ep81') : ep81'[i].msg = Answer
<1> DEFINE p == Head(d)
<1>1. /\ Len(d) \in Nat /\ Len(d) >= 1 /\ Len(ep81') \in Nat
      /\ Len(ep81) = Len(d) + Len(ep81')
      /\ ep81[1] = p /\ From(p, d) /\ p \in DevicePackets
      /\ \A i \in 1 .. Len(ep81') : ep81'[i] = ep81[Len(d) + i]
  BY HeardIs
<1>2. ~(ep81 \in Seq(Else))
  <2> SUFFICES ASSUME ep81 \in Seq(Else) PROVE FALSE
    OBVIOUS
  <2>1. p \in Else
    BY <1>1, HeardWithin
  <2> QED
    BY <2>1 DEF Else
<1>3. Coming
  BY <1>2 DEF Patient, Due, Queued
<1>4. PICK k \in 0 .. Len(ep81) : Apart(k)
  BY <1>3 DEF Coming
<1>5. k = 0
  <2> SUFFICES ASSUME k # 0 PROVE FALSE
    OBVIOUS
  <2>1. 1 \in 1 .. k
    BY <1>1
  <2> QED
    BY <1>1, <1>4, <2>1 DEF Apart
<1>6. Len(ep81') + Twice <= 1
  <2>1. Twice \in Nat
    BY DEF Twice
  <2>2. Len(ep81) - k + Twice <= 2
    BY <1>4 DEF Apart
  <2> QED
    BY <1>1, <1>5, <2>1, <2>2
<1>7. \A i \in 1 .. Len(ep81') : ep81'[i].msg = Answer
  <2> TAKE i \in 1 .. Len(ep81')
  <2>1. Len(d) + i \in k + 1 .. Len(ep81)
    BY <1>1, <1>5
  <2> QED
    BY <1>1, <1>4, <2>1 DEF Apart
<1>8. p.seq = dseq /\ IsLink(p)
  <2>1. Answer \in Answers /\ ~Used(Answer)
    BY AnswerIs
  <2>2. Worded(p) /\ IsLink(p)
    BY <1>1, <2>1, KindsOfPacket
  <2>3. Answer \notin acked
    BY <2>1 DEF Running, UsedInv
  <2>4. Window
    BY DEF Running
  <2>5. p.msg \in acked \/ p.seq = dseq
    BY <1>1, <2>2, <2>4, PacketHeard
  <2> QED
    BY <2>2, <2>3, <2>5
<1> QED
  BY <1>3, <1>6, <1>7, <1>8 DEF Coming

\* The next question follows, and acknowledges the answer.
LEMMA PatienceAsks ==
  ASSUME Types, Running, program = "full", pc \in Waits, Patient,
         NEW d, Heard(d), d # <<>>, Head(d).msg = Answer,
         UNCHANGED deviceVars, tries' = 0,
         NEW e \in Seq(HostPackets), ep01' = ep01 \o e,
         e \in Seq(NonSyn), e \in Seq(Confirming(Head(d).seq)),
         \/ pc = "auth" /\ pc' = "challenge" /\ Says(e) = <<"Challenge">>
         \/ pc = "challenge" /\ pc' = "identify"
            /\ Says(e) = <<"AuthSucceeded", "StartIdent">>
  PROVE  Patient'
<1>1. /\ pending = Answer /\ todo = <<>> /\ Says(ep01) = <<>> /\ ep01 \in Seq(NonSyn)
      /\ Head(d).seq = dseq
      /\ Len(ep81') + Twice <= 1
      /\ \A i \in 1 .. Len(ep81') : ep81'[i].msg = Answer
  BY PatienceEnds
<1>2. /\ pending' = pending /\ todo' = todo /\ dseq' = dseq /\ Twice' = Twice /\ Twice \in Nat
      /\ ep01 \in Seq(HostPackets) /\ Len(ep81') \in Nat
      /\ ep81' \in Seq(DevicePackets)
  BY HeardIs DEF deviceVars, Twice, Types, Heard
<1>3. Answer' # Answer /\ pending' # "none" /\ pc' # "auth"
  BY <1>1, <1>2 DEF Answer
<1>4. Says(ep01') = Says(e)
  <2>1. Says(ep01 \o e) = <<>> \o Says(e) /\ Says(e) \in Seq(Requests)
    BY <1>1, <1>2, SaysJoin, SaysIs
  <2>2. <<>> \o Says(e) = Says(e)
    BY <2>1, ConcatEmptySeq
  <2> QED
    BY <2>1, <2>2
<1>5. Says(ep01') \in Questions' /\ Len(Says(ep01')) \in {1, 2}
  BY <1>4 DEF Questions
<1>6. ep01' \in Seq(NonSyn)
  BY <1>1, ConcatProperties
<1>7. ep01' \in Seq(Confirming(dseq)')
  <2>1. \A i \in 1 .. Len(ep01) : ~IsMessage(ep01[i]) /\ ep01[i] \in HostPackets
    BY <1>1, <1>2, SaysNothing, ElementOfSeq
  <2>2. \A i \in 1 .. Len(ep01) : ep01[i] \in Confirming(dseq)
    BY <2>1 DEF Confirming
  <2>3. ep01 \in Seq(Confirming(dseq))
    BY <1>2, <2>2, SeqWithin
  <2>4. e \in Seq(Confirming(dseq))
    BY <1>1
  <2>5. ep01' \in Seq(Confirming(dseq))
    BY <2>3, <2>4, ConcatProperties
  <2> QED
    BY <1>2, <2>5 DEF Confirming
<1>8. ep81' \in Seq(Else')
  <2>1. \A i \in 1 .. Len(ep81') : ep81'[i] \in DevicePackets /\ ep81'[i].msg # Answer'
    BY <1>1, <1>2, <1>3, ElementOfSeq
  <2>2. \A i \in 1 .. Len(ep81') : ep81'[i] \in Else'
    BY <2>1 DEF Else
  <2> QED
    BY <1>2, <2>2, SeqWithin
<1>9. Slack(Len(ep81) + Len(Says(ep01)) + (IF pending = "none" THEN 0 ELSE Twice))'
  <2>1. PICK n \in {1, 2} : n = Len(Says(ep01'))
    BY <1>5
  <2>2. tries' + (Len(ep81') + n + Twice') <= 3
    BY <1>1, <1>2
  <2> QED
    BY <1>3, <2>1, <2>2 DEF Slack
<1>10. pending' # Answer' /\ todo' = <<>>
  BY <1>1, <1>2, <1>3
<1> QED
  BY <1>3, <1>5, <1>6, <1>7, <1>8, <1>9, <1>10 DEF Patient, Due

\* What is written in answer to a message.
Asks(r) == {q \in HostPackets : IsMessage(q) /\ "SYN" \notin q.ctrl /\ q.ack = r}

LEMMA SpokenIs ==
  ASSUME NEW s \in Octet, NEW r \in Octet, NEW m \in Requests
  PROVE  /\ AckOnly(s, r) \in Mute
         /\ Data(s, r, m) \in Asks(r) /\ Data(s, r, m).msg = m
<1>1. m \notin {"none"} /\ "none" \notin Requests /\ "SYN" \notin {"ACK"}
  BY DEF Requests
<1> QED
  BY <1>1, AckOnlyIs, DataIs DEF Mute, Asks, IsMessage

LEMMA SaysTwo ==
  ASSUME NEW a \in Mute, NEW r, NEW b \in Asks(r)
  PROVE  /\ <<a, b>> \in Seq(HostPackets) /\ <<a, b>> \in Seq(NonSyn)
         /\ <<a, b>> \in Seq(Confirming(r))
         /\ Says(<<a, b>>) = <<b.msg>>
<1>1. a \in HostPackets /\ b \in HostPackets /\ ~IsMessage(a) /\ IsMessage(b)
      /\ {a, b} \subseteq NonSyn \intersect Confirming(r) /\ b.msg \in Requests
  BY DEF Mute, Asks, NonSyn, Confirming, IsMessage
<1>2. Says(<<a>>) = <<>> /\ Says(<<b>>) = <<b.msg>>
  BY <1>1, SaysOne
<1>3. <<a>> \in Seq(HostPackets) /\ <<b>> \in Seq(HostPackets)
  BY <1>1
<1>4. Says(<<a>> \o <<b>>) = Says(<<a>>) \o Says(<<b>>)
  BY <1>3, SaysJoin
<1>5. <<>> \o <<b.msg>> = <<b.msg>>
  OBVIOUS
<1>6. Says(<<a, b>>) = <<b.msg>>
  BY <1>2, <1>4, <1>5, TwoOf, Zenon
<1> QED
  BY <1>1, <1>6

LEMMA SaysThree ==
  ASSUME NEW a \in Mute, NEW r, NEW b \in Asks(r), NEW c \in Asks(r)
  PROVE  /\ <<a, b, c>> \in Seq(HostPackets) /\ <<a, b, c>> \in Seq(NonSyn)
         /\ <<a, b, c>> \in Seq(Confirming(r))
         /\ Says(<<a, b, c>>) = <<b.msg, c.msg>>
<1>1. /\ a \in HostPackets /\ b \in HostPackets /\ c \in HostPackets
      /\ {a, b, c} \subseteq NonSyn \intersect Confirming(r)
      /\ ~IsMessage(a) /\ IsMessage(b) /\ IsMessage(c)
      /\ b.msg \in Requests /\ c.msg \in Requests
  BY DEF Mute, Asks, NonSyn, Confirming, IsMessage
<1>2. <<a>> \in Seq(HostPackets) /\ <<b>> \in Seq(HostPackets)
      /\ <<c>> \in Seq(HostPackets) /\ <<b, c>> \in Seq(HostPackets)
  BY <1>1
<1>3. Says(<<a>>) = <<>> /\ Says(<<b>>) = <<b.msg>> /\ Says(<<c>>) = <<c.msg>>
  BY <1>1, SaysOne
<1>4. /\ Says(<<b>> \o <<c>>) = Says(<<b>>) \o Says(<<c>>)
      /\ Says(<<a>> \o <<b, c>>) = Says(<<a>>) \o Says(<<b, c>>)
  BY <1>2, SaysJoin
<1>5. /\ <<b.msg>> \o <<c.msg>> = <<b.msg, c.msg>>
      /\ <<b>> \o <<c>> = <<b, c>> /\ <<a>> \o <<b, c>> = <<a, b, c>>
  BY TwoOf, ThreeOf
<1>6. <<>> \o <<b.msg, c.msg>> = <<b.msg, c.msg>>
  <2>1. <<b.msg, c.msg>> \in Seq(Requests)
    BY <1>1
  <2> QED
    BY <2>1, ConcatEmptySeq
<1>7. Says(<<a, b, c>>) = <<b.msg, c.msg>>
  <2>1. Says(<<b, c>>) = <<b.msg, c.msg>>
    BY <1>3, <1>4, <1>5, Zenon
  <2> QED
    BY <1>3, <1>4, <1>5, <1>6, <2>1, Zenon
<1> QED
  BY <1>1, <1>7

-----------------------------------------------------------------------------
(* What it does while it waits.                                            *)

\* The identification has been heard and is accepted.
LEMMA IdentifiesNow ==
  ASSUME Types, Running, UNCHANGED deviceVars,
         NEW d, Heard(d), NEW p, From(p, d), IsLink(p), p.msg = "IdentInfo",
         NEW a \in HostPackets, NEW c \in HostPackets, NEW b,
         b = Data(NextSeq(tx), p.seq, "IdentAccepted"), ep01' = ep01 \o <<a, b, c>>
  PROVE  Identification'
<1>1. NextSeq(tx) \in Octet
  BY OctetsOfState
<1>2. "Cert" \in acked /\ b \in HostPackets /\ Accepting(b)
  BY <1>1, IdentificationHeard
<1>3. <<a, b, c>> \in Seq(HostPackets) /\ Len(<<a, b, c>>) = 3 /\ <<a, b, c>>[2] = b
  BY <1>2
<1>4. Len(ep01) \in Nat /\ Len(ep01') = Len(ep01) + 3 /\ ep01'[Len(ep01) + 2] = b
  BY <1>3, Appended
<1>5. Len(ep01) + 2 \in 1 .. Len(ep01')
  BY <1>4
<1>6. acked' = acked /\ pending' = pending /\ dseq' = dseq
  BY DEF deviceVars
<1>7. Accepting(b)'
  BY <1>2, <1>6 DEF Accepting
<1> QED
  BY <1>2, <1>4, <1>5, <1>6, <1>7 DEF Identification, Accepting

LEMMA FullPacketWaits ==
  ASSUME Types, Running, program = "full", HostStep, pc \in Waits, Patient, faults' = 0,
         NEW d \in Transfers, Receive(d),
         NEW answers, NEW next, FullPacket(Head(d), Answer, answers, next),
         \/ pc = "auth" /\ answers = <<"Challenge">> /\ next = "challenge"
         \/ /\ pc = "challenge" /\ answers = <<"AuthSucceeded", "StartIdent">>
            /\ next = "identify"
         \/ /\ pc = "identify" /\ answers = <<"IdentAccepted", "StartEA">>
            /\ next = "video"
  PROVE  IF pc' = "video" THEN Identification' ELSE pc' \in Waits /\ Patient'
<1> DEFINE p == Head(d)
<1>1. /\ Heard(d) /\ p \in DevicePackets /\ From(p, d) /\ d # <<>>
  BY TransferHeard
<1>2. /\ ep01 \in Seq(HostPackets) /\ UNCHANGED deviceVars
      /\ tx \in Octet /\ NextSeq(tx) \in Octet /\ NextSeq(NextSeq(tx)) \in Octet
      /\ p.seq \in Octet
  BY <1>1, OctetsOfState, KindsOfPacket DEF Types, HostStep
<1>3. IF ~IsCsm(p) THEN Again /\ WriteNothing /\ KeepsSeq
      ELSE IF p.msg = Answer THEN Accept(p, answers) /\ Enter(next)
           ELSE Accept(p, <<>>) /\ Again
  BY DEF FullPacket
<1>4. IsCsm(p) <=> p.msg \in Answers
  BY <1>1, KindsOfPacket
<1>5. Answer \in Answers
  BY AnswerIs
<1> HIDE DEF p
<1> DEFINE a == AckOnly(tx, p.seq)
<1>6. CASE p.msg # Answer
  <2>1. Again /\ (WriteNothing \/ Accept(p, <<>>))
    BY <1>3, <1>6
  <2>2. Unanswered(d)
    BY <1>1, <1>2, <1>6, <2>1 DEF Unanswered, Again, p
  <2>3. ep01' = ep01 \/ \E q \in Mute : ep01' = ep01 \o <<q>>
    <3>1. CASE WriteNothing
      BY <3>1 DEF WriteNothing
    <3>2. CASE Accept(p, <<>>)
      <4>1. Write(<<a>>)
        BY <3>2, AcceptNone
      <4>2. a \in Mute /\ a \in HostPackets
        BY <1>2, AckOnlyIs DEF Mute, IsMessage, Requests
      <4> HIDE DEF a
      <4>3. <<a>> \in Seq(HostPackets)
        BY <4>2
      <4>4. ep01' = ep01 \o <<a>>
        BY <4>1, <4>3, WriteIs DEF Speaks
      <4> QED
        BY <4>2, <4>4
    <3> QED
      BY <2>1, <3>1, <3>2
  <2>4. Patient'
    BY <2>2, <2>3, PatienceHears
  <2>5. pc' \in Waits /\ pc' # "video"
    BY <2>1 DEF Again, Waits
  <2> QED
    BY <2>4, <2>5
<1>7. CASE p.msg = Answer
  <2>1. Accept(p, answers) /\ pc' = next /\ tries' = 0
    BY <1>3, <1>4, <1>5, <1>7 DEF Enter
  <2>2. /\ "Challenge" \in Requests /\ "AuthSucceeded" \in Requests
        /\ "StartIdent" \in Requests /\ "IdentAccepted" \in Requests
        /\ "StartEA" \in Requests
    BY DEF Requests
  <2>3. CASE pc = "auth"
    <3> DEFINE b == Data(NextSeq(tx), p.seq, "Challenge")
    <3>1. Write(<<a, b>>) /\ pc' = "challenge"
      BY <2>1, <2>3, AcceptOne
    <3>2. a \in Mute /\ b \in Asks(p.seq) /\ b.msg = "Challenge"
      BY <1>2, <2>2, SpokenIs
    <3> HIDE DEF a, b
    <3> DEFINE e == <<a, b>>
    <3>3. /\ e \in Seq(HostPackets) /\ e \in Seq(NonSyn) /\ e \in Seq(Confirming(p.seq))
          /\ Says(e) = <<"Challenge">>
      BY <3>2, SaysTwo
    <3>4. ep01' = ep01 \o e
      BY <3>1, <3>3, WriteIs DEF Speaks
    <3> HIDE DEF e
    <3>5. Patient'
      BY <1>1, <1>2, <1>7, <2>1, <2>3, <3>1, <3>3, <3>4, PatienceAsks DEF p
    <3> QED
      BY <3>1, <3>5 DEF Waits
  <2>4. CASE pc = "challenge"
    <3> DEFINE b == Data(NextSeq(tx), p.seq, "AuthSucceeded")
               c == Data(NextSeq(NextSeq(tx)), p.seq, "StartIdent")
    <3>1. Write(<<a, b, c>>) /\ pc' = "identify"
      BY <2>1, <2>4, AcceptTwo
    <3>2. /\ a \in Mute /\ b \in Asks(p.seq) /\ b.msg = "AuthSucceeded"
          /\ c \in Asks(p.seq) /\ c.msg = "StartIdent"
      BY <1>2, <2>2, SpokenIs
    <3> HIDE DEF a, b, c
    <3> DEFINE e == <<a, b, c>>
    <3>3. /\ e \in Seq(HostPackets) /\ e \in Seq(NonSyn) /\ e \in Seq(Confirming(p.seq))
          /\ Says(e) = <<"AuthSucceeded", "StartIdent">>
      BY <3>2, SaysThree
    <3>4. ep01' = ep01 \o e
      BY <3>1, <3>3, WriteIs DEF Speaks
    <3> HIDE DEF e
    <3>5. Patient'
      BY <1>1, <1>2, <1>7, <2>1, <2>4, <3>1, <3>3, <3>4, PatienceAsks DEF p
    <3> QED
      BY <3>1, <3>5 DEF Waits
  <2>5. CASE pc = "identify"
    <3> DEFINE b == Data(NextSeq(tx), p.seq, "IdentAccepted")
               c == Data(NextSeq(NextSeq(tx)), p.seq, "StartEA")
    <3>1. Write(<<a, b, c>>) /\ pc' = "video"
      BY <2>1, <2>5, AcceptTwo
    <3>2. a \in HostPackets /\ b \in HostPackets /\ c \in HostPackets
      BY <1>2, <2>2, AckOnlyIs, DataIs
    <3>3. IsLink(p) /\ p.msg = "IdentInfo"
      BY <1>1, <1>4, <1>5, <1>7, <2>5, KindsOfPacket DEF Answer, HasPayload
    <3> DEFINE e == <<a, b, c>>
    <3> HIDE DEF a, c
    <3>4. PICK x : x = b
      OBVIOUS
    <3>5. Write(<<a, x, c>>) /\ <<a, x, c>> \in Seq(HostPackets)
      BY <3>1, <3>2, <3>4
    <3>6. ep01' = ep01 \o <<a, x, c>>
      BY <3>5, WriteIs DEF Speaks
    <3>7. Identification'
      BY <1>1, <1>2, <3>2, <3>3, <3>4, <3>6, IdentifiesNow
    <3> QED
      BY <3>1, <3>7
  <2> QED
    BY <2>3, <2>4, <2>5 DEF Waits
<1> QED
  BY <1>6, <1>7

\* What has no message in it says nothing.
LEMMA SaysSilent ==
  ASSUME NEW X, NEW ps \in Seq(HostPackets), ps \in Seq(X), \A q \in X : ~IsMessage(q)
  PROVE  Says(ps) = <<>>
<1> DEFINE Y == HostPackets \intersect X
           f == [q \in Y |-> MessageIn[q]]
<1>1. \A q \in Y : MessageIn[q] = <<>>
  BY DEF MessageIn
<1>2. f \in [Y -> Seq({})]
  <2>1. <<>> \in Seq({})
    OBVIOUS
  <2> QED
    BY <1>1, <2>1
<1>3. \A i \in 1 .. Len(ps) : ps[i] \in Y
  BY ElementOfSeq
<1>4. ps \in Seq(Y)
  BY <1>3, SeqWithin
<1>5. Gather(f, ps) \in Seq({})
  BY <1>2, <1>4, GatherType
<1>6. [i \in 1 .. Len(ps) |-> MessageIn[ps[i]]] = [i \in 1 .. Len(ps) |-> f[ps[i]]]
  BY <1>3
<1>7. Says(ps) = Gather(f, ps)
  BY <1>6, Zenon DEF Says, Gather
<1>8. \A s \in Seq({}) : s = <<>>
  <2> TAKE s \in Seq({})
  <2>1. Len(s) \in Nat /\ \A i \in 1 .. Len(s) : s[i] \in {}
    BY ElementOfSeq, LenProperties
  <2>2. Len(s) = 0
    BY <2>1
  <2> QED
    BY <2>2, EmptySeq
<1> QED
  BY <1>5, <1>7, <1>8

\* It begins by asking for the certificate.
LEMMA PatienceBegins ==
  ASSUME Types, Early, UNCHANGED deviceVars, faults' = 0,
         NEW d, Heard(d), SendCsm("RequestCert"), pc' = "auth"
  PROVE  Patient'
<1>1. /\ ep01 \in Seq(HostPackets) /\ ep01 \in Seq(Opening) /\ ep81 \in Seq(Silent)
      /\ pending' = "none" /\ todo' = <<>>
      /\ tx' = NextSeq(tx) /\ rx \in Octet /\ NextSeq(tx) \in Octet
      /\ ep81' \in Seq(DevicePackets)
  BY OctetsOfState DEF Types, Early, deviceVars, SendCsm, Heard
<1> DEFINE q == Data(tx', rx, "RequestCert")
<1>2. q \in HostPackets /\ q.msg = "RequestCert" /\ IsMessage(q)
  <2>1. "RequestCert" \in Requests
    BY DEF Requests
  <2> QED
    BY <1>1, <2>1, DataIs DEF IsMessage
<1>3. Write(<<q>>)
  BY DEF SendCsm
<1> HIDE DEF q
<1>4. <<q>> \in Seq(HostPackets)
  BY <1>2
<1>5. ep01' = ep01 \o <<q>>
  BY <1>3, <1>4, WriteIs DEF Speaks
<1>6. Says(ep01') = <<"RequestCert">>
  <2>1. Says(<<q>>) = <<"RequestCert">>
    BY <1>2, SaysOne
  <2>2. Says(ep01) = <<>>
    BY <1>1, OpeningIs, SaysSilent
  <2>3. Says(ep01 \o <<q>>) = Says(ep01) \o Says(<<q>>)
    BY <1>1, <1>4, SaysJoin
  <2>4. <<>> \o <<"RequestCert">> = <<"RequestCert">>
    OBVIOUS
  <2> QED
    BY <1>5, <2>1, <2>2, <2>3, <2>4, Zenon
<1>7. ep81' \in Seq(Else')
  <2>1. ep81' \in Seq(Silent)
    BY <1>1, HeardWithin
  <2>2. Silent \subseteq Else'
    BY DEF Silent, Else, Answer
  <2> QED
    BY <2>1, <2>2
<1>8. Answer' = "Cert" /\ Questions' = {<<"RequestCert">>}
  BY DEF Answer, Questions
<1>9. Slack(Len(ep81) + Len(Says(ep01)) + (IF pending = "none" THEN 0 ELSE Twice))'
  BY DEF Slack
<1> QED
  BY <1>1, <1>6, <1>7, <1>8, <1>9 DEF Patient, Due

LEMMA PatienceTries ==
  ASSUME Types, pc # "auth", Patient
  PROVE  tries <= 3
<1>1. tries \in Nat /\ Len(ep81) \in Nat /\ Twice \in Nat
  BY Counting, MostIs, LenProperties DEF Types, Twice
<1>2. CASE Due
  <2>1. Len(Says(ep01)) \in Nat
    BY SaysIs, LenProperties DEF Types
  <2>2. PICK n \in Nat : n = IF pending = "none" THEN 0 ELSE Twice
    BY <1>1
  <2>3. Slack(Len(ep81) + Len(Says(ep01)) + n)
    BY <1>2, <2>2 DEF Due
  <2> QED
    BY <1>1, <2>1, <2>2, <2>3 DEF Slack
<1>3. CASE Queued
  BY <1>1, <1>3 DEF Queued, Slack
<1>4. CASE Coming
  BY <1>1, <1>4 DEF Coming, Apart, Slack
<1> QED
  BY <1>2, <1>3, <1>4 DEF Patient

LEMMA LateAdds ==
  ASSUME Types, FullConnectHost, ~late'
  PROVE  ~late
<1>1. CASE StartDetect
  BY <1>1 DEF StartDetect, DrainRead, Drained, NoDataYet, Receive
<1>2. CASE FullDetect
  BY <1>2 DEF FullDetect, NoAnswer, OutOfTries, DetectSilence, NoData, Receive
<1>3. CASE Negotiate
  BY <1>3 DEF Negotiate, NoAnswer, OutOfTries, Silence, NoData, Receive
<1>4. CASE FullAuth
  BY <1>4 DEF FullAuth, NoAnswer, OutOfTries, Silence, NoData, Receive
<1>5. CASE FullChallenge
  BY <1>5 DEF FullChallenge, OutOfTries, Silence, NoData, Receive
<1>6. CASE FullIdentify
  BY <1>6 DEF FullIdentify, OutOfTries, Silence, NoData, Receive
<1>7. CASE ConnectVideo
  BY <1>7 DEF ConnectVideo, OutOfTries, Silence, NoData, Receive
<1> QED
  BY <1>1, <1>2, <1>3, <1>4, <1>5, <1>6, <1>7 DEF FullConnectHost

LEMMA IdentificationKept ==
  ASSUME Types, Running, Identification, NEW d, Move(d), faults' = 0
  PROVE  Identification'
<1>1. PICK ps : Speech(d, ps)
  BY MoveSpeaks DEF Speaking
<1>2. ps \in Seq(HostPackets) /\ ep01' = ep01 \o ps
  BY <1>1 DEF Speech
<1>3. acked' = acked /\ pending' = pending /\ dseq' = dseq /\ identified' = identified
  BY DEF Move, deviceVars
<1>4. ASSUME NEW k \in 1 .. Len(ep01), Accepting(ep01[k])
      PROVE  k \in 1 .. Len(ep01') /\ Accepting(ep01'[k])
  BY <1>2, <1>4, Appended
<1>5. ASSUME NEW k \in 1 .. Len(ep01'), Accepting(ep01'[k])
      PROVE  Accepting(ep01[k])'
  BY <1>3, <1>5 DEF Accepting
<1> QED
  BY <1>3, <1>4, <1>5 DEF Identification

\* Each step of the program keeps its patience, or what it led to.
LEMMA FullInsists ==
  ASSUME Types, Early \/ Running, Insistent, Tries >= 4, FullConnectHost,
         faults = 0, faults' = 0, ~late'
  PROVE  Insistent'
<1>1. /\ program = "full" /\ program' = "full" /\ HostStep /\ ~late /\ UNCHANGED deviceVars
  BY LateAdds DEF FullConnectHost, HostStep
<1>2. pc \in Waits => Patient /\ Running
  BY <1>1 DEF Insistent, Early, Waits
<1>3. SUFFICES /\ pc' \in Waits => Patient'
               /\ pc' \in {"video", "done"} => Identification'
  BY DEF Insistent
<1>4. CASE StartDetect
  <2>1. pc' \in {"drain", "detect"}
    BY <1>4 DEF StartDetect, DrainRead, Drained, Enter
  <2> QED
    BY <2>1 DEF Waits
<1>5. CASE FullDetect
  <2>1. pc' \in {"detect", "negotiate", "failed"}
    BY <1>5 DEF FullDetect, NoAnswer, DetectSilence, Again, FullSyn, Enter
  <2> QED
    BY <2>1 DEF Waits
<1>6. CASE Negotiate
  <2>1. pc = "negotiate" /\ Early
    BY <1>6 DEF Negotiate, Running, Established
  <2>2. CASE NoAnswer \/ Silence
    BY <2>1, <2>2 DEF NoAnswer, Silence, Again, Enter, Waits
  <2>3. ASSUME NEW d \in Transfers, Receive(d), NegotiatePacket(Head(d))
        PROVE  /\ pc' \in Waits => Patient'
               /\ pc' \in {"video", "done"} => Identification'
    <3>1. CASE Again
      BY <2>1, <3>1 DEF Again, Waits
    <3>2. CASE Enter("auth") /\ SendCsm("RequestCert")
      <4>1. Heard(d) /\ pc' = "auth"
        BY <2>3, <3>2, TransferHeard DEF Enter
      <4> QED
        BY <1>1, <2>1, <3>2, <4>1, PatienceBegins
    <3> QED
      BY <2>3, <3>1, <3>2 DEF NegotiatePacket
  <2> QED
    BY <1>6, <2>2, <2>3 DEF Negotiate
<1>7. CASE pc \in Waits /\ Silence
  <2>1. DeviceHasMore
    BY <1>1, <1>2, <1>7, PatienceMore DEF Running
  <2> QED
    BY <1>7, <2>1 DEF Silence, NoData
<1>8. CASE pc \in Waits /\ OutOfTries
  <2>1. pc = "auth"
    <3>1. Tries \in Nat /\ tries \in Nat
      BY LinkAssumption, Counting, MostIs
    <3> QED
      BY <1>2, <1>8, <3>1, PatienceTries DEF OutOfTries
  <2>2. FullAuth
    BY <1>8, <2>1 DEF FullConnectHost, StartDetect, FullDetect, Negotiate, FullChallenge,
       FullIdentify, ConnectVideo
  <2>3. NoAnswer
    <3>1. tries \in Nat /\ tries = Tries
      BY <1>8, Counting, MostIs DEF OutOfTries
    <3>2. ~(tries < Tries)
      BY <3>1
    <3> QED
      BY <2>2, <3>2 DEF FullAuth, Silence, Again
  <2> QED
    BY <2>3 DEF NoAnswer, Enter, Waits
<1>9. ASSUME pc \in Waits,
             NEW d \in Transfers, Receive(d),
             NEW answers, NEW next, FullPacket(Head(d), Answer, answers, next),
             \/ pc = "auth" /\ answers = <<"Challenge">> /\ next = "challenge"
             \/ /\ pc = "challenge" /\ answers = <<"AuthSucceeded", "StartIdent">>
                /\ next = "identify"
             \/ /\ pc = "identify" /\ answers = <<"IdentAccepted", "StartEA">>
                /\ next = "video"
      PROVE  /\ pc' \in Waits => Patient'
             /\ pc' \in {"video", "done"} => Identification'
  <2>1. IF pc' = "video" THEN Identification' ELSE pc' \in Waits /\ Patient'
    BY <1>1, <1>2, <1>9, FullPacketWaits
  <2> QED
    BY <2>1 DEF Waits
<1>10. CASE FullAuth
  <2>1. pc = "auth" /\ pc \in Waits /\ Answer = "Cert"
    BY <1>10 DEF FullAuth, Waits, Answer
  <2>2. CASE NoAnswer \/ Silence
    BY <1>7, <1>8, <2>1, <2>2 DEF NoAnswer
  <2> QED
    BY <1>9, <1>10, <2>1, <2>2 DEF FullAuth
<1>11. CASE FullChallenge
  <2>1. pc = "challenge" /\ pc \in Waits /\ Answer = "Response"
    BY <1>11 DEF FullChallenge, Waits, Answer
  <2> QED
    BY <1>7, <1>8, <1>9, <1>11, <2>1 DEF FullChallenge
<1>12. CASE FullIdentify
  <2>1. pc = "identify" /\ pc \in Waits /\ Answer = "IdentInfo"
    BY <1>12 DEF FullIdentify, Waits, Answer
  <2> QED
    BY <1>7, <1>8, <1>9, <1>12, <2>1 DEF FullIdentify
<1>13. CASE ConnectVideo
  <2>1. pc = "video" /\ pc' \in {"video", "done"}
    BY <1>13 DEF ConnectVideo, Enter, Silence, Again
  <2>2. Running /\ Identification
    BY <1>1, <2>1 DEF Early, Insistent
  <2>3. PICK d : Move(d)
    BY <1>1, <1>13, ConnectVideoMoves DEF HostMove
  <2>4. Identification'
    BY <2>2, <2>3, IdentificationKept
  <2> QED
    BY <2>1, <2>4 DEF Waits
<1> QED
  BY <1>4, <1>5, <1>6, <1>10, <1>11, <1>12, <1>13 DEF FullConnectHost

-----------------------------------------------------------------------------
(* What the device does meanwhile.                                         *)

LEMMA PatienceResends ==
  ASSUME Types, Running, program = "full", pc \in Waits, Patient, DeviceResend
  PROVE  Patient'
<1>1. /\ pending # "none" /\ UNCHANGED <<ep01, pending, todo, dseq, pc, tries>>
      /\ ep81' = Append(ep81, Unacked)
      /\ (ep01 = <<>> /\ ep81 = <<>> /\ early' = early) \/ (~early /\ early')
  BY DEF DeviceResend, Resend, DeviceStep, hostVars
<1>2. Unacked \in DevicePackets /\ Unacked.msg = pending
  BY <1>1, UnackedIs
<1>3. /\ Answer' = Answer /\ Questions' = Questions /\ Else' = Else
      /\ Confirming(dseq)' = Confirming(dseq)
  BY <1>1, SameAnswer
<1>4. /\ ep81 \in Seq(DevicePackets) /\ ep01 \in Seq(HostPackets) /\ tries \in Nat
      /\ Len(ep81) \in Nat /\ Len(ep81') = Len(ep81) + 1
      /\ ep81'[Len(ep81) + 1] = Unacked
      /\ \A i \in 1 .. Len(ep81) : ep81'[i] = ep81[i]
  BY <1>1, <1>2, Counting, MostIs, LenProperties DEF Types
<1>5. Twice \in Nat /\ Twice' \in Nat
  BY DEF Twice
<1>6. CASE Due
  <2>1. pc # "auth" /\ ep81 \in Seq(Else) /\ Unacked \in Else
    BY <1>1, <1>2, <1>6 DEF Due, Else
  <2>2. Len(Says(ep01)) \in Nat /\ ep01 # <<>>
    <3>1. ep01 = <<>> => Says(ep01) = <<>>
      BY SaysEmpty
    <3>2. Says(ep01) \in Questions
      BY <1>6 DEF Due
    <3>3. \A s \in Questions : Len(s) # 0
      BY DEF Questions
    <3>4. Len(<<>>) = 0
      OBVIOUS
    <3>5. Len(Says(ep01)) \in Nat
      BY <1>4, SaysIs, LenProperties
    <3> QED
      BY <3>1, <3>2, <3>3, <3>4, <3>5
  <2>3. Twice = 1 /\ Twice' = 0
    BY <1>1, <2>2 DEF Twice
  <2>4. tries + (Len(ep81) + Len(Says(ep01)) + Twice) <= 3
    BY <1>1, <1>6, <2>1 DEF Due, Slack
  <2>5. tries' + (Len(ep81') + Len(Says(ep01')) + Twice') <= 3
    BY <1>1, <1>4, <2>2, <2>3, <2>4
  <2>6. Slack(Len(ep81) + Len(Says(ep01)) + (IF pending = "none" THEN 0 ELSE Twice))'
    BY <1>1, <2>5 DEF Slack
  <2>7. ep81' \in Seq(Else)
    BY <1>1, <1>2, <1>4, <2>1, AppendWithin
  <2> QED
    BY <1>1, <1>3, <1>6, <2>6, <2>7 DEF Patient, Due
<1>7. CASE Queued
  BY <1>1, <1>7 DEF Queued
<1>8. CASE Coming
  <2>1. pending = Answer /\ Says(ep01) = <<>> /\ todo = <<>> /\ ep01 \in Seq(NonSyn)
    BY <1>8 DEF Coming
  <2>2. PICK k \in 0 .. Len(ep81) : Apart(k)
    BY <1>8 DEF Coming
  <2>3. k \in 0 .. Len(ep81') /\ k \in Nat
    BY <1>4
  <2>4. \A i \in 1 .. k : ep81'[i].msg # Answer
    <3> TAKE i \in 1 .. k
    <3>1. i \in 1 .. Len(ep81)
      BY <1>4, <2>3
    <3> QED
      BY <1>4, <2>2, <3>1 DEF Apart
  <2>5. \A i \in k + 1 .. Len(ep81') : ep81'[i].msg = Answer
    <3> TAKE i \in k + 1 .. Len(ep81')
    <3>1. i \in k + 1 .. Len(ep81) \/ i = Len(ep81) + 1
      BY <1>4, <2>3
    <3>2. CASE i \in k + 1 .. Len(ep81)
      <4>1. i \in 1 .. Len(ep81)
        BY <1>4, <2>3, <3>2
      <4> QED
        BY <1>4, <2>2, <3>2, <4>1 DEF Apart
    <3> QED
      BY <1>2, <1>4, <2>1, <3>1, <3>2
  <2>6. Len(ep81') - k + Twice' <= 2
    <3>1. Len(ep81) - k + Twice <= 2
      BY <2>2 DEF Apart
    <3>2. CASE ~early /\ early'
      <4>1. Twice = 1 /\ Twice' = 0
        BY <3>2 DEF Twice
      <4> QED
        BY <1>4, <2>3, <3>1, <4>1
    <3>3. CASE ep81 = <<>> /\ early' = early
      <4>1. Len(ep81) = 0
        BY <3>3
      <4>2. k = 0 /\ Len(ep81') = 1
        BY <1>4, <2>3, <4>1
      <4>3. CASE early
        <5>1. Twice' = 0
          BY <3>3, <4>3 DEF Twice
        <5> QED
          BY <4>2, <5>1
      <4>4. CASE ~early
        <5>1. Twice' = 1
          BY <3>3, <4>4 DEF Twice
        <5> QED
          BY <4>2, <5>1
      <4> QED
        BY <4>3, <4>4
    <3> QED
      BY <1>1, <3>2, <3>3
  <2>7. Slack(k)'
    BY <1>1, <2>2 DEF Apart, Slack
  <2>8. Apart(k)'
    BY <1>3, <2>4, <2>5, <2>6, <2>7 DEF Apart
  <2> QED
    BY <1>1, <1>3, <2>1, <2>3, <2>8 DEF Patient, Coming
<1> QED
  BY <1>6, <1>7, <1>8 DEF Patient

\* The device sends the answer when it has nothing outstanding.
LEMMA PatienceSends ==
  ASSUME Types, Types', Running, program = "full", pc \in Waits, Patient, DeviceSend
  PROVE  Patient'
<1>1. /\ pending = "none" /\ early' = FALSE
      /\ \/ todo # <<>> /\ pending' = Head(todo) /\ todo' = Tail(todo)
         \/ todo = <<>> /\ streaming /\ pending' = "video"
      /\ UNCHANGED <<ep01, pc, tries>>
      /\ ep81' = Append(ep81, Unacked')
  BY DEF DeviceSend, DeviceStep, hostVars
<1>2. Answer' = Answer /\ Else' = Else
  BY <1>1 DEF Answer, Else
<1>3. Queued
  <2>1. ~Coming
    BY <1>1, AnswerIs DEF Coming
  <2>2. ~(todo = <<>> /\ streaming)
    BY AnswerIs DEF Running, Asked, Said, Late, Waits
  <2>3. ~Due
    BY <1>1, <2>2 DEF Due
  <2> QED
    BY <2>1, <2>3 DEF Patient
<1>4. /\ Says(ep01) = <<>> /\ todo = <<Answer>> /\ ep01 \in Seq(NonSyn)
      /\ ep81 \in Seq(Else) /\ Slack(Len(ep81))
  BY <1>3 DEF Queued
<1>5. pending' = Answer /\ todo' = <<>>
  <2>1. Head(<<Answer>>) = Answer /\ Tail(<<Answer>>) = <<>> /\ <<Answer>> # <<>>
    OBVIOUS
  <2> QED
    BY <1>1, <1>4, <2>1
<1>6. Unacked'.msg = Answer
  <2>1. Unacked' = [Data(dseq', hseq', pending') EXCEPT !.frame = video']
    BY DEF Unacked
  <2>2. /\ dseq' \in Octet /\ hseq' \in Octet /\ video' \in 0 .. MaxVideo
        /\ pending' \in Answers \union {"video"} /\ pending' # "video"
    BY <1>5, AnswerIs DEF Types, TypeOK, Octet
  <2> QED
    BY <1>5, <2>1, <2>2, DeviceDataIs
<1>7. /\ Len(ep81) \in Nat /\ Len(ep81') = Len(ep81) + 1
      /\ ep81'[Len(ep81) + 1] = Unacked'
      /\ \A i \in 1 .. Len(ep81) : ep81'[i] = ep81[i] /\ ep81[i] \in Else
  <2>1. ep81 \in Seq(DevicePackets) /\ Unacked' = Unacked'
    BY DEF Types
  <2>2. PICK u : u = Unacked'
    OBVIOUS
  <2>3. ep81' = Append(ep81, u)
    BY <1>1, <2>2
  <2>4. Len(ep81) \in Nat /\ \A i \in 1 .. Len(ep81) : ep81[i] \in Else
    BY <1>4, ElementOfSeq, LenProperties
  <2>5. /\ Len(ep81') = Len(ep81) + 1 /\ ep81'[Len(ep81) + 1] = u
        /\ \A i \in 1 .. Len(ep81) : ep81'[i] = ep81[i]
    BY <2>1, <2>3, <2>4
  <2> QED
    BY <2>2, <2>4, <2>5
<1> DEFINE k == Len(ep81)
<1>8. \A i \in 1 .. k : ep81'[i].msg # Answer
  BY <1>7 DEF Else
<1>9. \A i \in k + 1 .. Len(ep81') : ep81'[i].msg = Answer
  <2> TAKE i \in k + 1 .. Len(ep81')
  <2>1. i = Len(ep81) + 1
    BY <1>7
  <2> QED
    BY <1>6, <1>7, <2>1
<1>10. /\ k \in 0 .. Len(ep81') /\ Len(ep81') - k + Twice' <= 2 
  <2>1. Twice' = 1
    BY <1>1 DEF Twice
  <2> QED
    BY <1>7, <2>1
<1>11. PICK n : n = k
  OBVIOUS
<1>12. Slack(n)'
  BY <1>1, <1>4, <1>11 DEF Slack
<1>13. Apart(n)'
  BY <1>2, <1>8, <1>9, <1>10, <1>11, <1>12 DEF Apart
<1> QED
  BY <1>1, <1>2, <1>4, <1>5, <1>10, <1>11, <1>13 DEF Patient, Coming

\* The device takes a packet that asks nothing, and acknowledges what is not
\* the answer at most.
LEMMA PatienceGoesOn ==
  ASSUME Types, pc \in Waits, program = "full", Patient, Taken, ~IsMessage(Head(ep01)),
         UNCHANGED <<todo, early>>,
         pending' = pending \/ (pending' = "none" /\ pending # Answer),
         \/ ep81' = ep81
         \/ /\ "SYN" \in Head(ep01).ctrl
            /\ \E p \in DevicePackets : p.msg = "none" /\ ep81' = Append(ep81, p)
  PROVE  Patient'
<1>1. /\ UNCHANGED <<pc, dseq, tries>> /\ ep01 \in Seq(HostPackets) /\ ep01' = Tail(ep01)
      /\ ep01 # <<>> /\ ep81 \in Seq(DevicePackets) /\ tries \in Nat
  BY Counting, MostIs DEF Taken, DeviceStep, hostVars, Types
<1>2. /\ Answer' = Answer /\ Questions' = Questions /\ Else' = Else
      /\ Confirming(dseq)' = Confirming(dseq) /\ Twice' = Twice /\ Twice \in Nat
  BY <1>1, SameAnswer DEF Twice
<1>3. Says(ep01') = Says(ep01)
  BY <1>1, SaysFirst
<1>4. \A Y : ep01 \in Seq(Y) => Head(ep01) \in Y /\ ep01' \in Seq(Y)
  BY TakenIs
<1>5. ep01 \in Seq(NonSyn) => ep81' = ep81
  BY <1>4 DEF NonSyn
<1>6. "none" # Answer
  BY AnswerIs
<1>7. CASE Due
  <2>1. ep81' \in Seq(Else)
    <3>1. ep81 \in Seq(Else)
      BY <1>7 DEF Due
    <3>2. ASSUME NEW p \in DevicePackets, p.msg = "none", ep81' = Append(ep81, p)
          PROVE  ep81' \in Seq(Else)
      BY <1>1, <1>6, <3>1, <3>2, AppendWithin DEF Else
    <3> QED
      BY <3>1, <3>2
  <2>2. Slack(Len(ep81) + Len(Says(ep01)) + (IF pending = "none" THEN 0 ELSE Twice))'
    <3>1. CASE pc = "auth"
      BY <1>1, <3>1 DEF Slack
    <3>2. CASE pc # "auth"
      <4>1. ep81' = ep81
        BY <1>5, <1>7, <3>2 DEF Due
      <4>2. PICK l \in Nat : l = Len(ep81) + Len(Says(ep01))
        <5>1. Len(ep81) \in Nat /\ Len(Says(ep01)) \in Nat
          BY <1>1, SaysIs, LenProperties
        <5> QED
          BY <5>1
      <4>3. PICK n \in Nat : n = IF pending = "none" THEN 0 ELSE Twice
        BY <1>2
      <4>4. PICK m \in Nat : m = IF pending' = "none" THEN 0 ELSE Twice'
        BY <1>2
      <4>5. m <= n
        BY <1>2, <4>3, <4>4
      <4>6. tries + (l + n) <= 3
        BY <1>7, <3>2, <4>2, <4>3 DEF Due, Slack
      <4>7. tries' + (l + m) <= 3
        BY <1>1, <4>5, <4>6
      <4>8. l = Len(ep81') + Len(Says(ep01'))
        BY <1>3, <4>1, <4>2
      <4> QED
        BY <4>4, <4>7, <4>8 DEF Slack
    <3> QED
      BY <3>1, <3>2
  <2>3. /\ Says(ep01) \in Questions /\ todo = <<>> /\ pending # Answer
        /\ IF pc = "auth" THEN pending = "none" ELSE ep01 \in Seq(NonSyn)
        /\ pending # "none" => ep01 \in Seq(Confirming(dseq))
    BY <1>7 DEF Due
  <2>4. /\ IF pc' = "auth" THEN pending' = "none" ELSE ep01' \in Seq(NonSyn)
        /\ pending' # "none" => ep01' \in Seq(Confirming(dseq))
    BY <1>1, <1>4, <2>3
  <2> QED
    BY <1>1, <1>2, <1>3, <1>6, <2>1, <2>2, <2>3, <2>4 DEF Patient, Due
<1>8. CASE Queued
  <2>1. /\ Says(ep01) = <<>> /\ todo = <<Answer>> /\ pending = "none"
        /\ ep01 \in Seq(NonSyn) /\ ep81 \in Seq(Else) /\ Slack(Len(ep81))
    BY <1>8 DEF Queued
  <2>2. ep81' = ep81 /\ ep01' \in Seq(NonSyn) /\ pending' = "none"
    BY <1>4, <1>5, <2>1
  <2>3. Slack(Len(ep81))'
    BY <1>1, <2>1, <2>2 DEF Slack
  <2> QED
    BY <1>2, <1>3, <2>1, <2>2, <2>3 DEF Patient, Queued
<1>9. CASE Coming
  <2>1. /\ Says(ep01) = <<>> /\ todo = <<>> /\ pending = Answer /\ ep01 \in Seq(NonSyn)
    BY <1>9 DEF Coming
  <2>2. PICK k \in 0 .. Len(ep81) : Apart(k)
    BY <1>9 DEF Coming
  <2>3. ep81' = ep81 /\ ep01' \in Seq(NonSyn) /\ pending' = pending
    BY <1>4, <1>5, <2>1
  <2>4. Apart(k)' /\ k \in 0 .. Len(ep81')
    BY <1>1, <1>2, <2>2, <2>3 DEF Apart, Slack
  <2> QED
    BY <1>2, <1>3, <2>1, <2>3, <2>4 DEF Patient, Coming
<1> QED
  BY <1>7, <1>8, <1>9 DEF Patient

\* The device takes a question.
LEMMA PatienceTakes ==
  ASSUME Types, Running, pc \in Waits, program = "full", Patient, Taken, TakeAck,
         IsMessage(Head(ep01))
  PROVE  Patient'
<1> DEFINE q == Head(ep01)
<1>1. /\ UNCHANGED <<pc, dseq, tries>> /\ ep01 \in Seq(HostPackets) /\ ep01' = Tail(ep01)
      /\ ep01 # <<>> /\ ep81 \in Seq(DevicePackets) /\ tries \in Nat
      /\ q \in HostPackets /\ ep01' \in Seq(HostPackets) /\ q.msg \in Requests
  BY Counting, MostIs, TakenIs DEF Taken, DeviceStep, hostVars, Types, IsMessage
<1>2. /\ Answer' = Answer /\ Questions' = Questions /\ Else' = Else /\ UNCHANGED early
      /\ "none" # Answer
  BY <1>1, SameAnswer, AnswerIs DEF TakeAck
<1>3. PICK s : s = Says(ep01')
  OBVIOUS
<1>4. s \in Seq(Requests) /\ Says(ep01) = <<q.msg>> \o s
  BY <1>1, <1>3, SaysIs, SaysFirst
<1>5. Len(s) \in Nat /\ Len(Says(ep01)) = Len(s) + 1 /\ Says(ep01)[1] = q.msg
      /\ \A i \in 1 .. Len(s) : Says(ep01)[i + 1] = s[i]
  <2>1. <<q.msg>> \in Seq(Requests) /\ Len(<<q.msg>>) = 1 /\ <<q.msg>>[1] = q.msg
    BY <1>1
  <2>2. PICK t : t = <<q.msg>>
    OBVIOUS
  <2>3. /\ Len(s) \in Nat /\ Len(Says(ep01)) = 1 + Len(s) /\ Says(ep01)[1] = q.msg
        /\ \A i \in 1 .. Len(s) : Says(ep01)[1 + i] = s[i]
    BY <1>4, <2>1, <2>2, IndexOfConcat
  <2> QED
    BY <2>3
<1>6. Due
  <2>1. Says(ep01) # <<>>
    BY <1>5
  <2> QED
    BY <2>1 DEF Patient, Queued, Coming
<1>7. /\ Says(ep01) \in Questions /\ todo = <<>> /\ pending # Answer
      /\ IF pc = "auth" THEN pending = "none" ELSE ep01 \in Seq(NonSyn)
      /\ pending # "none" => ep01 \in Seq(Confirming(dseq))
      /\ ep81 \in Seq(Else)
      /\ Slack(Len(ep81) + Len(Says(ep01)) + (IF pending = "none" THEN 0 ELSE Twice))
  BY <1>6 DEF Due
<1>8. /\ pending' = "none"
      /\ hseq' \in Octet /\ todo' = Replies[q.msg]
      /\ ep81' = Append(ep81, AckOnly(dseq, hseq'))
  <2>1. /\ link = "up" /\ hseq \in Octet /\ NextSeq(hseq) \in Octet
        /\ InSequence(ep01, hseq, tx)
    BY OctetsOfState DEF Running
  <2>2. q.seq = NextSeq(hseq) /\ q.msg # "none"
    BY <1>1, <2>1, InSequenceTail DEF Requests
  <2>3. pending # "none" => q.ack = dseq
    <3> SUFFICES ASSUME pending # "none" PROVE q.ack = dseq
      OBVIOUS
    <3>1. q \in Confirming(dseq)
      BY <1>7, TakenIs
    <3> QED
      BY <3>1 DEF Confirming
  <2>4. hseq' = q.seq /\ todo' = todo \o Replies[q.msg]
        /\ ep81' = Append(ep81, AckOnly(dseq, hseq'))
    BY <2>1, <2>2 DEF TakeAck
  <2>5. <<>> \o Replies[q.msg] = Replies[q.msg]
    <3>1. Replies[q.msg] \in Seq(Answers)
      BY <1>1, Answered
    <3> QED
      BY <3>1, ConcatEmptySeq
  <2>6. pending' = "none"
    BY <2>1, <2>3 DEF TakeAck
  <2> QED
    BY <1>7, <2>1, <2>2, <2>4, <2>5, <2>6
<1>9. PICK p \in Else : ep81' = Append(ep81, p)
  <2>1. dseq \in Octet
    BY OctetsOfState
  <2>2. AckOnly(dseq, hseq') \in Else
    BY <1>2, <1>8, <2>1, AckOnlyIs DEF Else
  <2> QED
    BY <1>8, <2>2
<1>10. ep81' \in Seq(Else)
  BY <1>1, <1>7, <1>9, AppendWithin DEF Else
<1>11. Len(ep81) \in Nat /\ Len(ep81') = Len(ep81) + 1
  BY <1>1, <1>9, LenProperties DEF Else
<1>12. ep01' \in Seq(NonSyn)
  <2>1. CASE pc # "auth"
    BY <1>7, <2>1, TakenIs
  <2>2. CASE pc = "auth"
    <3>1. SynsFirst /\ q \notin Opening
      BY OpeningIs DEF Running
    <3>2. ep01 \in Seq(NonSyn)
      BY <1>1, <3>1, PartsTail DEF SynsFirst
    <3> QED
      BY <3>2, TakenIs
  <2> QED
    BY <2>1, <2>2
<1>13. Slack(Len(ep81') + Len(s)) /\ Slack(Len(ep81'))
  <2>1. PICK n \in Nat : n = IF pending = "none" THEN 0 ELSE Twice
    BY DEF Twice
  <2>2. Slack(Len(ep81) + Len(Says(ep01)) + n)
    BY <1>7, <2>1
  <2>3. pc # "auth" => tries + (Len(ep81') + Len(s)) <= 3
    BY <1>1, <1>5, <1>11, <2>1, <2>2 DEF Slack
  <2> QED
    BY <1>1, <1>5, <1>11, <2>3 DEF Slack
<1>14. CASE Says(ep01) = <<"AuthSucceeded", "StartIdent">>
  <2>1. q.msg = "AuthSucceeded" /\ Len(s) = 1 /\ s[1] = "StartIdent"
    <3>1. PICK w : w = Says(ep01)
      OBVIOUS
    <3>2. w = <<"AuthSucceeded", "StartIdent">>
      BY <1>14, <3>1
    <3>3. Len(w) = 2
      BY <3>2
    <3>4. w[1] = "AuthSucceeded"
      BY <3>2
    <3>5. w[2] = "StartIdent"
      BY <3>2
    <3>6. PICK l \in Nat : l = Len(s)
      BY <1>5
    <3>7. l + 1 = 2
      BY <1>5, <3>1, <3>3, <3>6
    <3>8. 1 \in 1 .. Len(s) /\ 1 + 1 = 2
      BY <3>6, <3>7
    <3>9. Says(ep01)[2] = s[1]
      BY <1>5, <3>8, Zenon
    <3> QED
      BY <1>5, <3>1, <3>4, <3>5, <3>6, <3>7, <3>9
  <2>2. s = <<"StartIdent">>
    BY <1>4, <2>1
  <2>3. todo' = <<>>
    BY <1>8, <2>1 DEF Replies
  <2>4. pc # "auth" /\ s \in Questions
    BY <1>7, <1>14, <2>2 DEF Questions
  <2>5. Slack(Len(ep81) + Len(Says(ep01)) + (IF pending = "none" THEN 0 ELSE Twice))'
    BY <1>1, <1>3, <1>5, <1>8, <1>11, <1>13 DEF Slack
  <2> QED
    BY <1>1, <1>2, <1>3, <1>8, <1>10, <1>12, <2>3, <2>4, <2>5 DEF Patient, Due
<1>15. CASE Says(ep01) # <<"AuthSucceeded", "StartIdent">>
  <2>1. /\ Len(Says(ep01)) = 1
        /\ Says(ep01)[1] = CASE pc = "auth"      -> "RequestCert"
                             [] pc = "challenge" -> "Challenge"
                             [] OTHER            -> "StartIdent"
    BY <1>7, <1>15 DEF Questions
  <2>2. s = <<>>
    <3>1. PICK l \in Nat : l = Len(s)
      BY <1>5
    <3>2. l + 1 = 1
      BY <1>5, <2>1, <3>1
    <3>3. Len(s) = 0
      BY <3>1, <3>2
    <3> QED
      BY <1>4, <3>3, EmptySeq
  <2>3. todo' = <<Answer>>
    BY <1>5, <1>8, <2>1 DEF Replies, Answer, Waits
  <2>4. Slack(Len(ep81))'
    BY <1>1, <1>13 DEF Slack
  <2> QED
    BY <1>2, <1>3, <1>8, <1>10, <1>12, <2>2, <2>3, <2>4 DEF Patient, Queued
<1> QED
  BY <1>14, <1>15

LEMMA IdentificationActs ==
  ASSUME Types, Running, Identification, DeviceActs
  PROVE  Identification'
<1>1. /\ link = "up" /\ SynsFirst /\ InSequence(ep01, hseq, tx)
      /\ ep01 \in Seq(HostPackets) /\ hseq \in Octet
  BY OctetsOfState DEF Running, Types
<1>2. CASE DeviceSyn
  BY <1>1, <1>2 DEF DeviceSyn
<1>3. CASE DeviceResend
  <2>1. UNCHANGED <<ep01, dseq, pending, acked, identified>>
    BY <1>3 DEF DeviceResend, Resend
  <2> QED
    BY <2>1 DEF Identification, Accepting
<1>4. CASE DeviceSend
  <2>1. pending = "none" /\ UNCHANGED <<ep01, acked, identified>>
    BY <1>4 DEF DeviceSend
  <2> QED
    BY <2>1 DEF Identification, Accepting
<1>5. CASE DeviceTake
  <2> DEFINE q == Head(ep01)
  <2>1. Taken /\ (TakeMarker \/ TakeSynAck \/ TakeAck) /\ q \in HostPackets
    BY <1>5, TakenIs DEF DeviceTake, Taken, TakeMarker, TakeSynAck, TakeAck
  <2>2. CASE TakeMarker
    <3>1. ~Accepting(q) /\ UNCHANGED <<pending, acked, identified>>
      BY <2>2 DEF TakeMarker, Accepting, IsLink
    <3> QED
      BY <2>1, <3>1, IdentificationTaken
  <2>3. CASE TakeSynAck
    <3>1. ~Accepting(q) /\ UNCHANGED <<pending, acked, identified>>
      BY <2>3 DEF TakeSynAck, Accepting
    <3> QED
      BY <2>1, <3>1, IdentificationTaken
  <2>4. CASE TakeAck
    <3>1. /\ Acknowledges(q) => pending' = "none" /\ acked' = acked \union {pending}
          /\ ~Acknowledges(q) => pending' = pending /\ acked' = acked
          /\ identified => identified'
      BY <1>1, <2>4 DEF TakeAck, Acknowledges
    <3>2. ASSUME Accepting(q) PROVE identified'
      <4>1. q.msg = "IdentAccepted" /\ IsMessage(q) /\ q.msg # "none"
        BY <3>2 DEF Accepting, IsMessage, Requests
      <4>2. "IdentInfo" \in acked'
        BY <3>1, <3>2 DEF Accepting, Acknowledges
      <4>3. q.seq = NextSeq(hseq)
        BY <1>1, <2>1, <4>1, InSequenceTail DEF Taken
      <4> QED
        BY <1>1, <2>4, <4>1, <4>2, <4>3 DEF TakeAck
    <3> QED
      BY <2>1, <3>1, <3>2, IdentificationTaken
  <2> QED
    BY <2>1, <2>2, <2>3, <2>4
<1> QED
  BY <1>2, <1>3, <1>4, <1>5 DEF DeviceActs

\* What the host waits for is not acknowledged before the host acts upon it.
LEMMA PatienceActs ==
  ASSUME Types, Types', Running, Running', program = "full", pc \in Waits, Patient, DeviceActs
  PROVE  Patient'
<1>1. link = "up" /\ SynsFirst
  BY DEF Running
<1>2. CASE DeviceSyn
  BY <1>1, <1>2 DEF DeviceSyn
<1>3. CASE DeviceTake
  <2> DEFINE q == Head(ep01)
  <2>1. Taken /\ (TakeMarker \/ TakeSynAck \/ TakeAck)
    BY <1>3 DEF DeviceTake, Taken, TakeMarker, TakeSynAck, TakeAck
  <2>2. q \in HostPackets /\ program' = program /\ pc' = pc /\ dseq \in Octet /\ hseq \in Octet
    BY <2>1, TakenIs, OctetsOfState
  <2>3. CASE TakeMarker
    <3>1. ~IsMessage(q) /\ UNCHANGED <<ep81, pending, todo, early>>
      BY <1>1, <2>3 DEF TakeMarker, IsMessage, IsLink, Requests
    <3> QED
      BY <2>1, <3>1, PatienceGoesOn
  <2>4. CASE TakeSynAck
    <3>1. "SYN" \in q.ctrl
      BY <2>4 DEF TakeSynAck
    <3>2. hseq = 0 /\ q \in Opening
      BY <1>1, <2>1, <3>1, TakenSyns
    <3>3. q.seq = 0 /\ ~IsMessage(q)
      BY <3>1, <3>2, OpeningIs DEF Opening
    <3>4. /\ UNCHANGED <<pending, todo, early>>
          /\ ep81' = ep81 \/ ep81' = Append(ep81, AckOnly(dseq, 0))
      BY <2>4, <3>3 DEF TakeSynAck
    <3>5. AckOnly(dseq, 0) \in DevicePackets /\ AckOnly(dseq, 0).msg = "none"
      <4>1. 0 \in Octet
        BY DEF Octet
      <4> QED
        BY <2>2, <4>1, AckOnlyIs
    <3> QED
      BY <2>1, <3>1, <3>3, <3>4, <3>5, PatienceGoesOn
  <2>5. CASE TakeAck /\ ~IsMessage(q)
    <3>1. q.msg = "none"
      BY <2>2, <2>5 DEF TakeAck, HostPackets, IsMessage, IsAck, IsLink
    <3>2. UNCHANGED <<todo, early, ep81>>
      BY <1>1, <2>5, <3>1 DEF TakeAck
    <3>3. pending' = pending \/ (pending' = "none" /\ pending \in acked')
      BY <1>1, <2>5 DEF TakeAck
    <3>4. Answer \notin acked'
      <4>1. \A m \in acked' : Used(m)'
        BY DEF Running, UsedInv
      <4>2. PICK a : a = Answer
        OBVIOUS
      <4>3. ~Used(a)'
        BY <2>2, <4>2 DEF Used, Answer, Waits, Ended
      <4> QED
        BY <4>1, <4>2, <4>3
    <3> QED
      BY <2>1, <2>5, <3>2, <3>3, <3>4, PatienceGoesOn
  <2>6. CASE TakeAck /\ IsMessage(q)
    BY <2>1, <2>6, PatienceTakes
  <2> QED
    BY <2>1, <2>3, <2>4, <2>5, <2>6
<1> QED
  BY <1>2, <1>3, PatienceResends, PatienceSends DEF DeviceActs

LEMMA DeviceInsists ==
  ASSUME Types, Types', Early \/ Running, Early' \/ Running', Insistent, Device, faults' = 0,
         faults = 0
  PROVE  Insistent'
<1>1. UNCHANGED <<program, pc, late>>
  BY DEF Device, DeviceActs, DeviceMarker, DeviceSyn, DeviceResend, Resend, DeviceSend,
     DeviceTake, DeviceReset, DeviceStep, hostVars
<1> SUFFICES ASSUME program = "full", ~late, pc \in Waits \union {"video", "done"}
             PROVE  /\ pc \in Waits => Patient'
                    /\ pc \in {"video", "done"} => Identification'
  BY <1>1 DEF Insistent, Waits
<1>2. Running /\ Running'
  BY <1>1 DEF Early, Waits
<1>3. DeviceActs
  BY <1>2 DEF Device, DeviceMarker, DeviceReset, Running
<1> QED
  BY <1>2, <1>3, PatienceActs, IdentificationActs DEF Insistent

LEMMA NothingInsists ==
  ASSUME Insistent, UNCHANGED vars
  PROVE  Insistent'
<1>1. UNCHANGED <<program, pc, tries, ep01, ep81, dseq, pending, todo, early, identified,
                  acked, late, faults>>
  BY DEF vars, hostVars, deviceVars
<1>2. /\ Answer' = Answer /\ Questions' = Questions /\ Else' = Else
      /\ Confirming(dseq)' = Confirming(dseq) /\ Twice' = Twice
  BY <1>1, SameAnswer DEF Twice
<1>3. ASSUME Due PROVE Due'
  BY <1>1, <1>2, <1>3 DEF Due, Slack
<1>4. ASSUME Queued PROVE Queued'
  BY <1>1, <1>2, <1>4 DEF Queued, Slack
<1>5. ASSUME Coming PROVE Coming'
  BY <1>1, <1>2, <1>5 DEF Coming, Apart, Slack
<1>6. ASSUME Identification PROVE Identification'
  BY <1>1, <1>6 DEF Identification, Accepting
<1> QED
  BY <1>1, <1>3, <1>4, <1>5, <1>6 DEF Insistent, Patient

LEMMA NextInsistent ==
  ASSUME Tries >= 4
  PROVE  Inv /\ Inv' /\ Insistent /\ [Next]_vars => Insistent'
<1> SUFFICES ASSUME Inv, Inv', Insistent, [Next]_vars, program' = "full", faults' = 0, ~late'
             PROVE  Insistent'
  BY DEF Insistent
<1>1. Types /\ Types' /\ faults = 0 /\ program = "full"
  BY FaultsAdd, CertStays DEF Inv
<1>2. (Early \/ Running) /\ (Early' \/ Running')
  BY <1>1 DEF Inv
<1>3. CASE Host
  <2>1. FullConnectHost
    BY <1>1, <1>3 DEF Host, StreamHost, ConnectHost, ViewerHost
  <2> QED
    BY <1>1, <1>2, <2>1, FullInsists
<1>4. CASE Device
  BY <1>1, <1>2, <1>4, DeviceInsists
<1> QED
  BY <1>3, <1>4, NothingInsists DEF Next

\* With four attempts or more to a counted loop (the code has 10 to 30), no
\* program finishes without the certificate, and without faults none finishes
\* before its identification is accepted, or about to be: td300_full_connect.py
\* neither, although its loops count the acknowledgements, and what the device
\* sends twice, as attempts, unless a read timed out with an answer to come.
THEOREM EveryoneIdentified == ASSUME Tries >= 4 PROVE Spec => []DoneMeansIdentified
<1>1. Init => Insistent
  BY DEF Init, LinkInit, Insistent, Waits
<1>2. Inv /\ Inv' /\ Insistent /\ [Next]_vars => Insistent'
  BY NextInsistent
<1>3. Insistent /\ (program # "full" => DoneMeansIdentified) => DoneMeansIdentified
  <2> SUFFICES ASSUME Insistent, program = "full" PROVE DoneMeansIdentified
    OBVIOUS
  <2>1. CASE pc = "done" /\ faults = 0 /\ ~late
    <3>1. Identification
      BY <2>1 DEF Insistent
    <3>2. ep01 = <<>> => Len(ep01) = 0
      OBVIOUS
    <3> QED
      BY <3>1, <3>2 DEF Identification, DoneMeansIdentified
  <2> QED
    BY <2>1 DEF DoneMeansIdentified
<1> QED
  BY <1>1, <1>2, <1>3, Invariant, DoneIdentified, PTL DEF Spec
=============================================================================
