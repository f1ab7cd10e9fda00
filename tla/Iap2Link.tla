------------------------------ MODULE Iap2Link ------------------------------
(***************************************************************************)
(* The iAP2 link between a host program and the boroscope: the packets,    *)
(* the two bulk endpoints, what a host does with them, and the device.     *)
(*                                                                         *)
(* The device is external and modelled from what the programs expect of    *)
(* it: it answers the marker with a SYN, keeps one packet outstanding      *)
(* (max_outgoing = 1) and sends it again until it is acknowledged, takes   *)
(* the host's packets in sequence only, and acknowledges each at once.     *)
(*                                                                         *)
(* A read returns what has arrived, which may be several packets in one    *)
(* transfer.  A packet is a record; a marker is one without a link header. *)
(* Checksums, lengths and the bytes of a message are left out.             *)
(***************************************************************************)
EXTENDS Naturals, SequencesExt

CONSTANTS
  Programs,    \* which of the host programs are examined
  Tries,       \* reads in a counted loop (10, 15, 20 or 30 in the code)
  Drains,      \* reads in a drain loop (5)
  Pings,       \* markers td300_viewer.py writes unanswered (5)
  DeviceSeqs,  \* sequence numbers the device may start from
  MaxMarkers,  \* bound: markers the device sends without being asked
  MaxFaults,   \* bound: writes that fail, and resets of the link by the device
  MaxJoin,     \* bound: packets in one transfer
  MaxVideo     \* bound: packets of video data the device sends

ASSUME LinkAssumption ==
  /\ Tries \in Nat \ {0} /\ Drains \in Nat \ {0}
  /\ Pings \in Nat \ {0}
  /\ DeviceSeqs \subseteq 0 .. 255
  /\ MaxMarkers \in Nat /\ MaxFaults \in Nat /\ MaxVideo \in Nat
  /\ MaxJoin \in Nat \ {0}

VARIABLES
  program,     \* the host program that runs
  pc, tries,   \* where it is, and how often its loop has been through
  tx, rx,      \* its tx_seq and rx_seq
  pings,       \* its marker_sent
  seen,        \* what it has seen of "marker", "SYN" and "ACK"
  file,        \* the packets of video data it has written to its file
  ep01,        \* packets on the way to the device
  ep81,        \* packets on the way to the host
  link,        \* the device: "detect", "syn" or "up"
  dseq, hseq,  \* its last sequence number, and the last it took from the host
  pending,     \* its message that is not acknowledged, or "none"
  todo,        \* its messages that wait for that
  early,       \* it has sent its last packet again before an answer could come
  markers,     \* markers it has sent without being asked
  video,       \* packets of video data it has sent; it streams once it is asked
  streaming,
  identified,  \* it has been told that its identification is accepted
  acked,       \* its messages the host has acknowledged
  late,        \* history: a read timed out although the device had more to say
  faults       \* failed writes and resets

hostVars   == <<pc, tries, tx, rx, pings, seen, file>>
deviceVars == <<link, dseq, hseq, pending, todo, early, markers, video,
                streaming, identified, acked>>
vars == <<program, hostVars, ep01, ep81, deviceVars, late, faults>>

-----------------------------------------------------------------------------
(* Packets.                                                                *)

Packet(ctrl, seq, ack, msg) ==
  [ctrl |-> ctrl, seq |-> seq, ack |-> ack, msg |-> msg, frame |-> 0]

Marker == Packet({}, 0, 0, "marker")
Syn(seq) == Packet({"SYN"}, seq, 0, "none")
SynAck(seq, ack) == Packet({"SYN", "ACK"}, seq, ack, "none")
AckOnly(seq, ack) == Packet({"ACK"}, seq, ack, "none")
Data(seq, ack, msg) == Packet({"ACK"}, seq, ack, msg)
Rst == Packet({"RST"}, 0, 0, "none")

Replies == [RequestCert |-> <<"Cert">>, Challenge |-> <<"Response">>,
            AuthSucceeded |-> <<>>, StartIdent |-> <<"IdentInfo">>,
            IdentAccepted |-> <<>>, StartEA |-> <<>>]

Answers == {"Cert", "Response", "IdentInfo"}

Csm == DOMAIN Replies \union Answers

IsLink(p) == p.msg # "marker"
IsCsm(p)  == p.msg \in Csm
IsVideo(p) == p.msg = "video"
\* Something follows the header: a message, video data or the link parameters
\* of a SYN.
HasPayload(p) == IsCsm(p) \/ IsVideo(p) \/ "SYN" \in p.ctrl

\* Bug: the sequence number does not wrap.
NextSeqWide(s) == s + 1

NextSeq(s) == (s + 1) % 256

LinkInit ==
  /\ program \in Programs
  /\ pc = "drain" /\ tries = 0 /\ tx = 0 /\ rx = 0 /\ pings = 0 /\ seen = {} /\ file = <<>>
  /\ ep01 = <<>> /\ ep81 = <<>>
  /\ link = "detect" /\ dseq \in DeviceSeqs /\ hseq = 0
  /\ pending = "none" /\ todo = <<>> /\ early = FALSE /\ markers = 0
  /\ video = 0 /\ streaming = FALSE /\ identified = FALSE /\ acked = {}
  /\ late = FALSE /\ faults = 0

-----------------------------------------------------------------------------
(* What a host does.                                                       *)

\* The packets are written one after the other.  A write that fails loses its
\* packet: the result of wr is not looked at.
Write(ps) ==
  \/ ep01' = ep01 \o ps /\ UNCHANGED faults
  \/ /\ faults < MaxFaults /\ faults' = faults + 1
     /\ \E i \in DOMAIN ps : ep01' = ep01 \o RemoveAt(ps, i)

WriteNothing == UNCHANGED <<ep01, faults>>

\* A read returns the transfer d.
Receive(d) ==
  /\ d # <<>> /\ ep81 = d \o SubSeq(ep81, Len(d) + 1, Len(ep81))
  /\ ep81' = SubSeq(ep81, Len(d) + 1, Len(ep81))
  /\ UNCHANGED late

Transfers == {SubSeq(ep81, 1, k) : k \in 1 .. Min({MaxJoin, Len(ep81)})}

DeviceHasMore ==
  \/ ep01 # <<>> \/ link = "syn"
  \/ link = "up" /\ (pending # "none" \/ todo # <<>>)

\* A read times out.
NoData ==
  /\ ep81 = <<>>
  /\ late' = (late \/ DeviceHasMore)
  /\ UNCHANGED ep81

\* A read with a timeout too short to wait for the device times out.
NoDataYet == ep81 = <<>> /\ UNCHANGED <<ep81, late>>

Enter(at) == pc' = at /\ tries' = 0
Again == tries < Tries /\ tries' = tries + 1 /\ UNCHANGED pc
OutOfTries == tries = Tries /\ UNCHANGED <<ep81, late>>

HostStep == UNCHANGED <<program, deviceVars>>
KeepsSeq == UNCHANGED <<tx, rx>>
KeepsSeen == UNCHANGED <<pings, seen>>

-----------------------------------------------------------------------------
(* What the device does.                                                   *)

DeviceStep == UNCHANGED <<program, hostVars, late>>

\* It sends markers while it waits for a host.
DeviceMarker ==
  /\ link = "detect" /\ markers < MaxMarkers
  /\ markers' = markers + 1
  /\ ep81' = Append(ep81, Marker)
  /\ UNCHANGED <<ep01, link, dseq, hseq, pending, todo, early, video, streaming,
                 identified, acked, faults>>
  /\ DeviceStep

\* What is not acknowledged is sent again: once the line is quiet, or, once for
\* each packet, before the host has had time to answer.
Resend(p) ==
  /\ \/ ep01 = <<>> /\ ep81 = <<>> /\ UNCHANGED early
     \/ ~early /\ early' = TRUE
  /\ ep81' = Append(ep81, p)
  /\ UNCHANGED <<ep01, link, dseq, hseq, pending, todo, markers, video, streaming,
                 identified, acked, faults>>
  /\ DeviceStep

DeviceSyn == link = "syn" /\ Resend(Syn(dseq))

Unacked == [Data(dseq, hseq, pending) EXCEPT !.frame = video]

DeviceResend == link = "up" /\ pending # "none" /\ Resend(Unacked)

\* The next message, or the next packet of video data, is sent when nothing is
\* outstanding.
DeviceSend ==
  /\ link = "up" /\ pending = "none"
  /\ \/ todo # <<>> /\ pending' = Head(todo) /\ todo' = Tail(todo)
        /\ UNCHANGED video
     \/ todo = <<>> /\ streaming /\ video < MaxVideo
        /\ pending' = "video" /\ video' = video + 1 /\ UNCHANGED todo
  /\ dseq' = NextSeq(dseq) /\ early' = FALSE
  /\ UNCHANGED <<ep01, link, hseq, markers, streaming, identified, acked, faults>>
  /\ ep81' = Append(ep81, Unacked')
  /\ DeviceStep

\* A packet from the host is taken.
TakeMarker ==
  /\ ~IsLink(Head(ep01))
  /\ IF link = "detect"
     THEN /\ link' = "syn" /\ early' = FALSE
          /\ \/ ep81' = ep81 \o <<Marker, Syn(dseq)>>
             \/ ep81' = Append(ep81, Syn(dseq))
     ELSE UNCHANGED <<link, early, ep81>>
  /\ UNCHANGED <<dseq, hseq, pending, todo, streaming, identified, acked>>

TakeSynAck ==
  LET p == Head(ep01)
  IN  /\ "SYN" \in p.ctrl
      /\ IF link # "detect" /\ p.ack = dseq
         THEN /\ link' = "up" /\ hseq' = p.seq
              /\ ep81' = Append(ep81, AckOnly(dseq, p.seq))
         ELSE UNCHANGED <<link, hseq, ep81>>
      /\ UNCHANGED <<dseq, pending, todo, early, streaming, identified, acked>>

TakeAck ==
  LET p   == Head(ep01)
      new == p.msg # "none" /\ p.seq = NextSeq(hseq)
  IN  /\ p.ctrl = {"ACK"} /\ IsLink(p)
      /\ IF link = "up"
         THEN /\ IF pending # "none" /\ p.ack = dseq
                 THEN pending' = "none" /\ acked' = acked \union {pending}
                 ELSE UNCHANGED <<pending, acked>>
              /\ IF new
                 THEN /\ hseq' = p.seq
                      /\ todo' = todo \o Replies[p.msg]
                      /\ streaming' = (streaming \/ p.msg = "StartEA")
                      /\ identified' =
                           \/ identified
                           \/ p.msg = "IdentAccepted" /\ "IdentInfo" \in acked'
                 ELSE UNCHANGED <<hseq, todo, streaming, identified>>
              /\ ep81' = IF p.msg = "none" THEN ep81
                         ELSE Append(ep81, AckOnly(dseq, hseq'))
         ELSE UNCHANGED <<hseq, pending, todo, streaming, identified, acked, ep81>>
      /\ UNCHANGED <<link, dseq, early>>

DeviceTake ==
  /\ ep01 # <<>> /\ ep01' = Tail(ep01)
  /\ TakeMarker \/ TakeSynAck \/ TakeAck
  /\ UNCHANGED <<markers, video, faults>>
  /\ DeviceStep

\* The device gives the link up and starts over.
DeviceReset ==
  /\ link = "up" /\ faults < MaxFaults /\ faults' = faults + 1
  /\ link' = "detect" /\ dseq' = NextSeq(dseq) /\ hseq' = 0
  /\ pending' = "none" /\ todo' = <<>> /\ early' = FALSE /\ streaming' = FALSE
  /\ identified' = FALSE
  /\ ep81' = Append(ep81, Rst)
  /\ UNCHANGED <<ep01, markers, video, acked>>
  /\ DeviceStep

DeviceActs == DeviceSyn \/ DeviceResend \/ DeviceSend \/ DeviceTake

Device == DeviceActs \/ DeviceMarker \/ DeviceReset
=============================================================================
