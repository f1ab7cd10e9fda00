-------------------------- MODULE StreamHandshake --------------------------
(***************************************************************************)
(* iap2_handshake of stream.py, and the same two first phases of connect   *)
(* in td300_connect.py.  Of a transfer with several packets both look at   *)
(* the first one only, except that they search the transfer for the first  *)
(* link packet while they wait for a SYN.                                  *)
(***************************************************************************)
EXTENDS Iap2Link

\* Bug: the sequence number stays as it was.
SendCsmAgain(msg) ==
  /\ Write(<<Data(tx, rx, msg)>>)
  /\ KeepsSeq

\* tx = (tx + 1) & 0xFF; wr(lp(cm(msg), ACK, tx, rx, CSID))
SendCsm(msg) ==
  /\ tx' = NextSeq(tx)
  /\ Write(<<Data(tx', rx, msg)>>)
  /\ UNCHANGED rx

\* Bug: the packet before is acknowledged.
AcceptStale(p, answers) ==
  /\ rx' = p.seq
  /\ tx' = (tx + Len(answers)) % 256
  /\ Write(<<AckOnly(tx, rx)>> \o
           [i \in DOMAIN answers |-> Data((tx + i) % 256, rx, answers[i])])

\* rx = d[5]; wr(lp(None, ACK, tx, rx)), and the messages sent in answer
Accept(p, answers) ==
  /\ rx' = p.seq
  /\ tx' = (tx + Len(answers)) % 256
  /\ Write(<<AckOnly(tx, rx')>> \o
           [i \in DOMAIN answers |-> Data((tx + i) % 256, rx', answers[i])])

\* for _ in range(5): rd(...)
DrainRead ==
  /\ tries < Drains /\ tries' = tries + 1
  /\ NoDataYet \/ \E d \in Transfers : Receive(d)
  /\ WriteNothing /\ KeepsSeq /\ UNCHANGED <<pc, file>> /\ KeepsSeen

Drained == tries = Drains /\ UNCHANGED <<ep81, late, file>> /\ KeepsSeen

-----------------------------------------------------------------------------
(* Detect and negotiate.                                                   *)

StartDetect ==
  /\ pc = "drain"
  /\ \/ DrainRead
     \/ Drained /\ Enter("detect") /\ Write(<<Marker>>) /\ KeepsSeq

\* no answer: the marker is written again
DetectSilence ==
  /\ NoData /\ Again
  /\ Write(<<Marker>>) /\ KeepsSeq

\* idx = d.find(b'\xff\x5a'); syn = d[idx:]
DetectPacket(d) ==
  LET links == {i \in 1 .. Len(d) : IsLink(d[i])}
  IN  /\ Receive(d) /\ tries < Tries
      /\ IF links = {}
         THEN Again /\ WriteNothing /\ KeepsSeq
         ELSE /\ rx' = d[Min(links)].seq
              /\ Enter("negotiate")
              /\ Write(<<SynAck(tx, rx')>>) /\ UNCHANGED tx

NoAnswer ==
  /\ OutOfTries
  /\ Enter("failed") /\ WriteNothing /\ KeepsSeq

Detect ==
  /\ pc = "detect"
  /\ NoAnswer \/ DetectSilence \/ \E d \in Transfers : DetectPacket(d)
  /\ UNCHANGED file /\ KeepsSeen

Silence == NoData /\ Again /\ WriteNothing /\ KeepsSeq

\* Bug: any packet is taken for the acknowledgement of the SYN.
NegotiatePacketAny(p) ==
  Enter("auth") /\ SendCsm("RequestCert")

\* ACK without SYN: the link is up.  SYN: it is answered again.
NegotiatePacket(p) ==
  \/ /\ "ACK" \in p.ctrl /\ "SYN" \notin p.ctrl
     /\ Enter("auth") /\ SendCsm("RequestCert")
  \/ /\ "SYN" \in p.ctrl
     /\ Again /\ rx' = p.seq
     /\ Write(<<SynAck(tx, rx')>>) /\ UNCHANGED tx
  \/ /\ p.ctrl \intersect {"ACK", "SYN"} = {}
     /\ Again /\ WriteNothing /\ KeepsSeq

Negotiate ==
  /\ pc = "negotiate"
  /\ \/ NoAnswer
     \/ Silence
     \/ \E d \in Transfers :
          Receive(d) /\ tries < Tries /\ NegotiatePacket(Head(d))
  /\ UNCHANGED file /\ KeepsSeen

-----------------------------------------------------------------------------
(* Authenticate and identify, in stream.py.                                *)

\* The certificate ends the loop; it is not looked at, and no challenge is sent.
AuthPacket(p) ==
  IF IsCsm(p)
  THEN /\ Accept(p, <<>>)
       /\ IF p.msg = "Cert" THEN Enter("accept") ELSE Again
  ELSE Again /\ WriteNothing /\ KeepsSeq

\* The loop has no else: without a certificate the handshake goes on.
Auth ==
  /\ pc = "auth"
  /\ \/ OutOfTries /\ Enter("accept") /\ WriteNothing /\ KeepsSeq
     \/ Silence
     \/ \E d \in Transfers : Receive(d) /\ tries < Tries /\ AuthPacket(Head(d))
  /\ UNCHANGED file /\ KeepsSeen

AuthSucceed ==
  /\ pc = "accept"
  /\ Enter("auth_drain") /\ SendCsm("AuthSucceeded")
  /\ UNCHANGED <<ep81, late, file>> /\ KeepsSeen

StartIdentify ==
  /\ pc = "auth_drain"
  /\ \/ DrainRead
     \/ Drained /\ Enter("identify") /\ SendCsm("StartIdent")

\* Bug: the identification is acknowledged like any other message.
IdentifyPacketAny(p) ==
  IF IsCsm(p) THEN Accept(p, <<>>) /\ Again
              ELSE Again /\ WriteNothing /\ KeepsSeq

\* Bug: the identifier of the message is not looked at.
IdentifyPacketFirst(p) ==
  IF IsCsm(p) THEN Accept(p, <<"IdentAccepted">>) /\ Enter("last_drain")
              ELSE Again /\ WriteNothing /\ KeepsSeq

\* The identification ends the loop and is accepted.
IdentifyPacket(p) ==
  IF IsCsm(p)
  THEN IF p.msg = "IdentInfo"
       THEN Accept(p, <<"IdentAccepted">>) /\ Enter("last_drain")
       ELSE Accept(p, <<>>) /\ Again
  ELSE Again /\ WriteNothing /\ KeepsSeq

Identify ==
  /\ pc = "identify"
  /\ \/ NoAnswer
     \/ Silence
     \/ \E d \in Transfers : Receive(d) /\ tries < Tries /\ IdentifyPacket(Head(d))
  /\ UNCHANGED file /\ KeepsSeen

Finish ==
  /\ pc = "last_drain"
  /\ \/ DrainRead
     \/ Drained /\ Enter("done") /\ WriteNothing /\ KeepsSeq

StreamHost ==
  /\ program = "stream"
  /\ \/ StartDetect \/ Detect \/ Negotiate
     \/ Auth \/ AuthSucceed \/ StartIdentify \/ Identify \/ Finish
  /\ HostStep
=============================================================================
