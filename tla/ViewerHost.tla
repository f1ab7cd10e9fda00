----------------------------- MODULE ViewerHost -----------------------------
(***************************************************************************)
(* TD300Connection of td300_viewer.py: the same session as a chain of      *)
(* phases, with a negotiation and an authentication of its own.  Of a      *)
(* transfer with several packets it looks at the first one.  What it reads *)
(* from endpoint 0x82 while it reads video data is left out, and so is the *)
(* end on MSG_AUTH_FAILED, which the device of Iap2Link never sends.       *)
(***************************************************************************)
EXTENDS ConnectHost

\* while self.read(timeout=200): pass
ViewerStart ==
  /\ pc = "drain" /\ UNCHANGED <<tries, tx, rx, seen, file>>
  /\ \/ /\ \E d \in Transfers : Receive(d)
        /\ WriteNothing /\ UNCHANGED <<pc, pings>>
     \/ /\ NoDataYet
        /\ pc' = "detect" /\ pings' = 1 /\ Write(<<Marker>>)

\* What is read first in negotiate, or was read last in connect.
ViewerPacket(p, attempt) ==
  LET heard == seen \union (p.ctrl \intersect {"SYN", "ACK"})
  IN  /\ seen' = heard /\ UNCHANGED <<pings, file>>
      /\ rx' = IF "SYN" \in p.ctrl THEN p.seq ELSE rx
      /\ IF {"SYN", "ACK"} \subseteq heard
         THEN /\ Enter("auth") /\ tx' = NextSeq(tx)
              /\ LET request == Data(tx', rx', "RequestCert")
                 IN  Write(IF "SYN" \in p.ctrl
                           THEN <<SynAck(tx, rx'), request>> ELSE <<request>>)
         ELSE /\ UNCHANGED tx
              /\ IF "RST" \in p.ctrl
                 THEN Enter("failed")
                 ELSE pc' = "negotiate" /\ tries' = attempt + 1
              /\ IF "SYN" \in p.ctrl THEN Write(<<SynAck(tx, rx')>>)
                                     ELSE WriteNothing

\* The device's first marker is answered, later ones are not.
ViewerMarker ==
  /\ Again /\ UNCHANGED pings
  /\ seen' = seen \union {"marker"}
  /\ IF "marker" \in seen THEN WriteNothing ELSE Write(<<Marker>>)

\* no data: the marker is written again, five times in all
ViewerDetectSilence ==
  /\ NoData /\ Again /\ UNCHANGED seen
  /\ IF pings < Pings
     THEN pings' = pings + 1 /\ Write(<<Marker>>)
     ELSE WriteNothing /\ UNCHANGED pings

ViewerDetect ==
  /\ pc = "detect"
  /\ \/ NoAnswer /\ UNCHANGED file /\ KeepsSeen
     \/ ViewerDetectSilence /\ KeepsSeq /\ UNCHANGED file
     \/ \E d \in Transfers :
          /\ tries < Tries /\ Receive(d)
          /\ IF IsLink(Head(d))
             THEN ViewerPacket(Head(d), 0)
             ELSE /\ KeepsSeq /\ UNCHANGED file
                  /\ IF Len(d) = 1 THEN ViewerMarker
                     ELSE Again /\ WriteNothing /\ KeepsSeen

ViewerNegotiate ==
  /\ pc = "negotiate"
  /\ \/ NoAnswer /\ UNCHANGED file /\ KeepsSeen
     \/ Silence /\ UNCHANGED file /\ KeepsSeen
     \/ \E d \in Transfers :
          /\ tries < Tries /\ Receive(d)
          /\ IF IsLink(Head(d))
             THEN ViewerPacket(Head(d), tries)
             ELSE /\ Again /\ KeepsSeq /\ UNCHANGED file /\ KeepsSeen
                  /\ IF Len(d) = 1 THEN Write(<<Marker>>) ELSE WriteNothing

-----------------------------------------------------------------------------
(* Authenticate and identify.                                              *)

\* Every packet with a payload is acknowledged, a SYN that comes late too; a
\* message among the awaited ones is answered.
ViewerAuthPacket(p) ==
  IF ~HasPayload(p) THEN Again /\ WriteNothing /\ KeepsSeq
  ELSE CASE p.msg = "Cert" -> Accept(p, <<"Challenge">>) /\ Again
         [] p.msg = "Response" ->
              Accept(p, <<"AuthSucceeded", "StartIdent">>) /\ Enter("identify")
         [] OTHER -> Accept(p, <<>>) /\ Again

ViewerIdentifyPacket(p) ==
  IF ~HasPayload(p) THEN Again /\ WriteNothing /\ KeepsSeq
  ELSE IF p.msg = "IdentInfo"
       THEN Accept(p, <<"IdentAccepted", "StartEA">>) /\ Enter("video")
       ELSE Accept(p, <<>>) /\ Again

ViewerAuth ==
  /\ pc = "auth"
  /\ \/ NoAnswer
     \/ Silence
     \/ \E d \in Transfers : Receive(d) /\ tries < Tries /\ ViewerAuthPacket(Head(d))
  /\ UNCHANGED file /\ KeepsSeen

ViewerIdentify ==
  /\ pc = "identify"
  /\ \/ NoAnswer
     \/ Silence
     \/ \E d \in Transfers : Receive(d) /\ tries < Tries /\ ViewerIdentifyPacket(Head(d))
  /\ UNCHANGED file /\ KeepsSeen

\* Every third read is acknowledged if it returned a packet of the link, with or
\* without a payload.
ViewerVideoPacket(p) ==
  /\ UNCHANGED tx
  /\ IF ~IsLink(p) THEN WriteNothing /\ UNCHANGED <<rx, file>>
     ELSE /\ rx' = p.seq
          /\ IF tries % 3 = 0 THEN Write(<<AckOnly(tx, rx')>>) ELSE WriteNothing
          /\ file' = file \o Frames(<<p>>)

ViewerVideo ==
  /\ pc = "video"
  /\ \/ OutOfTries /\ Enter("done") /\ WriteNothing /\ KeepsSeq /\ UNCHANGED file
     \/ Silence /\ UNCHANGED file
     \/ \E d \in Transfers : Receive(d) /\ Again /\ ViewerVideoPacket(Head(d))
  /\ KeepsSeen

ViewerHost ==
  /\ program = "viewer"
  /\ \/ ViewerStart \/ ViewerDetect \/ ViewerNegotiate
     \/ ViewerAuth \/ ViewerIdentify \/ ViewerVideo
  /\ HostStep
=============================================================================
