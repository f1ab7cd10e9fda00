---------------------------- MODULE ConnectHost ----------------------------
(***************************************************************************)
(* TD.connect of td300_connect.py: the whole session, from detection to    *)
(* the reading of video data on the link.  Detection and negotiation are   *)
(* those of StreamHandshake.                                               *)
(***************************************************************************)
EXTENDS StreamHandshake

FrameOf(p) == IF IsVideo(p) THEN <<p.frame>> ELSE <<>>

\* Bug: the packets of a transfer are taken from its end.
FramesBackwards(d) == Reverse(FlattenSeq([i \in 1 .. Len(d) |-> FrameOf(d[i])]))

\* The packets of video data in a transfer.
Frames(d) == FlattenSeq([i \in 1 .. Len(d) |-> FrameOf(d[i])])

\* Data of the EA session end read_csm_response whatever was expected.  They are
\* acknowledged if the size of the transfer happens to be a multiple of five.
AnswerVideo(p, answer) ==
  /\ rx' = p.seq /\ tx' = NextSeq(tx)
  /\ \E ack \in {<<>>, <<AckOnly(tx, rx')>>} :
       Write(ack \o <<Data(tx', rx', answer)>>)

\* read_csm_response(expected), and what connect sends when it has returned.
\* The loop ends when its time is up, which is no fault of the device's if
\* nothing was to come; a read that times out changes nothing.
ReadCsm(expected, answer, next) ==
  \/ /\ late' = (late \/ DeviceHasMore \/ ep81 # <<>>)
     /\ Enter("failed") /\ WriteNothing /\ KeepsSeq /\ UNCHANGED ep81
  \/ \E d \in Transfers :
       /\ Receive(d)
       /\ LET p == Head(d)
          IN  IF p.msg = expected \/ IsVideo(p)
              THEN /\ IF IsVideo(p) THEN AnswerVideo(p, answer)
                                    ELSE Accept(p, <<answer>>)
                   /\ Enter(next)
              ELSE /\ IF IsCsm(p) THEN Accept(p, <<>>)
                                  ELSE WriteNothing /\ KeepsSeq
                   /\ UNCHANGED <<pc, tries>>

ConnectAuth ==
  /\ pc = "auth" /\ ReadCsm("Cert", "Challenge", "challenge")
  /\ UNCHANGED file /\ KeepsSeen

ConnectChallenge ==
  /\ pc = "challenge" /\ ReadCsm("Response", "AuthSucceeded", "auth_drain")
  /\ UNCHANGED file /\ KeepsSeen

ConnectIdentify ==
  /\ pc = "identify" /\ ReadCsm("IdentInfo", "IdentAccepted", "last_drain")
  /\ UNCHANGED file /\ KeepsSeen

\* A drain that acknowledges every packet of the link, or the messages of the
\* control session alone.
AckingDrain(every) ==
  /\ tries < Drains /\ tries' = tries + 1
  /\ \/ NoDataYet /\ WriteNothing /\ KeepsSeq
     \/ \E d \in Transfers :
          /\ Receive(d)
          /\ IF IsCsm(Head(d)) \/ (every /\ IsLink(Head(d)))
             THEN Accept(Head(d), <<>>)
             ELSE WriteNothing /\ KeepsSeq
  /\ UNCHANGED <<pc, file>> /\ KeepsSeen

ConnectStartIdentify ==
  /\ pc = "auth_drain"
  /\ \/ AckingDrain(FALSE)
     \/ Drained /\ Enter("identify") /\ SendCsm("StartIdent")

ConnectStartEA ==
  /\ pc = "last_drain"
  /\ \/ AckingDrain(TRUE)
     \/ Drained /\ Enter("status") /\ SendCsm("StartEA")

\* The status of the session, and video data that come already, are read and
\* acknowledged, and not kept.
ConnectStatus ==
  /\ pc = "status"
  /\ \/ AckingDrain(TRUE)
     \/ Drained /\ Enter("video") /\ WriteNothing /\ KeepsSeq

AckOf(p) == IF HasPayload(p) THEN <<AckOnly(tx, p.seq)>> ELSE <<>>

\* An acknowledgement of each packet with a payload.
Acks(d) == FlattenSeq([i \in 1 .. Len(d) |-> AckOf(d[i])])

LastSeq(d) ==
  LET payloads == {i \in 1 .. Len(d) : HasPayload(d[i])}
  IN  IF payloads = {} THEN rx ELSE d[Max(payloads)].seq

\* for i in range(1000): every packet of the transfer is looked at, and every
\* other transfer is acknowledged.
ConnectVideo ==
  /\ pc = "video"
  /\ \/ OutOfTries /\ Enter("done") /\ WriteNothing /\ KeepsSeq /\ UNCHANGED file
     \/ Silence /\ UNCHANGED file
     \/ \E d \in Transfers :
          /\ Receive(d) /\ Again
          /\ rx' = LastSeq(d) /\ UNCHANGED tx
          /\ IF tries % 2 = 0 THEN Write(Acks(d)) ELSE WriteNothing
          /\ file' = file \o Frames(d)
  /\ KeepsSeen

ConnectHost ==
  /\ program = "connect"
  /\ \/ StartDetect \/ Detect \/ Negotiate
     \/ ConnectAuth \/ ConnectChallenge \/ ConnectStartIdentify
     \/ ConnectIdentify \/ ConnectStartEA \/ ConnectStatus \/ ConnectVideo
  /\ HostStep
=============================================================================
