-------------------------- MODULE FullConnectHost --------------------------
(***************************************************************************)
(* TD300.connect of td300_full_connect.py.  It insists on a SYN and on the *)
(* certificate, and goes on without a response to its challenge and        *)
(* without an identification.  Nothing is drained between the phases.  The *)
(* negotiation is that of StreamHandshake, and video data are read as in   *)
(* ConnectHost.                                                            *)
(***************************************************************************)
EXTENDS ConnectHost

\* The first packet of the link decides: it is a SYN, or the program gives up.
FullSyn(p) ==
  IF "SYN" \in p.ctrl
  THEN /\ rx' = p.seq /\ UNCHANGED tx
       /\ Write(<<SynAck(tx, rx')>>) /\ Enter("negotiate")
  ELSE Enter("failed") /\ WriteNothing /\ KeepsSeq

FullDetect ==
  /\ pc = "detect"
  /\ \/ NoAnswer
     \/ DetectSilence
     \/ \E d \in Transfers :
          LET links == {i \in 1 .. Len(d) : IsLink(d[i])}
          IN  /\ Receive(d) /\ tries < Tries
              /\ IF links = {} THEN Again /\ WriteNothing /\ KeepsSeq
                               ELSE FullSyn(d[Min(links)])
  /\ UNCHANGED file /\ KeepsSeen

\* A message of the control session is acknowledged.  The awaited one is
\* answered as well, and ends the loop.
FullPacket(p, awaited, answers, next) ==
  IF ~IsCsm(p) THEN Again /\ WriteNothing /\ KeepsSeq
  ELSE IF p.msg = awaited
       THEN Accept(p, answers) /\ Enter(next)
       ELSE Accept(p, <<>>) /\ Again

FullAuth ==
  /\ pc = "auth"
  /\ \/ NoAnswer
     \/ Silence
     \/ \E d \in Transfers :
          /\ Receive(d) /\ tries < Tries
          /\ FullPacket(Head(d), "Cert", <<"Challenge">>, "challenge")
  /\ UNCHANGED file /\ KeepsSeen

\* The loop has no else: the identification is asked for in any case.
FullChallenge ==
  /\ pc = "challenge"
  /\ \/ OutOfTries /\ Enter("identify") /\ SendCsm("StartIdent")
     \/ Silence
     \/ \E d \in Transfers :
          /\ Receive(d) /\ tries < Tries
          /\ FullPacket(Head(d), "Response",
                        <<"AuthSucceeded", "StartIdent">>, "identify")
  /\ UNCHANGED file /\ KeepsSeen

\* Nor has this one: the EA session is started in any case.
FullIdentify ==
  /\ pc = "identify"
  /\ \/ OutOfTries /\ Enter("video") /\ SendCsm("StartEA")
     \/ Silence
     \/ \E d \in Transfers :
          /\ Receive(d) /\ tries < Tries
          /\ FullPacket(Head(d), "IdentInfo", <<"IdentAccepted", "StartEA">>, "video")
  /\ UNCHANGED file /\ KeepsSeen

FullConnectHost ==
  /\ program = "full"
  /\ \/ StartDetect \/ FullDetect \/ Negotiate
     \/ FullAuth \/ FullChallenge \/ FullIdentify \/ ConnectVideo
  /\ HostStep
=============================================================================
