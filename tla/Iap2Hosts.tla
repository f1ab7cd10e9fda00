----------------------------- MODULE Iap2Hosts -----------------------------
(***************************************************************************)
(* The four programs that set up an iAP2 link, each against the device of  *)
(* Iap2Link: stream.py, td300_connect.py, td300_full_connect.py and        *)
(* td300_viewer.py.                                                        *)
(***************************************************************************)
EXTENDS ViewerHost, FullConnectHost

Init == LinkInit

Host == StreamHost \/ ConnectHost \/ FullConnectHost \/ ViewerHost

Next == Host \/ Device

Spec == Init /\ [][Next]_vars

\* The program runs, and the device answers; it need not send markers.
FairSpec == Spec /\ WF_vars(Host) /\ WF_vars(DeviceActs)

-----------------------------------------------------------------------------
(* Properties.                                                             *)

Places == {"drain", "detect", "negotiate", "auth", "challenge", "accept",
           "auth_drain", "identify", "last_drain", "status", "video",
           "done", "failed"}

\* Where the host takes the link for established.
Established == Places \ {"drain", "detect", "negotiate", "failed"}

TypeOK ==
  /\ program \in Programs
  /\ pc \in Places /\ tries \in 0 .. Max({Tries, Drains})
  /\ tx \in 0 .. 255 /\ rx \in 0 .. 255
  /\ pings \in 0 .. Pings /\ seen \subseteq {"marker", "SYN", "ACK"}
  /\ file \in Seq(1 .. MaxVideo)
  /\ link \in {"detect", "syn", "up"} /\ dseq \in 0 .. 255 /\ hseq \in 0 .. 255
  /\ pending \in Answers \union {"video", "none"} /\ todo \in Seq(Answers)
  /\ markers \in 0 .. MaxMarkers /\ video \in 0 .. MaxVideo
  /\ early \in BOOLEAN /\ streaming \in BOOLEAN /\ identified \in BOOLEAN
  /\ acked \subseteq Answers \union {"video"}
  /\ late \in BOOLEAN /\ faults \in 0 .. MaxFaults

\* Neither side takes the link for established before the other can: a host
\* that goes on to authenticate has been acknowledged by a device that is up.
BothUp == faults = 0 /\ pc \in Established => link = "up"

\* What a host sends over an undisturbed link arrives without a gap: the
\* messages on the way continue the sequence the device has taken, although no
\* host waits for an acknowledgement or sends anything again.
MessageSeq(p) == IF IsLink(p) /\ p.msg # "none" THEN <<p.seq>> ELSE <<>>

NoGap ==
  LET sent == FlattenSeq([i \in 1 .. Len(ep01) |-> MessageSeq(ep01[i])])
  IN  faults = 0 /\ link = "up" =>
        /\ \A i \in 1 .. Len(sent) : sent[i] = (hseq + i) % 256
        /\ tx = (hseq + Len(sent)) % 256

\* A message a host waits for is not acknowledged without being acted upon,
\* after which the device would never send it again.
AcknowledgedIsUsed ==
  faults = 0 =>
    /\ "IdentInfo" \in acked => pc \in {"last_drain", "status", "video", "done"}
    /\ "Response" \in acked => pc \notin {"auth", "challenge"}
    /\ "Cert" \in acked => program = "viewer" \/ pc # "auth"

\* A host that has finished has been given the certificate, although stream.py
\* goes on without it; and when the link had no faults it leaves a device that
\* knows its identification to be accepted.  td300_full_connect.py, which insists
\* on the certificate only, promises this where nothing failed or was late.
DoneMeansIdentified ==
  pc = "done" /\ (program = "full" => faults = 0 /\ ~late) =>
    /\ "Cert" \in acked
    /\ faults = 0 /\ ep01 = <<>> => identified

\* The video data reach the file in the order in which the device sent them.
VideoInOrder == \A i \in 1 .. Len(file) - 1 : file[i] <= file[i + 1]

\* If the device never leaves a host waiting longer than its timeout, and no
\* write fails, the session is set up, whatever is sent twice or arrives in
\* one transfer.
SessionIsSetUp == <>(pc = "done" \/ late \/ faults > 0)
=============================================================================
