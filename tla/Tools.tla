------------------------------- MODULE Tools -------------------------------
(***************************************************************************)
(* The programs of the repository that are run by hand, one at a time: the *)
(* device has one set of USB interfaces, and each of them takes it         *)
(* (TeslongViewer by way of accessoryd).  The probe programs are in        *)
(* Probes, TeslongViewer in AccessoryViewer, and of td300_full_connect.py  *)
(* and td300_connect.py the video loop, byte by byte, in PacketSplit.      *)
(***************************************************************************)
EXTENDS Probes, AccessoryViewer, PacketSplit

VARIABLE tool   \* the program the user has started

vars == <<tool, probeVars, viewerVars, splitVars>>

Init ==
  /\ tool \in {"probe", "viewer", "video"}
  /\ ProbeInit /\ ViewerInit /\ SplitInit

Next ==
  /\ UNCHANGED tool
  /\ \/ tool = "probe"  /\ ProbeNext  /\ UNCHANGED <<viewerVars, splitVars>>
     \/ tool = "viewer" /\ ViewerNext /\ UNCHANGED <<probeVars, splitVars>>
     \/ tool = "video"  /\ SplitNext  /\ UNCHANGED <<probeVars, viewerVars>>

Others == UNCHANGED <<tool, viewerVars, splitVars>>

\* Each program runs, and time passes.  Neither the device nor the framework
\* has to do anything.
Fairness ==
  /\ WF_vars(tool = "probe" /\ ProbeStep /\ Others)
  /\ WF_vars(tool = "probe" /\ ListenEnds /\ Others)
  /\ WF_vars(tool = "video" /\ SplitStep /\ UNCHANGED <<tool, probeVars, viewerVars>>)

Spec == Init /\ [][Next]_vars

FairSpec == Spec /\ Fairness

TypeOK == ProbeTypeOK /\ ViewerTypeOK /\ SplitTypeOK
=============================================================================
