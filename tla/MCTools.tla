------------------------------ MODULE MCTools ------------------------------
(***************************************************************************)
(* Tools with small constants, and what iap2_connect.py and                *)
(* iap2_handshake.py say of themselves.                                    *)
(***************************************************************************)
EXTENDS Tools

\* No payload, and payloads in which a header seems to begin that is shorter
\* than headers are.
MCPayloads == {<<>>, <<255, 90, 0>>, <<255, 90, 1>>}

\* iap2_connect.py:4, "Systematically tries different iAP2 detect/sync
\* responses": a program that has ended with the device found has written each
\* of its packets.
TriesEachPacket ==
  prog = "connect" /\ ended \in {"done", "raised"} => written = Writes(prog)
=============================================================================
