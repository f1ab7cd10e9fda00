---------------------------- MODULE MCIap2Hosts ----------------------------
(***************************************************************************)
(* Iap2Hosts with small numbers of attempts, and what td300_connect.py     *)
(* says of its acknowledgements.                                           *)
(***************************************************************************)
EXTENDS Iap2Hosts

\* td300_connect.py:2, "proper ACK management for max_outgoing=1 device": the
\* device does not have to send a packet of video data again, and it is not
\* written twice, because the host has read it and not acknowledged it.
EachPacketOnce ==
  LET n == Len(file)
  IN  program = "connect" /\ faults = 0 /\ n > 1 /\ file[n] = video /\ ~early =>
        file[n - 1] # file[n]
=============================================================================
