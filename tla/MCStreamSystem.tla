--------------------------- MODULE MCStreamSystem ---------------------------
(***************************************************************************)
(* StreamSystem with small constants, and what stream.py says of itself.   *)
(***************************************************************************)
EXTENDS StreamSystem

\* stream.py:374, "Connect loop - reconnects on disconnect", and :310,
\* "Returns when camera thread dies": when the device is gone from under the
\* camera thread, the main thread gets back to its loop.
ReconnectsOnDisconnect ==
  (mpc = "join" /\ ~Good) ~> (mpc # "join" \/ running # "up")

\* stream.py:292, the page's Quit button ("Stop viewer?"): a request for /quit
\* stops the viewer, of a client that waits for it at any rate.
QuitStops ==
  \A c \in Conns : path[c] = "/quit" ~> (running # "up" \/ c \notin listening)
=============================================================================
