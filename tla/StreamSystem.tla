---------------------------- MODULE StreamSystem ----------------------------
(***************************************************************************)
(* stream.py as a whole: the main thread with its camera thread            *)
(* (Supervisor) and the web server thread with the browser (StreamServer), *)
(* around the globals they share (FrameStore).                             *)
(***************************************************************************)
EXTENDS Supervisor, StreamServer

vars == <<storeVars, frame_lock, running, supervisorVars, serverVars>>

Init == StoreInit /\ SupervisorInit /\ ServerInit

-----------------------------------------------------------------------------
(* Ctrl-C.                                                                 *)

\* KeyboardInterrupt reaches the main thread wherever it is; it calls
\* server.shutdown(), which asks serve_forever to return ...
Interrupt ==
  /\ mpc \notin {"stopping", "dead"}
  /\ mpc' = "stopping"
  /\ stopping' = TRUE
  /\ UNCHANGED <<storeVars, frame_lock, running, plugged, epoch, handle, cam,
                 shaken, waiting, path, listening, spc, serving, localVars,
                 quitting, shown>>

\* Bug: the process waits for the camera thread too.
ShutDownJoins ==
  /\ mpc = "stopping" /\ spc = "down" /\ cam \in {"none", "ended"}
  /\ running' = "exited"
  /\ UNCHANGED <<storeVars, frame_lock, supervisorVars, serverVars>>

\* ... and waits until it has.  main returns then, and the process ends.
ShutDown ==
  /\ mpc = "stopping" /\ spc = "down"
  /\ running' = "exited"
  /\ UNCHANGED <<storeVars, frame_lock, supervisorVars, serverVars>>

-----------------------------------------------------------------------------
SupervisorStep == (Device \/ Main \/ CameraThread) /\ UNCHANGED serverVars

ServerStep == (Browser \/ Server) /\ UNCHANGED supervisorVars

QuitStep == Exit /\ UNCHANGED supervisorVars

Next ==
  /\ running = "up"
  /\ SupervisorStep \/ ServerStep \/ QuitStep \/ Interrupt \/ ShutDown

Up(A) == running = "up" /\ A

\* Every thread keeps running while the process does.  The device need not be
\* plugged in, a finished frame need not come, and nobody has to use the page
\* or press Ctrl-C.
Fairness ==
  /\ WF_vars(Up(Main /\ UNCHANGED serverVars))
  /\ WF_vars(Up((Setup \/ StoreFrame \/ CountFrame) /\ UNCHANGED serverVars))
  /\ WF_vars(Up(Server /\ UNCHANGED supervisorVars))
  /\ WF_vars(Up(QuitStep))
  /\ WF_vars(Up(ShutDown))

Spec == Init /\ [][Next]_vars

FairSpec == Spec /\ Fairness

-----------------------------------------------------------------------------
(* Properties.                                                             *)

TypeOK ==
  /\ frame_count \in 0 .. MaxFrames
  /\ latest_frame \in frame_count .. frame_count + 1
  /\ latest_frame <= MaxFrames
  /\ frame_lock \in {"free", "camera", "server"}
  /\ running \in {"up", "exited", "crashed"}
  /\ plugged \in BOOLEAN /\ epoch \in 0 .. MaxPlugs
  /\ mpc \in {"find", "reset", "refind", "refind_again", "claim", "handshake",
              "start", "join", "pause", "stopping", "dead"}
  /\ handle \in 0 .. epoch /\ shaken \in 0 .. epoch
  /\ cam \in {"none", "setup", "loop", "store", "count", "ended"}
  /\ waiting \in Seq(Conns)
  /\ path \in [Conns -> Paths \union {"none"}]
  /\ listening \in SUBSET Conns
  /\ spc \in {"poll", "reply", "snapshot", "stream", "read_id", "write", "down"}
  /\ serving \in Conns \union {NoConn}
  /\ f \in 0 .. MaxFrames /\ fid \in 0 .. MaxFrames /\ last_id \in 0 .. MaxFrames
  /\ stopping \in BOOLEAN /\ quitting \in BOOLEAN
  /\ shown \in [Conns -> 0 .. MaxFrames]

\* The picture and the number the handler reads belong together: it never
\* writes one frame under the number of another, which would make it skip the
\* one or repeat the other.
NoTornRead == spc = "write" => f = fid

\* Frames are published only from a device that has been through the handshake
\* since it was last enumerated.
PublishesAfterHandshake ==
  [][latest_frame' # latest_frame => shaken = handle /\ handle # 0]_vars

\* A camera thread lives only while the main thread waits for it (or has been
\* interrupted in the wait), so two never read the endpoint at the same time.
OneCamera == cam # "none" => mpc \in {"join", "stopping"}

\* Every viewer sees published frames only, each one newer than the last.
Feed == INSTANCE LiveFeed WITH Viewers <- Conns, published <- frame_count

LiveFeedSpec == Feed!Spec

\* What the camera has published reaches the viewer whose stream the server
\* serves, or a newer frame does, unless the viewer leaves.
LatestReachesViewer ==
  \A c \in Conns, n \in 1 .. MaxFrames :
    (spc = "stream" /\ serving = c /\ frame_count = n)
      ~> (shown[c] >= n \/ c \notin listening \/ running # "up")

\* A failed attempt, of whatever kind, is followed by another one while the
\* device stays plugged in.
FailureIsRetried ==
  mpc = "pause" ~> (mpc = "handshake" \/ ~plugged \/ mpc = "stopping"
                    \/ running # "up")

\* The server thread is in the handler of a stream and will not leave it.
HeldByStream == [](spc \in {"stream", "read_id", "write"})

\* A request for /quit ends the process, from whatever state its threads are
\* in, unless its client leaves before the answer or the server thread stays in
\* the handler of a stream for ever.
QuitEnds ==
  \A c \in Conns :
    path[c] = "/quit" ~> (running # "up" \/ c \notin listening \/ HeldByStream)

\* Ctrl-C ends the process wherever it finds its three threads, whatever the
\* camera thread does and whatever was requested: only the handler of a stream
\* that never ends keeps the server thread, and with it shutdown(), from
\* returning.
InterruptEnds ==
  mpc = "stopping" ~> (running # "up" \/ HeldByStream)
=============================================================================
