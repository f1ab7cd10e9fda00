---------------------------- MODULE StreamServer ----------------------------
(***************************************************************************)
(* The HTTP side of stream.py: a plain HTTPServer on one daemon thread,    *)
(* which serves one connection at a time, and the browser's connections.   *)
(* Connections wait in the listening socket's backlog, first come first    *)
(* served.  The requests for the page and for an unknown path change       *)
(* nothing, and stand for each other here.                                 *)
(***************************************************************************)
EXTENDS FrameStore

CONSTANTS Conns,   \* the browser's connections; each carries one request
          NoConn   \* none of them

ASSUME ServerAssumption == NoConn \notin Conns

VARIABLES
  waiting,    \* the backlog: requests accepted by the kernel, in order
  path,       \* what each connection asks for
  listening,  \* the connections whose client is still there
  spc,        \* where the server thread is
  serving,    \* the connection it serves
  f, fid,     \* the handler's local variables
  last_id,
  stopping,   \* shutdown() has been called on the server
  quitting,   \* /quit has started the thread that calls os._exit
  shown       \* history: the number of the last frame written to each client

localVars  == <<f, fid, last_id>>
serverVars == <<waiting, path, listening, spc, serving, f, fid, last_id,
                stopping, quitting, shown>>

Paths == {"/", "/stream", "/snapshot", "/quit"}

ServerInit ==
  /\ waiting = <<>>
  /\ path = [c \in Conns |-> "none"]
  /\ listening = {}
  /\ spc = "poll" /\ serving = NoConn
  /\ f = 0 /\ fid = 0 /\ last_id = 0
  /\ stopping = FALSE /\ quitting = FALSE
  /\ shown = [c \in Conns |-> 0]

-----------------------------------------------------------------------------
(* The browser (external).                                                 *)

Request(c, p) ==
  /\ path[c] = "none"
  /\ path' = [path EXCEPT ![c] = p]
  /\ waiting' = Append(waiting, c)
  /\ listening' = listening \union {c}
  /\ UNCHANGED <<spc, serving, localVars, stopping, quitting, shown,
                 storeVars, frame_lock, running>>

\* The user closes the page or presses stop.
Leave(c) ==
  /\ c \in listening
  /\ listening' = listening \ {c}
  /\ UNCHANGED <<waiting, path, spc, serving, localVars, stopping, quitting,
                 shown, storeVars, frame_lock, running>>

-----------------------------------------------------------------------------
(* The server thread: serve_forever and do_GET.                            *)

\* Where the handler of c goes.  The headers of /stream are written outside the
\* try: without a client that may raise, and the reply is all there is.
Routes(c) ==
  CASE path[c] = "/stream"   -> {"stream"}
                                \union (IF c \in listening THEN {} ELSE {"reply"})
    [] path[c] = "/snapshot" -> {"snapshot"}
    [] OTHER                 -> {"reply"}

\* The next connection is taken from the backlog and its handler runs in this
\* thread.  /stream starts with last_id = 0.
Accept ==
  /\ spc = "poll" /\ ~stopping /\ waiting # <<>>
  /\ waiting' = Tail(waiting)
  /\ serving' = Head(waiting)
  /\ spc' \in Routes(Head(waiting))
  /\ last_id' = 0
  /\ UNCHANGED <<path, listening, f, fid, stopping, quitting, shown,
                 storeVars, frame_lock, running>>

\* Bug: /quit is answered like any other page.
ReplyOnly ==
  /\ spc = "reply"
  /\ spc' = "poll" /\ serving' = NoConn
  /\ UNCHANGED <<waiting, path, listening, localVars, stopping, quitting, shown,
                 storeVars, frame_lock, running>>

\* "/", "/quit" and unknown paths are answered at once; /quit also starts the
\* thread that ends the process.  The reply is written first, outside any try:
\* when the client has left, the write may raise, and the server swallows the
\* exception with the rest of the handler.
Reply ==
  /\ spc = "reply"
  /\ quitting' \in {quitting \/ path[serving] = "/quit"}
                    \union (IF serving \in listening THEN {} ELSE {quitting})
  /\ spc' = "poll" /\ serving' = NoConn
  /\ UNCHANGED <<waiting, path, listening, localVars, stopping, shown,
                 storeVars, frame_lock, running>>

\* with frame_lock: f = latest_frame, then 200 with f or 503 without a frame
Snapshot ==
  /\ spc = "snapshot" /\ frame_lock = "free"
  /\ shown' = IF serving \in listening
              THEN [shown EXCEPT ![serving] = latest_frame] ELSE shown
  /\ spc' = "poll" /\ serving' = NoConn
  /\ UNCHANGED <<waiting, path, listening, localVars, stopping, quitting,
                 storeVars, frame_lock, running>>

\* with frame_lock: f = latest_frame ...
StreamLock ==
  /\ spc = "stream"
  /\ Acquire("server")
  /\ f' = latest_frame
  /\ spc' = "read_id"
  /\ UNCHANGED <<waiting, path, listening, serving, fid, last_id, stopping,
                 quitting, shown, storeVars, running>>

\* Bug: the frame after the last one shown is taken for the last one.
StreamReadLate ==
  /\ spc = "read_id"
  /\ Release
  /\ fid' = frame_count
  /\ IF f # 0 /\ frame_count > last_id + 1
     THEN spc' = "write" /\ last_id' = frame_count
     ELSE spc' = "stream" /\ UNCHANGED last_id
  /\ UNCHANGED <<waiting, path, listening, serving, f, stopping, quitting,
                 shown, storeVars, running>>

\* ... fid = frame_count; if f and fid != last_id: write, else sleep
StreamRead ==
  /\ spc = "read_id"
  /\ Release
  /\ fid' = frame_count
  /\ IF f # 0 /\ frame_count # last_id
     THEN spc' = "write" /\ last_id' = frame_count
     ELSE spc' = "stream" /\ UNCHANGED last_id
  /\ UNCHANGED <<waiting, path, listening, serving, f, stopping, quitting,
                 shown, storeVars, running>>

\* self.wfile.write(f): shown by a client that is there; on a closed
\* connection it raises ("except: pass" and the handler returns), or the
\* socket's buffer still takes it
StreamWrite ==
  /\ spc = "write"
  /\ \/ /\ serving \in listening
        /\ shown' = [shown EXCEPT ![serving] = f]
        /\ spc' = "stream" /\ UNCHANGED serving
     \/ /\ serving \notin listening
        /\ \/ spc' = "stream" /\ UNCHANGED serving
           \/ spc' = "poll" /\ serving' = NoConn
        /\ UNCHANGED shown
  /\ UNCHANGED <<waiting, path, listening, localVars, stopping, quitting,
                 storeVars, frame_lock, running>>

\* serve_forever sees the shutdown request and returns
Down ==
  /\ spc = "poll" /\ stopping
  /\ spc' = "down"
  /\ UNCHANGED <<waiting, path, listening, serving, localVars, stopping,
                 quitting, shown, storeVars, frame_lock, running>>

\* os._exit(0), on the thread /quit started
Exit ==
  /\ quitting
  /\ running' = "exited"
  /\ UNCHANGED <<serverVars, storeVars, frame_lock>>

-----------------------------------------------------------------------------
Browser == \E c \in Conns : Leave(c) \/ \E p \in Paths : Request(c, p)

Server ==
  \/ Accept \/ Reply \/ Snapshot
  \/ StreamLock \/ StreamRead \/ StreamWrite
  \/ Down
=============================================================================
