----------------------------- MODULE WebViewer ------------------------------
(***************************************************************************)
(* The frame pipeline of web_viewer.py: one capture thread calls           *)
(* push_frame, the threaded HTTP server runs one daemon thread for each    *)
(* connection, and all of them share a bounded queue, the latest frame and *)
(* the metadata.                                                           *)
(*                                                                         *)
(* A frame is its number, 1, 2, 3, ... in the order of the push_frame      *)
(* calls; 0 stands for the empty bytes _latest_frame starts with.  Every   *)
(* call of queue.Queue (full, get_nowait, put_nowait, get) is atomic under *)
(* the queue's own mutex, and so is every "with lock" block, whose body    *)
(* here is one assignment or one read; between two of them any other       *)
(* thread may run.                                                         *)
(***************************************************************************)
EXTENDS Naturals, SequencesExt

CONSTANTS Conns,     \* HTTP connections; each carries one request
          Cap,       \* maxsize of _frame_queue (4 in the code)
          MaxFrame   \* bound: frames the capture thread pushes

ASSUME WebViewerAssumption == Cap \in Nat \ {0} /\ MaxFrame \in Nat

VARIABLES
  latest,     \* _latest_frame
  queue,      \* _frame_queue
  meta,       \* _meta: the frame whose width and height it holds
  ppc,        \* where the capture thread is in push_frame
  frame,      \* the frame of the current or last push_frame call
  server,     \* _server: "none", "up" after start, "stopped" after stop
  hpc,        \* where the handler thread of each connection is
  held,       \* the frame in the local variable jpeg of each handler
  open,       \* the connections whose client still listens
  (* history *)
  put,        \* the last frame offered to put_nowait
  dropped,    \* the frames push_frame removed or could not enqueue
  delivered,  \* the frames each client received, in order
  wasted      \* the frames a handler took for a client that was gone

producerVars == <<latest, meta, ppc, frame, put, dropped>>
handlerVars  == <<hpc, held, open, delivered, wasted>>
vars == <<latest, queue, meta, ppc, frame, server, hpc, held, open,
          put, dropped, delivered, wasted>>

Frames == 1 .. MaxFrame

\* Bug: a comparison off by one lets one frame too many in.
FullLate == Len(queue) > Cap

Full == Len(queue) = Cap

Init ==
  /\ latest = 0 /\ queue = <<>> /\ meta = 0
  /\ ppc = "idle" /\ frame = 0
  /\ server = "none"
  /\ hpc = [c \in Conns |-> "new"]
  /\ held = [c \in Conns |-> 0]
  /\ open = {}
  /\ put = 0 /\ dropped = {} /\ wasted = {}
  /\ delivered = [c \in Conns |-> <<>>]

-----------------------------------------------------------------------------
(* The capture thread: push_frame.                                         *)

\* Bug: the latest frame is published one call late.
SetLatestLate ==
  /\ ppc = "idle" /\ frame < MaxFrame
  /\ frame' = frame + 1
  /\ latest' = frame
  /\ ppc' = "check"
  /\ UNCHANGED <<queue, meta, server, put, dropped, handlerVars>>

\* with _latest_lock: _latest_frame = jpeg_bytes
SetLatest ==
  /\ ppc = "idle" /\ frame < MaxFrame
  /\ frame' = frame + 1
  /\ latest' = frame + 1
  /\ ppc' = "check"
  /\ UNCHANGED <<queue, meta, server, put, dropped, handlerVars>>

\* Bug: the full() test is missing.
CheckNothing ==
  /\ ppc = "check"
  /\ ppc' = "put"
  /\ UNCHANGED <<queue, latest, meta, frame, put, dropped, server, handlerVars>>

\* if _frame_queue.full():
CheckFull ==
  /\ ppc = "check"
  /\ ppc' = IF Full THEN "drop" ELSE "put"
  /\ UNCHANGED <<queue, latest, meta, frame, put, dropped, server, handlerVars>>

\* Bug: the frame dropped is the newest one in the queue.
DropNewest ==
  /\ ppc = "drop"
  /\ IF queue = <<>>
     THEN UNCHANGED <<queue, dropped>>
     ELSE /\ queue' = Front(queue)
          /\ dropped' = dropped \union {Last(queue)}
  /\ ppc' = "put"
  /\ UNCHANGED <<latest, meta, frame, put, server, handlerVars>>

\* _frame_queue.get_nowait(), except Empty: pass
DropOldest ==
  /\ ppc = "drop"
  /\ IF queue = <<>>
     THEN UNCHANGED <<queue, dropped>>
     ELSE /\ queue' = Tail(queue)
          /\ dropped' = dropped \union {Head(queue)}
  /\ ppc' = "put"
  /\ UNCHANGED <<latest, meta, frame, put, server, handlerVars>>

\* _frame_queue.put_nowait(jpeg_bytes), except Exception: pass
PutNoWait ==
  /\ ppc = "put"
  /\ put' = frame
  /\ IF Full
     THEN /\ dropped' = dropped \union {frame}
          /\ UNCHANGED queue
     ELSE /\ queue' = Append(queue, frame)
          /\ UNCHANGED dropped
  /\ ppc' = "meta"
  /\ UNCHANGED <<latest, meta, frame, server, handlerVars>>

\* if width and height: set_meta(...); the caller may pass neither
SetMeta ==
  /\ ppc = "meta"
  /\ meta' \in {meta, frame}
  /\ ppc' = "idle"
  /\ UNCHANGED <<latest, queue, frame, put, dropped, server, handlerVars>>

-----------------------------------------------------------------------------
(* The server and its handler threads.                                     *)

Start ==
  /\ server = "none"
  /\ server' = "up"
  /\ UNCHANGED <<queue, producerVars, handlerVars>>

\* KeyboardInterrupt: wherever the capture thread is, it calls stop(), which ends
\* serve_forever and closes the listening socket.  The handler threads of the
\* connections that were accepted before go on until the process has ended, which
\* may be at any moment.
Stop ==
  /\ server = "up"
  /\ server' = "stopped"
  /\ UNCHANGED <<queue, producerVars, handlerVars>>

\* process_request has started a thread, and do_GET routes to _serve_stream
OpenStream(c) ==
  /\ hpc[c] = "new"
  /\ hpc' = [hpc EXCEPT ![c] = "get"]
  /\ open' = open \union {c}
  /\ UNCHANGED <<queue, producerVars, server, held, delivered, wasted>>

\* do_GET routes to _serve_snapshot, which reads _latest_frame under the lock
\* and answers 503 when there is none
OpenSnapshot(c) ==
  /\ hpc[c] = "new"
  /\ held' = [held EXCEPT ![c] = latest]
  /\ hpc' = [hpc EXCEPT ![c] = IF latest = 0 THEN "ended" ELSE "reply"]
  /\ open' = open \union {c}
  /\ UNCHANGED <<queue, producerVars, server, delivered, wasted>>

\* Bug: the handler looks at the head without removing it.
GetPeek(c) ==
  /\ hpc[c] = "get" /\ queue # <<>>
  /\ held' = [held EXCEPT ![c] = Head(queue)]
  /\ hpc' = [hpc EXCEPT ![c] = "write"]
  /\ UNCHANGED <<queue, producerVars, server, open, delivered, wasted>>

\* Bug: the queue is read from the producer's end.
GetNewest(c) ==
  /\ hpc[c] = "get" /\ queue # <<>>
  /\ held' = [held EXCEPT ![c] = Last(queue)]
  /\ queue' = Front(queue)
  /\ hpc' = [hpc EXCEPT ![c] = "write"]
  /\ UNCHANGED <<producerVars, server, open, delivered, wasted>>

\* Bug: the handler waits for a second frame before it takes the first.
GetWhenTwo(c) ==
  /\ hpc[c] = "get" /\ Len(queue) > 1
  /\ held' = [held EXCEPT ![c] = Head(queue)]
  /\ queue' = Tail(queue)
  /\ hpc' = [hpc EXCEPT ![c] = "write"]
  /\ UNCHANGED <<producerVars, server, open, delivered, wasted>>

\* jpeg = _frame_queue.get(timeout=2.0)
Get(c) ==
  /\ hpc[c] = "get" /\ queue # <<>>
  /\ held' = [held EXCEPT ![c] = Head(queue)]
  /\ queue' = Tail(queue)
  /\ hpc' = [hpc EXCEPT ![c] = "write"]
  /\ UNCHANGED <<producerVars, server, open, delivered, wasted>>

\* ... raises Empty after two seconds without a frame
GetTimeout(c) ==
  /\ hpc[c] = "get" /\ queue = <<>>
  /\ hpc' = [hpc EXCEPT ![c] = "empty"]
  /\ UNCHANGED <<queue, producerVars, server, held, open, delivered, wasted>>

\* except Empty: continue
Continue(c) ==
  /\ hpc[c] = "empty"
  /\ hpc' = [hpc EXCEPT ![c] = "get"]
  /\ UNCHANGED <<queue, producerVars, server, held, open, delivered, wasted>>

\* self.wfile.write(...) to a client that reads
Write(c) ==
  /\ hpc[c] = "write" /\ c \in open
  /\ delivered' = [delivered EXCEPT ![c] = Append(@, held[c])]
  /\ hpc' = [hpc EXCEPT ![c] = "get"]
  /\ UNCHANGED <<queue, producerVars, server, held, open, wasted>>

\* self.wfile.write(...) to a client that left: the socket's buffer swallows
\* the frame, or the write raises and the handler ends
WriteToGone(c) ==
  /\ hpc[c] = "write" /\ c \notin open
  /\ wasted' = wasted \union {held[c]}
  /\ \E next \in {"get", "ended"} : hpc' = [hpc EXCEPT ![c] = next]
  /\ UNCHANGED <<queue, producerVars, server, held, open, delivered>>

\* the snapshot's response is written; the client may or may not be there
Reply(c) ==
  /\ hpc[c] = "reply"
  /\ hpc' = [hpc EXCEPT ![c] = "ended"]
  /\ UNCHANGED <<queue, producerVars, server, held, open, delivered, wasted>>

\* the client closes its page (external)
Close(c) ==
  /\ c \in open
  /\ open' = open \ {c}
  /\ UNCHANGED <<queue, producerVars, server, hpc, held, delivered, wasted>>

-----------------------------------------------------------------------------
Push == SetLatest \/ CheckFull \/ DropOldest \/ PutNoWait \/ SetMeta

Handle(c) ==
  \/ Get(c) \/ GetTimeout(c) \/ Continue(c)
  \/ Write(c) \/ WriteToGone(c) \/ Reply(c)

Accept(c) == OpenStream(c) \/ OpenSnapshot(c)

Next ==
  \/ server # "stopped" /\ Push
  \/ Start
  \/ Stop
  \/ \E c \in Conns :
       /\ server # "none"
       /\ Accept(c) \/ Handle(c) \/ Close(c)

\* The capture thread and every handler thread keep running until stop() is called.
\* Nobody has to open a page, close one, start or stop the server.
Fairness ==
  /\ WF_vars(server # "stopped" /\ Push)
  /\ \A c \in Conns : WF_vars(server = "up" /\ Handle(c))

Spec == Init /\ [][Next]_vars

FairSpec == Spec /\ Fairness
-----------------------------------------------------------------------------
(* Properties.                                                             *)

Streaming(c) == hpc[c] \in {"get", "empty", "write"}

TypeOK ==
  /\ latest \in 0 .. MaxFrame /\ frame \in 0 .. MaxFrame
  /\ meta \in 0 .. MaxFrame /\ put \in 0 .. MaxFrame
  /\ queue \in Seq(Frames) /\ Len(queue) <= Cap
  /\ ppc \in {"idle", "check", "drop", "put", "meta"}
  /\ server \in {"none", "up", "stopped"}
  /\ hpc \in [Conns -> {"new", "get", "empty", "write", "reply", "ended"}]
  /\ held \in [Conns -> 0 .. MaxFrame]
  /\ open \in SUBSET Conns
  /\ dropped \in SUBSET Frames /\ wasted \in SUBSET Frames
  /\ delivered \in [Conns -> Seq(Frames)]

\* The queue always holds the most recent frames without a gap: a slow client
\* loses the oldest frames, never one between two it still gets (push_frame
\* against any number of handlers calling get).
QueueIsNewest ==
  \A i \in 1 .. Len(queue) : queue[i] = (put - Len(queue)) + i

\* The check-then-act of push_frame is safe for its one producer: whatever the
\* handlers take between full() and put_nowait(), the put finds room, so the
\* frame its "except Exception: pass" would lose silently is never lost.
PutNeverRefused == ppc = "put" => ~Full

\* No frame is shown twice or by two clients, and none vanishes: each frame
\* ever put is in the queue, or in the hands of one handler, or delivered to
\* one client, or was dropped, or went to a client that had left.
Holders(f) == {c \in Conns : \/ hpc[c] = "write" /\ held[c] = f
                             \/ f \in ToSet(delivered[c])}

AccountedOnce ==
  /\ \A f \in 1 .. put :
       f \in ToSet(queue) \union dropped \union wasted \/ Holders(f) # {}
  /\ \A f \in ToSet(queue) \union dropped \union wasted : Holders(f) = {}
  /\ \A f \in Frames : \A c, d \in Holders(f) : c = d
  /\ ToSet(queue) \intersect (dropped \union wasted) = {}
  /\ dropped \intersect wasted = {}

\* Every client sees time go forward: the frames it received, and the one its
\* handler is about to write, are in strictly increasing order.
InOrder ==
  \A c \in Conns :
    /\ \A i, j \in 1 .. Len(delivered[c]) :
         i < j => delivered[c][i] < delivered[c][j]
    /\ hpc[c] = "write" =>
         \A i \in 1 .. Len(delivered[c]) : delivered[c][i] < held[c]

\* What the viewer promises (LiveFeed): every client sees published frames only,
\* each one newer than the one before.
LastShown == [c \in Conns |-> IF delivered[c] = <<>> THEN 0
                                                     ELSE Last(delivered[c])]

Feed == INSTANCE LiveFeed
          WITH Viewers <- Conns, published <- latest, shown <- LastShown

LiveFeedSpec == Feed!Spec

\* A screenshot is never older than a frame some stream has already shown, and
\* is refused (503) only while no stream has shown any: _latest_frame is
\* updated before the frame is queued.
SnapshotNotBehind ==
  [][\A c \in Conns :
       hpc[c] = "new" /\ hpc'[c] \in {"reply", "ended"} =>
         \A d \in Conns : \A f \in ToSet(delivered[d]) : f <= held'[c]]_vars

\* While a stream handler runs and the process is not stopped, no frame stays
\* in the queue for ever.
QueueMoves ==
  \A f \in Frames :
    f \in ToSet(queue) ~>
      \/ f \notin ToSet(queue)
      \/ server # "up"
      \/ \A c \in Conns : ~Streaming(c)
=============================================================================
