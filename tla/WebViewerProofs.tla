--------------------------- MODULE WebViewerProofs --------------------------
(***************************************************************************)
(* Theorems about WebViewer, for every set of connections, every queue     *)
(* capacity and every number of frames.                                    *)
(*                                                                         *)
(* The inductive invariant is Inv: what the queue holds is the interval    *)
(* ending in put, put trails frame exactly while the push is in progress,  *)
(* and whatever has left the queue is older than all it holds.             *)
(***************************************************************************)
EXTENDS WebViewer, TLAPS

\* Where push_frame is says which frame was put last, and that the put it is
\* about to do has room.
PushPhase ==
  /\ latest = frame
  /\ ppc \in {"idle", "meta"} => put = frame
  /\ ppc \in {"check", "drop", "put"} => frame = put + 1

\* What a client has received, or a handler is writing, has left the queue: it
\* is not newer than the frame before the queue's head.
Past == put - Len(queue)

TakenIsPast ==
  /\ Len(queue) <= put
  /\ \A c \in Conns :
       /\ \A i \in 1 .. Len(delivered[c]) : delivered[c][i] <= Past
       /\ hpc[c] = "write" => held[c] \in 1 .. Past

Inv ==
  /\ TypeOK
  /\ PushPhase
  /\ QueueIsNewest
  /\ PutNeverRefused
  /\ TakenIsPast
  /\ InOrder

-----------------------------------------------------------------------------
\* Taking the head of the queue (get and get_nowait on _frame_queue) leaves the
\* same frames but the oldest one.
LEMMA TakeHead ==
  ASSUME TypeOK, QueueIsNewest, queue # <<>>
  PROVE  /\ Len(queue) \in Nat \ {0}
         /\ Head(queue) \in Frames
         /\ Head(queue) = Past + 1
         /\ Tail(queue) \in Seq(Frames)
         /\ Len(Tail(queue)) = Len(queue) - 1
         /\ \A i \in 1 .. Len(Tail(queue)) :
              Tail(queue)[i] = (put - Len(Tail(queue))) + i
<1>1. queue \in Seq(Frames) /\ put \in Nat
  BY DEF TypeOK
<1>2. Len(queue) \in Nat \ {0}
  BY <1>1
<1>3. Head(queue) = queue[1] /\ Head(queue) \in Frames
  BY <1>1, <1>2
<1>4. Tail(queue) \in Seq(Frames) /\ Len(Tail(queue)) = Len(queue) - 1
  BY <1>1
<1>5. \A i \in 1 .. Len(Tail(queue)) :
        Tail(queue)[i] = queue[i + 1] /\ i + 1 \in 1 .. Len(queue)
  BY <1>1, <1>2, <1>4
<1>6. \A i \in 1 .. Len(queue) : queue[i] = (put - Len(queue)) + i
  BY DEF QueueIsNewest
<1> QED
  BY <1>1, <1>2, <1>3, <1>4, <1>5, <1>6 DEF Past

LEMMA InitInv == Init => Inv
BY WebViewerAssumption
   DEF Init, Inv, TypeOK, PushPhase, QueueIsNewest, PutNeverRefused, Full,
       TakenIsPast, Past, InOrder, Frames

\* Every step of push_frame, of a handler, of a client and of the server
\* preserves the invariant.
LEMMA NextInv == Inv /\ [Next]_vars => Inv'
<1> SUFFICES ASSUME Inv, [Next]_vars PROVE Inv'
  OBVIOUS
<1> USE WebViewerAssumption
<1>1. ASSUME SetLatest PROVE Inv'
  BY <1>1 DEF SetLatest, handlerVars, Inv, TypeOK, PushPhase, QueueIsNewest,
     PutNeverRefused, Full, TakenIsPast, Past, InOrder, Frames
<1>2. ASSUME CheckFull PROVE Inv'
  BY <1>2 DEF CheckFull, handlerVars, Inv, TypeOK, PushPhase, QueueIsNewest,
     PutNeverRefused, Full, TakenIsPast, Past, InOrder, Frames
<1>3. ASSUME DropOldest PROVE Inv'
  <2>1. CASE queue = <<>>
    <3>1. UNCHANGED <<queue, dropped, latest, meta, frame, put, server, handlerVars>>
      BY <1>3, <2>1 DEF DropOldest
    <3>2. Len(queue') = 0
      BY <2>1, <3>1
    <3>3. TypeOK' /\ PushPhase' /\ QueueIsNewest' /\ TakenIsPast' /\ InOrder'
      BY <1>3, <3>1 DEF DropOldest, handlerVars, Inv, TypeOK, PushPhase,
         QueueIsNewest, TakenIsPast, Past, InOrder
    <3> QED
      BY <3>2, <3>3 DEF Inv, PutNeverRefused, Full
  <2>2. CASE queue # <<>>
    <3>1. /\ queue' \in Seq(Frames)
          /\ Len(queue') = Len(queue) - 1
          /\ Len(queue) \in Nat \ {0}
          /\ Head(queue) \in Frames
          /\ \A i \in 1 .. Len(queue') : queue'[i] = (put - Len(queue')) + i
      BY <1>3, <2>2, TakeHead DEF DropOldest, Inv
    <3>2. TypeOK'
      BY <1>3, <2>2, <3>1 DEF DropOldest, handlerVars, Inv, TypeOK
    <3>3. PushPhase' /\ QueueIsNewest'
      BY <1>3, <3>1 DEF DropOldest, Inv, PushPhase, QueueIsNewest
    <3>4. PutNeverRefused'
      BY <1>3, <3>1 DEF DropOldest, Inv, TypeOK, PutNeverRefused, Full
    <3>5. TakenIsPast'
      BY <1>3, <3>1, SMTT(20) DEF DropOldest, handlerVars, Inv, TypeOK, TakenIsPast,
         Past, Frames
    <3>6. InOrder'
      BY <1>3 DEF DropOldest, handlerVars, Inv, InOrder
    <3> QED
      BY <3>2, <3>3, <3>4, <3>5, <3>6 DEF Inv
  <2> QED
    BY <2>1, <2>2
<1>4. ASSUME PutNoWait PROVE Inv'
  <2>1. Len(queue) < Cap /\ frame = put + 1 /\ frame \in Frames /\ put' = frame
    BY <1>4 DEF PutNoWait, Inv, TypeOK, PushPhase, PutNeverRefused, Full, Frames
  <2>2. queue' = Append(queue, frame) /\ dropped' = dropped
    BY <1>4, <2>1 DEF PutNoWait, Full
  <2>3. queue' \in Seq(Frames) /\ Len(queue') = Len(queue) + 1
    BY <2>1, <2>2 DEF Inv, TypeOK
  <2>4. QueueIsNewest'
    BY <1>4, <2>1, <2>2, <2>3 DEF PutNoWait, Inv, TypeOK, QueueIsNewest
  <2>5. TypeOK'
    BY <1>4, <2>1, <2>2, <2>3
       DEF PutNoWait, handlerVars, Inv, TypeOK, Frames
  <2>6. PushPhase' /\ PutNeverRefused'
    BY <1>4 DEF PutNoWait, Inv, PushPhase, PutNeverRefused
  <2>7. TakenIsPast' /\ InOrder'
    BY <1>4, <2>1, <2>3
       DEF PutNoWait, handlerVars, Inv, TypeOK, TakenIsPast, Past, InOrder
  <2> QED
    BY <2>4, <2>5, <2>6, <2>7 DEF Inv
<1>5. ASSUME SetMeta PROVE Inv'
  BY <1>5 DEF SetMeta, handlerVars, Inv, TypeOK, PushPhase, QueueIsNewest,
     PutNeverRefused, Full, TakenIsPast, Past, InOrder, Frames
<1>6. ASSUME Start \/ Stop PROVE Inv'
  BY <1>6 DEF Start, Stop, producerVars, handlerVars, Inv, TypeOK, PushPhase,
     QueueIsNewest, PutNeverRefused, Full, TakenIsPast, Past, InOrder
<1>7. ASSUME NEW c \in Conns, Accept(c) \/ Close(c) PROVE Inv'
  <2>1. UNCHANGED <<queue, producerVars, server, delivered, wasted>>
    BY <1>7 DEF Accept, OpenStream, OpenSnapshot, Close
  <2>2. PushPhase' /\ QueueIsNewest' /\ PutNeverRefused'
    BY <2>1 DEF producerVars, Inv, PushPhase, QueueIsNewest, PutNeverRefused,
       Full
  <2>3. \A d \in Conns : hpc'[d] = "write" => hpc[d] = "write" /\ held'[d] = held[d]
    BY <1>7 DEF Accept, OpenStream, OpenSnapshot, Close, Inv, TypeOK
  <2>4. TakenIsPast' /\ InOrder'
    BY <2>1, <2>3 DEF producerVars, Inv, TakenIsPast, Past, InOrder
  <2>5. open' \in SUBSET Conns /\ held' \in [Conns -> 0 .. MaxFrame]
    BY <1>7 DEF Accept, OpenStream, OpenSnapshot, Close, Inv, TypeOK
  <2>6. hpc' \in [Conns -> {"new", "get", "empty", "write", "reply", "ended"}]
    BY <1>7 DEF Accept, OpenStream, OpenSnapshot, Close, Inv, TypeOK
  <2>7. TypeOK'
    BY <2>1, <2>5, <2>6 DEF producerVars, Inv, TypeOK
  <2> QED
    BY <2>2, <2>4, <2>7 DEF Inv
<1>8. ASSUME NEW c \in Conns, Get(c) PROVE Inv'
  <2>1. /\ queue' \in Seq(Frames)
        /\ Len(queue') = Len(queue) - 1
        /\ Len(queue) \in Nat \ {0}
        /\ Head(queue) \in Frames
        /\ Head(queue) = Past + 1
        /\ \A i \in 1 .. Len(queue') : queue'[i] = (put - Len(queue')) + i
    BY <1>8, TakeHead DEF Get, Inv
  <2>2. TypeOK'
    BY <1>8, <2>1 DEF Get, producerVars, Inv, TypeOK, Frames
  <2>3. PushPhase' /\ QueueIsNewest'
    BY <1>8, <2>1 DEF Get, producerVars, Inv, PushPhase, QueueIsNewest
  <2>4. PutNeverRefused'
    <3>1. Len(queue') < Cap
      BY <2>1 DEF Inv, TypeOK
    <3> QED
      BY <3>1 DEF PutNeverRefused, Full
  <2>5. TakenIsPast'
    BY <1>8, <2>1 DEF Get, producerVars, Inv, TypeOK, TakenIsPast, Past, Frames
  <2>6. InOrder'
    BY <1>8, <2>1 DEF Get, producerVars, Inv, TypeOK, TakenIsPast, Past,
       InOrder, Frames
  <2> QED
    BY <2>2, <2>3, <2>4, <2>5, <2>6 DEF Inv
<1>9. ASSUME NEW c \in Conns, GetTimeout(c) \/ Continue(c) \/ Reply(c)
      PROVE  Inv'
  BY <1>9 DEF GetTimeout, Continue, Reply, producerVars, Inv, TypeOK, PushPhase,
     QueueIsNewest, PutNeverRefused, Full, TakenIsPast, Past, InOrder
<1>10. ASSUME NEW c \in Conns, Write(c) PROVE Inv'
  <2>1. /\ held[c] \in Frames
        /\ delivered[c] \in Seq(Frames)
        /\ delivered' = [delivered EXCEPT ![c] = Append(delivered[c], held[c])]
    BY <1>10 DEF Write, Inv, TypeOK, TakenIsPast, Past, Frames
  <2>2. TypeOK'
    BY <1>10, <2>1 DEF Write, producerVars, Inv, TypeOK
  <2>3. PushPhase' /\ QueueIsNewest' /\ PutNeverRefused'
    BY <1>10 DEF Write, producerVars, Inv, PushPhase, QueueIsNewest,
       PutNeverRefused, Full
  <2>4. ASSUME NEW d \in Conns, NEW i \in 1 .. Len(delivered'[d])
        PROVE  \/ i \in 1 .. Len(delivered[d]) /\ delivered'[d][i] = delivered[d][i]
               \/ d = c /\ i = Len(delivered[c]) + 1 /\ delivered'[d][i] = held[c]
    BY <1>10, <2>1 DEF Inv, TypeOK
  <2>5. TakenIsPast'
    BY <1>10, <2>1, <2>4 DEF Write, producerVars, Inv, TypeOK, TakenIsPast, Past
  <2>6. InOrder'
    BY <1>10, <2>1, <2>4 DEF Write, producerVars, Inv, TypeOK, InOrder
  <2> QED
    BY <2>2, <2>3, <2>5, <2>6 DEF Inv
<1>11. ASSUME NEW c \in Conns, WriteToGone(c) PROVE Inv'
  <2>1. UNCHANGED <<queue, producerVars, server, held, open, delivered>>
    BY <1>11 DEF WriteToGone
  <2>2. PushPhase' /\ QueueIsNewest' /\ PutNeverRefused'
    BY <2>1 DEF producerVars, Inv, PushPhase, QueueIsNewest, PutNeverRefused,
       Full
  <2>3. \A d \in Conns : hpc'[d] = "write" => hpc[d] = "write"
    BY <1>11 DEF WriteToGone, Inv, TypeOK
  <2>4. TakenIsPast' /\ InOrder'
    BY <2>1, <2>3 DEF producerVars, Inv, TakenIsPast, Past, InOrder
  <2>5. held[c] \in Frames
    BY <1>11 DEF WriteToGone, Inv, TypeOK, TakenIsPast, Past, Frames
  <2>6. wasted' \in SUBSET Frames
    BY <1>11, <2>5 DEF WriteToGone, Inv, TypeOK
  <2>7. hpc' \in [Conns -> {"new", "get", "empty", "write", "reply", "ended"}]
    BY <1>11 DEF WriteToGone, Inv, TypeOK
  <2>8. TypeOK'
    BY <2>1, <2>6, <2>7 DEF producerVars, Inv, TypeOK
  <2> QED
    BY <2>2, <2>4, <2>8 DEF Inv
<1>12. ASSUME UNCHANGED vars PROVE Inv'
  BY <1>12 DEF vars, Inv, TypeOK, PushPhase, QueueIsNewest, PutNeverRefused,
     Full, TakenIsPast, Past, InOrder
<1> QED
  BY <1>1, <1>2, <1>3, <1>4, <1>5, <1>6, <1>7, <1>8, <1>9, <1>10, <1>11, <1>12
     DEF Next, Push, Accept, Handle

\* The invariant holds of every reachable state.
THEOREM Invariant == Spec => []Inv
<1> QED
  BY InitInv, NextInv, PTL DEF Spec

\* web_viewer.py's shared state stays within its types and the queue within
\* its maxsize.
THEOREM TypeCorrect == Spec => []TypeOK
<1>1. Inv => TypeOK
  BY DEF Inv
<1> QED
  BY <1>1, Invariant, PTL

\* The swallowed exception of put_nowait never hides a lost frame: with one
\* capture thread the put always finds room, however the handlers interleave.
THEOREM PushNeverLosesNewest == Spec => []PutNeverRefused
<1>1. Inv => PutNeverRefused
  BY DEF Inv
<1> QED
  BY <1>1, Invariant, PTL

\* The queue always holds the latest frames put, without a gap.
THEOREM QueueHoldsNewest == Spec => []QueueIsNewest
<1>1. Inv => QueueIsNewest
  BY DEF Inv
<1> QED
  BY <1>1, Invariant, PTL

\* Each client receives frames in strictly increasing order.
THEOREM ClientsSeeOrder == Spec => []InOrder
<1>1. Inv => InOrder
  BY DEF Inv
<1> QED
  BY <1>1, Invariant, PTL

\* A screenshot is never older than a frame that some stream has shown.
THEOREM SnapshotsNotBehind == Spec => SnapshotNotBehind
<1>1. ASSUME Inv, [Next]_vars, NEW c \in Conns, hpc[c] = "new",
             hpc'[c] \in {"reply", "ended"}
      PROVE  \A d \in Conns : \A f \in ToSet(delivered[d]) : f <= held'[c]
  <2>1. held'[c] = latest
    BY <1>1 DEF Inv, TypeOK, Next, Push, Accept, Handle, vars, SetLatest,
       CheckFull, DropOldest, PutNoWait, SetMeta, Start, Stop, OpenStream,
       OpenSnapshot, Get, GetTimeout, Continue, Write, WriteToGone, Reply,
       Close, producerVars, handlerVars
  <2>2. put <= latest
    BY <1>1 DEF Inv, TypeOK, PushPhase
  <2>3. \A d \in Conns : \A i \in 1 .. Len(delivered[d]) :
          delivered[d][i] \in Frames /\ delivered[d][i] <= Past
    BY <1>1 DEF Inv, TypeOK, TakenIsPast
  <2>4. ASSUME NEW d \in Conns, NEW i \in 1 .. Len(delivered[d])
        PROVE  delivered[d][i] <= latest
    BY <1>1, <2>2, <2>3 DEF Past, Inv, TypeOK, Frames
  <2> QED
    BY <1>1, <2>1, <2>4 DEF ToSet, Inv, TypeOK
<1>2. Inv /\ [Next]_vars =>
        [\A c \in Conns :
           hpc[c] = "new" /\ hpc'[c] \in {"reply", "ended"} =>
             \A d \in Conns : \A f \in ToSet(delivered[d]) : f <= held'[c]]_vars
  BY <1>1
<1> QED
  BY <1>2, Invariant, PTL DEF Spec, SnapshotNotBehind

-----------------------------------------------------------------------------
(* Where every frame is that has left the queue.                           *)

\* The client, or its handler, has frame n.
Holds(c, n) ==
  \/ hpc[c] = "write" /\ held[c] = n
  \/ \E i \in 1 .. Len(delivered[c]) : delivered[c][i] = n

\* AccountedOnce for the frames before the queue's head: none is dropped and
\* wasted and held, and each is one of the three.
PastAccounted ==
  /\ dropped \union wasted \subseteq 1 .. Past
  /\ dropped \intersect wasted = {}
  /\ \A n \in 1 .. Past : n \in dropped \union wasted \/ \E c \in Conns : Holds(c, n)
  /\ \A n \in dropped \union wasted : \A c \in Conns : ~Holds(c, n)
  /\ \A n \in Nat : \A c, d \in Conns : Holds(c, n) /\ Holds(d, n) => c = d

LEMMA HeldIsPast ==
  ASSUME Inv, NEW c \in Conns, NEW n, Holds(c, n)
  PROVE  n \in 1 .. Past
<1>1. Past \in Nat
  BY DEF Inv, TypeOK, TakenIsPast, Past
<1>2. CASE hpc[c] = "write" /\ held[c] = n
  BY <1>2 DEF Inv, TakenIsPast
<1>3. ASSUME NEW i \in 1 .. Len(delivered[c]), delivered[c][i] = n
      PROVE  n \in 1 .. Past
  <2>1. delivered[c][i] \in Frames
    BY DEF Inv, TypeOK
  <2>2. delivered[c][i] <= Past
    BY DEF Inv, TakenIsPast
  <2> QED
    BY <1>1, <1>3, <2>1, <2>2 DEF Frames
<1> QED
  BY <1>2, <1>3 DEF Holds

\* Past moves by one when the head of the queue leaves it.
LEMMA HeadLeaves ==
  ASSUME TypeOK, QueueIsNewest, TakenIsPast, queue # <<>>,
         queue' = Tail(queue), put' = put
  PROVE  Past \in Nat /\ Past' = Past + 1 /\ Head(queue) = Past + 1
<1>1. Past \in Nat /\ put \in Nat
  BY DEF TypeOK, TakenIsPast, Past
<1>2. Len(queue') = Len(queue) - 1 /\ Len(queue) \in Nat
  BY TakeHead
<1> QED
  BY <1>1, <1>2, TakeHead DEF Past

\* Steps that move no frame.
LEMMA NothingMoves ==
  ASSUME PastAccounted, Past' = Past, UNCHANGED <<dropped, wasted, delivered>>,
         \A c \in Conns : /\ hpc'[c] = "write" <=> hpc[c] = "write"
                          /\ hpc[c] = "write" => held'[c] = held[c]
  PROVE  PastAccounted'
<1>1. \A c \in Conns, n \in Nat : Holds(c, n)' <=> Holds(c, n)
  BY DEF Holds
<1>2. 1 .. Past \subseteq Nat
  OBVIOUS
<1> QED
  BY <1>1, <1>2 DEF PastAccounted

\* push_frame drops the head of the queue, which nobody holds.
LEMMA DropMoves ==
  ASSUME Inv, PastAccounted, DropOldest, queue # <<>>
  PROVE  PastAccounted'
<1>1. /\ dropped' = dropped \union {Past + 1} /\ wasted' = wasted
      /\ UNCHANGED <<hpc, held, delivered>>
      /\ Past' = Past + 1 /\ Past \in Nat
  <2>1. /\ queue' = Tail(queue) /\ dropped' = dropped \union {Head(queue)}
        /\ UNCHANGED <<put, wasted, hpc, held, delivered>>
    BY DEF DropOldest, handlerVars
  <2> QED
    BY <2>1, HeadLeaves DEF Inv
<1>2. \A c \in Conns, n \in Nat : Holds(c, n)' <=> Holds(c, n)
  BY <1>1 DEF Holds
<1>3. \A c \in Conns : ~Holds(c, Past + 1)
  BY <1>1, HeldIsPast
<1>4. 1 .. Past + 1 = (1 .. Past) \union {Past + 1} /\ Past + 1 \notin 1 .. Past
  BY <1>1
<1>5. dropped' \union wasted' \subseteq Nat
  BY <1>1, <1>4 DEF PastAccounted
<1> QED
  BY <1>1, <1>2, <1>3, <1>4, <1>5 DEF PastAccounted

\* A handler takes the head of the queue, which nobody else holds.
LEMMA GetMoves ==
  ASSUME Inv, PastAccounted, NEW c \in Conns, Get(c)
  PROVE  PastAccounted'
<1>1. /\ UNCHANGED <<dropped, wasted, delivered>>
      /\ Past' = Past + 1 /\ Past \in Nat
      /\ held' = [held EXCEPT ![c] = Past + 1]
      /\ hpc' = [hpc EXCEPT ![c] = "write"] /\ hpc[c] = "get"
  <2>1. /\ queue # <<>> /\ queue' = Tail(queue)
        /\ UNCHANGED <<put, dropped, wasted, delivered>>
        /\ held' = [held EXCEPT ![c] = Head(queue)]
        /\ hpc' = [hpc EXCEPT ![c] = "write"] /\ hpc[c] = "get"
    BY DEF Get, producerVars
  <2> QED
    BY <2>1, HeadLeaves DEF Inv
<1>2. \A d \in Conns, n \in Nat :
        Holds(d, n)' <=> Holds(d, n) \/ (d = c /\ n = Past + 1)
  BY <1>1 DEF Holds, Inv, TypeOK
<1>3. \A d \in Conns : ~Holds(d, Past + 1)
  BY <1>1, HeldIsPast
<1>4. 1 .. Past + 1 = (1 .. Past) \union {Past + 1} /\ Past + 1 \notin 1 .. Past
  BY <1>1
<1>5. dropped \union wasted \subseteq Nat
  BY <1>1, <1>4 DEF PastAccounted
<1> QED
  BY <1>1, <1>2, <1>3, <1>4, <1>5 DEF PastAccounted

\* A handler's frame goes to its client.
LEMMA WriteMoves ==
  ASSUME Inv, PastAccounted, NEW c \in Conns, Write(c)
  PROVE  PastAccounted'
<1>1. /\ UNCHANGED <<dropped, wasted, queue, put, held>>
      /\ hpc[c] = "write" /\ hpc' = [hpc EXCEPT ![c] = "get"]
      /\ delivered' = [delivered EXCEPT ![c] = Append(delivered[c], held[c])]
  BY DEF Write, producerVars
<1>2. held[c] \in Frames /\ delivered[c] \in Seq(Frames)
  BY <1>1, WebViewerAssumption DEF Inv, TypeOK, TakenIsPast, Past, Frames
<1>3. \A n \in Nat : Holds(c, n)' <=> Holds(c, n)
  <2>1. /\ Len(delivered'[c]) = Len(delivered[c]) + 1
        /\ delivered'[c][Len(delivered[c]) + 1] = held[c]
        /\ \A i \in 1 .. Len(delivered[c]) : delivered'[c][i] = delivered[c][i]
        /\ Len(delivered[c]) \in Nat
        /\ hpc'[c] = "get"
    BY <1>1, <1>2 DEF Inv, TypeOK
  <2>2. \A n \in Nat : Holds(c, n) => Holds(c, n)'
    BY <1>1, <2>1 DEF Holds
  <2>3. \A n \in Nat : Holds(c, n)' => Holds(c, n)
    BY <1>1, <2>1 DEF Holds
  <2> QED
    BY <2>2, <2>3
<1>4. \A d \in Conns \ {c} : hpc'[d] = hpc[d] /\ delivered'[d] = delivered[d]
  BY <1>1 DEF Inv, TypeOK
<1>5. \A d \in Conns \ {c}, n \in Nat : Holds(d, n)' <=> Holds(d, n)
  BY <1>1, <1>4 DEF Holds
<1>6. \A d \in Conns, n \in Nat : Holds(d, n)' <=> Holds(d, n)
  BY <1>3, <1>5
<1>7. Past' = Past /\ 1 .. Past \subseteq Nat
  BY <1>1 DEF Past
<1> QED
  BY <1>1, <1>6, <1>7 DEF PastAccounted

\* A handler's frame is wasted on a client that left; nobody has it then.
LEMMA WasteMoves ==
  ASSUME Inv, PastAccounted, NEW c \in Conns, WriteToGone(c)
  PROVE  PastAccounted'
<1>1. /\ UNCHANGED <<dropped, queue, put, held, delivered>>
      /\ wasted' = wasted \union {held[c]}
      /\ hpc[c] = "write"
      /\ \E next \in {"get", "ended"} : hpc' = [hpc EXCEPT ![c] = next]
  BY DEF WriteToGone, producerVars
<1>2. /\ hpc'[c] # "write"
      /\ \A d \in Conns \ {c} : hpc'[d] = hpc[d]
  BY <1>1 DEF Inv, TypeOK
<1>3. held[c] \in 1 .. Past /\ Holds(c, held[c])
  BY <1>1 DEF Inv, TakenIsPast, Holds
<1>4. ~ \E i \in 1 .. Len(delivered[c]) : delivered[c][i] = held[c]
  BY <1>1 DEF Inv, TypeOK, InOrder, Frames
<1>5. \A d \in Conns, n \in Nat :
        Holds(d, n)' <=> Holds(d, n) /\ ~(d = c /\ n = held[c])
  <2>1. \A n \in Nat : Holds(c, n)' <=> Holds(c, n) /\ n # held[c]
    BY <1>1, <1>2, <1>4 DEF Holds
  <2>2. \A d \in Conns \ {c}, n \in Nat : Holds(d, n)' <=> Holds(d, n)
    BY <1>1, <1>2 DEF Holds
  <2> QED
    BY <2>1, <2>2
<1>6. \A d \in Conns : Holds(d, held[c]) => d = c
  BY <1>3 DEF PastAccounted
<1>7. held[c] \notin dropped \union wasted
  BY <1>3 DEF PastAccounted
<1>8. Past' = Past /\ 1 .. Past \subseteq Nat
  BY <1>1 DEF Past
<1> QED
  BY <1>1, <1>3, <1>5, <1>6, <1>7, <1>8 DEF PastAccounted

LEMMA PastStaysAccounted ==
  ASSUME Inv, Inv', PastAccounted, [Next]_vars
  PROVE  PastAccounted'
<1>1. ASSUME Push PROVE PastAccounted'
  <2>1. CASE DropOldest
    <3>1. CASE queue = <<>>
      BY <2>1, <3>1, NothingMoves DEF DropOldest, handlerVars, Past
    <3> QED
      BY <2>1, <3>1, DropMoves
  <2>2. CASE PutNoWait
    <3>1. queue' = Append(queue, frame) /\ put' = put + 1
      BY <2>2 DEF PutNoWait, Full, Inv, PushPhase, PutNeverRefused
    <3>2. UNCHANGED <<dropped, wasted, delivered, hpc, held>>
      BY <2>2 DEF PutNoWait, Full, Inv, PutNeverRefused, handlerVars
    <3>3. Past' = Past
      BY <3>1 DEF Past, Inv, TypeOK
    <3> QED
      BY <3>2, <3>3, NothingMoves
  <2>3. CASE SetLatest \/ CheckFull \/ SetMeta
    BY <2>3, NothingMoves DEF SetLatest, CheckFull, SetMeta, handlerVars, Past
  <2> QED
    BY <1>1, <2>1, <2>2, <2>3 DEF Push
<1>2. ASSUME Start \/ Stop \/ UNCHANGED vars PROVE PastAccounted'
  BY <1>2, NothingMoves DEF Start, Stop, vars, producerVars, handlerVars, Past
<1>3. ASSUME NEW c \in Conns, Accept(c) \/ Close(c) \/ GetTimeout(c)
             \/ Continue(c) \/ Reply(c)
      PROVE  PastAccounted'
  <2>1. UNCHANGED <<queue, put, dropped, wasted, delivered>>
    BY <1>3 DEF Accept, OpenStream, OpenSnapshot, Close, GetTimeout, Continue,
       Reply, producerVars
  <2>2. \A d \in Conns : /\ hpc'[d] = "write" <=> hpc[d] = "write"
                         /\ hpc[d] = "write" => held'[d] = held[d]
    BY <1>3 DEF Accept, OpenStream, OpenSnapshot, Close, GetTimeout, Continue,
       Reply, Inv, TypeOK
  <2> QED
    BY <2>1, <2>2, NothingMoves DEF Past
<1> QED
  BY <1>1, <1>2, <1>3, GetMoves, WriteMoves, WasteMoves DEF Next, Handle

\* No frame is shown twice or by two clients, and none vanishes, for any number
\* of clients that come and go while push_frame runs.
THEOREM EveryFrameAccountedOnce == Spec => []AccountedOnce
<1>1. Init => PastAccounted
  BY DEF Init, PastAccounted, Past, Holds
<1>2. Inv /\ PastAccounted => AccountedOnce
  <2> SUFFICES ASSUME Inv, PastAccounted PROVE AccountedOnce
    OBVIOUS
  <2>1. ASSUME NEW c \in Conns, NEW n PROVE c \in Holders(n) <=> Holds(c, n)
    <3>1. DOMAIN delivered[c] = 1 .. Len(delivered[c])
      BY DEF Inv, TypeOK
    <3>2. n \in ToSet(delivered[c]) <=>
            \E i \in 1 .. Len(delivered[c]) : delivered[c][i] = n
      BY <3>1 DEF ToSet
    <3> QED
      BY <3>2 DEF Holders, Holds
  <2>2. ToSet(queue) = (Past + 1) .. put
    <3>1. /\ queue \in Seq(Frames) /\ Len(queue) \in Nat /\ put \in Nat
          /\ DOMAIN queue = 1 .. Len(queue)
      BY DEF Inv, TypeOK
    <3>2. \A i \in 1 .. Len(queue) : queue[i] = Past + i
      BY DEF Inv, QueueIsNewest, Past
    <3>3. \A n \in (Past + 1) .. put :
            n - Past \in 1 .. Len(queue) /\ Past + (n - Past) = n
      BY <3>1 DEF Past
    <3>4. \A i \in 1 .. Len(queue) : Past + i \in (Past + 1) .. put
      BY <3>1 DEF Past
    <3> QED
      BY <3>1, <3>2, <3>3, <3>4 DEF ToSet
  <2>3. Past \in Nat /\ put \in Nat /\ Past <= put
    BY DEF Inv, TypeOK, TakenIsPast, Past
  <2>4. \A n \in 1 .. put : n \in 1 .. Past \/ n \in (Past + 1) .. put
    BY <2>3
  <2>5. \A n \in 1 .. Past : n \notin (Past + 1) .. put
    BY <2>3
  <2>6. \A n \in (Past + 1) .. put : Holders(n) = {}
    BY <2>1, <2>5, HeldIsPast DEF Holders
  <2>7. \A n \in 1 .. put :
          n \in ToSet(queue) \union dropped \union wasted \/ Holders(n) # {}
    BY <2>1, <2>2, <2>4 DEF PastAccounted
  <2>8. \A n \in ToSet(queue) \union dropped \union wasted : Holders(n) = {}
    BY <2>1, <2>2, <2>6 DEF PastAccounted, Holders
  <2>9. \A n \in Frames : \A c, d \in Holders(n) : c = d
    BY <2>1 DEF PastAccounted, Holders, Frames
  <2>10. ToSet(queue) \intersect (dropped \union wasted) = {}
    BY <2>2, <2>5 DEF PastAccounted
  <2> QED
    BY <2>7, <2>8, <2>9, <2>10 DEF AccountedOnce, PastAccounted
<1>3. Inv /\ Inv' /\ PastAccounted /\ [Next]_vars => PastAccounted'
  BY PastStaysAccounted
<1> QED
  BY <1>1, <1>2, <1>3, Invariant, PTL DEF Spec

-----------------------------------------------------------------------------
(* The refinement: WebViewer implements LiveFeed.                          *)

\* What a client is shown last is what its handler wrote last.
LEMMA LastShownChange ==
  ASSUME TypeOK, NEW c \in Conns, NEW n \in Frames,
         delivered' = [delivered EXCEPT ![c] = Append(delivered[c], n)]
  PROVE  LastShown' = [LastShown EXCEPT ![c] = n]
<1>1. delivered[c] \in Seq(Frames)
  BY DEF TypeOK
<1>2. delivered'[c] = Append(delivered[c], n) /\ delivered'[c] # <<>>
  BY <1>1 DEF TypeOK
<1>3. Last(delivered'[c]) = n
  BY <1>1, <1>2 DEF Last
<1>4. \A d \in Conns \ {c} : delivered'[d] = delivered[d]
  BY DEF TypeOK
<1>5. LastShown'[c] = n
  BY <1>2, <1>3 DEF LastShown
<1>6. \A d \in Conns \ {c} : LastShown'[d] = LastShown[d]
  BY <1>4 DEF LastShown
<1>7. /\ LastShown = [d \in Conns |-> LastShown[d]]
      /\ LastShown' = [d \in Conns |-> LastShown'[d]]
  BY DEF LastShown
<1>8. LastShown' = [d \in Conns |-> IF d = c THEN n ELSE LastShown[d]]
  BY <1>5, <1>6, <1>7
<1> QED
  BY <1>7, <1>8

\* A write to a client that reads shows it a published, newer frame.
LEMMA WriteShows ==
  ASSUME Inv, NEW c \in Conns, Write(c)
  PROVE  Feed!Show(c)
<1>1. held[c] \in Frames /\ held[c] <= Past
  BY WebViewerAssumption
     DEF Inv, TypeOK, TakenIsPast, Past, Write, Frames
<1>2. LastShown' = [LastShown EXCEPT ![c] = held[c]]
  BY <1>1, LastShownChange DEF Inv, Write
<1>3. held[c] > LastShown[c]
  <2>1. CASE delivered[c] = <<>>
    BY <1>1, <2>1 DEF LastShown, Frames
  <2>2. CASE delivered[c] # <<>>
    <3>1. delivered[c] \in Seq(Frames) /\ Len(delivered[c]) \in 1 .. Len(delivered[c])
      BY <2>2 DEF Inv, TypeOK
    <3>2. delivered[c][Len(delivered[c])] < held[c]
      BY <3>1 DEF Inv, InOrder, Write
    <3> QED
      BY <1>1, <2>2, <3>1, <3>2 DEF LastShown, Last, Frames
  <2> QED
    BY <2>1, <2>2
<1>4. held[c] \in 1 .. latest
  BY <1>1, WebViewerAssumption DEF Inv, TypeOK, PushPhase, Past, Frames
<1>5. latest' = latest
  BY DEF Write, producerVars
<1> QED
  BY <1>2, <1>3, <1>4, <1>5 DEF Feed!Show

\* Every other step leaves the viewers alone, and only the first step of
\* push_frame publishes.
LEMMA OthersPublish ==
  ASSUME Inv, Next, \A c \in Conns : ~Write(c)
  PROVE  LastShown' = LastShown /\ (latest' = latest \/ latest' = latest + 1)
<1>1. delivered' = delivered
  BY DEF Next, Push, Accept, Handle, SetLatest, CheckFull, DropOldest, PutNoWait,
     SetMeta, Start, Stop, OpenStream, OpenSnapshot, Get, GetTimeout, Continue,
     WriteToGone, Reply, Close, producerVars, handlerVars
<1>2. latest' = latest \/ SetLatest
  BY DEF Next, Push, Accept, Handle, CheckFull, DropOldest, PutNoWait,
     SetMeta, Start, Stop, OpenStream, OpenSnapshot, Get, GetTimeout, Continue,
     WriteToGone, Reply, Close, producerVars, handlerVars
<1>3. SetLatest => latest' = latest + 1
  BY DEF SetLatest, Inv, PushPhase
<1> QED
  BY <1>1, <1>2, <1>3 DEF LastShown

\* web_viewer.py keeps the promise of a live feed, for any number of clients.
THEOREM ImplementsLiveFeed == Spec => LiveFeedSpec
<1>1. Init => Feed!Init
  BY DEF Init, Feed!Init, LastShown
<1>2. Inv /\ [Next]_vars => [Feed!Next]_<<latest, LastShown>>
  <2> SUFFICES ASSUME Inv, [Next]_vars PROVE [Feed!Next]_<<latest, LastShown>>
    OBVIOUS
  <2>1. ASSUME NEW c \in Conns, Write(c) PROVE Feed!Next
    BY <2>1, WriteShows DEF Feed!Next
  <2>2. ASSUME Next, \A c \in Conns : ~Write(c)
        PROVE  [Feed!Next]_<<latest, LastShown>>
    BY <2>2, OthersPublish DEF Feed!Next, Feed!Publish
  <2>3. CASE UNCHANGED vars
    BY <2>3 DEF vars, LastShown
  <2> QED
    BY <2>1, <2>2, <2>3
<1> QED
  BY <1>1, <1>2, Invariant, PTL DEF Spec, LiveFeedSpec, Feed!Spec
=============================================================================
