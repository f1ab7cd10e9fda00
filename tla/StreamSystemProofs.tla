------------------------- MODULE StreamSystemProofs -------------------------
(***************************************************************************)
(* Theorems about StreamSystem, for every set of connections, every number *)
(* of frames and however often the device is plugged in.                   *)
(*                                                                         *)
(* The inductive invariant is Inv.  Its parts say what the lock protects   *)
(* (LockHolder, Published, ReadTogether), that only a device that has been *)
(* through the handshake has a camera thread (AfterHandshake), and that a  *)
(* connection is queued and served once (Backlog, Shown).                  *)
(***************************************************************************)
EXTENDS StreamSystem, TLAPS

\* TypeOK, one part for each module.
StoreType ==
  /\ frame_count \in 0 .. MaxFrames /\ latest_frame \in 0 .. MaxFrames
  /\ frame_lock \in {"free", "camera", "server"}
  /\ running \in {"up", "exited", "crashed"}

SupervisorType ==
  /\ plugged \in BOOLEAN /\ epoch \in 0 .. MaxPlugs
  /\ mpc \in {"find", "reset", "refind", "refind_again", "claim", "handshake",
              "start", "join", "pause", "stopping", "dead"}
  /\ handle \in 0 .. epoch /\ shaken \in 0 .. epoch
  /\ cam \in {"none", "setup", "loop", "store", "count", "ended"}

ServerType ==
  /\ waiting \in Seq(Conns)
  /\ path \in [Conns -> Paths \union {"none"}]
  /\ listening \in SUBSET Conns
  /\ spc \in {"poll", "reply", "snapshot", "stream", "read_id", "write", "down"}
  /\ serving \in Conns \union {NoConn}
  /\ f \in 0 .. MaxFrames /\ fid \in 0 .. MaxFrames /\ last_id \in 0 .. MaxFrames
  /\ stopping \in BOOLEAN /\ quitting \in BOOLEAN
  /\ shown \in [Conns -> 0 .. MaxFrames]

\* frame_lock is held exactly inside the two "with frame_lock" blocks that
\* take more than one step.
LockHolder ==
  /\ frame_lock = "camera" <=> cam \in {"store", "count"}
  /\ frame_lock = "server" <=> spc = "read_id"

\* Only between its two assignments is latest_frame ahead of frame_count.
Published ==
  /\ latest_frame = IF cam = "count" THEN frame_count + 1 ELSE frame_count
  /\ cam \in {"store", "count"} => frame_count < MaxFrames

\* What the stream handler has read under the lock belongs together.
ReadTogether ==
  /\ last_id <= frame_count
  /\ spc = "read_id" => f = frame_count
  /\ spc = "write" => f = fid /\ f = last_id /\ f > 0

\* The handle the camera thread works with is the one the handshake
\* succeeded on.
AfterHandshake ==
  /\ plugged => epoch > 0
  /\ mpc \in {"start", "join"} \/ cam # "none" => shaken = handle /\ handle # 0

\* A connection that has sent no request, or waits, has been shown nothing; it
\* waits once, and not while it is served.
Backlog ==
  /\ \A c \in Conns : path[c] = "none" => shown[c] = 0
  /\ \A i \in 1 .. Len(waiting) :
       /\ path[waiting[i]] # "none" /\ shown[waiting[i]] = 0
       /\ waiting[i] # serving
  /\ \A i, j \in 1 .. Len(waiting) : waiting[i] = waiting[j] => i = j
  /\ serving # NoConn => path[serving] # "none"
  /\ serving = NoConn <=> spc \in {"poll", "down"}

\* How far the client is that the server serves.
Shown ==
  /\ spc = "snapshot" => shown[serving] = 0
  /\ spc \in {"stream", "read_id"} => shown[serving] <= last_id
  /\ spc = "write" => shown[serving] < f

Inv ==
  /\ StoreType /\ SupervisorType /\ ServerType
  /\ LockHolder /\ Published /\ ReadTogether
  /\ OneCamera /\ AfterHandshake
  /\ Backlog /\ Shown
-----------------------------------------------------------------------------
LEMMA InitInv == Init => Inv
<1> SUFFICES ASSUME Init PROVE Inv
  OBVIOUS
<1> USE SupervisorAssumption DEF Init
<1>1. StoreType /\ SupervisorType
  BY DEF StoreInit, SupervisorInit, StoreType, SupervisorType
<1>2. ServerType
  <2>1. waiting \in Seq(Conns) /\ listening \in SUBSET Conns
    BY DEF ServerInit
  <2>2. path \in [Conns -> Paths \union {"none"}] /\ shown \in [Conns -> 0 .. MaxFrames]
    BY DEF ServerInit
  <2>3. stopping \in BOOLEAN /\ quitting \in BOOLEAN
    BY DEF ServerInit
  <2>4. /\ spc \in {"poll", "reply", "snapshot", "stream", "read_id", "write", "down"}
        /\ serving \in Conns \union {NoConn}
        /\ f \in 0 .. MaxFrames /\ fid \in 0 .. MaxFrames
        /\ last_id \in 0 .. MaxFrames
    BY DEF ServerInit
  <2> QED
    BY <2>1, <2>2, <2>3, <2>4 DEF ServerType
<1>3. LockHolder /\ Published /\ ReadTogether
  BY DEF StoreInit, SupervisorInit, ServerInit, LockHolder, Published, ReadTogether
<1>4. OneCamera /\ AfterHandshake
  BY DEF SupervisorInit, OneCamera, AfterHandshake
<1>5. Backlog /\ Shown
  BY DEF ServerInit, Backlog, Shown
<1> QED
  BY <1>1, <1>2, <1>3, <1>4, <1>5 DEF Inv

\* What only the web server touches, and the shared frames, stay as they are
\* when the device or the main thread moves.
LEMMA ServerApart ==
  ASSUME Inv, UNCHANGED <<serverVars, storeVars>>
  PROVE  ServerType' /\ ReadTogether' /\ Backlog' /\ Shown'
BY DEF Inv, ServerType, ReadTogether, Backlog, Shown, serverVars, localVars,
   storeVars

\* A step of the device keeps the handle and the camera thread.
LEMMA DeviceInv ==
  ASSUME Inv, Device, UNCHANGED serverVars
  PROVE  Inv'
<1> USE SupervisorAssumption
<1>1. /\ UNCHANGED <<mpc, handle, cam, shaken, storeVars, frame_lock, running, spc>>
      /\ \/ plugged' = TRUE /\ epoch < MaxPlugs /\ epoch' = epoch + 1
         \/ plugged' = FALSE /\ epoch' = epoch
  BY DEF Device, Plug, Unplug, serverVars
<1>2. StoreType' /\ LockHolder' /\ Published' /\ OneCamera'
  BY <1>1 DEF Inv, StoreType, LockHolder, Published, OneCamera, storeVars
<1>3. SupervisorType'
  <2>1. plugged' \in BOOLEAN
    BY <1>1
  <2>2. epoch' \in 0 .. MaxPlugs /\ epoch <= epoch'
    BY <1>1 DEF Inv, SupervisorType
  <2> QED
    BY <1>1, <2>1, <2>2 DEF Inv, SupervisorType
<1>4. AfterHandshake'
  <2>1. plugged' => epoch' > 0
    BY <1>1 DEF Inv, SupervisorType
  <2> QED
    BY <1>1, <2>1 DEF Inv, AfterHandshake
<1> QED
  BY <1>1, <1>2, <1>3, <1>4, ServerApart DEF Inv

\* The main thread touches nothing the lock protects, starts a camera thread
\* after a handshake only, and a second one when the first has ended.
LEMMA MainInv ==
  ASSUME Inv, Main, UNCHANGED serverVars
  PROVE  Inv'
<1> USE SupervisorAssumption
<1>1. UNCHANGED <<deviceVars, storeVars, frame_lock, spc>>
  BY DEF Main, MainStep, Find, Reset, Refind, Claim, Handshake, StartCamera,
     Join, Pause, serverVars
<1>2. ASSUME Find \/ Reset \/ Refind \/ Claim \/ Pause
      PROVE  /\ mpc \notin {"start", "join"} /\ mpc' \notin {"start", "join"}
             /\ mpc # "stopping"
             /\ mpc' \in {"find", "reset", "refind", "refind_again", "claim",
                          "handshake", "pause", "dead"}
             /\ handle' \in {handle, epoch} /\ UNCHANGED <<cam, shaken>>
             /\ running' \in {running, "crashed"}
  BY <1>2 DEF MainStep, Find, Reset, Refind, Claim, Pause
<1>3. ASSUME Find \/ Reset \/ Refind \/ Claim \/ Pause
      PROVE  StoreType' /\ SupervisorType' /\ OneCamera' /\ AfterHandshake'
  BY <1>1, <1>2, <1>3 DEF Inv, StoreType, SupervisorType, OneCamera,
     AfterHandshake, deviceVars, storeVars
<1>4. ASSUME Handshake
      PROVE  StoreType' /\ SupervisorType' /\ OneCamera' /\ AfterHandshake'
  BY <1>1, <1>4 DEF Handshake, MainStep, Good, Inv, StoreType, SupervisorType,
     OneCamera, AfterHandshake, deviceVars, storeVars
<1>5. ASSUME StartCamera \/ Join
      PROVE  StoreType' /\ SupervisorType' /\ OneCamera' /\ AfterHandshake'
  BY <1>1, <1>5 DEF StartCamera, Join, MainStep, Inv, StoreType, SupervisorType,
     OneCamera, AfterHandshake, deviceVars, storeVars
<1>6. \/ cam' = cam
      \/ cam \in {"none", "ended"} /\ cam' \in {"none", "setup"}
  BY DEF Main, MainStep, Find, Reset, Refind, Claim, Handshake,
     StartCamera, Join, Pause, Inv, OneCamera, SupervisorType
<1>7. LockHolder' /\ Published'
  BY <1>1, <1>6 DEF Inv, LockHolder, Published, storeVars
<1> QED
  BY <1>1, <1>3, <1>4, <1>5, <1>7, ServerApart DEF Main, Inv

\* The camera thread publishes inside the lock.
LEMMA CameraInv ==
  ASSUME Inv, CameraThread, UNCHANGED serverVars
  PROVE  Inv'
<1>1. UNCHANGED <<plugged, epoch, mpc, handle, shaken, running, spc, f, fid, last_id>>
  BY DEF CameraThread, CameraStep, Setup, TakeFrame, StoreFrame, CountFrame,
     deviceVars, serverVars
<1>2. ServerType' /\ Backlog' /\ Shown'
  BY DEF Inv, ServerType, Backlog, Shown, serverVars, localVars
<1>3. CASE Setup
  BY <1>1, <1>2, <1>3 DEF Setup, CameraStep, Inv, StoreType, SupervisorType,
     LockHolder, Published, ReadTogether, OneCamera, AfterHandshake, storeVars
<1>4. CASE TakeFrame
  BY <1>1, <1>2, <1>4 DEF TakeFrame, CameraStep, Acquire, Inv, StoreType,
     SupervisorType, LockHolder, Published, ReadTogether, OneCamera,
     AfterHandshake, storeVars
<1>5. CASE StoreFrame
  BY <1>1, <1>2, <1>5, SupervisorAssumption
     DEF StoreFrame, CameraStep, Inv, StoreType, SupervisorType, LockHolder,
         Published, ReadTogether, OneCamera, AfterHandshake
<1>6. CASE CountFrame
  <2>1. /\ cam = "count" /\ cam' = "loop" /\ frame_lock' = "free"
        /\ frame_count' = frame_count + 1 /\ latest_frame' = latest_frame
    BY <1>6 DEF CountFrame, CameraStep, Release
  <2>2. StoreType' /\ SupervisorType' /\ Published'
    BY <1>1, <2>1, SupervisorAssumption
       DEF Inv, StoreType, SupervisorType, Published
  <2>3. spc # "read_id" /\ LockHolder' /\ ReadTogether'
    BY <1>1, <2>1 DEF Inv, StoreType, ServerType, LockHolder, ReadTogether
  <2>4. OneCamera' /\ AfterHandshake'
    BY <1>1, <2>1 DEF Inv, OneCamera, AfterHandshake
  <2> QED
    BY <1>2, <2>2, <2>3, <2>4 DEF Inv
<1> QED
  BY <1>3, <1>4, <1>5, <1>6 DEF CameraThread

-----------------------------------------------------------------------------
\* Appending to the backlog a connection that has just sent its request, and
\* taking the first one from it, keep the others in place.
LEMMA BacklogGrows ==
  ASSUME waiting \in Seq(Conns), NEW c \in Conns, waiting' = Append(waiting, c)
  PROVE  /\ waiting' \in Seq(Conns)
         /\ Len(waiting') = Len(waiting) + 1
         /\ waiting'[Len(waiting) + 1] = c
         /\ \A i \in 1 .. Len(waiting) : waiting'[i] = waiting[i]
  OBVIOUS

LEMMA BacklogShrinks ==
  ASSUME waiting \in Seq(Conns), waiting # <<>>, waiting' = Tail(waiting)
  PROVE  /\ waiting' \in Seq(Conns)
         /\ Len(waiting) \in Nat \ {0}
         /\ Len(waiting') = Len(waiting) - 1
         /\ Head(waiting) = waiting[1] /\ Head(waiting) \in Conns
         /\ \A i \in 1 .. Len(waiting') : waiting'[i] = waiting[i + 1]
  OBVIOUS

\* What the browser does reaches the backlog and the open connections only.
LEMMA BrowserInv ==
  ASSUME Inv, Browser, UNCHANGED supervisorVars
  PROVE  Inv'
<1>1. UNCHANGED <<spc, serving, localVars, stopping, quitting, shown, storeVars,
                  frame_lock, running>>
  BY DEF Browser, Request, Leave
<1>2. StoreType' /\ SupervisorType' /\ LockHolder' /\ Published'
      /\ ReadTogether' /\ OneCamera' /\ AfterHandshake'
  BY <1>1 DEF Inv, StoreType, SupervisorType, LockHolder, Published, ReadTogether, OneCamera,
     AfterHandshake, supervisorVars, storeVars, localVars
<1>3. Shown'
  BY <1>1 DEF Inv, Shown, localVars
<1>4. ASSUME NEW c \in Conns, Leave(c) PROVE ServerType' /\ Backlog'
  <2>1. UNCHANGED <<waiting, path>> /\ listening' \in SUBSET Conns
    BY <1>4 DEF Leave, Inv, ServerType
  <2> QED
    BY <1>1, <2>1 DEF Inv, ServerType, Backlog, localVars
<1>5. ASSUME NEW c \in Conns, NEW p \in Paths, Request(c, p)
      PROVE  ServerType' /\ Backlog'
  <2>1. /\ waiting \in Seq(Conns)
        /\ path[c] = "none" /\ path' = [path EXCEPT ![c] = p] /\ p # "none"
        /\ waiting' = Append(waiting, c)
        /\ listening' \in SUBSET Conns
    BY <1>5 DEF Request, Inv, ServerType, Paths
  <2>2. ServerType'
    BY <1>1, <2>1, BacklogGrows DEF Inv, ServerType, Paths, localVars
  <2>3. \A d \in Conns : path'[d] = "none" => path[d] = "none"
    BY <2>1 DEF Inv, ServerType
  <2>4. \A i \in 1 .. Len(waiting) : waiting[i] \in Conns /\ waiting[i] # c
    BY <2>1 DEF Inv, Backlog
  <2>5. serving # c /\ shown[c] = 0
    BY <2>1, ServerAssumption DEF Inv, Backlog
  <2>6. Backlog'
    <3>1. \A d \in Conns : path'[d] = "none" => shown'[d] = 0
      BY <1>1, <2>3 DEF Inv, Backlog
    <3>2. ASSUME NEW i \in 1 .. Len(waiting')
          PROVE  /\ path'[waiting'[i]] # "none" /\ shown'[waiting'[i]] = 0
                 /\ waiting'[i] # serving'
      <4>1. CASE i \in 1 .. Len(waiting)
        BY <1>1, <2>1, <2>3, <2>4, <4>1, BacklogGrows DEF Inv, Backlog
      <4>2. CASE i = Len(waiting) + 1
        BY <1>1, <2>1, <2>5, <4>2, BacklogGrows DEF Inv, ServerType
      <4> QED
        BY <2>1, <4>1, <4>2, BacklogGrows
    <3>3. ASSUME NEW i \in 1 .. Len(waiting'), NEW j \in 1 .. Len(waiting'),
                 waiting'[i] = waiting'[j]
          PROVE  i = j
      BY <2>1, <2>4, <3>3, BacklogGrows DEF Inv, Backlog
    <3>4. /\ serving' # NoConn => path'[serving'] # "none"
          /\ serving' = NoConn <=> spc' \in {"poll", "down"}
      BY <1>1, <2>3 DEF Inv, ServerType, Backlog
    <3> QED
      BY <3>1, <3>2, <3>3, <3>4 DEF Backlog
  <2> QED
    BY <2>2, <2>6
<1> QED
  BY <1>2, <1>3, <1>4, <1>5 DEF Browser, Inv

\* What only the supervisor touches, and the shared frames, stay as they are
\* when the server thread moves.
LEMMA SupervisorApart ==
  ASSUME Inv, UNCHANGED <<supervisorVars, storeVars, running>>,
         frame_lock' \in {"free", "camera", "server"}
  PROVE  /\ StoreType' /\ SupervisorType'
         /\ Published' /\ OneCamera' /\ AfterHandshake'
BY DEF Inv, StoreType, SupervisorType, Published, OneCamera, AfterHandshake,
   supervisorVars, storeVars

\* The next connection leaves the backlog, and has been shown nothing.
LEMMA AcceptInv ==
  ASSUME Inv, Accept, UNCHANGED supervisorVars
  PROVE  Inv'
<1>1. /\ UNCHANGED <<path, listening, f, fid, stopping, quitting, shown,
                     storeVars, frame_lock, running, supervisorVars>>
      /\ spc = "poll" /\ spc' \in {"stream", "snapshot", "reply"}
      /\ last_id' = 0
      /\ waiting # <<>> /\ waiting' = Tail(waiting) /\ serving' = Head(waiting)
  BY DEF Accept, Routes
<1>2. waiting \in Seq(Conns) /\ serving' \in Conns
  BY <1>1, BacklogShrinks DEF Inv, ServerType
<1>3. ServerType'
  <2>1. waiting' \in Seq(Conns)
    BY <1>1, <1>2, BacklogShrinks
  <2> QED
    BY <1>1, <1>2, <2>1, SupervisorAssumption DEF Inv, ServerType
<1>4. LockHolder' /\ ReadTogether'
  BY <1>1 DEF Inv, StoreType, LockHolder, ReadTogether, supervisorVars, storeVars
<1>5. path[serving'] # "none" /\ shown[serving'] = 0
  BY <1>1, <1>2, BacklogShrinks DEF Inv, Backlog
<1>6. Backlog'
  <2>1. ASSUME NEW i \in 1 .. Len(waiting')
        PROVE  /\ path[waiting'[i]] # "none" /\ shown[waiting'[i]] = 0
               /\ waiting'[i] # serving'
    <3>1. /\ i + 1 \in 1 .. Len(waiting) /\ 1 \in 1 .. Len(waiting)
          /\ waiting'[i] = waiting[i + 1] /\ serving' = waiting[1]
      BY <1>1, <1>2, BacklogShrinks
    <3> QED
      BY <3>1 DEF Inv, Backlog
  <2>2. ASSUME NEW i \in 1 .. Len(waiting'), NEW j \in 1 .. Len(waiting'),
               waiting'[i] = waiting'[j]
        PROVE  i = j
    <3>1. /\ i + 1 \in 1 .. Len(waiting) /\ waiting'[i] = waiting[i + 1]
          /\ j + 1 \in 1 .. Len(waiting) /\ waiting'[j] = waiting[j + 1]
      BY <1>1, <1>2, BacklogShrinks
    <3>2. i + 1 = j + 1
      BY <2>2, <3>1 DEF Inv, Backlog
    <3> QED
      BY <3>2
  <2>3. serving' # NoConn /\ spc' \notin {"poll", "down"}
    BY <1>1, <1>2, ServerAssumption
  <2> QED
    BY <1>1, <1>5, <2>1, <2>2, <2>3 DEF Inv, Backlog
<1>7. Shown'
  BY <1>1, <1>5 DEF Shown
<1> QED
  BY <1>1, <1>3, <1>4, <1>6, <1>7, SupervisorApart DEF Inv, StoreType

\* A handler that has answered leaves the client it served behind.
LEMMA BacklogKept ==
  ASSUME Inv, UNCHANGED <<waiting, path>>,
         \/ serving' = serving /\ spc \notin {"poll", "down"}
                               /\ spc' \notin {"poll", "down"}
         \/ serving' = NoConn /\ spc' \in {"poll", "down"},
         \A c \in Conns : c = serving \/ shown'[c] = shown[c]
  PROVE  Backlog'
<1>1. \A i \in 1 .. Len(waiting) : waiting[i] \in Conns
  BY DEF Inv, ServerType
<1>2. \A i \in 1 .. Len(waiting) :
        /\ path[waiting[i]] # "none" /\ shown[waiting[i]] = 0
        /\ waiting[i] # serving
  BY DEF Inv, Backlog
<1>3. \A i \in 1 .. Len(waiting) :
        shown'[waiting[i]] = 0 /\ waiting[i] # serving'
  BY <1>1, <1>2, ServerAssumption
<1>4. \A c \in Conns : path[c] = "none" => shown'[c] = 0
  BY ServerAssumption DEF Inv, Backlog
<1> QED
  BY <1>2, <1>3, <1>4 DEF Inv, Backlog

\* The connection the server is busy with is one of the browser's.
LEMMA ServingConn ==
  ASSUME Inv, spc \notin {"poll", "down"}
  PROVE  serving \in Conns
BY DEF Inv, ServerType, Backlog

\* The one-step answers, and the end of serve_forever.
LEMMA AnswerInv ==
  ASSUME Inv, Reply \/ Snapshot \/ Down, UNCHANGED supervisorVars
  PROVE  Inv'
<1>1. /\ UNCHANGED <<waiting, path, listening, f, fid, last_id, stopping,
                     storeVars, frame_lock, running, supervisorVars>>
      /\ spc \in {"reply", "snapshot", "poll"} /\ spc' \in {"poll", "down"}
  BY DEF Reply, Snapshot, Down, localVars
<1>2. /\ serving' = NoConn /\ quitting' \in BOOLEAN
      /\ \A c \in Conns : c = serving \/ shown'[c] = shown[c]
      /\ shown' \in [Conns -> 0 .. MaxFrames]
  <2>1. CASE Reply
    BY <2>1 DEF Reply, Inv, ServerType
  <2>2. CASE Snapshot
    BY <2>2 DEF Snapshot, Inv, ServerType, StoreType
  <2>3. CASE Down
    BY <2>3 DEF Down, Inv, ServerType, Backlog
  <2> QED
    BY <2>1, <2>2, <2>3
<1>3. ServerType'
  BY <1>1, <1>2 DEF Inv, ServerType
<1>4. LockHolder' /\ ReadTogether' /\ Shown'
  BY <1>1 DEF Inv, StoreType, LockHolder, ReadTogether, Shown, supervisorVars, storeVars
<1>5. Backlog'
  BY <1>1, <1>2, BacklogKept
<1> QED
  BY <1>1, <1>3, <1>4, <1>5, SupervisorApart DEF Inv, StoreType

\* The stream handler reads the frame and its number under the lock, and writes
\* a frame with a new number only.
LEMMA StreamInv ==
  ASSUME Inv, StreamLock \/ StreamRead \/ StreamWrite, UNCHANGED supervisorVars
  PROVE  Inv'
<1>1. /\ UNCHANGED <<waiting, path, listening, stopping, quitting, storeVars,
                     running, supervisorVars, cam>>
      /\ spc \in {"stream", "read_id", "write"}
  BY DEF StreamLock, StreamRead, StreamWrite, localVars, supervisorVars
<1>2. serving \in Conns
  BY <1>1, ServingConn
<1>3. CASE StreamLock
  <2>1. /\ frame_lock = "free" /\ frame_lock' = "server"
        /\ f' = latest_frame /\ spc = "stream" /\ spc' = "read_id"
        /\ UNCHANGED <<serving, fid, last_id, shown>>
    BY <1>3 DEF StreamLock, Acquire
  <2>2. latest_frame = frame_count
    BY <2>1 DEF Inv, LockHolder, Published
  <2>3. LockHolder' /\ ReadTogether' /\ Shown'
    BY <1>1, <2>1, <2>2 DEF Inv, LockHolder, ReadTogether, Shown, storeVars
  <2>4. ServerType'
    BY <1>1, <2>1 DEF Inv, StoreType, ServerType
  <2>5. Backlog'
    BY <1>1, <2>1, BacklogKept
  <2> QED
    BY <1>1, <2>1, <2>3, <2>4, <2>5, SupervisorApart DEF Inv
<1>4. CASE StreamRead
  <2>1. /\ frame_lock' = "free" /\ fid' = frame_count
        /\ spc = "read_id"
        /\ \/ /\ frame_count # last_id
              /\ spc' = "write" /\ last_id' = frame_count
           \/ spc' = "stream" /\ last_id' = last_id
        /\ UNCHANGED <<serving, f, shown>>
    BY <1>4 DEF StreamRead, Release
  <2>2. f = frame_count /\ last_id <= frame_count /\ shown[serving] <= last_id
    BY <2>1 DEF Inv, ReadTogether, Shown
  <2>3. frame_count \in Nat /\ last_id \in Nat /\ shown[serving] \in Nat
    BY <1>2 DEF Inv, StoreType, ServerType
  <2>4. LockHolder' /\ ReadTogether'
    BY <1>1, <2>1, <2>2, <2>3 DEF Inv, LockHolder, ReadTogether, storeVars
  <2>5. Shown'
    BY <1>1, <2>1, <2>2, <2>3 DEF Inv, Shown
  <2>6. ServerType'
    BY <1>1, <2>1 DEF Inv, StoreType, ServerType
  <2>7. Backlog'
    BY <1>1, <2>1, BacklogKept
  <2> QED
    BY <1>1, <2>1, <2>4, <2>5, <2>6, <2>7, SupervisorApart DEF Inv
<1>5. CASE StreamWrite
  <2>1. /\ UNCHANGED <<f, fid, last_id, frame_lock>>
        /\ spc = "write"
        /\ \/ spc' = "stream" /\ serving' = serving
           \/ spc' = "poll" /\ serving' = NoConn
        /\ shown' \in {shown, [shown EXCEPT ![serving] = f]}
    BY <1>5 DEF StreamWrite, localVars
  <2>2. f = last_id /\ shown[serving] < f /\ f \in 0 .. MaxFrames
    BY <2>1 DEF Inv, ServerType, ReadTogether, Shown
  <2>3. /\ shown' \in [Conns -> 0 .. MaxFrames]
        /\ shown'[serving] \in {shown[serving], f}
        /\ \A c \in Conns : c = serving \/ shown'[c] = shown[c]
    BY <1>2, <2>1, <2>2 DEF Inv, ServerType
  <2>4. LockHolder' /\ ReadTogether'
    BY <1>1, <2>1 DEF Inv, LockHolder, ReadTogether, storeVars
  <2>5. Shown'
    BY <1>2, <2>1, <2>2, <2>3 DEF Inv, ServerType, Shown
  <2>6. ServerType'
    BY <1>1, <2>1, <2>3 DEF Inv, ServerType
  <2>7. Backlog'
    BY <1>1, <2>1, <2>3, BacklogKept
  <2>8. frame_lock' \in {"free", "camera", "server"}
    BY <2>1 DEF Inv, StoreType
  <2> QED
    BY <1>1, <2>4, <2>5, <2>6, <2>7, <2>8, SupervisorApart DEF Inv
<1> QED
  BY <1>3, <1>4, <1>5

\* Ctrl-C and the end of the process.
LEMMA EndInv ==
  ASSUME Inv, QuitStep \/ Interrupt \/ ShutDown
  PROVE  Inv'
<1>1. /\ UNCHANGED <<storeVars, frame_lock, plugged, epoch, handle, cam, shaken,
                     waiting, path, listening, spc, serving, f, fid, last_id,
                     quitting, shown>>
      /\ running' \in {running, "exited"} /\ stopping' \in {stopping, TRUE}
      /\ mpc' \in {mpc, "stopping"}
  BY DEF QuitStep, Exit, Interrupt, ShutDown, supervisorVars, serverVars, localVars
<1>2. StoreType' /\ SupervisorType'
  BY <1>1 DEF Inv, StoreType, SupervisorType, storeVars
<1>3. ServerType'
  BY <1>1 DEF Inv, ServerType
<1>4. LockHolder' /\ Published' /\ ReadTogether' /\ OneCamera' /\ AfterHandshake'
  BY <1>1 DEF Inv, LockHolder, Published, ReadTogether, OneCamera,
     AfterHandshake, storeVars
<1>5. Backlog' /\ Shown'
  BY <1>1 DEF Inv, Backlog, Shown
<1> QED
  BY <1>2, <1>3, <1>4, <1>5 DEF Inv

LEMMA NextInv == Inv /\ [Next]_vars => Inv'
<1> SUFFICES ASSUME Inv, [Next]_vars PROVE Inv'
  OBVIOUS
<1>1. CASE SupervisorStep
  BY <1>1, DeviceInv, MainInv, CameraInv DEF SupervisorStep
<1>2. CASE ServerStep
  BY <1>2, BrowserInv, AcceptInv, AnswerInv, StreamInv DEF ServerStep, Server
<1>3. CASE QuitStep \/ Interrupt \/ ShutDown
  BY <1>3, EndInv
<1>4. CASE UNCHANGED vars
  <2>1. UNCHANGED <<supervisorVars, storeVars, running, frame_lock, serverVars>>
    BY <1>4 DEF vars
  <2>2. LockHolder'
    BY <2>1 DEF Inv, LockHolder, supervisorVars, serverVars
  <2> QED
    BY <2>1, <2>2, ServerApart, SupervisorApart DEF Inv, StoreType
<1> QED
  BY <1>1, <1>2, <1>3, <1>4 DEF Next

-----------------------------------------------------------------------------
\* The invariant holds of every reachable state of stream.py's three threads.
THEOREM Invariant == Spec => []Inv
<1> QED
  BY InitInv, NextInv, PTL DEF Spec

\* The globals, and the variables of the threads of stream.py, stay in their
\* types; latest_frame is never more than one frame ahead of frame_count.
THEOREM TypeCorrect == Spec => []TypeOK
<1>1. Inv => TypeOK
  <2> SUFFICES ASSUME Inv PROVE TypeOK
    OBVIOUS
  <2>1. latest_frame \in frame_count .. frame_count + 1 /\ latest_frame <= MaxFrames
    BY DEF Inv, StoreType, Published
  <2> QED
    BY <2>1 DEF Inv, StoreType, SupervisorType, ServerType, TypeOK
<1> QED
  BY <1>1, Invariant, PTL

\* The stream handler never pairs one frame with the number of another,
\* however the camera thread's two assignments fall.
THEOREM NeverTorn == Spec => []NoTornRead
<1>1. Inv => NoTornRead
  BY DEF Inv, ReadTogether, NoTornRead
<1> QED
  BY <1>1, Invariant, PTL

\* A camera thread lives only while the main thread waits in join(), or has
\* been interrupted there.
THEOREM OneCameraThread == Spec => []OneCamera
<1>1. Inv => OneCamera
  BY DEF Inv
<1> QED
  BY <1>1, Invariant, PTL

\* latest_frame is assigned only after a handshake on the handle in use.
THEOREM PublishedAfterHandshake == Spec => PublishesAfterHandshake
<1>1. ASSUME Inv, [Next]_vars, latest_frame' # latest_frame
      PROVE  shaken = handle /\ handle # 0
  <2>1. StoreFrame
    BY <1>1 DEF Next, SupervisorStep, ServerStep, QuitStep, Exit, Interrupt,
       ShutDown, Device, Plug, Unplug, Main, MainStep, Find, Reset, Refind,
       Claim, Handshake, StartCamera, Join, Pause, CameraThread, CameraStep,
       Setup, TakeFrame, CountFrame, Browser, Request, Leave, Server, Accept,
       Reply, Snapshot, StreamLock, StreamRead, StreamWrite, Down, vars, storeVars
  <2>2. cam = "store"
    BY <2>1 DEF StoreFrame, CameraStep
  <2> QED
    BY <1>1, <2>2 DEF Inv, AfterHandshake
<1>2. Inv /\ [Next]_vars =>
        [latest_frame' # latest_frame => shaken = handle /\ handle # 0]_vars
  BY <1>1
<1> QED
  BY <1>2, Invariant, PTL DEF Spec, PublishesAfterHandshake

-----------------------------------------------------------------------------
(* The refinement: StreamSystem implements LiveFeed.                       *)

\* A snapshot reads the lock's two globals when they agree, and its connection
\* has been shown nothing: the client is shown a published frame, or, before
\* the first one, nothing.
LEMMA SnapshotShows ==
  ASSUME Inv, Snapshot
  PROVE  UNCHANGED <<frame_count, shown>> \/ Feed!Show(serving)
<1>1. /\ spc = "snapshot" /\ frame_lock = "free" /\ frame_count' = frame_count
      /\ shown' \in {shown, [shown EXCEPT ![serving] = latest_frame]}
  BY DEF Snapshot, storeVars
<1>2. serving \in Conns /\ shown[serving] = 0
  BY <1>1, ServingConn DEF Inv, Shown
<1>3. latest_frame = frame_count /\ frame_count \in Nat
  BY <1>1, SupervisorAssumption DEF Inv, LockHolder, Published, StoreType
<1>4. CASE frame_count = 0
  BY <1>1, <1>2, <1>3, <1>4 DEF Inv, ServerType
<1>5. CASE frame_count # 0
  <2>1. frame_count \in 1 .. frame_count /\ frame_count > shown[serving]
    BY <1>2, <1>3, <1>5
  <2> QED
    BY <1>1, <1>3, <2>1 DEF Feed!Show
<1> QED
  BY <1>4, <1>5

\* A write of the stream handler shows its client a published, newer frame.
LEMMA StreamShows ==
  ASSUME Inv, StreamWrite
  PROVE  UNCHANGED <<frame_count, shown>> \/ Feed!Show(serving)
<1>1. /\ spc = "write" /\ frame_count' = frame_count
      /\ shown' \in {shown, [shown EXCEPT ![serving] = f]}
  BY DEF StreamWrite, storeVars
<1>2. f \in 1 .. frame_count /\ f > shown[serving]
  <2>1. serving \in Conns
    BY <1>1, ServingConn
  <2>2. f \in Nat /\ shown[serving] \in Nat /\ frame_count \in Nat
    BY <2>1, SupervisorAssumption DEF Inv, StoreType, ServerType
  <2>3. f = last_id /\ f > 0 /\ last_id <= frame_count /\ shown[serving] < f
    BY <1>1 DEF Inv, ReadTogether, Shown
  <2> QED
    BY <2>2, <2>3
<1> QED
  BY <1>1, <1>2 DEF Feed!Show

\* Every other step leaves the clients alone, and only the end of the camera's
\* "with frame_lock" block publishes.
LEMMA OthersPublish ==
  ASSUME Next, ~Snapshot, ~StreamWrite
  PROVE  shown' = shown /\ (frame_count' = frame_count \/ frame_count' = frame_count + 1)
<1>1. ASSUME SupervisorStep
      PROVE  /\ shown' = shown
             /\ frame_count' = frame_count \/ frame_count' = frame_count + 1
  BY <1>1 DEF SupervisorStep, Device, Plug, Unplug, Main, MainStep, Find, Reset,
     Refind, Claim, Handshake, StartCamera, Join, Pause, CameraThread,
     CameraStep, Setup, TakeFrame, StoreFrame, CountFrame, serverVars, storeVars
<1>2. ASSUME ServerStep PROVE UNCHANGED <<frame_count, shown>>
  BY <1>2 DEF ServerStep, Browser, Request, Leave, Server, Accept, Reply,
     StreamLock, StreamRead, Down, storeVars
<1>3. ASSUME QuitStep \/ Interrupt \/ ShutDown PROVE UNCHANGED <<frame_count, shown>>
  BY <1>3 DEF QuitStep, Exit, Interrupt, ShutDown, serverVars, storeVars
<1> QED
  BY <1>1, <1>2, <1>3 DEF Next

\* stream.py keeps the promise of a live feed: each client is shown published
\* frames only, each one newer than the last.
THEOREM ImplementsLiveFeed == Spec => LiveFeedSpec
<1>1. Init => Feed!Init
  BY DEF Init, StoreInit, ServerInit, Feed!Init
<1>2. Inv /\ [Next]_vars => [Feed!Next]_<<frame_count, shown>>
  <2> SUFFICES ASSUME Inv, [Next]_vars PROVE [Feed!Next]_<<frame_count, shown>>
    OBVIOUS
  <2>1. CASE Snapshot
    <3>1. serving \in Conns
      BY <2>1, ServingConn DEF Snapshot
    <3> QED
      BY <2>1, <3>1, SnapshotShows DEF Feed!Next
  <2>2. CASE StreamWrite
    <3>1. serving \in Conns
      BY <2>2, ServingConn DEF StreamWrite
    <3> QED
      BY <2>2, <3>1, StreamShows DEF Feed!Next
  <2>3. CASE Next /\ ~Snapshot /\ ~StreamWrite
    BY <2>3, OthersPublish DEF Feed!Next, Feed!Publish
  <2>4. CASE UNCHANGED vars
    BY <2>4 DEF vars, storeVars, serverVars
  <2> QED
    BY <2>1, <2>2, <2>3, <2>4
<1> QED
  BY <1>1, <1>2, Invariant, PTL DEF Spec, LiveFeedSpec, Feed!Spec
=============================================================================
