----------------------------- MODULE Supervisor -----------------------------
(***************************************************************************)
(* The main thread of stream.py (main, connect_and_stream), the camera     *)
(* thread it starts and waits for, and the device that comes and goes.     *)
(*                                                                         *)
(* Every enumeration of the device has a number.  A handle is good while   *)
(* the device is plugged in and has not been enumerated again since        *)
(* usb.core.find returned the handle.  iap2_handshake is one step here, in *)
(* which it may succeed on a good handle, or fail; so is the parsing of    *)
(* the stream up to the next finished frame (module CameraStream has it).  *)
(***************************************************************************)
EXTENDS FrameStore

CONSTANTS MaxPlugs,   \* bound: how often the device is plugged in
          MaxFrames   \* bound: how many frames the camera finishes

ASSUME SupervisorAssumption == MaxPlugs \in Nat \ {0} /\ MaxFrames \in Nat

VARIABLES
  plugged,    \* the device is there
  epoch,      \* the number of its last enumeration
  mpc,        \* where the main thread is
  handle,     \* the enumeration dev was found in
  cam,        \* where the camera thread is; "none" when there is none
  shaken      \* history: the enumeration the last handshake succeeded in

deviceVars == <<plugged, epoch>>
supervisorVars == <<plugged, epoch, mpc, handle, cam, shaken>>

SupervisorInit ==
  /\ plugged \in BOOLEAN
  /\ epoch = IF plugged THEN 1 ELSE 0
  /\ mpc = "find" /\ handle = 0
  /\ cam = "none" /\ shaken = 0

Good == plugged /\ epoch = handle

-----------------------------------------------------------------------------
(* The device (external).                                                  *)

Plug ==
  /\ ~plugged /\ epoch < MaxPlugs
  /\ plugged' = TRUE /\ epoch' = epoch + 1
  /\ UNCHANGED <<mpc, handle, cam, shaken, storeVars, frame_lock, running>>

Unplug ==
  /\ plugged
  /\ plugged' = FALSE
  /\ UNCHANGED <<epoch, mpc, handle, cam, shaken, storeVars, frame_lock, running>>

-----------------------------------------------------------------------------
(* The main thread.  MainStep changes nothing but what its caller names.   *)

MainStep(from, to) ==
  /\ mpc = from /\ mpc' = to
  /\ UNCHANGED <<deviceVars, storeVars, frame_lock>>

\* dev = usb.core.find(...), once a second until it returns one
Find ==
  /\ plugged
  /\ MainStep("find", "reset")
  /\ handle' = epoch
  /\ UNCHANGED <<cam, shaken, running>>

\* dev.product and dev.reset() are outside any try: on a handle that is not
\* good they raise, main catches KeyboardInterrupt only, and the process ends.
Reset ==
  \/ /\ Good
     /\ MainStep("reset", "refind")
     /\ UNCHANGED <<handle, cam, shaken, running>>
  \/ /\ ~Good
     /\ MainStep("reset", "dead")
     /\ running' = "crashed"
     /\ UNCHANGED <<handle, cam, shaken>>

\* The device is looked up again, and a second later once more.
Refind ==
  \/ /\ plugged
     /\ \/ MainStep("refind", "claim")
        \/ MainStep("refind_again", "claim")
     /\ handle' = epoch
     /\ UNCHANGED <<cam, shaken, running>>
  \/ /\ ~plugged
     /\ \/ MainStep("refind", "refind_again")
        \/ MainStep("refind_again", "pause")
     /\ UNCHANGED <<handle, cam, shaken, running>>

\* detach_kernel_driver, set_configuration, claim_interface: every exception
\* is swallowed, so the handshake is tried whatever they did
Claim ==
  /\ MainStep("claim", "handshake")
  /\ UNCHANGED <<handle, cam, shaken, running>>

\* Bug: the result of iap2_handshake is not looked at.
HandshakeUnchecked ==
  /\ MainStep("handshake", "start")
  /\ shaken' \in (IF Good THEN {shaken, handle} ELSE {shaken})
  /\ UNCHANGED <<handle, cam, running>>

\* tx, rx = iap2_handshake(dev)
Handshake ==
  \/ /\ Good
     /\ MainStep("handshake", "start")
     /\ shaken' = handle
     /\ UNCHANGED <<handle, cam, running>>
  \/ /\ MainStep("handshake", "pause")
     /\ UNCHANGED <<handle, cam, shaken, running>>

\* camera_alive.set(); t.start()
StartCamera ==
  /\ MainStep("start", "join")
  /\ cam' = "setup"
  /\ UNCHANGED <<handle, shaken, running>>

\* Bug: the main thread does not wait for the camera thread.
JoinAtOnce ==
  /\ MainStep("join", "pause")
  /\ UNCHANGED <<handle, cam, shaken, running>>

\* t.join() returns; camera_alive.clear(); the interfaces are released
Join ==
  /\ cam = "ended"
  /\ MainStep("join", "pause")
  /\ cam' = "none"
  /\ UNCHANGED <<handle, shaken, running>>

\* Bug: connect_and_stream is called once.
PauseForEver ==
  /\ MainStep("pause", "dead")
  /\ UNCHANGED <<handle, cam, shaken, running>>

\* connect_and_stream has returned: sleep three seconds and call it again
Pause ==
  /\ MainStep("pause", "find")
  /\ UNCHANGED <<handle, cam, shaken, running>>

-----------------------------------------------------------------------------
(* The camera thread.                                                      *)

CameraStep(from, to) ==
  /\ cam = from /\ cam' = to
  /\ UNCHANGED <<deviceVars, mpc, handle, shaken, running>>

\* set_interface_altsetting is outside the try: it raises when the device has
\* gone, and the thread ends.
Setup ==
  /\ CameraStep("setup", IF Good THEN "loop" ELSE "ended")
  /\ UNCHANGED <<storeVars, frame_lock>>

\* The read loop finishes a frame and takes the lock to publish it.  On a
\* handle that is not good every read returns None, "if not d: continue": the
\* thread stays in the loop.
TakeFrame ==
  /\ Good /\ frame_count < MaxFrames
  /\ CameraStep("loop", "store")
  /\ Acquire("camera")
  /\ UNCHANGED storeVars

\* latest_frame = frame
StoreFrame ==
  /\ CameraStep("store", "count")
  /\ latest_frame' = frame_count + 1
  /\ UNCHANGED <<frame_count, frame_lock>>

\* Bug: the frame is counted twice.
CountTwice ==
  /\ CameraStep("count", "loop")
  /\ frame_count' = frame_count + 2
  /\ Release
  /\ UNCHANGED latest_frame

\* frame_count += 1, and the lock is released
CountFrame ==
  /\ CameraStep("count", "loop")
  /\ frame_count' = frame_count + 1
  /\ Release
  /\ UNCHANGED latest_frame

-----------------------------------------------------------------------------
Device == Plug \/ Unplug

Main ==
  \/ Find \/ Reset \/ Refind \/ Claim \/ Handshake
  \/ StartCamera \/ Join \/ Pause

CameraThread == Setup \/ TakeFrame \/ StoreFrame \/ CountFrame
=============================================================================
