----------------------------- MODULE FrameStore -----------------------------
(***************************************************************************)
(* The globals of stream.py that its threads share: the latest frame, the  *)
(* frame counter and the lock around both, and whether the process runs.   *)
(* A frame is its number in the order of capture; 0 stands for None.       *)
(***************************************************************************)
EXTENDS Naturals, Sequences

VARIABLES
  latest_frame,
  frame_count,
  frame_lock,   \* who holds it: "camera", "server" or "free"
  running       \* "up", "exited", or "crashed" by an uncaught exception

storeVars == <<latest_frame, frame_count>>

StoreInit ==
  /\ latest_frame = 0 /\ frame_count = 0
  /\ frame_lock = "free"
  /\ running = "up"

\* Bug: the lock is taken without waiting for it.
AcquireAtOnce(t) == frame_lock' = t

Acquire(t) == frame_lock = "free" /\ frame_lock' = t
Release == frame_lock' = "free"
=============================================================================
