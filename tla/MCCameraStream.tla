--------------------------- MODULE MCCameraStream ---------------------------
(***************************************************************************)
(* CameraStream with small sizes, and what a comment of stream.py says of  *)
(* the frames it publishes.                                                *)
(***************************************************************************)
EXTENDS CameraStream

\* A fragment may end in padding, or hold what looks like the header of a
\* packet that is too long.
MCBodies == {<<0>>, <<187, 170, 7, 255>>}

\* stream.py:196, "Flush previous frame if complete": every frame published is
\* a complete picture of the device's.
FlushedWhenComplete ==
  \A f \in ToSet(frames) : \E k \in 1 .. Len(pics) : f = Strip(pics[k])
=============================================================================
