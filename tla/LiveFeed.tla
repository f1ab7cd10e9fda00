------------------------------ MODULE LiveFeed ------------------------------
(***************************************************************************)
(* What both viewers promise of a live picture, stream.py's and            *)
(* web_viewer.py's: frames are published one after the other, and a viewer *)
(* may skip frames but is only ever shown one that has been published and  *)
(* is newer than the one it shows.                                         *)
(***************************************************************************)
EXTENDS Naturals

CONSTANT Viewers

VARIABLES published,  \* how many frames have been published
          shown       \* the number of the frame each viewer shows, 0 for none

Init == published = 0 /\ shown = [v \in Viewers |-> 0]

Publish == published' = published + 1 /\ UNCHANGED shown

Show(v) ==
  /\ \E n \in 1 .. published :
       n > shown[v] /\ shown' = [shown EXCEPT ![v] = n]
  /\ UNCHANGED published

Next == Publish \/ \E v \in Viewers : Show(v)

Spec == Init /\ [][Next]_<<published, shown>>
=============================================================================
