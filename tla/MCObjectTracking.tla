-------------------------- MODULE MCObjectTracking --------------------------
(* Instances of ObjectTracking for TLC: one point outside the video on     *)
(* either side, two inside, so drags of both directions and drags that     *)
(* leave the picture occur.                                                *)
EXTENDS ObjectTracking

MCPoints == -1 .. 2
MCInVideo == {1, 2}

(* new ofApp() zeroes the example's tracker, any other object starts with  *)
(* whatever its memory held                                                *)
UninitialisedFlags == BOOLEAN
ZeroedSels == {[x |-> 0, w |-> 0]}
UninitialisedSels == ZeroedSels \cup {[x |-> 0, w |-> -2]}
=============================================================================
