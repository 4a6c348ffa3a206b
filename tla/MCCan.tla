------------------------------- MODULE MCCan -------------------------------
(* Two channels with queues of one frame, so that the first can overflow   *)
(* while the second has room: frames that come in while a filter moves, or *)
(* two threads that write.                                                 *)
EXTENDS Can

MCIds == {1, 2}
MCBounds == {[frames |-> 3, writes |-> 0, filters |-> 1],
             [frames |-> 0, writes |-> 3, filters |-> 0]}
=============================================================================
