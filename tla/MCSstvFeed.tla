------------------------------ MODULE MCSstvFeed ------------------------------
(* Small instances of SstvFeed for TLC.                                      *)
EXTENDS SstvFeed

CONSTANTS s1, s2

(* A session alone, with enough blocks to overflow its queue and to reach it  *)
(* again after a gap, or fewer with rejected ones; two sessions that come     *)
(* and go.                                                                   *)
EveryUse ==
    {[sessions |-> {s1}, blocks |-> 4, bad |-> 0],
     [sessions |-> {s1}, blocks |-> 3, bad |-> 1],
     [sessions |-> {s1, s2}, blocks |-> 1, bad |-> 0]}
=============================================================================
