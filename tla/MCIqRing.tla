------------------------------- MODULE MCIqRing -------------------------------
(* Small instances of IqRing for TLC: each is one way to use the ring.        *)
EXTENDS IqRing

CONSTANTS am, nfm, sstv

Quiet == [reads |-> {}, lagging |-> {}, data |-> {}, centres |-> {1, 2, 4}, made |-> 8,
          events |-> 2, switches |-> 0, busy |-> 0, snaps |-> 0, satResets |-> 0]
Listener == [Quiet EXCEPT !.reads = {am}, !.lagging = {am}, !.busy = 1, !.centres = {1, 4}]
Decoders == [Listener EXCEPT !.reads = {nfm}, !.lagging = {nfm}, !.data = {nfm}]

(* AM filters, the data decoders of NFM, a listener that was moved to this   *)
(* radio from another, an SSTV session, the satellite engine, and a control  *)
(* decoder's snapshots.                                                      *)
EveryUse ==
    {[Listener EXCEPT !.made = 5],
     [Listener EXCEPT !.made = 6, !.events = 1],
     [Decoders EXCEPT !.made = 5],
     [Listener EXCEPT !.made = 3, !.events = 1, !.switches = 1],
     [Quiet EXCEPT !.reads = {sstv}, !.made = 8],
     [Quiet EXCEPT !.made = 7, !.snaps = 3, !.satResets = 1],
     [Quiet EXCEPT !.made = 9, !.events = 3]}

(* What the theorems ask of the sizes holds here.                            *)
ASSUME SizesHold == RingSizes
=============================================================================
