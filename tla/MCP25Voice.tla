----------------------------- MODULE MCP25Voice -----------------------------
(* Small uses of the voice path.  holds: a follow decision while chunks are   *)
(* on their way, and a decoder that may not hear the voice in them; retunes,  *)
(* restarts, moves: the radio is retuned or restarted, also while the         *)
(* receiver's lock is taken; stall: the window grows far beyond its size;     *)
(* long: a first chunk of three blocks.  In these trimming protects what a    *)
(* chunk takes.  cold and sizes: the program's proportions at 2.048 MHz, in   *)
(* blocks of 240 ms: a first chunk and a window of 720 ms, later chunks of at *)
(* most 240, 280 protected; in sizes, a decoder that may not hear the voice.  *)
EXTENDS P25Voice

aCall == [live |-> 2, events |-> 0, restarts |-> FALSE, turns |-> 2, unheard |-> FALSE,
          busy |-> FALSE, roll |-> 4, protect |-> 2, cold |-> 1, hop |-> 1, catchUp |-> 1]
holds == [aCall EXCEPT !.live = 3, !.turns = 1, !.unheard = TRUE]
retunes == [aCall EXCEPT !.live = 3, !.turns = 0, !.events = 1, !.busy = TRUE, !.unheard = TRUE]
restarts == [retunes EXCEPT !.restarts = TRUE, !.unheard = FALSE]
moves == [restarts EXCEPT !.live = 2, !.turns = 1]
stall == [aCall EXCEPT !.turns = 0, !.live = 7, !.roll = 1, !.catchUp = 2]
long == [stall EXCEPT !.cold = 3, !.protect = 3, !.events = 1, !.live = 5]
cold == [aCall EXCEPT !.turns = 1, !.live = 6, !.roll = 3, !.cold = 3, !.protect = 1]
EveryUse == {holds, retunes, restarts, moves, stall, long, cold}

sizes == [cold EXCEPT !.turns = 0, !.unheard = TRUE]
ProgramSizes == {sizes}
=============================================================================
