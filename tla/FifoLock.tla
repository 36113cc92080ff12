------------------------------ MODULE FifoLock ------------------------------
(***************************************************************************)
(* What the lock around the live driver promises (DEC-0190): requests are  *)
(* served one at a time, in the order in which they were made.             *)
(***************************************************************************)
EXTENDS Sequences

CONSTANT Thread

VARIABLES
    queue,  \* requests not finished yet, in the order they were made
    held    \* the request at the head has been admitted

Init == queue = <<>> /\ held = FALSE

(* A free lock admits at once, by lock() as by try_lock(). *)
Request(t) == /\ queue' = Append(queue, t)
              /\ held' = (held \/ queue = <<>>)

Admit == queue # <<>> /\ ~held /\ held' = TRUE /\ UNCHANGED queue

Finish == held /\ queue' = Tail(queue) /\ held' = FALSE

Next == (\E t \in Thread : Request(t)) \/ Admit \/ Finish

Spec == Init /\ [][Next]_<<queue, held>>
=============================================================================
