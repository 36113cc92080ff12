------------------------------ MODULE SatcomLog ------------------------------
(***************************************************************************)
(* The satellite engine's event log (src/SatcomAsyncLog.cpp): producers    *)
(* put events into a ring with try-lock admission, a writer thread takes   *)
(* them out and writes the file.  A full ring drops its oldest event.      *)
(* The engine's destructor stops the log after it has joined its worker.   *)
(*                                                                         *)
(* Abstracted: an event is its sequence number; writing a line, counting   *)
(* it and showing it in the user interface are one step of the writer.     *)
(***************************************************************************)
EXTENDS Integers, Sequences

CONSTANTS
    Producer,     \* the engine's worker and the user-interface thread
    Writer, None,
    Capacity,     \* slots of the ring, capacity_
    MaxPush       \* bound on the calls of tryPush

ASSUME LogAssumption ==
    /\ Capacity \in Nat /\ Capacity > 1 /\ MaxPush \in Nat
    /\ Writer \notin Producer /\ None \notin Producer \cup {Writer}

VARIABLES
    head, tail, ring,    \* next write, next read, the slots
    seq, dropped,        \* numbers given, events refused or overwritten
    lock,                \* ringMutex_
    run,                 \* run_
    pc, mine,            \* each producer in tryPush, the number it was given
    writer, hand,        \* where the writer is, the event it has taken
    written,             \* the numbers written, in order
    pushed               \* calls of tryPush

vars == <<head, tail, ring, seq, dropped, lock, run, pc, mine, writer, hand, written, pushed>>

Slot == 0..(Capacity - 1)

Init ==
    /\ head = 0 /\ tail = 0 /\ ring = [i \in Slot |-> 0]
    /\ seq = 0 /\ dropped = 0 /\ lock = None /\ run = TRUE
    /\ pc = [p \in Producer |-> "idle"] /\ mine = [p \in Producer |-> 0]
    /\ writer = "check" /\ hand = 0 /\ written = <<>> /\ pushed = 0

(* (i + 1) % capacity_ for an index below capacity_.                         *)
Succ(i) == IF i + 1 = Capacity THEN 0 ELSE i + 1

-----------------------------------------------------------------------------
tryPush_Unlocked(p) ==
    /\ pc[p] = "idle" /\ run /\ pushed < MaxPush
    /\ pushed' = pushed + 1
    /\ pc' = [pc EXCEPT ![p] = "number"]
    /\ UNCHANGED <<head, tail, ring, seq, dropped, lock, run, mine, writer, hand, written>>

(* Admission: a producer that does not get the lock at once drops its event. *)
tryPush(p) ==
    /\ pc[p] = "idle" /\ run /\ pushed < MaxPush
    /\ pushed' = pushed + 1
    /\ IF lock = None
       THEN /\ lock' = p /\ pc' = [pc EXCEPT ![p] = "number"]
            /\ UNCHANGED dropped
       ELSE /\ dropped' = dropped + 1
            /\ UNCHANGED <<lock, pc>>
    /\ UNCHANGED <<head, tail, ring, seq, run, mine, writer, hand, written>>

Number(p) ==
    /\ pc[p] = "number"
    /\ seq' = seq + 1
    /\ mine' = [mine EXCEPT ![p] = seq + 1]
    /\ pc' = [pc EXCEPT ![p] = "store"]
    /\ UNCHANGED <<head, tail, ring, dropped, lock, run, writer, hand, written, pushed>>

Store_Uncounted(p) ==
    /\ pc[p] = "store"
    /\ tail' = IF Succ(head) = tail THEN Succ(tail) ELSE tail
    /\ ring' = [ring EXCEPT ![head] = mine[p]]
    /\ head' = Succ(head)
    /\ lock' = None
    /\ pc' = [pc EXCEPT ![p] = "idle"]
    /\ UNCHANGED <<seq, dropped, run, mine, writer, hand, written, pushed>>

(* One slot stays free: storing into the last one drops the oldest event.    *)
Store(p) ==
    /\ pc[p] = "store"
    /\ IF Succ(head) = tail
       THEN tail' = Succ(tail) /\ dropped' = dropped + 1
       ELSE UNCHANGED <<tail, dropped>>
    /\ ring' = [ring EXCEPT ![head] = mine[p]]
    /\ head' = Succ(head)
    /\ lock' = None
    /\ pc' = [pc EXCEPT ![p] = "idle"]
    /\ UNCHANGED <<seq, run, mine, writer, hand, written, pushed>>

-----------------------------------------------------------------------------
(* writerLoop.                                                               *)
WriterLocks ==
    /\ writer = "check" /\ lock = None
    /\ lock' = Writer /\ writer' = "locked"
    /\ UNCHANGED <<head, tail, ring, seq, dropped, run, pc, mine, hand, written, pushed>>

WriterTakes ==
    /\ writer = "locked"
    /\ IF tail # head
       THEN /\ hand' = ring[tail] /\ tail' = Succ(tail)
            /\ writer' = "write"
       ELSE /\ writer' = "empty"
            /\ UNCHANGED <<hand, tail>>
    /\ lock' = None
    /\ UNCHANGED <<head, ring, seq, dropped, run, pc, mine, written, pushed>>

WriterWrites ==
    /\ writer = "write"
    /\ written' = Append(written, hand)
    /\ writer' = "check"
    /\ UNCHANGED <<head, tail, ring, seq, dropped, lock, run, pc, mine, hand, pushed>>

WriterRests_NoExit ==
    /\ writer = "empty"
    /\ writer' = "check"
    /\ UNCHANGED <<head, tail, ring, seq, dropped, lock, run, pc, mine, hand, written, pushed>>

(* Only after it has seen an empty ring does the writer look at run_.        *)
WriterRests ==
    /\ writer = "empty"
    /\ writer' = IF run THEN "check" ELSE "done"
    /\ UNCHANGED <<head, tail, ring, seq, dropped, lock, run, pc, mine, hand, written, pushed>>

(* The destructor: the worker is joined, the destroying thread pushes no     *)
(* more; then it waits for the writer.                                       *)
stop ==
    /\ run /\ \A p \in Producer : pc[p] = "idle"
    /\ run' = FALSE
    /\ UNCHANGED <<head, tail, ring, seq, dropped, lock, pc, mine, writer, hand, written, pushed>>

ProducerStep == \E p \in Producer : tryPush(p) \/ Number(p) \/ Store(p)
WriterStep == WriterLocks \/ WriterTakes \/ WriterWrites \/ WriterRests

Next == ProducerStep \/ WriterStep \/ stop

(* Threads run on.                                                           *)
Fairness ==
    /\ WF_vars(WriterStep)
    /\ \A p \in Producer : WF_vars(Number(p) \/ Store(p))

Spec == Init /\ [][Next]_vars /\ Fairness

-----------------------------------------------------------------------------
Queued == IF head >= tail THEN head - tail ELSE head - tail + Capacity

InPush == {p \in Producer : pc[p] # "idle"}
InHand == IF writer = "write" THEN 1 ELSE 0
Entering == IF InPush = {} THEN 0 ELSE 1

TypeOK ==
    /\ head \in Slot /\ tail \in Slot /\ ring \in [Slot -> Nat]
    /\ seq \in Nat /\ dropped \in Nat /\ hand \in Nat /\ pushed \in Nat
    /\ lock \in Producer \cup {Writer, None} /\ run \in BOOLEAN
    /\ pc \in [Producer -> {"idle", "number", "store"}]
    /\ mine \in [Producer -> Nat]
    /\ writer \in {"check", "locked", "write", "empty", "done"}
    /\ written \in Seq(Nat)

(* Every call of tryPush is accounted for, at every moment: its event was    *)
(* written or counted as dropped, or it is in the ring, in the writer's hand *)
(* or being stored (DEC-0189: "account exactly for consumed plus dropped").  *)
Accounting ==
    pushed = Len(written) + dropped + Queued + InHand + Entering

(* The file has the events in the order of their numbers, with what waits    *)
(* in the ring behind what is written, whichever producers made them.        *)
Pending == [i \in 1..Queued |->
              ring[IF tail + i - 1 < Capacity THEN tail + i - 1 ELSE tail + i - 1 - Capacity]]
InOrder ==
    LET line == written \o (IF writer = "write" THEN <<hand>> ELSE <<>>) \o Pending
    IN \A i, j \in 1..Len(line) : i < j => line[i] < line[j]

(* The destructor does not hang: the writer leaves once the log is stopped.  *)
WriterLeaves == ~run ~> writer = "done"
=============================================================================
