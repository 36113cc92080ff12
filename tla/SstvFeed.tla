------------------------------- MODULE SstvFeed -------------------------------
(***************************************************************************)
(* Live SSTV input: the receive loop publishes demodulated blocks through  *)
(* SstvReceiverFeed (src/SstvReceiverFeed.cpp) into the bounded queue of   *)
(* the attached session (SstvLiveInput, src/SstvLiveInput.cpp), whose own  *)
(* thread drains it into an image decoder (decodeSstvLive in               *)
(* src/SstvLiveSession.cpp, decodeSstvStream in src/SstvStreamWorker.cpp). *)
(* The receive loop never waits: what it cannot hand over becomes a gap.   *)
(*                                                                         *)
(* Abstracted: a block is its place in the source; blocks have one size,   *)
(* so SlotCount stands for both the slots and the two-second budget; gap   *)
(* reasons are one; the decoder is the last block its helper was fed.      *)
(***************************************************************************)
EXTENDS Integers, Sequences, FiniteSets

CONSTANTS
    Session,      \* session threads, each running decodeSstvLive once
    Archiving,    \* the sessions with an archive: they restart on a gap
    Diag,         \* the thread that asks for stats()
    None,
    SlotCount,    \* SstvLiveInput::slotCount
    Use           \* the instances:
                  \*   sessions   the threads that take part
                  \*   blocks     bound on the blocks and cuts of the source
                  \*   bad        the last generation of a queue in which the
                  \*              source makes blocks that it rejects

Control == Session \cup {Diag}

ASSUME FeedAssumption ==
    /\ Archiving \subseteq Session /\ Diag \notin Session
    /\ None \notin Session
    /\ None \notin [n : Nat, epoch : Nat, first : Nat, cut : BOOLEAN]
    /\ SlotCount \in Nat \ {0}
    /\ \A u \in Use : u.sessions \subseteq Session /\ {u.blocks, u.bad} \subseteq Nat

VARIABLES
    use,          \* the instance that runs; never changes
    attached, missed, waiting, holding, current,   \* SstvReceiverFeed
    input,        \* the SstvLiveInput of each session
    source,       \* the demodulator: the last block it made
    rx,           \* the receive loop inside publish() or discontinuity()
    pc,           \* where each control thread is
    worker        \* locals of decodeSstvStream

feedVars == <<attached, missed, waiting, holding, current>>
vars == <<use, feedVars, input, source, rx, pc, worker>>

(* A block knows its epoch and its first sample; n is its place in the       *)
(* source, where what was not demodulated counts too.                        *)
Block == [n : 1..use.blocks, epoch : 0..use.blocks, first : 0..use.blocks, cut : BOOLEAN]
Kind == {"block", "cut", "bad"}

Idle == [at |-> "idle", kind |-> "cut", block |-> None]
NewInput == [active |-> TRUE, pending |-> FALSE, queue |-> <<>>, gap |-> TRUE,
             gen |-> 1, last |-> None]

Init ==
    /\ use \in Use
    /\ attached = FALSE /\ missed = FALSE /\ waiting = {} /\ holding = FALSE
    /\ current = None
    /\ input = [s \in Session |-> [NewInput EXCEPT !.active = FALSE]]
    /\ source = [n |-> 0, epoch |-> 0, first |-> 0, cut |-> TRUE]
    /\ rx = Idle
    /\ pc = [t \in Control |-> "idle"]
    /\ worker = [s \in Session |-> [last |-> None, gen |-> 0, gapGen |-> 0]]

-----------------------------------------------------------------------------
(* SstvLiveInput, as functions of its state.                                 *)

resetLocked(in) ==
    [in EXCEPT !.queue = <<>>, !.gap = TRUE, !.gen = @ + 1, !.last = None]

pendingLocked(in) ==
    IF in.pending THEN resetLocked([in EXCEPT !.pending = FALSE]) ELSE in

invalidate(in) == [in EXCEPT !.pending = @ \/ in.active]

stop(in) == resetLocked(pendingLocked([in EXCEPT !.active = FALSE]))

finish(in) == pendingLocked([in EXCEPT !.active = FALSE])

Breaks(in, b) ==
    \/ b.cut
    \/ in.last # None /\ <<b.epoch, b.first>> # <<in.last.epoch, in.last.first + 1>>

tryPush_Joins(in, b) ==
    LET ready == pendingLocked(in)
        room == IF Len(ready.queue) = SlotCount THEN resetLocked(ready) ELSE ready
    IN IF in.active THEN [room EXCEPT !.queue = Append(@, b), !.last = b] ELSE in

tryPush_WhenStopped(in, b) ==
    LET ready == pendingLocked(in)
    IN [ready EXCEPT !.queue = Append(@, b), !.last = b]

tryPush(in, b) ==
    LET ready == pendingLocked(in)
        kept == IF Breaks(ready, b) THEN resetLocked(ready) ELSE ready
        room == IF Len(kept.queue) = SlotCount THEN resetLocked(kept) ELSE kept
    IN IF in.active THEN [room EXCEPT !.queue = Append(@, b), !.last = b] ELSE in

-----------------------------------------------------------------------------
(* The receive loop.                                                         *)

Offer(kind, block) ==
    rx' = IF attached THEN [at |-> "gate", kind |-> kind, block |-> block] ELSE rx

EmitBlock_SameEpoch ==
    LET made == [n |-> source.n + 1, cut |-> source.n = 0,
                 epoch |-> source.epoch, first |-> source.first + 1]
    IN /\ rx.at = "idle" /\ source.n < use.blocks
       /\ Offer("block", made)
       /\ source' = [made EXCEPT !.cut = FALSE]
       /\ UNCHANGED <<feedVars, input, pc, worker>>

(* The block after a stretch that was not demodulated begins a new epoch.    *)
EmitBlock ==
    LET made == [n |-> source.n + 1, cut |-> source.cut,
                 epoch |-> IF source.cut THEN source.epoch + 1 ELSE source.epoch,
                 first |-> IF source.cut THEN 0 ELSE source.first + 1]
    IN /\ rx.at = "idle" /\ source.n < use.blocks
       /\ Offer("block", made)
       /\ source' = [made EXCEPT !.cut = FALSE]
       /\ UNCHANGED <<feedVars, input, pc, worker>>

(* The loop announces most of these stretches with discontinuity().          *)
EmitCut ==
    /\ rx.at = "idle" /\ source.n < use.blocks
    /\ Offer("cut", None) \/ UNCHANGED rx
    /\ source' = [source EXCEPT !.n = @ + 1, !.cut = TRUE]
    /\ UNCHANGED <<feedVars, input, pc, worker>>

(* A block of a rate, size or mode that the queue does not take.             *)
EmitBad ==
    /\ rx.at = "idle" /\ current # None
    /\ input[current].gen <= use.bad
    /\ Offer("bad", None)
    /\ UNCHANGED <<feedVars, input, source, pc, worker>>

Admits_Always == TRUE

(* Control calls that wait keep publication out; the lock is tried, so       *)
(* nothing happens between the two looks at controlPending_.                 *)
Admits == waiting = {}

Refused ==
    /\ rx.at = "gate" /\ ~Admits
    /\ rx' = [rx EXCEPT !.at = "missed"]
    /\ UNCHANGED <<feedVars, input, source, pc, worker>>

Missed ==
    /\ rx.at = "missed"
    /\ missed' = TRUE
    /\ rx' = Idle
    /\ UNCHANGED <<attached, waiting, holding, current, input, source, pc, worker>>

(* The feed's lock is taken; what was missed before is announced first.      *)
Admitted ==
    /\ rx.at = "gate" /\ Admits
    /\ IF current = None
       THEN /\ rx' = Idle
            /\ UNCHANGED <<missed, holding, input>>
       ELSE /\ holding' = TRUE
            /\ rx' = [rx EXCEPT !.at = "push"]
            /\ IF missed /\ rx.kind # "cut"
               THEN /\ missed' = FALSE
                    /\ input' = [input EXCEPT ![current] = invalidate(@)]
               ELSE UNCHANGED <<missed, input>>
    /\ UNCHANGED <<attached, waiting, current, source, pc, worker>>

Publishes(in) ==
    IF rx.kind = "block" THEN tryPush(in, rx.block) ELSE invalidate(in)

Push ==
    /\ rx.at = "push"
    /\ input' = [input EXCEPT ![current] = Publishes(@)]
    /\ holding' = FALSE
    /\ rx' = Idle
    /\ UNCHANGED <<attached, missed, waiting, current, source, pc, worker>>

(* The session is inside pop(): try_lock fails, the gap is noted after that. *)
PushContended ==
    /\ rx.at = "push" /\ rx.kind = "block"
    /\ pc[current] = "reading" /\ input[current].active
    /\ rx' = [rx EXCEPT !.at = "contended"]
    /\ UNCHANGED <<feedVars, input, source, pc, worker>>

NoteContention ==
    /\ rx.at = "contended"
    /\ input' = [input EXCEPT ![current].pending = TRUE]
    /\ holding' = FALSE
    /\ rx' = Idle
    /\ UNCHANGED <<attached, missed, waiting, current, source, pc, worker>>

Receive == \/ EmitBlock \/ EmitCut \/ EmitBad \/ Refused \/ Missed \/ Admitted
           \/ Push \/ PushContended \/ NoteContention

-----------------------------------------------------------------------------
(* Control calls: announce, work under the feed's lock, withdraw.            *)

Announce(t, from, to) ==
    /\ pc[t] = from
    /\ pc' = [pc EXCEPT ![t] = to]
    /\ waiting' = waiting \cup {t}
    /\ UNCHANGED <<attached, missed, holding, current, input, source, rx, worker>>

Locked(t, at, next) ==
    /\ pc[t] = at /\ ~holding
    /\ pc' = [pc EXCEPT ![t] = next]
    /\ UNCHANGED <<waiting, holding, source, rx, worker>>

Withdraw(t, from, to) ==
    /\ pc[t] = from
    /\ pc' = [pc EXCEPT ![t] = to]
    /\ waiting' = waiting \ {t}
    /\ UNCHANGED <<attached, missed, holding, current, input, source, rx, worker>>

(* A second session is turned away while one is attached.                    *)
attach(s) ==
    /\ Locked(s, "attach", IF current = None THEN "attached" ELSE "busy")
    /\ IF current = None
       THEN /\ missed' = FALSE /\ current' = s /\ attached' = TRUE
            /\ input' = [input EXCEPT ![s] = NewInput]
       ELSE UNCHANGED <<missed, current, attached, input>>

detach(s) ==
    /\ Locked(s, "detach", "detached")
    /\ IF current = s
       THEN /\ attached' = FALSE /\ missed' = FALSE /\ current' = None
            /\ input' = [input EXCEPT ![s] = stop(@)]
       ELSE UNCHANGED <<missed, current, attached, input>>

finishFeed(s) ==
    /\ Locked(s, "finish", "finished")
    /\ attached' = FALSE /\ missed' = FALSE
    /\ input' = [input EXCEPT ![s] = finish(IF missed THEN invalidate(@) ELSE @)]
    /\ UNCHANGED current

stats ==
    /\ Locked(Diag, "stats", "answered")
    /\ UNCHANGED <<attached, missed, current, input>>

-----------------------------------------------------------------------------
(* The session's thread: decodeSstvLive around decodeSstvStream.             *)

(* An event for the worker is a gap or a block, both of the queue's present  *)
(* generation: a reset empties the queue.                                    *)
TakesGap(s, in) ==
    /\ in.gap
    /\ input' = [input EXCEPT ![s] = [in EXCEPT !.gap = FALSE]]
    /\ IF \/ worker[s].last # None /\ s \notin Archiving
          \/ worker[s].gapGen > in.gen
          \/ worker[s].last # None /\ in.gen <= worker[s].gen
       THEN /\ pc' = [pc EXCEPT ![s] =
                        IF worker[s].last # None /\ s \notin Archiving THEN "aborted" ELSE "refused"]
            /\ UNCHANGED worker
       ELSE /\ worker' = [worker EXCEPT ![s].last = None, ![s].gapGen = in.gen]
            /\ UNCHANGED pc

Accepts(w, in, b) ==
    IF w.last = None
    THEN in.gen = w.gapGen
    ELSE in.gen = w.gen /\ <<b.epoch, b.first>> = <<w.last.epoch, w.last.first + 1>>

TakesBlock(s, in) ==
    LET b == Head(in.queue)
    IN /\ ~in.gap /\ in.queue # <<>>
       /\ input' = [input EXCEPT ![s] = [in EXCEPT !.queue = Tail(@)]]
       /\ IF Accepts(worker[s], in, b)
          THEN /\ worker' = [worker EXCEPT ![s].last = b, ![s].gen = in.gen]
               /\ UNCHANGED pc
          ELSE /\ pc' = [pc EXCEPT ![s] = "refused"]
               /\ UNCHANGED worker

Exhausted_WhenActive(in) == in.active /\ ~in.gap /\ in.queue = <<>>

Exhausted(in) == ~in.gap /\ in.queue = <<>>

TakesNothing(s, in) ==
    /\ Exhausted(in)
    /\ input' = [input EXCEPT ![s] = in]
    /\ pc' = [pc EXCEPT ![s] = IF @ = "draining" THEN "ended" ELSE @]
    /\ UNCHANGED worker

pop(s) ==
    /\ pc[s] \in {"reading", "draining"}
    /\ LET in == pendingLocked(input[s])
       IN TakesGap(s, in) \/ TakesBlock(s, in) \/ TakesNothing(s, in)
    /\ UNCHANGED <<feedVars, source, rx>>

(* Start and Finish are pressed; a session is cancelled, or its receiver     *)
(* changed: the guard's destructor detaches.                                 *)
Begins(s) == Announce(s, "idle", "attach")
Finishes(s) == Announce(s, "reading", "finish")
Leaves(s) == \E from \in {"reading", "draining"} : Announce(s, from, "detach")

SessionStep(s) ==
    \/ attach(s) \/ Withdraw(s, "attached", "reading") \/ Withdraw(s, "busy", "done")
    \/ pop(s)
    \/ finishFeed(s) \/ Withdraw(s, "finished", "draining")
    \/ \E from \in {"ended", "aborted", "refused"} : Announce(s, from, "detach")
    \/ detach(s) \/ Withdraw(s, "detached", "done")

DiagStep == Announce(Diag, "idle", "stats") \/ stats \/ Withdraw(Diag, "answered", "idle")

Next == /\ UNCHANGED use
        /\ \/ Receive \/ DiagStep
           \/ \E s \in use.sessions :
                 Begins(s) \/ Finishes(s) \/ Leaves(s) \/ SessionStep(s)

(* Every thread runs on; nobody has to press anything.                       *)
Fairness ==
    /\ WF_vars(UNCHANGED use /\ Receive) /\ WF_vars(UNCHANGED use /\ DiagStep)
    /\ \A s \in Session : WF_vars(UNCHANGED use /\ SessionStep(s))

Spec == Init /\ [][Next]_vars /\ Fairness

-----------------------------------------------------------------------------
Events == [active : BOOLEAN, pending : BOOLEAN, gap : BOOLEAN, gen : Nat,
           queue : Seq(Block), last : Block \cup {None}]

(* The variables keep their types, and the feed's lock is held exactly while *)
(* the receive loop is inside a push.                                        *)
TypeOK ==
    /\ use \in Use /\ {attached, missed} \subseteq BOOLEAN
    /\ waiting \subseteq Control
    /\ current \in Session \cup {None}
    /\ input \in [Session -> Events]
    /\ rx.at \in {"idle", "gate", "missed", "push", "contended"} /\ rx.kind \in Kind
    /\ holding = (rx.at \in {"push", "contended"})
    /\ holding => current # None
    /\ \A s \in Session : worker[s].last \in Block \cup {None}

(* Two blocks fed to one helper process follow one another in the source:    *)
(* whatever was lost, cut or rejected between them has restarted the helper. *)
(* (DEC-0095: "No sample splicing or padding".)                              *)
NoSplice ==
    [][\A s \in Session :
          worker[s].last # None /\ worker'[s].last \notin {None, worker[s].last}
              => worker'[s].last.n = worker[s].last.n + 1]_vars

(* The queue never hands the worker an event that the worker must refuse:    *)
(* generations never go back, and a gap precedes every change of source.     *)
WorkerNeverRefuses == \A s \in Session : pc[s] # "refused"

(* Nothing enters the queue of a session that has finished or detached, even *)
(* when the receive loop passed the attached_ test before it did.            *)
ClosedQueuesOnlyDrain ==
    [][\A s \in Session :
          ~input[s].active => Len(input'[s].queue) <= Len(input[s].queue)]_vars

(* A control call gets the feed's lock although the receive loop publishes   *)
(* without pause: a call that waits keeps new publications out (DEC-0125).   *)
ControlAdmitted ==
    \A t \in Control :
        pc[t] \in {"attach", "detach", "finish", "stats"} ~>
            pc[t] \notin {"attach", "detach", "finish", "stats"}

(* A session whose Finish was pressed drains its queue and ends.             *)
FinishEnds == \A s \in Session : pc[s] = "finish" ~> pc[s] = "done"
=============================================================================
