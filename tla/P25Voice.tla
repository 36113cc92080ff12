------------------------------- MODULE P25Voice -------------------------------
(* How the voice of a followed P25 Phase 2 call gets from the IQ ring to the  *)
(* speaker.  The GUI's DSP thread (src/MainWindowP25Orchestration.cpp) keeps  *)
(* a rolling window of IQ per receiver session (include/P25RollingIq.h),      *)
(* hands chunks of it to a worker thread, one at a time, and publishes what   *)
(* the worker decoded (src/MainWindowP25Voice.cpp).  A published chunk is     *)
(* committed, or held so that the same IQ is decoded again; a stale one is    *)
(* rolled back.  Meanwhile the radio is retuned and restarted and the         *)
(* operator's follow logic arms, drops and replaces the receiver.             *)
(*                                                                            *)
(* Positions are the radio's absolute sample numbers, in blocks.  Windows are *)
(* always absolute: DeviceManager labels everything it hands out (IqRing), so *)
(* the sample-index mode of RollingIqWindow does not arise here; nor, as a    *)
(* followed call has a talkgroup, the flush after a published chunk.          *)
EXTENDS Naturals, Sequences

CONSTANTS
    Ring,      \* blocks the radio's ring keeps
    Join,      \* longest hole in the IQ that is filled with zeros
    Pull,      \* blocks one pull brings at most
    Overlap,   \* decoded blocks a chunk repeats as context
    None,
    Use        \* the instances: how often, how fast and in what sizes

ASSUME VoiceAssumption ==
    /\ {Ring, Pull} \subseteq Nat \ {0} /\ {Join, Overlap} \subseteq Nat
    /\ \A u \in Use :
          /\ {u.live, u.events, u.turns, u.protect} \subseteq Nat
          /\ {u.roll, u.cold, u.hop, u.catchUp} \subseteq Nat \ {0}
          /\ {u.restarts, u.unheard, u.busy} \subseteq BOOLEAN

VARIABLES
    use,
    epoch, live, floor,       \* the radio: stream epoch, samples written, retune floor
    events,                   \* retunes and restarts of the radio so far
    rx,                       \* the receiver: object, session, call, what is still due
    flush,                    \* p25PendingAudioFlushSeq
    turns,                    \* follow decisions so far
    sch,                      \* the DSP thread: place, what it saw, the chunk in hand
    windows,                  \* phase2IqByRx
    pending, worker, completed, publish

radioVars == <<epoch, live, floor, events>>
rxVars == <<rx, flush, turns>>
flight == <<pending, worker, completed, publish>>
vars == <<use, radioVars, rxVars, sch, windows, flight>>

Least(a, b) == IF a < b THEN a ELSE b
Most(a, b) == IF a > b THEN a ELSE b
Less(a, b) == IF a > b THEN a - b ELSE 0

(* Session key of a receiver: the object and its traffic session generation.  *)
Session == <<rx.id, rx.gen>>

(* A rolling window: blocks held, their labels, how far they are decoded,     *)
(* submitted and held for another try.  Three fields are not in the code: all *)
(* IQ up to heard has been in a chunk whose result was published, or trimming *)
(* gave it up; alien: a job of another session, or of what the window held    *)
(* before it was cleared, has moved its marks; torn: a hole too long to be    *)
(* filled has been closed.                                                    *)
NoWindow == [start |-> 0, size |-> 0, end |-> 0, last |-> 0, submitted |-> None,
             held |-> None, epoch |-> None, heard |-> 0, alien |-> FALSE, torn |-> FALSE]
Has(k) == k \in DOMAIN windows
Put(k, w) == [x \in DOMAIN windows \cup {k} |-> IF x = k THEN w ELSE windows[x]]
Only(S) == [x \in DOMAIN windows \cap S |-> windows[x]]

Init ==
    /\ use \in Use
    /\ epoch = 1 /\ live = 0 /\ floor = 0 /\ events = 0
    /\ rx = [id |-> 1, gen |-> 1, call |-> 1, decode |-> TRUE, resetPending |-> FALSE,
             eye |-> FALSE, clearDue |-> FALSE]
    /\ flush = 0 /\ turns = 0
    /\ sch = [pc |-> "drain", flush |-> 0, traffic |-> 1, id |-> None, key |-> None,
              call |-> None, eye |-> FALSE, at |-> None, epoch |-> None, job |-> None]
    /\ windows = << >>
    /\ pending = <<>> /\ worker = [pc |-> "idle", job |-> None]
    /\ completed = <<>> /\ publish = <<>>
-----------------------------------------------------------------------------
(* The radio.                                                                 *)

Receive ==
    /\ live < use.live
    /\ live' = live + 1
    /\ UNCHANGED <<use, epoch, floor, events, rxVars, sch, windows, flight>>

(* A far retune: a new epoch, and nothing older is handed out any more.       *)
Retune ==
    /\ events < use.events
    /\ epoch' = epoch + 1 /\ floor' = live /\ events' = events + 1
    /\ UNCHANGED <<use, live, rxVars, sch, windows, flight>>

(* The stream is stopped and started: the sample clock begins again.          *)
Restart ==
    /\ use.restarts /\ events < use.events /\ live > 0
    /\ epoch' = epoch + 1 /\ floor' = 0 /\ live' = 0 /\ events' = events + 1
    /\ UNCHANGED <<use, rxVars, sch, windows, flight>>
-----------------------------------------------------------------------------
(* The receiver's session.                                                    *)

dspFree == IF worker.pc = "decode" THEN worker.job.key[1] # rx.id ELSE TRUE

(* tryApplyP25VoiceResetLocked and tryResetP25TrafficSessionNonBlocking: a    *)
(* new session when nobody decodes, a pending reset otherwise.                *)
Reset(r) == IF dspFree THEN [r EXCEPT !.gen = @ + 1, !.resetPending = FALSE, !.eye = FALSE]
                       ELSE [r EXCEPT !.resetPending = TRUE]

Turn == /\ turns < use.turns /\ turns' = turns + 1
        /\ UNCHANGED <<use, radioVars, windows, worker, publish>>

(* The receiver's cursor is put before the live edge, its pre-roll at most    *)
(* three pulls and never older than the retune.  The cursor matters between   *)
(* the preparation of a pull and the pull: every pull is prepared.            *)
BeforeLiveEdge == Most(live - Least(Least(live, Ring), 3 * Pull), floor)
Moved(at, seen) == IF sch.pc = "pull" THEN [sch EXCEPT !.at = at, !.epoch = seen] ELSE sch

(* The follow logic puts the receiver on a call, the same one or another.     *)
Arm ==
    /\ Turn
    /\ \E call \in {rx.call, rx.call + 1} :
          rx' = Reset([rx EXCEPT !.call = call, !.decode = TRUE])
    /\ sch' = IF dspFree THEN Moved(BeforeLiveEdge, epoch) ELSE Moved(0, sch.epoch)
    /\ UNCHANGED <<flush, pending, completed>>

DropsWaiting == \/ pending' = <<>> /\ completed' = <<>>
                \/ use.busy /\ UNCHANGED <<pending, completed>>

(* It returns to the control channel: work that waits is dropped when the     *)
(* worker's lock is free, the receiver is cleared now or, when its lock is    *)
(* taken, by a timer, which may also find it taken and give up.  Clearing     *)
(* removes a receiver made for the call, which is a flush of its own.         *)
cleared == Reset([rx EXCEPT !.decode = FALSE, !.eye = FALSE, !.clearDue = FALSE])
clearP25VoiceFollowState == rx' = cleared /\ sch' = Moved(0, IF dspFree THEN 0 ELSE sch.epoch)
ReturnToControl ==
    /\ Turn /\ rx.decode
    /\ flush' = flush + 1
    /\ DropsWaiting
    /\ \/ clearP25VoiceFollowState
       \/ use.busy /\ rx' = [rx EXCEPT !.clearDue = TRUE] /\ UNCHANGED sch
ClearLater ==
    /\ rx.clearDue
    /\ \/ clearP25VoiceFollowState /\ flush' \in {flush, flush + 1}
       \/ rx' = [rx EXCEPT !.clearDue = FALSE] /\ UNCHANGED <<sch, flush>>
    /\ UNCHANGED <<use, radioVars, turns, windows, flight>>

(* It replaces the receiver by a new one, and drops work that waits alike.    *)
Replace ==
    /\ Turn
    /\ rx' = [id |-> rx.id + 1, gen |-> 1, call |-> rx.call + 1, decode |-> TRUE,
              resetPending |-> FALSE, eye |-> FALSE, clearDue |-> FALSE]
    /\ flush' = flush + 1
    /\ DropsWaiting
    /\ UNCHANGED sch
-----------------------------------------------------------------------------
(* RollingIqWindow.                                                           *)

effectiveDecodeAbsolute(w) == IF w.submitted = None THEN w.last ELSE Most(w.last, w.submitted)
markDecodeSubmitted(w, end) == [w EXCEPT !.submitted = end]
rollbackSubmittedDecode_Nothing(w) == w
rollbackSubmittedDecode(w) == [w EXCEPT !.submitted = None]
commitDecodeAbsolute(w, end) ==
    [w EXCEPT !.last = Most(@, end), !.submitted = None,
              !.held = IF @ # None /\ end >= @.end THEN None ELSE @]
holdDecodeAbsolute(w, end) ==
    [w EXCEPT !.submitted = None,
              !.held = IF end > w.last THEN [start |-> w.last, end |-> end] ELSE None]
resultCoversHeldDecodeRange_Strict(w, r) ==
    w.held # None => r.end > w.held.end /\ r.start <= w.held.start
resultCoversHeldDecodeRange(w, r) ==
    w.held # None => r.end >= w.held.end /\ r.start <= w.held.start

(* What trimming drops: blocks before the cursor only, whatever the window's  *)
(* size, until it is four times too large; and never the protected ones just  *)
(* before the cursor.  The cursor it goes by is the end of what is submitted: *)
(* under a chunk that reaches further than is protected, it drops IQ that is  *)
(* not decoded yet, and moves the decode cursor past it.                      *)
Decoded(w) == Least(Less(effectiveDecodeAbsolute(w), w.start), w.size)
Spare(w) == Less(Decoded(w), use.protect)
Cut(w, n) == [w EXCEPT !.start = @ + n, !.size = @ - n, !.last = Most(@, w.start + n)]
Overreached(w) == w.submitted # None /\ w.submitted > w.last + use.protect
Trimmed(w) ==
    LET over == Less(w.size, use.roll)
        forced == Spare(w) = 0 /\ w.size > 4 * use.roll
        cut == Cut(w, IF forced THEN over ELSE Least(over, Spare(w)))
    IN  [cut EXCEPT !.heard = IF forced \/ Overreached(w) THEN Most(@, cut.last) ELSE @]

(* append: the first fill, a hole that is filled or stitched over, new blocks *)
(* at the end.                                                                *)
Hole_NotCounted(w, from) == 0
Hole(w, from) == IF Less(from, w.end) <= Join THEN Less(from, w.end) ELSE 0
append(w, iq) ==
    IF w.size = 0
    THEN [w EXCEPT !.start = iq.start, !.end = iq.end, !.size = iq.end - iq.start,
                   !.last = iq.start, !.heard = iq.start, !.epoch = iq.epoch]
    ELSE IF iq.end <= w.end THEN [w EXCEPT !.epoch = iq.epoch]
    ELSE Trimmed([w EXCEPT !.size = @ + Hole(w, iq.start) + (iq.end - Most(iq.start, w.end)),
                           !.end = iq.end, !.epoch = iq.epoch,
                           !.torn = @ \/ Less(iq.start, w.end) > Join])

(* takeUndecoded: the chunk that begins at the cursor, with its context.  A   *)
(* cold window waits for a long first chunk.                                  *)
Undecoded(w) == w.size - Decoded(w)
Cold(w) == ~sch.eye /\ w.last <= w.start
Chunk(w) == IF Cold(w) /\ w.submitted = None THEN use.cold
            ELSE IF Undecoded(w) > use.hop THEN use.catchUp ELSE use.hop
MayTake(w) ==
    /\ w.size > 0 /\ effectiveDecodeAbsolute(w) < w.end /\ Undecoded(w) > 0
    /\ Cold(w) => w.size >= use.cold
takeUndecoded(w) ==
    LET from == w.start + Decoded(w)
    IN  [key |-> sch.key, call |-> sch.call, flush |-> flush,
         from |-> from, start |-> Most(w.start, Less(from, Overlap)),
         end |-> from + Least(Chunk(w), Undecoded(w)),
         stale |-> FALSE, late |-> FALSE, used |-> FALSE]
-----------------------------------------------------------------------------
(* The DSP thread publishes what the worker decoded.                          *)

At(pc) == sch.pc = pc /\ UNCHANGED <<use, radioVars, turns, flush>>
NextLoop == sch' = [sch EXCEPT !.pc = "drain", !.id = None, !.key = None, !.call = None,
                               !.eye = FALSE, !.at = None, !.epoch = None, !.job = None]

takeP25VoiceDecodeResults ==
    /\ At("drain")
    /\ publish' = publish \o completed /\ completed' = <<>>
    /\ sch' = [sch EXCEPT !.pc = "publish"]
    /\ UNCHANGED <<rx, windows, pending, worker>>

(* Jobs and results of a session that come after one it had to drop.          *)
Others(s, k) ==
    LET Keep(r) == r.key # k
    IN IF \A i \in DOMAIN s : Keep(s[i]) THEN s ELSE SelectSeq(s, Keep)
NotCovered(r) == Has(r.key) /\ ~resultCoversHeldDecodeRange(windows[r.key], r)
stillCurrent(r) ==
    /\ r.flush = flush /\ r.key[1] = rx.id
    /\ rx.decode /\ ~rx.resetPending /\ r.call = rx.call

(* What a published result does to its window: all of it is heard, or it is   *)
(* held so that the next chunk repeats it.                                    *)
Heard(w, r) == IF r.from <= w.heard THEN Most(w.heard, r.end) ELSE w.heard
Consumed(w, r) ==
    [(IF r.used THEN commitDecodeAbsolute(w, r.end) ELSE holdDecodeAbsolute(w, r.end))
     EXCEPT !.heard = IF r.used THEN Heard(w, r) ELSE @,
            !.alien = @ \/ w.submitted = None]

(* The front result: its receiver is gone; it does not cover what is held, so *)
(* it is dropped with everything after it; it is published, which a decode    *)
(* that took too long is whatever else happened; or it is stale.              *)
Publish ==
    /\ At("publish") /\ publish # <<>>
    /\ LET r == Head(publish)
           k == r.key
           To(w) == IF Has(k) THEN Put(k, w) ELSE windows
           gone == k[1] # rx.id
           drop == ~gone /\ NotCovered(r)
           heard == ~gone /\ ~drop /\ (r.late \/ (~r.stale /\ stillCurrent(r)))
       IN  /\ windows' = IF ~Has(k) THEN windows
                         ELSE Put(k, IF heard THEN Consumed(windows[k], r)
                                     ELSE rollbackSubmittedDecode(windows[k]))
           /\ publish' = IF drop THEN Others(Tail(publish), k) ELSE Tail(publish)
           /\ pending' = IF drop THEN Others(pending, k) ELSE pending
           /\ completed' = IF drop THEN Others(completed, k) ELSE completed
    /\ UNCHANGED <<rx, sch, worker>>
-----------------------------------------------------------------------------
(* The DSP thread fetches IQ and hands it to the worker.                      *)

(* What is not yet published is left when a lock is taken.  A flush or a new  *)
(* traffic source drops every window, a session that ended its own.           *)
Tick ==
    /\ At("publish")
    /\ windows' = IF flush # sch.flush \/ rx.call # sch.traffic THEN << >> ELSE Only({Session})
    /\ sch' = [sch EXCEPT !.pc = "look", !.flush = flush, !.traffic = rx.call, !.id = rx.id]
    /\ UNCHANGED <<rx, flight>>

(* Under the receiver's lock: it may have been replaced, it applies a pending *)
(* reset, or what the chunk will be labelled with is read.                    *)
Look ==
    /\ At("look")
    /\ \/ sch.id # rx.id /\ NextLoop /\ UNCHANGED <<rx, windows>>
       \/ /\ sch.id = rx.id /\ rx.resetPending /\ dspFree
          /\ rx' = Reset(rx) /\ windows' = Only(DOMAIN windows \ {<<rx.id, rx.gen + 1>>})
          /\ NextLoop
       \/ /\ sch.id = rx.id /\ ~(rx.resetPending /\ dspFree)
          /\ IF rx.decode
             THEN sch' = [sch EXCEPT !.pc = "prepare", !.key = Session, !.call = rx.call,
                                     !.eye = rx.eye]
             ELSE NextLoop
          /\ windows' = IF rx.decode THEN windows ELSE Only(DOMAIN windows \ {Session})
          /\ UNCHANGED rx
    /\ UNCHANGED flight

(* The receiver's session key is read again; a receiver that was replaced     *)
(* meanwhile keeps the one it had.                                            *)
CurrentKey == IF sch.id = rx.id THEN Session ELSE sch.key

(* p25Phase2PrepareRollingIqPull: the cursor is put where the window ends, or *)
(* for an empty one before the live edge.                                     *)
Prepare ==
    /\ At("prepare")
    /\ LET w == IF Has(CurrentKey) THEN windows[CurrentKey] ELSE NoWindow
       IN  /\ windows' = Put(CurrentKey, w)
           /\ sch' = [sch EXCEPT !.pc = "pull", !.key = CurrentKey, !.epoch = epoch,
                                 !.at = IF w.size = 0 THEN BeforeLiveEdge
                                        ELSE Most(Least(w.end, live), Less(live, Ring))]
    /\ UNCHANGED <<rx, flight>>

(* getNewIQWindowForReceiver.                                                 *)
Sought == Most(IF sch.epoch # epoch THEN Less(live, Pull) ELSE sch.at, floor)
From == IF Sought = 0 THEN Less(live, Pull) ELSE Sought
Iq == [start |-> From, end |-> Most(From, Least(From + Pull, live)), epoch |-> epoch,
       gap |-> Sought > live \/ live - From > Ring, some |-> live > From]

(* A handoff to another epoch, or a discontinuity: the window is cleared and  *)
(* the session reset if the receiver's lock is free.                          *)
ResetOrMiss(reset) ==
    /\ reset \/ use.busy
    /\ rx' = IF reset /\ sch.id = rx.id THEN Reset(rx) ELSE rx
Handoff ==
    /\ At("pull")
    /\ windows[sch.key].epoch \notin {None, epoch} /\ Iq.some
    /\ \E reset \in BOOLEAN :
          /\ ResetOrMiss(reset)
          /\ windows' = IF reset /\ dspFree THEN Put(sch.key, NoWindow)
                        ELSE Only(DOMAIN windows \ {sch.key})
    /\ NextLoop
    /\ UNCHANGED flight
Discontinuity ==
    /\ At("pull")
    /\ IF windows[sch.key].epoch \in {None, epoch} THEN Iq.gap ELSE ~Iq.some
    /\ \E reset \in BOOLEAN : ResetOrMiss(reset)
    /\ windows' = Put(sch.key, NoWindow)
    /\ NextLoop
    /\ UNCHANGED flight
AppendIq ==
    /\ At("pull")
    /\ windows[sch.key].epoch \in {None, epoch} /\ ~Iq.gap
    /\ windows' = IF Iq.some THEN Put(sch.key, append(windows[sch.key], Iq)) ELSE windows
    /\ sch' = [sch EXCEPT !.pc = "take", !.at = None, !.epoch = None]
    /\ UNCHANGED <<rx, flight>>

(* What the worker has not finished, or nobody has published yet.             *)
InFlight == Len(pending) + Len(completed) + Len(publish) + IF worker.pc = "idle" THEN 0 ELSE 1
p25VoiceWorkerCanAcceptJob_Unpublished == Len(pending) = 0 /\ worker.pc = "idle"
p25VoiceWorkerCanAcceptJob == InFlight < 1

(* The next chunk, unless there is too little, it is too early or the worker  *)
(* is not done.                                                               *)
Take ==
    /\ At("take")
    /\ MayTake(windows[sch.key]) /\ p25VoiceWorkerCanAcceptJob
    /\ sch' = [sch EXCEPT !.pc = "submit", !.job = takeUndecoded(windows[sch.key])]
    /\ UNCHANGED <<rx, windows, flight>>
NotNow ==
    /\ At("take")
    /\ NextLoop
    /\ UNCHANGED <<rx, windows, flight>>

(* submitP25VoiceDecodeJob, with the session key and the flush number of now. *)
Submit ==
    /\ At("submit")
    /\ pending' = IF p25VoiceWorkerCanAcceptJob
                  THEN Append(pending, [sch.job EXCEPT !.key = CurrentKey, !.flush = flush])
                  ELSE pending
    /\ IF p25VoiceWorkerCanAcceptJob THEN sch' = [sch EXCEPT !.pc = "mark"] ELSE NextLoop
    /\ UNCHANGED <<rx, windows, worker, completed, publish>>

(* The window of the session as it is now is told what was submitted.         *)
Mark ==
    /\ At("mark")
    /\ LET w == IF Has(CurrentKey) THEN windows[CurrentKey] ELSE NoWindow
       IN  windows' = Put(CurrentKey, [markDecodeSubmitted(w, sch.job.end)
                                       EXCEPT !.alien = @ \/ CurrentKey # sch.key])
    /\ NextLoop
    /\ UNCHANGED <<rx, flight>>
-----------------------------------------------------------------------------
(* The worker thread.                                                         *)

Work(pc) == worker.pc = pc /\ UNCHANGED <<use, radioVars, flush, turns, sch, windows, publish>>

(* A job that is no longer wanted is not decoded, nor one that does not get   *)
(* the receiver's decoder in time.                                            *)
Decline ==
    /\ Work("idle") /\ pending # <<>>
    /\ worker' = [pc |-> "push", job |-> [Head(pending) EXCEPT !.stale = TRUE]]
    /\ pending' = Tail(pending)
    /\ UNCHANGED <<rx, completed>>
Begin ==
    /\ Work("idle") /\ pending # <<>> /\ stillCurrent(Head(pending))
    /\ worker' = [pc |-> "decode", job |-> Head(pending)] /\ pending' = Tail(pending)
    /\ UNCHANGED <<rx, completed>>

(* The decoder hears all of the chunk or not, in time or late, or fails.  A   *)
(* late result that has evidence stays good only while the job is current; a  *)
(* late one that has none counts as heard.                                    *)
Decode ==
    /\ Work("decode")
    /\ \E used, late, fails \in BOOLEAN :
          /\ ~used => use.unheard
          /\ fails => used /\ ~late
          /\ late => used \/ stillCurrent(worker.job)
          /\ worker' = [pc |-> "push",
                        job |-> [worker.job EXCEPT !.used = used, !.late = late,
                                                   !.stale = fails \/ ~stillCurrent(worker.job)]]
    /\ \E eye \in {rx.eye, TRUE} :
          rx' = IF worker.job.key[1] = rx.id THEN [rx EXCEPT !.eye = eye] ELSE rx
    /\ UNCHANGED <<pending, completed>>

Push ==
    /\ Work("push")
    /\ completed' = Append(completed, worker.job) /\ worker' = [pc |-> "done", job |-> None]
    /\ UNCHANGED <<rx, pending>>
Rest ==
    /\ Work("done")
    /\ worker' = [worker EXCEPT !.pc = "idle"]
    /\ UNCHANGED <<rx, pending, completed>>
-----------------------------------------------------------------------------
Scheduler == \/ takeP25VoiceDecodeResults \/ Publish \/ Tick \/ Look \/ Prepare
             \/ Handoff \/ Discontinuity \/ AppendIq \/ Take \/ NotNow \/ Submit \/ Mark
Worker == Decline \/ Begin \/ Decode \/ Push \/ Rest
Next == \/ Receive \/ Retune \/ Restart \/ Arm \/ ReturnToControl \/ ClearLater
        \/ Replace \/ Scheduler \/ Worker

Spec == Init /\ [][Next]_vars
-----------------------------------------------------------------------------
Rolling == {windows[k] : k \in DOMAIN windows}
Jobs == {sch.job, worker.job} \cup {s[1] : s \in {pending, completed, publish} \ {<<>>}}

(* A receiver's chunks are decoded one at a time: until a result is published *)
(* no other chunk is on its way, wherever the worker and the DSP thread stand *)
(* (submitP25VoiceDecodeJob, "single-flight").                                *)
SingleFlight ==
    Len(pending) + Len(completed) + Len(publish) + (IF worker.job = None THEN 0 ELSE 1) <= 1

(* The decode cursor never passes IQ whose decoding failed, was stale or was  *)
(* held: what lies behind it has all been in a chunk whose result was         *)
(* published as consumed (commit, rollback, hold and trimming in              *)
(* RollingIqWindow).  Excepted is IQ that trimming gives up: in a window four *)
(* times too large, and, while a chunk longer than what is protected is on    *)
(* its way, IQ of that chunk.  In the program that is the first chunk of a    *)
(* cold window, 720 ms against 280 protected, against P25RollingIq.h:218-221; *)
(* README, section 4, has the trace.  Excepted are also marks moved by a job  *)
(* from before the window was cleared, and the time between a return to the   *)
(* control channel, which drops work that waits, and the tick that drops the  *)
(* windows.                                                                   *)
NothingSkipped ==
    flush = sch.flush => \A w \in Rolling : w.size > 0 /\ ~w.alien => w.last <= w.heard

(* A window's labels stay those of the IQ in it through filling, overlap,     *)
(* holes and trimming, unless a hole was too long to be filled (append), and  *)
(* a chunk on its way always has something to decode.                         *)
LabelsAreTrue ==
    /\ \A w \in Rolling : w.size > 0 /\ ~w.torn => w.end = w.start + w.size
    /\ \A j \in Jobs \ {None} : j.start <= j.from /\ j.from < j.end

(* What is held for another try gets it: no good result has to be dropped     *)
(* because it does not cover what is held (holdDecodeAbsolute, and the check  *)
(* before publication).                                                       *)
HeldIsRetried ==
    \A r \in {s[1] : s \in {publish} \ {<<>>}} :
        (stillCurrent(r) /\ ~r.stale /\ Has(r.key) /\ ~windows[r.key].alien) => ~NotCovered(r)
=============================================================================
