---------------------------- MODULE TrafficChannel ----------------------------
(* The observer of a followed P25 Phase 2 call (P25TrafficChannelProcessor):  *)
(* what one decoded batch of bursts tells it of the call on its slot.  Times  *)
(* are in ticks of Step milliseconds, positions in fractions of a burst.      *)
EXTENDS Naturals, Sequences, SequencesExt, TLC

CONSTANTS
    Step,         \* milliseconds of a tick
    BurstLength,  \* positions a burst is long
    None

ASSUME ChannelAssumption == Step \in Nat \ {0} /\ BurstLength \in Nat \ {0}

(* What half a second of a traffic channel may carry: voice of the followed   *)
(* slot that carries its own proof to be clear, or not; framing only; MAC     *)
(* messages; an end without CRC; the companion slot; noise taken for bursts;  *)
(* a carrier; nothing.                                                        *)
Ends == {"end", "weakEnd", "idle", "hang"}
Voice == {"speech", "voice"}
Own == Voice \cup Ends \cup {"frame", "ptt"}
Companion == {"other", "otherMac"}
Framed == Own \cup Companion
Bursts == Framed \cup {"ghost"}
Kinds == Bursts \cup {"noise", "off"}
Crc == {"ptt", "end", "idle", "hang", "otherMac"}

NewCall(now) == [seen |-> None, ends |-> 0, endAt |-> None, ended |-> FALSE,
                 endedAt |-> None, reason |-> None, vcw |-> FALSE,
                 voiceAt |-> None, activeAt |-> now]
-----------------------------------------------------------------------------
(* The fold over a batch, in capture order.  Bursts of other slots and what   *)
(* an overlapping batch showed already are passed over.                       *)

Later(a, b) == IF a = None THEN TRUE ELSE b > a
confirmsEnd_AnyEye(c, b) == b.kind = "end"
confirmsEnd(c, b) == b.kind = "end" /\ (c.ends = 0 \/ b.at >= c.endAt + BurstLength)
Boundary(c, b) ==
    CASE b.kind \in Voice \cup {"ptt"} -> [c EXCEPT !.ends = 0]
      [] confirmsEnd(c, b) -> [c EXCEPT !.ends = IF @ = 0 THEN 1 ELSE 2, !.endAt = b.at]
      [] OTHER -> c

Fold_EndWins(c, b) ==
    IF b.kind \notin Own \/ ~Later(c.seen, b.at) THEN c
    ELSE [Boundary(c, b) EXCEPT
             !.seen = b.at,
             !.reason = IF b.kind \in Ends THEN b.kind ELSE @,
             !.restart = @ \/ b.kind \in {"ptt", "speech"},
             !.vcw = @ \/ b.kind \in Voice]
Fold(c, b) ==
    IF b.kind \notin Own \/ ~Later(c.seen, b.at) THEN c
    ELSE [Boundary(c, b) EXCEPT
             !.seen = b.at,
             !.reason = IF b.kind \in Ends THEN b.kind
                        ELSE IF b.kind \in {"ptt", "speech"} THEN None ELSE @,
             !.restart = @ \/ b.kind \in {"ptt", "speech"},
             !.vcw = @ \/ b.kind \in Voice]

(* What one batch says, before it is merged with what was known.              *)
InOrder(batch) == SortSeq(batch, LAMBDA a, b : a.at < b.at)
Batch(o, batch) ==
    FoldLeft(Fold, [seen |-> o.seen, ends |-> o.ends, endAt |-> o.endAt,
                    reason |-> None, restart |-> FALSE, vcw |-> FALSE],
             InOrder(batch))

(* A repeated end does not renew the hold of the first; a restart does.       *)
BeginsHold_Always(o, c) == TRUE
BeginsHold(o, c) == ~o.ended \/ c.restart
Structured(batch) == \E i \in DOMAIN batch : batch[i].kind \in Framed
observeDecodeResult(o, batch, now) ==
    LET c == Batch(o, batch)
        ended == c.reason # None
        reopens == c.vcw \/ c.restart
    IN  [seen |-> c.seen, ends |-> c.ends, endAt |-> c.endAt,
         vcw |-> c.vcw,
         ended |-> ended \/ (o.ended /\ ~reopens),
         endedAt |-> IF ended THEN IF BeginsHold(o, c) THEN now ELSE o.endedAt
                     ELSE IF reopens THEN None ELSE o.endedAt,
         reason |-> IF ended THEN IF BeginsHold(o, c) THEN c.reason ELSE o.reason
                    ELSE IF reopens THEN None ELSE o.reason,
         voiceAt |-> IF c.vcw THEN now ELSE o.voiceAt,
         activeAt |-> IF c.vcw \/ c.restart THEN now
                      ELSE IF Structured(batch) /\ o.voiceAt = None THEN now
                      ELSE o.activeAt]

(* An ended call lasts a short hold, a silent one until it is too old.        *)
EndedHoldMs == 750
HangtimeHoldMs == 1500
isCallStillActive_UntilEnded(o, now) ==
    o.ended => (now - o.endedAt) * Step <= IF o.reason = "hang" THEN HangtimeHoldMs ELSE EndedHoldMs
isCallStillActive(o, now) ==
    IF o.ended
    THEN (now - o.endedAt) * Step <= IF o.reason = "hang" THEN HangtimeHoldMs ELSE EndedHoldMs
    ELSE (now - o.activeAt) * Step <= IF o.voiceAt = None THEN 15000 ELSE 12000

teardownConfirmed(o) == o.ended /\ o.ends >= 2
=============================================================================
