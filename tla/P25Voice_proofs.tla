-------------------------- MODULE P25Voice_proofs --------------------------
(* Theorems about the voice path, for every ring, chunk, overlap and use.     *)
(*                                                                            *)
(* VoiceInv is inductive: every window, job and queue is well formed (Window, *)
(* Job), the DSP thread has in hand what its place in the loop needs, and the *)
(* queues and the worker hold one chunk between them.  SingleFlight and       *)
(* LabelsAreTrue follow.  It is also why a dropped result takes nothing else  *)
(* with it: nothing waits behind it.                                          *)
(*                                                                            *)
(* CursorInv adds what NothingSkipped needs, between two ticks: a window      *)
(* whose marks no foreign job moved has its cursor behind what was heard or   *)
(* given up; what it has submitted is on its way, from such a place; and the  *)
(* thread's receiver is the one that is followed, so that a session key that  *)
(* is still current was current when the chunk was taken.                     *)
EXTENDS P25Voice, SequenceTheorems, TLAPS

USE VoiceAssumption DEF VoiceAssumption

Key == Nat \X Nat

(* A window whose labels are those of its IQ, and whose cursor is not before *)
(* its first block.                                                          *)
WindowFields ==
    [start : Nat, size : Nat, end : Nat, last : Nat, submitted : Nat \cup {None},
     held : [start : Nat, end : Nat] \cup {None}, epoch : Nat \cup {None}, heard : Nat,
     alien : BOOLEAN, torn : BOOLEAN]
Labelled(w) == w.size > 0 /\ ~w.torn => w.end = w.start + w.size
Window == {w \in WindowFields : Labelled(w) /\ w.start <= w.last}

(* A chunk on its way has something to decode.                               *)
JobFields ==
    [key : Key, call : Nat, flush : Nat, from : Nat, start : Nat, end : Nat,
     stale : BOOLEAN, late : BOOLEAN, used : BOOLEAN]
Job == {j \in JobFields : j.start <= j.from /\ j.from < j.end}

RxFields == [id : Nat, gen : Nat, call : Nat, decode : BOOLEAN, resetPending : BOOLEAN,
             eye : BOOLEAN, clearDue : BOOLEAN]
Places == {"drain", "publish", "look", "prepare", "pull", "take", "submit", "mark"}
SchFields == [pc : Places, flush : Nat, traffic : Nat, id : Nat \cup {None}, key : Key \cup {None},
              call : Nat \cup {None}, eye : BOOLEAN, at : Nat \cup {None},
              epoch : Nat \cup {None}, job : Job \cup {None}]

VoiceTyped ==
    /\ use \in Use /\ epoch \in Nat /\ live \in Nat /\ floor \in Nat /\ events \in Nat
    /\ rx \in RxFields /\ flush \in Nat /\ turns \in Nat
    /\ sch \in SchFields
    /\ windows \in [DOMAIN windows -> Window] /\ DOMAIN windows \subseteq Key
    /\ pending \in Seq(Job) /\ completed \in Seq(Job) /\ publish \in Seq(Job)
    /\ worker \in [pc : {"idle", "decode", "push", "done"}, job : Job \cup {None}]

(* What the DSP thread has in its hand at each place of its loop.            *)
InHand ==
    /\ sch.pc \in {"prepare", "pull", "take", "submit", "mark"} => sch.key \in Key /\ sch.call \in Nat
    /\ sch.pc \in {"pull", "take"} => sch.key \in DOMAIN windows
    /\ sch.pc = "pull" => sch.at \in Nat
    /\ sch.pc \in {"submit", "mark"} => sch.job \in Job
    /\ worker.pc \in {"decode", "push"} => worker.job \in Job
    /\ worker.pc \in {"idle", "done"} => worker.job = None

-----------------------------------------------------------------------------
LEMMA UseNumbers ==
    ASSUME VoiceTyped
    PROVE  /\ {use.live, use.events, use.turns, use.protect} \subseteq Nat
           /\ {use.roll, use.cold, use.hop, use.catchUp} \subseteq Nat \ {0}
           /\ {Ring, Pull} \subseteq Nat \ {0} /\ {Join, Overlap} \subseteq Nat
BY DEF VoiceTyped

LEMMA Arithmetic ==
    ASSUME NEW a \in Nat, NEW b \in Nat
    PROVE  /\ Least(a, b) \in Nat /\ Most(a, b) \in Nat /\ Less(a, b) \in Nat
           /\ Least(a, b) <= a /\ Least(a, b) <= b /\ Most(a, b) >= a /\ Most(a, b) >= b
           /\ Less(a, b) <= a /\ (Less(a, b) = 0 <=> a <= b) /\ Less(a, b) + b >= a
           /\ a >= b => Less(a, b) + b = a
           /\ Least(a, b) \in {a, b} /\ Most(a, b) \in {a, b}
BY DEF Least, Most, Less

LEMMA WindowNumbers ==
    ASSUME NEW w \in Window
    PROVE  /\ w \in WindowFields /\ Labelled(w) /\ w.start <= w.last
           /\ w.start \in Nat /\ w.size \in Nat /\ w.end \in Nat /\ w.last \in Nat /\ w.heard \in Nat
           /\ w.submitted \in Nat \cup {None} /\ w.held \in [start : Nat, end : Nat] \cup {None}
           /\ w.epoch \in Nat \cup {None} /\ w.alien \in BOOLEAN /\ w.torn \in BOOLEAN
BY DEF Window, WindowFields

LEMMA JobNumbers ==
    ASSUME NEW j \in Job
    PROVE  /\ j.key \in Key /\ j.call \in Nat /\ j.flush \in Nat
           /\ j.from \in Nat /\ j.start \in Nat /\ j.end \in Nat
           /\ j.stale \in BOOLEAN /\ j.late \in BOOLEAN /\ j.used \in BOOLEAN
           /\ j.start <= j.from /\ j.from < j.end
BY DEF Job, JobFields

(* The cursor's effective position is a number, not before the first block.  *)
LEMMA Cursor ==
    ASSUME NEW w \in Window
    PROVE  /\ effectiveDecodeAbsolute(w) \in Nat /\ effectiveDecodeAbsolute(w) >= w.last
           /\ w.submitted = None => effectiveDecodeAbsolute(w) = w.last
           /\ w.submitted # None => effectiveDecodeAbsolute(w) = Most(w.last, w.submitted)
           /\ Decoded(w) \in Nat /\ Decoded(w) <= w.size
           /\ w.start + Decoded(w) <= effectiveDecodeAbsolute(w)
           /\ Undecoded(w) \in Nat /\ Undecoded(w) = w.size - Decoded(w)
<1>1. /\ effectiveDecodeAbsolute(w) \in Nat /\ effectiveDecodeAbsolute(w) >= w.last
      /\ w.submitted = None => effectiveDecodeAbsolute(w) = w.last
      /\ w.submitted # None => effectiveDecodeAbsolute(w) = Most(w.last, w.submitted)
  <2>1. CASE w.submitted = None
    BY <2>1, WindowNumbers DEF effectiveDecodeAbsolute
  <2>2. CASE w.submitted # None
    <3>1. w.submitted \in Nat /\ w.last \in Nat
      BY <2>2, WindowNumbers
    <3> QED
      BY <2>2, <3>1, Arithmetic DEF effectiveDecodeAbsolute
  <2> QED
    BY <2>1, <2>2
<1>2. /\ Decoded(w) \in Nat /\ Decoded(w) <= w.size
      /\ w.start + Decoded(w) <= effectiveDecodeAbsolute(w)
  BY <1>1, WindowNumbers DEF Decoded, Least, Less
<1> QED
  BY <1>1, <1>2, WindowNumbers DEF Undecoded

LEMMA NoWindowTyped == NoWindow \in Window /\ NoWindow.alien = FALSE /\ NoWindow.size = 0
BY DEF NoWindow, Window, WindowFields, Labelled

LEMMA MarksTyped ==
    ASSUME NEW w \in Window, NEW n \in Nat, NEW a \in BOOLEAN
    PROVE  /\ [markDecodeSubmitted(w, n) EXCEPT !.alien = a] \in Window
           /\ rollbackSubmittedDecode(w) \in Window
<1>1. w \in WindowFields
  BY DEF Window
<1>2. /\ [markDecodeSubmitted(w, n) EXCEPT !.alien = a] \in WindowFields
      /\ rollbackSubmittedDecode(w) \in WindowFields
  BY <1>1 DEF WindowFields, markDecodeSubmitted, rollbackSubmittedDecode
<1>3. /\ [markDecodeSubmitted(w, n) EXCEPT !.alien = a].size = w.size
      /\ [markDecodeSubmitted(w, n) EXCEPT !.alien = a].torn = w.torn
      /\ [markDecodeSubmitted(w, n) EXCEPT !.alien = a].start = w.start
      /\ [markDecodeSubmitted(w, n) EXCEPT !.alien = a].end = w.end
      /\ [markDecodeSubmitted(w, n) EXCEPT !.alien = a].last = w.last
  BY <1>1 DEF WindowFields, markDecodeSubmitted
<1>4. /\ rollbackSubmittedDecode(w).size = w.size /\ rollbackSubmittedDecode(w).torn = w.torn
      /\ rollbackSubmittedDecode(w).start = w.start /\ rollbackSubmittedDecode(w).end = w.end
      /\ rollbackSubmittedDecode(w).last = w.last
  BY <1>1 DEF WindowFields, rollbackSubmittedDecode
<1> QED
  BY <1>2, <1>3, <1>4 DEF Window, Labelled

-----------------------------------------------------------------------------
(* What the operators on a window keep.                                       *)

LEMMA ConsumedTyped ==
    ASSUME NEW w \in Window, NEW r \in Job
    PROVE  /\ Consumed(w, r) \in Window
           /\ Consumed(w, r).submitted = None
           /\ Consumed(w, r).last = IF r.used THEN Most(w.last, r.end) ELSE w.last
           /\ Consumed(w, r).heard = IF r.used THEN Heard(w, r) ELSE w.heard
           /\ Consumed(w, r).alien = (w.alien \/ w.submitted = None)
<1> DEFINE last == IF r.used THEN Most(w.last, r.end) ELSE w.last
           heard == IF r.used THEN Heard(w, r) ELSE w.heard
           held == IF r.used THEN (IF w.held # None /\ r.end >= w.held.end THEN None ELSE w.held)
                   ELSE IF r.end > w.last THEN [start |-> w.last, end |-> r.end] ELSE None
           v == [start |-> w.start, size |-> w.size, end |-> w.end, last |-> last,
                 submitted |-> None, held |-> held, epoch |-> w.epoch, heard |-> heard,
                 alien |-> (w.alien \/ w.submitted = None), torn |-> w.torn]
<1>1. w \in WindowFields /\ r.end \in Nat /\ r.from \in Nat /\ r.used \in BOOLEAN
      /\ w.last \in Nat /\ w.heard \in Nat
  BY WindowNumbers, JobNumbers
<1>2. Consumed(w, r) = v
  <2> DEFINE c == [start |-> w.start, size |-> w.size, end |-> w.end, last |-> last,
                   submitted |-> None, held |-> held, epoch |-> w.epoch, heard |-> w.heard,
                   alien |-> w.alien, torn |-> w.torn]
  <2>0. w = [start |-> w.start, size |-> w.size, end |-> w.end, last |-> w.last,
             submitted |-> w.submitted, held |-> w.held, epoch |-> w.epoch,
             heard |-> w.heard, alien |-> w.alien, torn |-> w.torn]
    BY <1>1 DEF WindowFields
  <2>1. CASE r.used
    <3>0. commitDecodeAbsolute(w, r.end) =
              [w EXCEPT !.last = last, !.submitted = None, !.held = held]
      BY <2>1 DEF commitDecodeAbsolute
    <3>1. commitDecodeAbsolute(w, r.end) = c
      <4> HIDE DEF last, held
      <4> QED
        BY <1>1, <3>0 DEF WindowFields
    <3>2. Consumed(w, r) = [c EXCEPT !.heard = Heard(w, r), !.alien = c.alien \/ w.submitted = None]
      BY <2>1, <3>1 DEF Consumed
    <3>3. heard = Heard(w, r)
      BY <2>1
    <3> HIDE DEF last, held, heard
    <3> QED
      BY <3>2, <3>3
  <2>2. CASE ~r.used
    <3>0. holdDecodeAbsolute(w, r.end) = [w EXCEPT !.submitted = None, !.held = held]
      BY <2>2 DEF holdDecodeAbsolute
    <3>a. last = w.last
      BY <2>2
    <3>1. holdDecodeAbsolute(w, r.end) = c
      <4> HIDE DEF last, held
      <4> QED
        BY <1>1, <3>0, <3>a DEF WindowFields
    <3>2. Consumed(w, r) = [c EXCEPT !.heard = c.heard, !.alien = c.alien \/ w.submitted = None]
      BY <2>2, <3>1 DEF Consumed
    <3>3. heard = w.heard
      BY <2>2
    <3> HIDE DEF last, held, heard
    <3> QED
      BY <3>2, <3>3
  <2> QED
    BY <1>1, <2>1, <2>2
<1>3. /\ last \in Nat /\ last >= w.last /\ heard \in Nat
  BY <1>1 DEF Heard, Most
<1>4. held \in [start : Nat, end : Nat] \cup {None}
  BY <1>1, WindowNumbers
<1>5. (w.alien \/ w.submitted = None) \in BOOLEAN
  OBVIOUS
<1> HIDE DEF last, heard, held
<1>6. v \in WindowFields
  BY <1>1, <1>3, <1>4, <1>5, WindowNumbers DEF WindowFields
<1>7. Labelled(v) /\ v.start <= v.last
  BY <1>3, WindowNumbers DEF Labelled
<1>8. v \in Window
  BY <1>6, <1>7 DEF Window
<1> QED
  BY <1>2, <1>8 DEF last, heard

LEMMA CutTyped ==
    ASSUME NEW w \in Window, NEW n \in Nat, n <= w.size
    PROVE  /\ Cut(w, n) \in Window
           /\ Cut(w, n).start = w.start + n /\ Cut(w, n).size = w.size - n
           /\ Cut(w, n).last = Most(w.last, w.start + n)
           /\ Cut(w, n).submitted = w.submitted /\ Cut(w, n).heard = w.heard
           /\ Cut(w, n).alien = w.alien /\ Cut(w, n).end = w.end
<1> DEFINE v == Cut(w, n)
<1>1. w \in WindowFields /\ w.size \in Nat /\ w.start \in Nat /\ w.last \in Nat /\ w.end \in Nat
  BY WindowNumbers
<1>2. /\ v.start = w.start + n /\ v.size = w.size - n /\ v.last = Most(w.last, w.start + n)
      /\ v.submitted = w.submitted /\ v.heard = w.heard /\ v.alien = w.alien
      /\ v.end = w.end /\ v.torn = w.torn
  BY <1>1 DEF Cut, WindowFields
<1>3. w.start + n \in Nat /\ w.size - n \in Nat /\ Most(w.last, w.start + n) \in Nat
      /\ Most(w.last, w.start + n) >= w.start + n
  BY <1>1 DEF Most
<1>4. v \in WindowFields
  BY <1>1, <1>3 DEF Cut, WindowFields
<1>5. Labelled(v) /\ v.start <= v.last
  BY <1>1, <1>2, <1>3, WindowNumbers DEF Labelled
<1> QED
  BY <1>2, <1>4, <1>5 DEF Window

(* Trimming drops blocks of the window's beginning and moves its labels.     *)
LEMMA TrimmedTyped ==
    ASSUME VoiceTyped, NEW w \in Window
    PROVE  /\ Trimmed(w) \in Window
           /\ Trimmed(w).submitted = w.submitted /\ Trimmed(w).alien = w.alien
           /\ \E n \in Nat :
                 /\ n <= w.size
                 /\ Trimmed(w).last = Most(w.last, w.start + n)
                 /\ \/ n <= Spare(w) /\ ~Overreached(w) /\ Trimmed(w).heard = w.heard
                    \/ Trimmed(w).heard = Most(w.heard, Trimmed(w).last)
           /\ w.size > 0 => Trimmed(w).size > 0
<1>1. /\ w.size \in Nat /\ w.start \in Nat /\ w.heard \in Nat /\ Decoded(w) \in Nat
      /\ Decoded(w) <= w.size /\ use.roll \in Nat \ {0} /\ use.protect \in Nat
  BY WindowNumbers, Cursor, UseNumbers
<1> DEFINE over == Less(w.size, use.roll)
           forced == Spare(w) = 0 /\ w.size > 4 * use.roll
           n == IF forced THEN over ELSE Least(over, Spare(w))
           cut == Cut(w, n)
           given == forced \/ Overreached(w)
           heard == IF given THEN Most(cut.heard, cut.last) ELSE cut.heard
<1>2. /\ over \in Nat /\ over <= w.size /\ Spare(w) \in Nat
      /\ w.size > 0 => over < w.size
  BY <1>1 DEF Less, Spare
<1>3. /\ n \in Nat /\ n <= w.size /\ (~forced => n <= Spare(w))
      /\ w.size > 0 => n < w.size
  <2> HIDE DEF over, forced
  <2>1. /\ Least(over, Spare(w)) \in Nat /\ Least(over, Spare(w)) <= Spare(w)
        /\ Least(over, Spare(w)) <= over
    BY <1>2 DEF Least
  <2>2. n = over \/ n = Least(over, Spare(w))
    BY <2>1
  <2>3. ~forced => n <= Spare(w)
    BY <2>1
  <2> HIDE DEF n
  <2> QED
    BY <1>1, <1>2, <2>1, <2>2, <2>3
<1>4. Trimmed(w) = [cut EXCEPT !.heard = heard]
  BY DEF Trimmed
<1> HIDE DEF n
<1>5. /\ cut \in Window /\ cut.last = Most(w.last, w.start + n) /\ cut.submitted = w.submitted
      /\ cut.heard = w.heard /\ cut.alien = w.alien /\ cut.size = w.size - n
  BY <1>3, CutTyped
<1> HIDE DEF cut
<1>6. heard \in Nat /\ heard = (IF given THEN Most(w.heard, cut.last) ELSE w.heard)
  BY <1>5, WindowNumbers DEF Most
<1>g. given = (forced \/ Overreached(w))
  OBVIOUS
<1> HIDE DEF heard, given, forced
<1>7. /\ Trimmed(w) \in WindowFields
      /\ Trimmed(w).start = cut.start /\ Trimmed(w).size = cut.size /\ Trimmed(w).end = cut.end
      /\ Trimmed(w).last = cut.last /\ Trimmed(w).submitted = cut.submitted
      /\ Trimmed(w).alien = cut.alien /\ Trimmed(w).torn = cut.torn
      /\ Trimmed(w).heard = heard
  BY <1>4, <1>5, <1>6 DEF Window, WindowFields
<1>8. Trimmed(w) \in Window
  BY <1>5, <1>7 DEF Window, Labelled
<1>9. \/ n <= Spare(w) /\ ~Overreached(w) /\ Trimmed(w).heard = w.heard
      \/ Trimmed(w).heard = Most(w.heard, Trimmed(w).last)
  BY <1>3, <1>6, <1>7, <1>g
<1>10. w.size > 0 => Trimmed(w).size > 0
  BY <1>1, <1>3, <1>5, <1>7
<1> QED
  BY <1>3, <1>5, <1>7, <1>8, <1>9, <1>10

(* The cursor has passed nothing that was not heard or given up.              *)
Sound(w) == w.last <= w.heard

LEMMA TrimmedSound ==
    ASSUME VoiceTyped, NEW w \in Window, Sound(w)
    PROVE  Sound(Trimmed(w))
<1> DEFINE v == Trimmed(w)
<1>1. v \in Window
  BY TrimmedTyped
<1>2. PICK n \in Nat : /\ n <= w.size /\ v.last = Most(w.last, w.start + n)
                       /\ \/ n <= Spare(w) /\ ~Overreached(w) /\ v.heard = w.heard
                          \/ v.heard = Most(w.heard, v.last)
  BY TrimmedTyped
<1>3. /\ w.start \in Nat /\ w.last \in Nat /\ w.heard \in Nat /\ w.start <= w.last
      /\ use.protect \in Nat /\ w.submitted \in Nat \cup {None} /\ w.size \in Nat
      /\ v.last \in Nat
  BY <1>1, WindowNumbers, UseNumbers
<1> HIDE DEF v
<1>4. CASE v.heard = Most(w.heard, v.last)
  BY <1>3, <1>4 DEF Sound, Most, v
<1>5. CASE n <= Spare(w) /\ ~Overreached(w) /\ v.heard = w.heard
  <2>1. n = 0 \/ n + use.protect <= Decoded(w)
    BY <1>3, <1>5, Cursor DEF Spare, Less
  <2>2. /\ Decoded(w) \in Nat /\ w.start + Decoded(w) <= effectiveDecodeAbsolute(w)
        /\ w.submitted = None => effectiveDecodeAbsolute(w) = w.last
        /\ w.submitted # None => effectiveDecodeAbsolute(w) = Most(w.last, w.submitted)
    BY Cursor
  <2>3. w.start + n <= w.last
    <3>1. CASE n = 0
      BY <1>3, <3>1
    <3>2. CASE n # 0 /\ w.submitted = None
      BY <1>3, <2>1, <2>2, <3>2
    <3>3. CASE n # 0 /\ w.submitted # None
      <4>1. /\ w.submitted \in Nat /\ w.submitted <= w.last + use.protect
            /\ effectiveDecodeAbsolute(w) = Most(w.last, w.submitted)
        BY <1>3, <1>5, <2>2, <3>3 DEF Overreached
      <4>2. Most(w.last, w.submitted) <= w.last + use.protect
        BY <1>3, <4>1 DEF Most
      <4>3. n + use.protect <= Decoded(w)
        BY <2>1, <3>3
      <4> DEFINE d == Decoded(w)
                 e == effectiveDecodeAbsolute(w)
      <4>4. e <= w.last + use.protect /\ w.start + d <= e /\ e \in Nat /\ d \in Nat
            /\ n + use.protect <= d
        BY <2>2, <4>1, <4>2, <4>3, Cursor
      <4> HIDE DEF d, e
      <4> QED
        BY <1>3, <4>4
    <3> QED
      BY <3>1, <3>2, <3>3
  <2>4. v.last = w.last
    BY <1>2, <1>3, <2>3 DEF Most
  <2> QED
    BY <1>5, <2>4 DEF Sound, v
<1> QED
  BY <1>2, <1>4, <1>5

(* IQ joins the window at its end; its labels stay true, what it says of the *)
(* cursor too.                                                               *)
LEMMA AppendTyped ==
    ASSUME VoiceTyped, NEW w \in Window, NEW iq, iq.start \in Nat, iq.end \in Nat, iq.epoch \in Nat,
           iq.start <= iq.end
    PROVE  /\ append(w, iq) \in Window
           /\ append(w, iq).submitted = w.submitted /\ append(w, iq).alien = w.alien
           /\ w.size = 0 /\ w.submitted = None => Sound(append(w, iq))
           /\ w.size > 0 => append(w, iq).heard >= w.heard
           /\ w.size > 0 /\ Sound(w) => Sound(append(w, iq))
<1>1. /\ w \in WindowFields /\ w.start \in Nat /\ w.size \in Nat /\ w.end \in Nat /\ w.last \in Nat
      /\ w.heard \in Nat /\ w.start <= w.last /\ Labelled(w) /\ use.protect \in Nat
  BY WindowNumbers, UseNumbers
<1>2. CASE w.size = 0
  <2> DEFINE v == [w EXCEPT !.start = iq.start, !.end = iq.end, !.size = iq.end - iq.start,
                            !.last = iq.start, !.heard = iq.start, !.epoch = iq.epoch]
  <2>1. append(w, iq) = v
    BY <1>2 DEF append
  <2>2. iq.end - iq.start \in Nat
    OBVIOUS
  <2>3. /\ v \in WindowFields /\ v.start = iq.start /\ v.end = iq.end /\ v.size = iq.end - iq.start
        /\ v.last = iq.start /\ v.heard = iq.start /\ v.submitted = w.submitted
        /\ v.alien = w.alien /\ v.torn = w.torn
    BY <1>1, <2>2 DEF WindowFields
  <2> HIDE DEF v
  <2>4. v \in Window
    BY <2>3 DEF Window, Labelled
  <2> QED
    BY <1>2, <2>1, <2>3, <2>4 DEF Sound
<1>3. CASE w.size # 0 /\ iq.end <= w.end
  <2> DEFINE v == [w EXCEPT !.epoch = iq.epoch]
  <2>1. append(w, iq) = v
    BY <1>3 DEF append
  <2>2. /\ v \in WindowFields /\ v.start = w.start /\ v.end = w.end /\ v.size = w.size
        /\ v.last = w.last /\ v.heard = w.heard /\ v.submitted = w.submitted
        /\ v.alien = w.alien /\ v.torn = w.torn
    BY <1>1 DEF WindowFields
  <2> HIDE DEF v
  <2> QED
    BY <1>1, <1>3, <2>1, <2>2 DEF Window, Labelled, Sound
<1>4. CASE w.size # 0 /\ ~(iq.end <= w.end)
  <2> DEFINE hole == Hole(w, iq.start)
             new == iq.end - Most(iq.start, w.end)
             torn == w.torn \/ Less(iq.start, w.end) > Join
             v == [w EXCEPT !.size = w.size + hole + new, !.end = iq.end, !.epoch = iq.epoch,
                            !.torn = torn]
  <2>1. append(w, iq) = Trimmed(v)
    BY <1>4 DEF append
  <2>2. /\ hole \in Nat /\ new \in Nat
        /\ Less(iq.start, w.end) <= Join => hole + new = iq.end - w.end
    BY <1>1, <1>4 DEF Hole, Less, Most
  <2>3. torn \in BOOLEAN /\ (~torn => ~w.torn /\ Less(iq.start, w.end) <= Join)
    BY <1>1 DEF Less
  <2> HIDE DEF hole, new, torn
  <2>4. w.size + hole + new \in Nat
    BY <1>1, <2>2
  <2>5. /\ v \in WindowFields /\ v.start = w.start /\ v.end = iq.end /\ v.size = w.size + hole + new
        /\ v.last = w.last /\ v.heard = w.heard /\ v.submitted = w.submitted
        /\ v.alien = w.alien /\ v.torn = torn
    BY <1>1, <2>3, <2>4 DEF WindowFields
  <2> HIDE DEF v
  <2>6. v.torn \/ v.end = v.start + v.size
    BY <1>1, <1>4, <2>2, <2>3, <2>5 DEF Labelled
  <2>7. v \in Window
    BY <1>1, <2>5, <2>6 DEF Window, Labelled
  <2>8. /\ Trimmed(v) \in Window /\ Trimmed(v).submitted = v.submitted /\ Trimmed(v).alien = v.alien
        /\ Trimmed(v).heard >= v.heard
    <3>1. Trimmed(v).heard \in {v.heard, Most(v.heard, Trimmed(v).last)}
      BY <2>7, TrimmedTyped
    <3>2. Trimmed(v).heard >= v.heard
      BY <1>1, <2>5, <2>7, <3>1, TrimmedTyped, WindowNumbers DEF Most
    <3> QED
      BY <2>7, <3>2, TrimmedTyped
  <2>9. Sound(w) => Sound(Trimmed(v))
    <3>1. Sound(w) => Sound(v)
      BY <2>5 DEF Sound
    <3> QED
      BY <2>7, <3>1, TrimmedSound
  <2> QED
    BY <1>4, <2>1, <2>5, <2>8, <2>9
<1> QED
  BY <1>1, <1>2, <1>3, <1>4

(* A chunk begins at the cursor, or before it where IQ is missing.           *)
LEMMA TakeTyped ==
    ASSUME VoiceTyped, NEW w \in Window, MayTake(w), sch.key \in Key, sch.call \in Nat
    PROVE  /\ takeUndecoded(w) \in Job
           /\ takeUndecoded(w).from <= effectiveDecodeAbsolute(w)
           /\ \E size \in {use.cold, use.hop, use.catchUp} :
                 takeUndecoded(w).end <= takeUndecoded(w).from + size
<1>1. /\ w.start \in Nat /\ Decoded(w) \in Nat /\ w.start + Decoded(w) <= effectiveDecodeAbsolute(w)
      /\ Undecoded(w) \in Nat /\ Undecoded(w) > 0 /\ flush \in Nat /\ Overlap \in Nat
  BY WindowNumbers, Cursor DEF MayTake, VoiceTyped
<1>2. Chunk(w) \in {use.cold, use.hop, use.catchUp} /\ Chunk(w) \in Nat \ {0}
  BY UseNumbers DEF Chunk
<1> DEFINE from == w.start + Decoded(w)
           start == Most(w.start, Less(from, Overlap))
           end == from + Least(Chunk(w), Undecoded(w))
<1>3. /\ from \in Nat /\ start \in Nat /\ end \in Nat /\ start <= from /\ from < end
      /\ end <= from + Chunk(w)
  BY <1>1, <1>2 DEF Most, Less, Least
<1>4. takeUndecoded(w) = [key |-> sch.key, call |-> sch.call, flush |-> flush,
          from |-> from, start |-> start, end |-> end,
          stale |-> FALSE, late |-> FALSE, used |-> FALSE]
  BY DEF takeUndecoded
<1> HIDE DEF from, start, end
<1>5. takeUndecoded(w) \in JobFields
  BY <1>1, <1>3, <1>4 DEF JobFields
<1>6. takeUndecoded(w) \in Job
  BY <1>3, <1>4, <1>5 DEF Job
<1> QED
  BY <1>1, <1>2, <1>3, <1>4, <1>6 DEF from

LEMMA Puts ==
    ASSUME VoiceTyped, NEW k \in Key, NEW w \in Window, windows' = Put(k, w)
    PROVE  /\ windows' \in [DOMAIN windows' -> Window] /\ DOMAIN windows' \subseteq Key
           /\ DOMAIN windows' = DOMAIN windows \cup {k}
           /\ windows'[k] = w /\ \A x \in DOMAIN windows : x # k => windows'[x] = windows[x]
<1>1. DOMAIN windows' = DOMAIN windows \cup {k}
  BY DEF Put
<1>2. windows' = [x \in DOMAIN windows' |-> IF x = k THEN w ELSE windows[x]]
  BY <1>1 DEF Put
<1>3. \A x \in DOMAIN windows : windows[x] \in Window
  BY DEF VoiceTyped
<1> QED
  BY <1>1, <1>2, <1>3 DEF VoiceTyped

LEMMA Keeps ==
    ASSUME VoiceTyped, NEW S, windows' = Only(S)
    PROVE  /\ windows' \in [DOMAIN windows' -> Window] /\ DOMAIN windows' \subseteq Key
           /\ DOMAIN windows' = DOMAIN windows \cap S
           /\ \A x \in DOMAIN windows' : windows'[x] = windows[x]
<1>1. DOMAIN windows' = DOMAIN windows \cap S
  BY DEF Only
<1>2. windows' = [x \in DOMAIN windows' |-> windows[x]]
  BY <1>1 DEF Only
<1>3. \A x \in DOMAIN windows : windows[x] \in Window
  BY DEF VoiceTyped
<1> QED
  BY <1>1, <1>2, <1>3 DEF VoiceTyped

-----------------------------------------------------------------------------
(* The invariant of the books: types, what is in hand, one chunk at most.     *)

(* One chunk at most is on its way; "done" is the worker between the push of *)
(* a result and its next look at the queue.                                  *)
Busy == worker.pc \in {"decode", "push"}
Single == Len(pending) + Len(completed) + Len(publish) + (IF Busy THEN 1 ELSE 0) <= 1

VoiceInv == VoiceTyped /\ InHand /\ Single

Lengths == {Len(pending), Len(completed), Len(publish)} \subseteq Nat

LEMMA LengthsTyped == VoiceTyped => Lengths
BY LenProperties DEF VoiceTyped, Lengths

LEMMA NextLoopTyped ==
    ASSUME VoiceTyped, NextLoop
    PROVE  sch' \in SchFields /\ sch'.pc = "drain" /\ sch'.flush = sch.flush
<1>1. sch \in SchFields
  BY DEF VoiceTyped
<1> QED
  BY <1>1 DEF NextLoop, SchFields, Places

LEMMA MovedTyped ==
    ASSUME VoiceTyped, NEW at \in Nat, NEW seen \in Nat \cup {None}
    PROVE  LET m == Moved(at, seen)
           IN  /\ m \in SchFields /\ m.pc = sch.pc /\ m.flush = sch.flush /\ m.id = sch.id
               /\ m.key = sch.key /\ m.call = sch.call /\ m.job = sch.job /\ m.at \in {at, sch.at}
<1>1. sch \in SchFields
  BY DEF VoiceTyped
<1> QED
  BY <1>1 DEF Moved, SchFields

LEMMA BeforeLiveEdgeTyped == VoiceTyped => BeforeLiveEdge \in Nat
BY SMTT(30) DEF VoiceTyped, BeforeLiveEdge, Most, Least

LEMMA ResetRx ==
    ASSUME NEW r \in RxFields
    PROVE  /\ Reset(r) \in RxFields /\ Reset(r).id = r.id /\ Reset(r).gen \in {r.gen, r.gen + 1}
           /\ Reset(r).gen >= r.gen
<1>1. r.gen \in Nat /\ r.gen + 1 \in Nat /\ r.gen + 1 >= r.gen
  BY DEF RxFields
<1>2. CASE dspFree
  <2> DEFINE next == r.gen + 1
  <2>1. Reset(r) = [r EXCEPT !.gen = next, !.resetPending = FALSE, !.eye = FALSE]
    BY <1>2 DEF Reset
  <2>2. next \in Nat /\ next >= r.gen
    BY <1>1
  <2> HIDE DEF next
  <2>3. Reset(r) \in RxFields /\ Reset(r).id = r.id /\ Reset(r).gen = next
    BY <2>1, <2>2 DEF RxFields
  <2> QED
    BY <2>2, <2>3 DEF next
<1>3. CASE ~dspFree
  <2>1. Reset(r) = [r EXCEPT !.resetPending = TRUE]
    BY <1>3 DEF Reset
  <2>2. Reset(r) \in RxFields /\ Reset(r).id = r.id /\ Reset(r).gen = r.gen
    BY <2>1 DEF RxFields
  <2> QED
    BY <1>1, <2>2
<1> QED
  BY <1>2, <1>3

LEMMA ClearedRx ==
    ASSUME VoiceTyped
    PROVE  cleared \in RxFields /\ cleared.id = rx.id /\ cleared.gen >= rx.gen /\ cleared.gen \in Nat
<1> DEFINE r == [rx EXCEPT !.decode = FALSE, !.eye = FALSE, !.clearDue = FALSE]
<1>1. r \in RxFields /\ r.id = rx.id /\ r.gen = rx.gen
  BY DEF VoiceTyped, RxFields
<1> HIDE DEF r
<1>2. cleared = Reset(r)
  BY DEF cleared, r
<1>3. cleared \in RxFields /\ cleared.id = r.id /\ cleared.gen >= r.gen
  BY <1>1, <1>2, ResetRx
<1> QED
  BY <1>1, <1>3 DEF RxFields

(* What the worker and the DSP thread have in hand stays when they do not    *)
(* move.                                                                     *)
LEMMA OutsideKeeps ==
    ASSUME VoiceInv, UNCHANGED <<use, windows, worker, publish>>,
           epoch' \in Nat, live' \in Nat, floor' \in Nat, events' \in Nat,
           rx' \in RxFields, flush' \in Nat, turns' \in Nat,
           sch' = sch \/ \E at \in Nat, seen \in Nat \cup {None} : sch' = Moved(at, seen),
           \/ UNCHANGED <<pending, completed>>
           \/ pending' = <<>> /\ completed' = <<>>
    PROVE  VoiceInv'
<1>1. /\ sch' \in SchFields /\ sch'.pc = sch.pc /\ sch'.key = sch.key /\ sch'.call = sch.call
      /\ sch'.job = sch.job /\ (sch'.at = sch.at \/ sch'.at \in Nat)
  <2>1. CASE sch' = sch
    BY <2>1 DEF VoiceInv, VoiceTyped
  <2>2. CASE \E at \in Nat, seen \in Nat \cup {None} : sch' = Moved(at, seen)
    <3>1. PICK at \in Nat, seen \in Nat \cup {None} : sch' = Moved(at, seen)
      BY <2>2
    <3> QED
      BY SMTT(30), <3>1, MovedTyped DEF VoiceInv
  <2> QED
    BY <2>1, <2>2
<1>2. pending' \in Seq(Job) /\ completed' \in Seq(Job)
  BY EmptySeq DEF VoiceInv, VoiceTyped
<1>3. VoiceTyped'
  BY <1>1, <1>2 DEF VoiceInv, VoiceTyped
<1>4. InHand'
  BY <1>1 DEF VoiceInv, InHand
<1>5. Single'
  <2>1. Lengths
    BY LengthsTyped DEF VoiceInv
  <2>2. /\ Len(pending') <= Len(pending) /\ Len(completed') <= Len(completed)
        /\ Len(pending') \in Nat /\ Len(completed') \in Nat
    BY SMTT(30), <2>1, EmptySeq DEF Lengths
  <2>3. Busy' = Busy /\ Len(publish') = Len(publish)
    BY DEF Busy
  <2> QED
    BY <2>1, <2>2, <2>3 DEF VoiceInv, Single, Lengths
<1> QED
  BY <1>3, <1>4, <1>5 DEF VoiceInv

LEMMA OutsideInv ==
    ASSUME VoiceInv,
           Receive \/ Retune \/ Restart \/ Arm \/ ReturnToControl \/ ClearLater \/ Replace
    PROVE  VoiceInv'
<1>0. VoiceTyped /\ {epoch, live, floor, events, flush, turns} \subseteq Nat /\ rx \in RxFields
  BY DEF VoiceInv, VoiceTyped
<1>s. sch.epoch \in Nat \cup {None}
  BY DEF VoiceInv, VoiceTyped, SchFields
<1>b. BeforeLiveEdge \in Nat
  BY <1>0, BeforeLiveEdgeTyped
<1>1. CASE Receive \/ Retune \/ Restart
  <2>1. /\ epoch' \in Nat /\ live' \in Nat /\ floor' \in Nat /\ events' \in Nat
        /\ UNCHANGED <<use, rx, flush, turns, sch, windows, pending, worker, completed, publish>>
    BY <1>0, <1>1 DEF Receive, Retune, Restart, rxVars, flight
  <2> QED
    BY <1>0, <2>1, OutsideKeeps
<1>2. CASE Arm
  <2>1. /\ turns' \in Nat
        /\ UNCHANGED <<use, epoch, live, floor, events, windows, worker, publish, flush, pending, completed>>
    BY <1>0, <1>2 DEF Arm, Turn, radioVars
  <2>2. rx' \in RxFields
    <3>1. PICK call \in {rx.call, rx.call + 1} :
              rx' = Reset([rx EXCEPT !.call = call, !.decode = TRUE])
      BY <1>2 DEF Arm
    <3>2. call \in Nat
      BY <1>0 DEF RxFields
    <3>3. [rx EXCEPT !.call = call, !.decode = TRUE] \in RxFields
      BY <1>0, <3>2 DEF RxFields
    <3> QED
      BY <3>1, <3>3, ResetRx
  <2>3. \E at \in Nat, seen \in Nat \cup {None} : sch' = Moved(at, seen)
    <3>1. sch' = Moved(BeforeLiveEdge, epoch) \/ sch' = Moved(0, sch.epoch)
      BY <1>2 DEF Arm
    <3> QED
      BY <1>0, <1>s, <1>b, <3>1
  <2> QED
    BY <1>0, <2>1, <2>2, <2>3, OutsideKeeps
<1>3. ASSUME clearP25VoiceFollowState
      PROVE  rx' \in RxFields /\ \E at \in Nat, seen \in Nat \cup {None} : sch' = Moved(at, seen)
  <2>1. rx' = cleared /\ (sch' = Moved(0, 0) \/ sch' = Moved(0, sch.epoch))
    BY <1>3 DEF clearP25VoiceFollowState
  <2> QED
    BY <1>0, <1>s, <2>1, ClearedRx
<1>4. CASE ReturnToControl
  <2>1. /\ turns' \in Nat /\ flush' \in Nat
        /\ UNCHANGED <<use, epoch, live, floor, events, windows, worker, publish>>
        /\ \/ UNCHANGED <<pending, completed>>
           \/ pending' = <<>> /\ completed' = <<>>
    BY <1>0, <1>4 DEF ReturnToControl, Turn, radioVars, DropsWaiting
  <2>2. CASE clearP25VoiceFollowState
    BY <1>0, <1>3, <2>1, <2>2, OutsideKeeps
  <2>3. CASE rx' = [rx EXCEPT !.clearDue = TRUE] /\ UNCHANGED sch
    <3>1. rx' \in RxFields
      BY <1>0, <2>3 DEF RxFields
    <3> QED
      BY <1>0, <2>1, <2>3, <3>1, OutsideKeeps
  <2> QED
    BY <1>4, <2>2, <2>3 DEF ReturnToControl
<1>5. CASE ClearLater
  <2>1. UNCHANGED <<use, epoch, live, floor, events, turns, windows, pending, worker, completed, publish>>
    BY <1>5 DEF ClearLater, radioVars, flight
  <2>2. CASE clearP25VoiceFollowState /\ flush' \in {flush, flush + 1}
    <3>1. flush' \in Nat
      BY <1>0, <2>2
    <3> QED
      BY <1>0, <1>3, <2>1, <2>2, <3>1, OutsideKeeps
  <2>3. CASE rx' = [rx EXCEPT !.clearDue = FALSE] /\ UNCHANGED <<sch, flush>>
    <3>1. rx' \in RxFields
      BY <1>0, <2>3 DEF RxFields
    <3> QED
      BY <1>0, <2>1, <2>3, <3>1, OutsideKeeps
  <2> QED
    BY <1>5, <2>2, <2>3 DEF ClearLater
<1>6. CASE Replace
  <2>1. /\ turns' \in Nat /\ flush' \in Nat
        /\ UNCHANGED <<use, epoch, live, floor, events, windows, worker, publish, sch>>
        /\ \/ UNCHANGED <<pending, completed>>
           \/ pending' = <<>> /\ completed' = <<>>
    BY SMTT(30), <1>0, <1>6 DEF Replace, Turn, radioVars, DropsWaiting
  <2>2. rx' \in RxFields
    BY <1>0, <1>6 DEF Replace, RxFields
  <2> QED
    BY <1>0, <2>1, <2>2, OutsideKeeps
<1> QED
  BY <1>1, <1>2, <1>4, <1>5, <1>6

LEMMA WorkerInv ==
    ASSUME VoiceInv, Worker
    PROVE  VoiceInv'
<1>0. /\ VoiceTyped /\ Lengths /\ pending \in Seq(Job) /\ completed \in Seq(Job)
      /\ worker \in [pc : {"idle", "decode", "push", "done"}, job : Job \cup {None}]
  BY LengthsTyped DEF VoiceInv, VoiceTyped
<1>1. UNCHANGED <<use, epoch, live, floor, events, flush, turns, sch, windows, publish>>
  BY DEF Worker, Decline, Begin, Decode, Push, Rest, Work, radioVars
<1>k. ASSUME rx' \in RxFields,
             worker' \in [pc : {"idle", "decode", "push", "done"}, job : Job \cup {None}],
             worker'.pc \in {"decode", "push"} => worker'.job \in Job,
             worker'.pc \in {"idle", "done"} => worker'.job = None,
             pending' \in Seq(Job), completed' \in Seq(Job), Single'
      PROVE  VoiceInv'
  <2>1. VoiceTyped'
    BY <1>1, <1>k DEF VoiceInv, VoiceTyped
  <2>2. InHand'
    BY <1>1, <1>k DEF VoiceInv, InHand
  <2> QED
    BY <1>k, <2>1, <2>2 DEF VoiceInv
<1>r. rx \in RxFields
  BY <1>0 DEF VoiceTyped
<1>2. ASSUME worker.pc = "idle", pending # <<>>, NEW j \in Job, NEW pc \in {"decode", "push"},
             worker' = [pc |-> pc, job |-> j], pending' = Tail(pending), UNCHANGED <<rx, completed>>
      PROVE  VoiceInv'
  <2>1. pending' \in Seq(Job) /\ Len(pending') = Len(pending) - 1
    BY <1>0, <1>2, HeadTailProperties
  <2>2. Single'
    BY <1>0, <1>1, <1>2, <2>1 DEF VoiceInv, Single, Busy, Lengths
  <2> QED
    BY <1>0, <1>2, <1>r, <1>k, <2>1, <2>2
<1>h. pending # <<>> => Head(pending) \in Job
  BY <1>0, HeadTailProperties
<1>3. CASE Decline
  <2> DEFINE j == [Head(pending) EXCEPT !.stale = TRUE]
  <2>1. j \in Job
    <3>1. Head(pending) \in Job
      BY <1>h, <1>3 DEF Decline
    <3> QED
      BY <3>1 DEF Job, JobFields
  <2> QED
    BY <1>2, <1>3, <2>1 DEF Decline, Work
<1>4. CASE Begin
  BY <1>2, <1>4, <1>h DEF Begin, Work
<1>5. CASE Decode
  <2>1. worker.job \in Job /\ worker.pc = "decode"
    BY <1>5 DEF Decode, Work, VoiceInv, InHand
  <2>2. PICK used, late, fails \in BOOLEAN :
            worker' = [pc |-> "push", job |-> [worker.job EXCEPT !.used = used, !.late = late,
                                        !.stale = fails \/ ~stillCurrent(worker.job)]]
    BY <1>5 DEF Decode
  <2> DEFINE j == [worker.job EXCEPT !.used = used, !.late = late,
                                     !.stale = fails \/ ~stillCurrent(worker.job)]
  <2>3. j \in Job
    <3>1. (fails \/ ~stillCurrent(worker.job)) \in BOOLEAN
      OBVIOUS
    <3> QED
      BY <2>1, <3>1 DEF Job, JobFields
  <2> HIDE DEF j
  <2>4. worker' = [pc |-> "push", job |-> j]
    BY <2>2 DEF j
  <2>5. rx' \in RxFields
    <3>1. PICK eye \in {rx.eye, TRUE} :
              rx' = IF worker.job.key[1] = rx.id THEN [rx EXCEPT !.eye = eye] ELSE rx
      BY <1>5 DEF Decode
    <3> QED
      BY <1>r, <3>1 DEF RxFields
  <2>6. UNCHANGED <<pending, completed>>
    BY <1>5 DEF Decode
  <2>7. Single'
    BY <1>0, <1>1, <2>1, <2>4, <2>6 DEF VoiceInv, Single, Busy, Lengths
  <2> QED
    BY <1>0, <1>k, <2>3, <2>4, <2>5, <2>6, <2>7
<1>6. CASE Push
  <2>1. /\ worker.pc = "push" /\ worker.job \in Job /\ UNCHANGED <<rx, pending>>
        /\ completed' = Append(completed, worker.job)
        /\ worker' = [pc |-> "done", job |-> None]
    BY <1>6 DEF Push, Work, VoiceInv, InHand
  <2>2. completed' \in Seq(Job) /\ Len(completed') = Len(completed) + 1
    BY <1>0, <2>1, AppendProperties
  <2>3. Single'
    BY <1>0, <1>1, <2>1, <2>2 DEF VoiceInv, Single, Busy, Lengths
  <2> QED
    BY <1>0, <1>k, <1>r, <2>1, <2>2, <2>3
<1>7. CASE Rest
  <2>1. /\ worker.pc = "done" /\ worker.job = None /\ UNCHANGED <<rx, pending, completed>>
        /\ worker' = [worker EXCEPT !.pc = "idle"]
    BY <1>7 DEF Rest, Work, VoiceInv, InHand
  <2>2. worker' = [pc |-> "idle", job |-> None]
    BY <1>0, <2>1
  <2>3. Single'
    BY <1>0, <1>1, <2>1, <2>2 DEF VoiceInv, Single, Busy, Lengths
  <2> QED
    BY <1>0, <1>k, <1>r, <2>1, <2>2, <2>3
<1> QED
  BY <1>3, <1>4, <1>5, <1>6, <1>7 DEF Worker

-----------------------------------------------------------------------------
(* The DSP thread keeps the books.                                            *)

(* The windows are windows of sessions.                                      *)
WindowsTyped == windows \in [DOMAIN windows -> Window] /\ DOMAIN windows \subseteq Key

LEMMA KeysTyped ==
    ASSUME VoiceInv
    PROVE  /\ Session \in Key
           /\ sch.pc \in {"prepare", "pull", "take", "submit", "mark"} => CurrentKey \in Key
           /\ sch.pc \in {"pull", "take"} => sch.key \in DOMAIN windows /\ windows[sch.key] \in Window
           /\ \A k \in DOMAIN windows : windows[k] \in Window
<1>1. Session \in Key
  BY DEF VoiceInv, VoiceTyped, RxFields, Session, Key
<1> QED
  BY <1>1 DEF VoiceInv, VoiceTyped, InHand, CurrentKey

(* While the worker and the queues stand, a step of the DSP thread keeps the *)
(* invariant when it leaves well-formed windows and a well-formed hand.      *)
LEMMA SchedulerKeeps ==
    ASSUME VoiceInv, UNCHANGED <<use, epoch, live, floor, events, turns, flush, worker>>,
           rx' \in RxFields, sch' \in SchFields, WindowsTyped',
           UNCHANGED flight,
           \/ sch'.pc \in {"drain", "publish", "look"}
           \/ /\ sch'.pc \in {"prepare", "pull", "take", "submit"}
              /\ sch'.key \in Key /\ sch'.call \in Nat
              /\ sch'.pc \in {"pull", "take"} => sch'.key \in DOMAIN windows'
              /\ sch'.pc = "pull" => sch'.at \in Nat
              /\ sch'.pc = "submit" => sch'.job \in Job
    PROVE  VoiceInv'
<1>1. VoiceTyped'
  BY DEF VoiceInv, VoiceTyped, WindowsTyped, flight
<1>2. InHand'
  BY DEF VoiceInv, InHand, flight
<1>3. Single'
  BY DEF VoiceInv, Single, Busy, flight
<1> QED
  BY <1>1, <1>2, <1>3 DEF VoiceInv

LEMMA DrainInv == ASSUME VoiceInv, takeP25VoiceDecodeResults PROVE VoiceInv'
<1>1. /\ UNCHANGED <<use, epoch, live, floor, events, turns, flush, rx, windows, pending, worker>>
      /\ publish' = publish \o completed /\ completed' = <<>>
      /\ sch' = [sch EXCEPT !.pc = "publish"]
  BY DEF takeP25VoiceDecodeResults, At, radioVars
<1>2. /\ publish \in Seq(Job) /\ completed \in Seq(Job) /\ Lengths /\ sch \in SchFields
  BY LengthsTyped DEF VoiceInv, VoiceTyped
<1>3. publish' \in Seq(Job) /\ Len(publish') = Len(publish) + Len(completed)
  BY <1>1, <1>2, ConcatProperties
<1>4. sch' \in SchFields /\ sch'.pc = "publish"
  BY <1>1, <1>2 DEF SchFields, Places
<1>5. completed' \in Seq(Job) /\ Len(completed') = 0
  BY <1>1, EmptySeq
<1>6. VoiceTyped'
  BY <1>1, <1>3, <1>4, <1>5 DEF VoiceInv, VoiceTyped
<1>7. InHand'
  BY <1>1, <1>4 DEF VoiceInv, InHand
<1>8. Single'
  BY <1>1, <1>2, <1>3, <1>5 DEF VoiceInv, Single, Busy, Lengths
<1> QED
  BY <1>6, <1>7, <1>8 DEF VoiceInv

(* Publication: the front result is the one chunk on its way, so nothing     *)
(* waits behind it.                                                          *)
LEMMA PublishAlone ==
    ASSUME VoiceInv, publish # <<>>
    PROVE  /\ Head(publish) \in Job /\ Tail(publish) = <<>> /\ pending = <<>> /\ completed = <<>>
           /\ ~Busy /\ \A k : Others(Tail(publish), k) = <<>> /\ Others(pending, k) = <<>>
                              /\ Others(completed, k) = <<>>
<1>1. /\ publish \in Seq(Job) /\ completed \in Seq(Job) /\ pending \in Seq(Job) /\ Lengths
  BY LengthsTyped DEF VoiceInv, VoiceTyped
<1>2. Len(publish) # 0 /\ Head(publish) \in Job /\ Tail(publish) \in Seq(Job)
      /\ Len(Tail(publish)) = Len(publish) - 1
  BY <1>1, EmptySeq, HeadTailProperties
<1>3. Len(publish) = 1 /\ Len(pending) = 0 /\ Len(completed) = 0 /\ ~Busy
  BY <1>1, <1>2 DEF VoiceInv, Single, Lengths
<1>4. Len(Tail(publish)) = 0
  BY <1>1, <1>2, <1>3 DEF Lengths
<1>5. Tail(publish) = <<>> /\ pending = <<>> /\ completed = <<>>
  BY <1>1, <1>2, <1>3, <1>4, EmptySeq
<1>6. \A k : Others(<<>>, k) = <<>>
  BY DEF Others
<1> QED
  BY <1>2, <1>3, <1>5, <1>6

LEMMA PublishStep ==
    ASSUME VoiceInv, Publish
    PROVE  /\ UNCHANGED <<use, epoch, live, floor, events, turns, flush, rx, sch, worker>>
           /\ publish' = <<>> /\ pending' = <<>> /\ completed' = <<>>
           /\ LET r == Head(publish)
              IN  /\ r \in Job /\ (r.key \notin DOMAIN windows => windows' = windows)
                  /\ r.key \in DOMAIN windows =>
                       \/ windows' = Put(r.key, Consumed(windows[r.key], r))
                       \/ windows' = Put(r.key, rollbackSubmittedDecode(windows[r.key]))
<1> DEFINE r == Head(publish)
<1>1. publish # <<>> /\ UNCHANGED <<use, epoch, live, floor, events, turns, flush, rx, sch, worker>>
  BY DEF Publish, At, radioVars
<1>2. r \in Job /\ Tail(publish) = <<>> /\ pending = <<>> /\ completed = <<>>
      /\ Others(Tail(publish), r.key) = <<>> /\ Others(pending, r.key) = <<>>
      /\ Others(completed, r.key) = <<>>
  BY <1>1, PublishAlone
<1>3. publish' = <<>> /\ pending' = <<>> /\ completed' = <<>>
  BY <1>2 DEF Publish
<1>4. /\ r.key \notin DOMAIN windows => windows' = windows
      /\ r.key \in DOMAIN windows =>
              \/ windows' = Put(r.key, Consumed(windows[r.key], r))
              \/ windows' = Put(r.key, rollbackSubmittedDecode(windows[r.key]))
  BY DEF Publish, Has
<1> QED
  BY <1>1, <1>2, <1>3, <1>4

LEMMA PublishInv == ASSUME VoiceInv, Publish PROVE VoiceInv'
<1> DEFINE r == Head(publish)
<1>1. /\ UNCHANGED <<use, epoch, live, floor, events, turns, flush, rx, sch, worker>>
      /\ publish' = <<>> /\ pending' = <<>> /\ completed' = <<>> /\ r \in Job
      /\ r.key \notin DOMAIN windows => windows' = windows
      /\ r.key \in DOMAIN windows =>
            \/ windows' = Put(r.key, Consumed(windows[r.key], r))
            \/ windows' = Put(r.key, rollbackSubmittedDecode(windows[r.key]))
  BY PublishStep
<1>2. WindowsTyped' /\ DOMAIN windows' = DOMAIN windows
  <2>1. CASE r.key \notin DOMAIN windows
    BY <1>1, <2>1 DEF VoiceInv, VoiceTyped, WindowsTyped
  <2>2. CASE r.key \in DOMAIN windows
    <3>1. windows[r.key] \in Window /\ r.key \in Key
      BY <1>1, <2>2, KeysTyped, JobNumbers
    <3>2. Consumed(windows[r.key], r) \in Window /\ rollbackSubmittedDecode(windows[r.key]) \in Window
      BY <1>1, <3>1, ConsumedTyped, MarksTyped
    <3> QED
      BY <1>1, <2>2, <3>1, <3>2, Puts DEF VoiceInv, WindowsTyped
  <2> QED
    BY <2>1, <2>2
<1>3. VoiceTyped'
  BY <1>1, <1>2, EmptySeq DEF VoiceInv, VoiceTyped, WindowsTyped
<1>4. InHand'
  BY <1>1, <1>2 DEF VoiceInv, InHand
<1>5. Single'
  BY <1>1, EmptySeq DEF VoiceInv, Single, Busy
<1> QED
  BY <1>3, <1>4, <1>5 DEF VoiceInv

LEMMA ResetTyped ==
    ASSUME VoiceTyped
    PROVE  /\ Reset(rx) \in RxFields /\ Reset(rx).id = rx.id /\ Reset(rx).gen >= rx.gen
           /\ Reset(rx).gen \in {rx.gen, rx.gen + 1}
           /\ dspFree => Reset(rx).gen = rx.gen + 1
<1>1. rx \in RxFields
  BY DEF VoiceTyped
<1>2. dspFree => Reset(rx).gen = rx.gen + 1
  BY <1>1 DEF Reset, RxFields
<1> QED
  BY <1>1, <1>2, ResetRx

LEMMA EmptyWindows ==
    ASSUME windows' = << >>
    PROVE  WindowsTyped' /\ DOMAIN windows' = {}
<1>1. DOMAIN windows' = {}
  OBVIOUS
<1>2. windows' = [x \in {} |-> 0]
  OBVIOUS
<1> QED
  BY <1>1, <1>2 DEF WindowsTyped

LEMMA LookInv == ASSUME VoiceInv, Tick \/ Look PROVE VoiceInv'
<1>0. VoiceTyped /\ sch \in SchFields /\ rx \in RxFields /\ flush \in Nat /\ Session \in Key
  BY KeysTyped DEF VoiceInv, VoiceTyped
<1>1. CASE Tick
  <2>1. /\ UNCHANGED <<use, epoch, live, floor, events, turns, flush, rx, flight, worker>>
        /\ windows' = << >> \/ windows' = Only({Session})
        /\ sch' = [sch EXCEPT !.pc = "look", !.flush = flush, !.traffic = rx.call, !.id = rx.id]
    BY <1>1 DEF Tick, At, radioVars, flight
  <2>2. rx.call \in Nat /\ rx.id \in Nat
    BY <1>0 DEF RxFields
  <2>3. sch' \in SchFields /\ sch'.pc = "look"
    BY <1>0, <2>1, <2>2 DEF SchFields, Places
  <2>4. WindowsTyped'
    BY <1>0, <2>1, Keeps, EmptyWindows DEF WindowsTyped
  <2> QED
    BY <1>0, <2>1, <2>3, <2>4, SchedulerKeeps
<1>2. CASE Look
  <2>1. UNCHANGED <<use, epoch, live, floor, events, turns, flush, flight, worker>>
    BY <1>2 DEF Look, At, radioVars, flight
  <2>2. /\ rx' = rx \/ rx' = Reset(rx)
        /\ windows' = windows \/ \E S : windows' = Only(S)
    BY <1>2 DEF Look
  <2>3. rx' \in RxFields
    BY <1>0, <2>2, ResetTyped
  <2>4. WindowsTyped'
    BY <1>0, <2>2, Keeps DEF WindowsTyped, VoiceTyped
  <2>5. CASE NextLoop
    BY <1>0, <2>1, <2>3, <2>4, <2>5, NextLoopTyped, SchedulerKeeps
  <2>6. CASE sch' = [sch EXCEPT !.pc = "prepare", !.key = Session, !.call = rx.call, !.eye = rx.eye]
    <3>1. rx.call \in Nat /\ rx.eye \in BOOLEAN
      BY <1>0 DEF RxFields
    <3>2. /\ sch' \in SchFields /\ sch'.pc = "prepare" /\ sch'.key = Session /\ sch'.call = rx.call
      BY <1>0, <2>6, <3>1 DEF SchFields, Places
    <3> QED
      BY <1>0, <2>1, <2>3, <2>4, <3>1, <3>2, SchedulerKeeps
  <2> QED
    BY <1>2, <2>5, <2>6 DEF Look
<1> QED
  BY <1>1, <1>2

LEMMA PrepareInv == ASSUME VoiceInv, Prepare PROVE VoiceInv'
<1> DEFINE w == IF Has(CurrentKey) THEN windows[CurrentKey] ELSE NoWindow
           at == IF w.size = 0 THEN BeforeLiveEdge ELSE Most(Least(w.end, live), Less(live, Ring))
<1>1. /\ sch.pc = "prepare"
      /\ UNCHANGED <<use, epoch, live, floor, events, turns, flush, rx, flight, worker>>
      /\ windows' = Put(CurrentKey, w)
      /\ sch' = [sch EXCEPT !.pc = "pull", !.key = CurrentKey, !.epoch = epoch, !.at = at]
  BY DEF Prepare, At, radioVars, flight
<1>2. /\ VoiceTyped /\ sch \in SchFields /\ CurrentKey \in Key /\ rx \in RxFields
      /\ sch.call \in Nat /\ epoch \in Nat /\ live \in Nat
  BY <1>1, KeysTyped DEF VoiceInv, VoiceTyped, InHand
<1>3. w \in Window
  BY KeysTyped, NoWindowTyped DEF Has
<1>4. at \in Nat
  <2>1. w.end \in Nat
    BY <1>3, WindowNumbers
  <2>2. Most(Least(w.end, live), Less(live, Ring)) \in Nat
    BY <1>2, <2>1 DEF Most, Least, Less
  <2> QED
    BY <1>2, <2>2, BeforeLiveEdgeTyped
<1> HIDE DEF w, at
<1>5. /\ sch' \in SchFields /\ sch'.pc = "pull" /\ sch'.key = CurrentKey /\ sch'.at = at
      /\ sch'.call = sch.call
  BY <1>1, <1>2, <1>4 DEF SchFields, Places
<1>6. WindowsTyped' /\ CurrentKey \in DOMAIN windows'
  BY <1>1, <1>2, <1>3, Puts DEF WindowsTyped
<1> QED
  BY <1>1, <1>2, <1>4, <1>5, <1>6, SchedulerKeeps

(* What a pull brings is labelled, whatever it brings.                       *)
LEMMA IqTyped ==
    ASSUME VoiceInv, sch.pc = "pull"
    PROVE  Iq.start \in Nat /\ Iq.end \in Nat /\ Iq.epoch \in Nat /\ Iq.start <= Iq.end
<1>1. sch.at \in Nat /\ live \in Nat /\ floor \in Nat /\ epoch \in Nat /\ Pull \in Nat
  BY DEF VoiceInv, VoiceTyped, InHand
<1>2. Sought \in Nat
  BY <1>1 DEF Sought, Most, Less
<1>3. From \in Nat
  BY <1>1, <1>2 DEF From, Less
<1>4. Most(From, Least(From + Pull, live)) \in Nat /\ From <= Most(From, Least(From + Pull, live))
  BY <1>1, <1>3 DEF Most, Least
<1> QED
  BY <1>1, <1>3, <1>4 DEF Iq

LEMMA PullInv == ASSUME VoiceInv, Handoff \/ Discontinuity \/ AppendIq PROVE VoiceInv'
<1>0. VoiceTyped /\ sch \in SchFields /\ rx \in RxFields
  BY DEF VoiceInv, VoiceTyped
<1>1. /\ sch.pc = "pull" /\ UNCHANGED <<use, epoch, live, floor, events, turns, flush, flight, worker>>
  BY DEF Handoff, Discontinuity, AppendIq, At, radioVars, flight
<1>2. sch.key \in Key /\ sch.call \in Nat /\ sch.key \in DOMAIN windows /\ windows[sch.key] \in Window
  BY <1>1, KeysTyped DEF VoiceInv, InHand
<1>3. CASE Handoff \/ Discontinuity
  <2>1. /\ rx' = Reset(rx) \/ rx' = rx
        /\ windows' = Put(sch.key, NoWindow) \/ windows' = Only(DOMAIN windows \ {sch.key})
        /\ NextLoop
    BY <1>3 DEF Handoff, Discontinuity, ResetOrMiss
  <2>2. rx' \in RxFields
    BY <1>0, <2>1, ResetTyped
  <2>3. WindowsTyped'
    BY <1>0, <1>2, <2>1, NoWindowTyped, Puts, Keeps DEF WindowsTyped
  <2> QED
    BY <1>0, <1>1, <2>1, <2>2, <2>3, NextLoopTyped, SchedulerKeeps
<1>4. CASE AppendIq
  <2>1. /\ UNCHANGED rx /\ sch' = [sch EXCEPT !.pc = "take", !.at = None, !.epoch = None]
        /\ windows' = windows \/ windows' = Put(sch.key, append(windows[sch.key], Iq))
    BY <1>4 DEF AppendIq
  <2>2. append(windows[sch.key], Iq) \in Window
    BY <1>0, <1>1, <1>2, IqTyped, AppendTyped
  <2>3. WindowsTyped' /\ sch.key \in DOMAIN windows'
    <3>1. CASE windows' = windows
      BY <1>0, <1>2, <3>1 DEF WindowsTyped, VoiceTyped
    <3>2. CASE windows' = Put(sch.key, append(windows[sch.key], Iq))
      BY <1>0, <1>2, <2>2, <3>2, Puts DEF WindowsTyped
    <3> QED
      BY <2>1, <3>1, <3>2
  <2>4. sch' \in SchFields /\ sch'.pc = "take" /\ sch'.key = sch.key /\ sch'.call = sch.call
    BY <1>0, <2>1 DEF SchFields, Places
  <2> QED
    BY <1>0, <1>1, <1>2, <2>1, <2>3, <2>4, SchedulerKeeps
<1> QED
  BY <1>3, <1>4

LEMMA TakeInv == ASSUME VoiceInv, Take \/ NotNow PROVE VoiceInv'
<1>0. VoiceTyped /\ sch \in SchFields /\ rx \in RxFields /\ WindowsTyped
  BY DEF VoiceInv, VoiceTyped, WindowsTyped
<1>1. /\ sch.pc = "take" /\ UNCHANGED <<use, epoch, live, floor, events, turns, flush, flight, worker, rx, windows>>
  BY DEF Take, NotNow, At, radioVars, flight
<1>2. sch.key \in Key /\ sch.call \in Nat /\ sch.key \in DOMAIN windows /\ windows[sch.key] \in Window
  BY <1>1, KeysTyped DEF VoiceInv, InHand
<1>w. WindowsTyped'
  BY <1>0, <1>1 DEF WindowsTyped
<1>3. CASE NextLoop
  BY <1>0, <1>1, <1>3, <1>w, NextLoopTyped, SchedulerKeeps
<1>4. CASE Take
  <2>1. MayTake(windows[sch.key]) /\ sch' = [sch EXCEPT !.pc = "submit", !.job = takeUndecoded(windows[sch.key])]
    BY <1>4 DEF Take
  <2>2. takeUndecoded(windows[sch.key]) \in Job
    BY <1>0, <1>2, <2>1, TakeTyped
  <2> DEFINE j == takeUndecoded(windows[sch.key])
  <2>3. j \in Job /\ sch' = [sch EXCEPT !.pc = "submit", !.job = j]
    BY <2>1, <2>2
  <2> HIDE DEF j
  <2>4. sch' \in SchFields /\ sch'.pc = "submit" /\ sch'.key = sch.key /\ sch'.call = sch.call
        /\ sch'.job = j
    BY <1>0, <2>3 DEF SchFields, Places
  <2> QED
    BY <1>0, <1>1, <1>2, <1>w, <2>3, <2>4, SchedulerKeeps
<1> QED
  BY <1>3, <1>4 DEF NotNow

LEMMA SubmitInv == ASSUME VoiceInv, Submit PROVE VoiceInv'
<1>0. VoiceTyped /\ Lengths /\ sch \in SchFields /\ rx \in RxFields /\ WindowsTyped /\ pending \in Seq(Job)
  BY LengthsTyped DEF VoiceInv, VoiceTyped, WindowsTyped
<1>1. /\ sch.pc = "submit"
      /\ UNCHANGED <<use, epoch, live, floor, events, turns, flush, worker, rx, windows, completed, publish>>
  BY DEF Submit, At, radioVars
<1>2. sch.key \in Key /\ sch.call \in Nat /\ sch.job \in Job /\ CurrentKey \in Key /\ flush \in Nat
  BY <1>1, KeysTyped DEF VoiceInv, VoiceTyped, InHand
<1>3. CASE p25VoiceWorkerCanAcceptJob
  <2> DEFINE j == [sch.job EXCEPT !.key = CurrentKey, !.flush = flush]
  <2>1. pending' = Append(pending, j) /\ sch' = [sch EXCEPT !.pc = "mark"]
    BY <1>3 DEF Submit
  <2>2. j \in Job
    BY <1>2 DEF Job, JobFields
  <2> HIDE DEF j
  <2>3. pending' \in Seq(Job) /\ Len(pending') = Len(pending) + 1
    BY <1>0, <2>1, <2>2, AppendProperties
  <2>4. sch' \in SchFields /\ sch'.pc = "mark" /\ sch'.key = sch.key /\ sch'.call = sch.call
        /\ sch'.job = sch.job
    BY <1>0, <2>1 DEF SchFields, Places
  <2>5. VoiceTyped'
    BY <1>1, <2>3, <2>4 DEF VoiceInv, VoiceTyped
  <2>6. InHand'
    BY <1>1, <1>2, <2>4 DEF VoiceInv, InHand
  <2>7. Single'
    <3>1. /\ Len(pending) + Len(completed) + Len(publish) + (IF worker.pc = "idle" THEN 0 ELSE 1) < 1
      BY <1>3 DEF p25VoiceWorkerCanAcceptJob, InFlight
    <3> QED
      BY <1>0, <1>1, <2>3, <3>1 DEF Single, Busy, Lengths
  <2> QED
    BY <2>5, <2>6, <2>7 DEF VoiceInv
<1>4. CASE ~p25VoiceWorkerCanAcceptJob
  <2>1. NextLoop /\ UNCHANGED flight
    BY <1>1, <1>4 DEF Submit, flight
  <2>2. WindowsTyped'
    BY <1>0, <1>1 DEF WindowsTyped
  <2> QED
    BY <1>0, <1>1, <2>1, <2>2, NextLoopTyped, SchedulerKeeps
<1> QED
  BY <1>3, <1>4

LEMMA MarkInv == ASSUME VoiceInv, Mark PROVE VoiceInv'
<1> DEFINE w == IF Has(CurrentKey) THEN windows[CurrentKey] ELSE NoWindow
           a == w.alien \/ CurrentKey # sch.key
           v == [markDecodeSubmitted(w, sch.job.end) EXCEPT !.alien = a]
<1>1. /\ sch.pc = "mark" /\ NextLoop
      /\ UNCHANGED <<use, epoch, live, floor, events, turns, flush, rx, flight, worker>>
  BY DEF Mark, At, radioVars, flight
<1>2. /\ VoiceTyped /\ CurrentKey \in Key /\ rx \in RxFields /\ sch.job.end \in Nat
  BY <1>1, KeysTyped, JobNumbers DEF VoiceInv, VoiceTyped, InHand
<1>3. w \in Window
  BY KeysTyped, NoWindowTyped DEF Has
<1>4. windows' = Put(CurrentKey, v)
  <2>1. markDecodeSubmitted(w, sch.job.end).alien = w.alien
    BY <1>3 DEF markDecodeSubmitted, Window, WindowFields
  <2>2. windows' = Put(CurrentKey, [markDecodeSubmitted(w, sch.job.end)
                     EXCEPT !.alien = markDecodeSubmitted(w, sch.job.end).alien \/ CurrentKey # sch.key])
    BY DEF Mark
  <2> QED
    BY <2>1, <2>2
<1>5. v \in Window
  <2>1. a \in BOOLEAN
    OBVIOUS
  <2> HIDE DEF a, w
  <2> QED
    BY <1>2, <1>3, <2>1, MarksTyped
<1> HIDE DEF v
<1>6. WindowsTyped'
  BY <1>2, <1>4, <1>5, Puts DEF WindowsTyped
<1> QED
  BY <1>1, <1>2, <1>6, NextLoopTyped, SchedulerKeeps

LEMMA InitInv == ASSUME Init PROVE VoiceInv
<1>1. rx \in RxFields /\ sch \in SchFields /\ sch.pc = "drain"
  BY DEF Init, RxFields, SchFields, Places
<1>2. pending \in Seq(Job) /\ completed \in Seq(Job) /\ publish \in Seq(Job)
      /\ Len(pending) = 0 /\ Len(completed) = 0 /\ Len(publish) = 0
  BY EmptySeq DEF Init
<1>3. windows \in [DOMAIN windows -> Window] /\ DOMAIN windows \subseteq Key
  <2>1. windows = << >>
    BY DEF Init
  <2>2. DOMAIN windows = {} /\ windows = [x \in {} |-> 0]
    BY <2>1
  <2> QED
    BY <2>2
<1>4. worker = [pc |-> "idle", job |-> None]
  BY DEF Init
<1>5. VoiceTyped
  BY <1>1, <1>2, <1>3, <1>4 DEF Init, VoiceTyped
<1>6. InHand
  BY <1>1, <1>4 DEF InHand
<1>7. Single
  BY <1>2, <1>4 DEF Single, Busy
<1> QED
  BY <1>5, <1>6, <1>7 DEF VoiceInv

LEMMA VoiceStep == ASSUME VoiceInv, [Next]_vars PROVE VoiceInv'
<1>1. CASE Scheduler
  BY <1>1, DrainInv, PublishInv, LookInv, PrepareInv, PullInv, TakeInv, SubmitInv, MarkInv
     DEF Scheduler
<1>2. CASE UNCHANGED vars
  BY <1>2 DEF vars, radioVars, rxVars, flight, VoiceInv, VoiceTyped, InHand, Single, Busy
<1> QED
  BY <1>1, <1>2, OutsideInv, WorkerInv DEF Next

(* Until a result is published no other chunk is on its way, wherever the     *)
(* worker and the DSP thread stand (submitP25VoiceDecodeJob).                 *)
THEOREM OneChunkAtATime == Spec => []SingleFlight
<1>1. VoiceInv => SingleFlight
  <2>1. ASSUME VoiceInv PROVE SingleFlight
    <3>1. Lengths /\ (worker.job # None => Busy)
      BY <2>1, LengthsTyped DEF VoiceInv, VoiceTyped, InHand, Busy
    <3> QED
      BY <2>1, <3>1 DEF VoiceInv, Single, SingleFlight, Lengths
  <2> QED
    BY <2>1
<1> QED
  BY <1>1, InitInv, VoiceStep, PTL DEF Spec

(* A window's labels stay those of the IQ in it through filling, overlap,     *)
(* holes and trimming (append), and a chunk has something to decode.          *)
THEOREM LabelsHold == Spec => []LabelsAreTrue
<1>1. VoiceInv => LabelsAreTrue
  <2>1. ASSUME VoiceInv PROVE LabelsAreTrue
    <3>1. \A w \in Rolling : w.size > 0 /\ ~w.torn => w.end = w.start + w.size
      <4>1. \A w \in Rolling : w \in Window
        BY <2>1, KeysTyped DEF Rolling
      <4> QED
        BY <4>1, WindowNumbers DEF Labelled
    <3>2. \A j \in Jobs \ {None} : j \in Job
      <4>1. \A s \in {pending, completed, publish} : s # <<>> => s[1] \in Job
        <5>1. \A s \in Seq(Job) : s # <<>> => s[1] \in Job
          BY HeadTailProperties
        <5> QED
          BY <2>1, <5>1 DEF VoiceInv, VoiceTyped
      <4>2. sch.job \in Job \cup {None} /\ worker.job \in Job \cup {None}
        BY <2>1 DEF VoiceInv, VoiceTyped, SchFields
      <4> QED
        BY <4>1, <4>2 DEF Jobs
    <3> QED
      BY <3>1, <3>2, JobNumbers DEF LabelsAreTrue
  <2> QED
    BY <2>1
<1> QED
  BY <1>1, InitInv, VoiceStep, PTL DEF Spec

-----------------------------------------------------------------------------
(* The cursor: what it has passed, and what is on its way from there.         *)

(* A chunk of window k that begins at f is on its way.                       *)
Carried(j) == pending = <<j>> \/ completed = <<j>> \/ publish = <<j>> \/ (Busy /\ worker.job = j)
Flies(k, f) == \E j \in Job : Carried(j) /\ j.key = k /\ j.from = f

(* Unless a job of another window has moved its marks: an empty window has   *)
(* submitted nothing; the cursor of the others has passed only what was      *)
(* heard or given up, and what is submitted is on its way from there.        *)
Safe(k) ==
    LET w == windows[k]
    IN  ~w.alien => /\ w.size = 0 => w.submitted = None
                    /\ w.size > 0 => Sound(w)
                    /\ w.submitted # None => \E f \in Nat : f <= w.heard /\ Flies(k, f)

AfterTick == {"look", "prepare", "pull", "take", "submit", "mark"}
SameReceiver ==
    /\ sch.pc \in AfterTick => sch.id = rx.id
    /\ sch.pc \in AfterTick \ {"look"} => sch.key[1] = rx.id /\ sch.key[2] <= rx.gen
ChunkFits ==
    sch.pc \in {"submit", "mark"} =>
        /\ sch.key \in DOMAIN windows /\ windows[sch.key].size > 0
        /\ LET w == windows[sch.key]
           IN  ~w.alien => sch.job.from <= w.heard
ChunkFlies == sch.pc = "mark" /\ sch.key = Session => Flies(sch.key, sch.job.from)

CursorInv ==
    /\ sch.flush \in Nat /\ flush \in Nat /\ sch.flush <= flush
    /\ flush = sch.flush =>
          (\A k \in DOMAIN windows : Safe(k)) /\ SameReceiver /\ ChunkFits /\ ChunkFlies

LEMMA Grounded ==
    ASSUME VoiceInv, NEW k, NEW f
    PROVE  Flies(k, f) => Len(pending) + Len(completed) + Len(publish) + (IF Busy THEN 1 ELSE 0) = 1
<1>1. Len(pending) \in Nat /\ Len(completed) \in Nat /\ Len(publish) \in Nat
  BY LengthsTyped DEF VoiceInv, Lengths
<1>2. \A j : Len(<<j>>) = 1
  OBVIOUS
<1> DEFINE busy == IF Busy THEN 1 ELSE 0
<1>3. busy \in Nat /\ Len(pending) + Len(completed) + Len(publish) + busy <= 1
  BY DEF VoiceInv, Single
<1>4. ASSUME NEW j, Carried(j)
      PROVE  Len(pending) = 1 \/ Len(completed) = 1 \/ Len(publish) = 1 \/ busy = 1
  BY <1>2, <1>4 DEF Carried
<1> HIDE DEF busy
<1>5. ASSUME NEW j, Carried(j)
      PROVE  Len(pending) + Len(completed) + Len(publish) + busy = 1
  <2>1. Len(pending) = 1 \/ Len(completed) = 1 \/ Len(publish) = 1 \/ busy = 1
    BY <1>4, <1>5
  <2> DEFINE p == Len(pending)
             c == Len(completed)
             u == Len(publish)
  <2>2. /\ p \in Nat /\ c \in Nat /\ u \in Nat /\ busy \in Nat /\ p + c + u + busy <= 1
        /\ p = 1 \/ c = 1 \/ u = 1 \/ busy = 1
    BY <1>1, <1>3, <2>1
  <2> HIDE DEF p, c, u
  <2>3. p + c + u + busy = 1
    BY <2>2
  <2> QED
    BY <2>3 DEF p, c, u
<1> QED
  BY <1>5 DEF Flies, busy

(* The worker carries on what it carries.                                    *)
LEMMA WorkerCarries ==
    ASSUME VoiceInv, Worker, NEW k, NEW f, Flies(k, f)
    PROVE  Flies(k, f)'
<1>0. /\ pending \in Seq(Job) /\ completed \in Seq(Job) /\ publish \in Seq(Job) /\ Lengths
      /\ publish' = publish
  BY LengthsTyped DEF VoiceInv, VoiceTyped, Worker, Decline, Begin, Decode, Push, Rest, Work
<1>1. PICK j \in Job : Carried(j) /\ j.key = k /\ j.from = f
  BY DEF Flies
<1>2. \A i \in Job : Len(<<i>>) = 1 /\ Head(<<i>>) = i /\ <<i>> # <<>> /\ Append(<<>>, i) = <<i>>
  OBVIOUS
<1>3. ASSUME worker.pc = "idle", pending # <<>>
      PROVE  pending = <<j>>
  <2>1. Len(pending) > 0
    BY <1>0, <1>3, EmptySeq DEF Lengths
  <2> QED
    BY <1>0, <1>1, <1>2, <1>3, <2>1 DEF Carried, VoiceInv, Single, Busy, Lengths
<1>4. CASE Decline
  <2>1. pending = <<j>> /\ worker' = [pc |-> "push", job |-> [j EXCEPT !.stale = TRUE]]
    BY <1>2, <1>3, <1>4 DEF Decline, Work
  <2>2. [j EXCEPT !.stale = TRUE] \in Job /\ [j EXCEPT !.stale = TRUE].key = k
        /\ [j EXCEPT !.stale = TRUE].from = f
    BY <1>1 DEF Job, JobFields
  <2> QED
    BY <2>1, <2>2 DEF Flies, Carried, Busy
<1>5. CASE Begin
  <2>1. pending = <<j>> /\ worker' = [pc |-> "decode", job |-> j]
    BY <1>2, <1>3, <1>5 DEF Begin, Work
  <2> QED
    BY <1>1, <2>1 DEF Flies, Carried, Busy
<1>6. ASSUME Busy
      PROVE  worker.job = j
  <2>1. Len(pending) = 0 /\ Len(completed) = 0 /\ Len(publish) = 0
    BY <1>0, <1>6 DEF VoiceInv, Single, Lengths
  <2>2. Len(<<j>>) = 1
    BY <1>2
  <2> QED
    BY <1>1, <2>1, <2>2 DEF Carried
<1>7. CASE Decode
  <2>1. worker.job = j
    BY <1>6, <1>7 DEF Decode, Work, Busy
  <2>2. PICK used, late, fails \in BOOLEAN :
            worker' = [pc |-> "push", job |-> [worker.job EXCEPT !.used = used, !.late = late,
                                        !.stale = fails \/ ~stillCurrent(worker.job)]]
    BY <1>7 DEF Decode
  <2> DEFINE stale == fails \/ ~stillCurrent(worker.job)
             i == [j EXCEPT !.used = used, !.late = late, !.stale = stale]
  <2>3. stale \in BOOLEAN
    OBVIOUS
  <2>4. worker' = [pc |-> "push", job |-> i]
    BY <2>1, <2>2
  <2> HIDE DEF stale
  <2>5. i \in Job /\ i.key = k /\ i.from = f
    BY <1>1, <2>3 DEF Job, JobFields
  <2> HIDE DEF i
  <2> QED
    BY <2>4, <2>5 DEF Flies, Carried, Busy
<1>8. CASE Push
  <2>1. worker.job = j /\ completed' = Append(completed, j)
    BY <1>6, <1>8 DEF Push, Work, Busy
  <2>2. completed = <<>>
    <3>1. Len(completed) = 0
      BY <1>0, <1>8 DEF Push, Work, Busy, VoiceInv, Single, Lengths
    <3> QED
      BY <1>0, <3>1, EmptySeq
  <2> QED
    BY <1>1, <1>2, <2>1, <2>2 DEF Flies, Carried
<1>9. CASE Rest
  <2>1. ~Busy /\ UNCHANGED <<pending, completed>>
    BY <1>9 DEF Rest, Work, Busy
  <2> QED
    BY <1>0, <1>1, <2>1 DEF Flies, Carried
<1> QED
  BY <1>4, <1>5, <1>7, <1>8, <1>9 DEF Worker

(* Steps that leave the windows and the DSP thread's chunk alone.            *)
LEMMA Undisturbed ==
    ASSUME VoiceInv, CursorInv, UNCHANGED <<use, windows>>,
           sch'.pc = sch.pc, sch'.flush = sch.flush, sch'.id = sch.id, sch'.key = sch.key,
           sch'.job = sch.job, flush' \in Nat,
           \/ flush' > flush
           \/ /\ flush' = flush
              /\ rx' \in RxFields /\ rx'.id = rx.id /\ rx'.gen >= rx.gen
              /\ \A k, f : Flies(k, f) => Flies(k, f)'
    PROVE  CursorInv'
<1>1. CASE flush' > flush
  BY <1>1 DEF CursorInv
<1>2. CASE /\ flush' = flush /\ rx' \in RxFields /\ rx'.id = rx.id /\ rx'.gen >= rx.gen
           /\ \A k, f : Flies(k, f) => Flies(k, f)'
  <2>1. SUFFICES ASSUME flush = sch.flush
                 PROVE  (\A k \in DOMAIN windows' : Safe(k)') /\ SameReceiver' /\ ChunkFits' /\ ChunkFlies'
    BY <1>2 DEF CursorInv
  <2>2. (\A k \in DOMAIN windows : Safe(k)) /\ SameReceiver /\ ChunkFits /\ ChunkFlies
    BY <2>1 DEF CursorInv
  <2>3. \A k \in DOMAIN windows' : Safe(k)'
    BY <1>2, <2>2 DEF Safe, Sound
  <2>4. rx.gen \in Nat /\ rx'.gen \in Nat /\ (sch.pc \in AfterTick \ {"look"} => sch.key \in Key)
    BY <1>2 DEF VoiceInv, VoiceTyped, InHand, RxFields, AfterTick
  <2>5. SameReceiver'
    BY <1>2, <2>2, <2>4 DEF SameReceiver, Key
  <2>6. ChunkFits'
    BY <2>2 DEF ChunkFits
  <2>7. ChunkFlies'
    <3>1. SUFFICES ASSUME sch.pc = "mark", sch.key = Session'
                   PROVE  Flies(sch.key, sch.job.from)'
      BY DEF ChunkFlies
    <3>2. sch.key = Session
      BY <1>2, <2>2, <2>4, <3>1 DEF Session, SameReceiver, AfterTick, Key
    <3>3. Flies(sch.key, sch.job.from)
      BY <2>2, <3>1, <3>2 DEF ChunkFlies
    <3> QED
      BY <1>2, <3>3
  <2> QED
    BY <2>3, <2>5, <2>6, <2>7
<1> QED
  BY <1>1, <1>2

LEMMA OutsideCursor ==
    ASSUME VoiceInv, CursorInv,
           Receive \/ Retune \/ Restart \/ Arm \/ ReturnToControl \/ ClearLater \/ Replace
    PROVE  CursorInv'
<1>0. VoiceTyped /\ rx \in RxFields /\ flush \in Nat /\ sch.epoch \in Nat \cup {None} /\ epoch \in Nat
      /\ BeforeLiveEdge \in Nat
  BY BeforeLiveEdgeTyped DEF VoiceInv, VoiceTyped, SchFields
<1>u. UNCHANGED <<use, windows, worker, publish>>
  BY DEF Receive, Retune, Restart, Arm, ReturnToControl, ClearLater, Replace, Turn, radioVars,
         rxVars, flight
<1>k. ASSUME UNCHANGED <<pending, completed>>
      PROVE  \A k, f : Flies(k, f) => Flies(k, f)'
  BY <1>u, <1>k DEF Flies, Carried, Busy
<1>s. ASSUME sch' = sch \/ \E at \in Nat, seen \in Nat \cup {None} : sch' = Moved(at, seen)
      PROVE  /\ sch'.pc = sch.pc /\ sch'.flush = sch.flush /\ sch'.id = sch.id /\ sch'.key = sch.key
             /\ sch'.job = sch.job
  BY <1>0, <1>s, MovedTyped
<1>c. ASSUME clearP25VoiceFollowState
      PROVE  /\ sch'.pc = sch.pc /\ sch'.flush = sch.flush /\ sch'.id = sch.id /\ sch'.key = sch.key
             /\ sch'.job = sch.job
             /\ rx' \in RxFields /\ rx'.id = rx.id /\ rx'.gen >= rx.gen
  <2>1. rx' = cleared /\ (sch' = Moved(0, 0) \/ sch' = Moved(0, sch.epoch))
    BY <1>c DEF clearP25VoiceFollowState
  <2> QED
    BY <1>0, <1>s, <2>1, ClearedRx
<1>g. rx.gen \in Nat
  BY <1>0 DEF RxFields
<1>1. CASE Receive \/ Retune \/ Restart
  <2>1. UNCHANGED <<rx, flush, sch, pending, completed>>
    BY <1>1 DEF Receive, Retune, Restart, rxVars, flight
  <2> QED
    BY <1>0, <1>g, <1>u, <1>k, <2>1, Undisturbed
<1>2. CASE Arm
  <2>1. UNCHANGED <<flush, pending, completed>>
    BY <1>2 DEF Arm
  <2>2. rx' \in RxFields /\ rx'.id = rx.id /\ rx'.gen >= rx.gen
    <3>1. PICK call \in {rx.call, rx.call + 1} :
              rx' = Reset([rx EXCEPT !.call = call, !.decode = TRUE])
      BY <1>2 DEF Arm
    <3>2. call \in Nat
      BY <1>0 DEF RxFields
    <3> DEFINE r == [rx EXCEPT !.call = call, !.decode = TRUE]
    <3>3. r \in RxFields /\ r.id = rx.id /\ r.gen = rx.gen
      BY <1>0, <3>2 DEF RxFields
    <3> HIDE DEF r
    <3>4. rx' = Reset(r)
      BY <3>1 DEF r
    <3> QED
      BY <3>3, <3>4, ResetRx
  <2>3. sch' = Moved(BeforeLiveEdge, epoch) \/ sch' = Moved(0, sch.epoch)
    BY <1>2 DEF Arm
  <2> QED
    BY <1>0, <1>u, <1>k, <1>s, <2>1, <2>2, <2>3, Undisturbed
<1>3. CASE ReturnToControl
  <2>1. flush' = flush + 1 /\ (sch' = sch \/ clearP25VoiceFollowState)
    BY <1>3 DEF ReturnToControl
  <2> QED
    BY <1>0, <1>u, <1>c, <2>1, Undisturbed
<1>4. CASE ClearLater
  <2>1. UNCHANGED <<pending, completed>>
    BY <1>4 DEF ClearLater, flight
  <2>2. CASE clearP25VoiceFollowState /\ flush' \in {flush, flush + 1}
    BY <1>0, <1>u, <1>k, <1>c, <2>1, <2>2, Undisturbed
  <2>3. CASE rx' = [rx EXCEPT !.clearDue = FALSE] /\ UNCHANGED <<sch, flush>>
    <3>1. rx' \in RxFields /\ rx'.id = rx.id /\ rx'.gen = rx.gen
      BY <1>0, <2>3 DEF RxFields
    <3> QED
      BY <1>0, <1>g, <1>u, <1>k, <2>1, <2>3, <3>1, Undisturbed
  <2> QED
    BY <1>4, <2>2, <2>3 DEF ClearLater
<1>5. CASE Replace
  <2>1. flush' = flush + 1 /\ sch' = sch
    BY <1>5 DEF Replace
  <2> QED
    BY <1>0, <1>u, <2>1, Undisturbed
<1> QED
  BY <1>1, <1>2, <1>3, <1>4, <1>5

LEMMA WorkerCursor ==
    ASSUME VoiceInv, CursorInv, Worker
    PROVE  CursorInv'
<1>1. UNCHANGED <<use, windows, sch, flush>> /\ flush \in Nat
  BY DEF Worker, Decline, Begin, Decode, Push, Rest, Work, VoiceInv, VoiceTyped
<1>2. rx' \in RxFields /\ rx'.id = rx.id /\ rx'.gen >= rx.gen
  <2>1. rx \in RxFields /\ rx.gen \in Nat
    BY DEF VoiceInv, VoiceTyped, RxFields
  <2>2. rx' = rx \/ \E eye \in {rx.eye, TRUE} : rx' = [rx EXCEPT !.eye = eye]
    BY DEF Worker, Decline, Begin, Decode, Push, Rest
  <2>3. ASSUME NEW eye \in {rx.eye, TRUE}, rx' = [rx EXCEPT !.eye = eye]
        PROVE  rx' \in RxFields /\ rx'.id = rx.id /\ rx'.gen = rx.gen
    <3>1. eye \in BOOLEAN
      BY <2>1 DEF RxFields
    <3> QED
      BY <2>1, <2>3, <3>1 DEF RxFields
  <2>4. rx.gen >= rx.gen
    BY <2>1
  <2> QED
    BY <2>1, <2>2, <2>3, <2>4
<1> QED
  BY <1>1, <1>2, WorkerCarries, Undisturbed

(* Nothing is on its way while a chunk may be taken, and nothing but the     *)
(* front result while one is published.                                      *)
LEMMA NothingFlies ==
    ASSUME VoiceInv, p25VoiceWorkerCanAcceptJob, NEW k, NEW f
    PROVE  ~Flies(k, f) /\ pending = <<>>
<1> DEFINE busy == IF Busy THEN 1 ELSE 0
           p == Len(pending)
           c == Len(completed)
           u == Len(publish)
           i == IF worker.pc = "idle" THEN 0 ELSE 1
<1>1. p \in Nat /\ c \in Nat /\ u \in Nat /\ pending \in Seq(Job)
  BY LengthsTyped DEF VoiceInv, VoiceTyped, Lengths
<1>2. busy \in Nat /\ i \in Nat /\ busy <= i
  BY DEF Busy
<1>3. p + c + u + i < 1
  BY DEF p25VoiceWorkerCanAcceptJob, InFlight
<1>4. Flies(k, f) => p + c + u + busy = 1
  BY Grounded
<1> HIDE DEF busy, p, c, u, i
<1>5. ~(p + c + u + busy = 1) /\ p = 0
  BY <1>1, <1>2, <1>3
<1>6. Len(pending) = 0
  BY <1>5 DEF p
<1> QED
  BY <1>1, <1>4, <1>5, <1>6, EmptySeq

LEMMA OnlyFrontFlies ==
    ASSUME VoiceInv, publish # <<>>, NEW k, NEW f, Flies(k, f)
    PROVE  k = Head(publish).key /\ f = Head(publish).from
<1>1. PICK j \in Job : Carried(j) /\ j.key = k /\ j.from = f
  BY DEF Flies
<1>2. pending = <<>> /\ completed = <<>> /\ ~Busy
  BY PublishAlone
<1>3. <<j>> # <<>> /\ Head(<<j>>) = j
  OBVIOUS
<1> QED
  BY <1>1, <1>2, <1>3 DEF Carried

(* While the queues and the worker stand, so does what is on its way.        *)
LEMMA StillCarried ==
    ASSUME UNCHANGED <<flight>>
    PROVE  \A k, f : Flies(k, f) <=> Flies(k, f)'
BY DEF flight, Flies, Carried, Busy

(* A step of the DSP thread that leaves the flight alone and does not end    *)
(* where a chunk is in hand.                                                 *)
LEMMA SchedulerCursor ==
    ASSUME VoiceInv, CursorInv, UNCHANGED <<use, flush>>, UNCHANGED flight,
           sch'.flush = sch.flush, rx' \in RxFields, rx'.id = rx.id, rx'.gen >= rx.gen,
           flush = sch.flush => \A k \in DOMAIN windows' : Safe(k)',
           \/ sch'.pc \in {"drain", "publish"}
           \/ /\ sch'.pc \in {"prepare", "pull", "take"} /\ sch'.id = sch.id /\ sch.pc \in AfterTick
              /\ \/ rx' = rx /\ sch'.key = Session
                 \/ sch'.key = sch.key /\ sch.pc # "look"
    PROVE  CursorInv'
<1>1. SUFFICES ASSUME flush = sch.flush
               PROVE  SameReceiver' /\ ChunkFits' /\ ChunkFlies'
  BY DEF CursorInv
<1>2. SameReceiver /\ rx.gen \in Nat /\ rx'.gen \in Nat
      /\ (sch.pc \in AfterTick \ {"look"} => sch.key \in Key)
  BY <1>1 DEF CursorInv, VoiceInv, VoiceTyped, InHand, RxFields, AfterTick
<1>3. Session[1] = rx.id /\ Session[2] = rx.gen /\ rx.gen <= rx.gen
  BY <1>2 DEF Session
<1>4. SameReceiver'
  BY <1>2, <1>3 DEF SameReceiver, AfterTick, Key
<1>5. ChunkFits' /\ ChunkFlies'
  BY DEF ChunkFits, ChunkFlies
<1> QED
  BY <1>4, <1>5

(* What stands stays safe, under whatever keys it stands.                    *)
LEMMA StaySafe ==
    ASSUME UNCHANGED use, UNCHANGED flight, NEW k, Safe(k), windows'[k] = windows[k]
    PROVE  Safe(k)'
BY StillCarried DEF Safe, Sound

LEMMA EmptyIsSafe ==
    ASSUME NEW k, windows'[k] = NoWindow
    PROVE  Safe(k)'
BY DEF Safe, NoWindow

LEMMA DrainCursor == ASSUME VoiceInv, CursorInv, takeP25VoiceDecodeResults PROVE CursorInv'
<1>1. /\ UNCHANGED <<use, flush, rx, windows, pending, worker>>
      /\ publish' = publish \o completed /\ completed' = <<>>
      /\ sch' = [sch EXCEPT !.pc = "publish"] /\ sch \in SchFields
  BY DEF takeP25VoiceDecodeResults, At, VoiceInv, VoiceTyped
<1>2. sch'.pc = "publish" /\ sch'.flush = sch.flush
  BY <1>1 DEF SchFields
<1>3. ASSUME NEW k, NEW f, Flies(k, f)
      PROVE  Flies(k, f)'
  <2>1. PICK j \in Job : Carried(j) /\ j.key = k /\ j.from = f
    BY <1>3 DEF Flies
  <2>2. /\ publish \in Seq(Job) /\ completed \in Seq(Job) /\ Lengths
        /\ <<j>> \in Seq(Job) /\ Len(<<j>>) = 1
    BY LengthsTyped DEF VoiceInv, VoiceTyped
  <2>3. /\ publish = <<j>> => completed = <<>>
        /\ completed = <<j>> => publish = <<>>
    <3>1. Len(publish) + Len(completed) <= 1 /\ Len(publish) \in Nat /\ Len(completed) \in Nat
      <4> DEFINE busy == IF Busy THEN 1 ELSE 0
      <4>1. Len(pending) + Len(completed) + Len(publish) + busy <= 1 /\ busy \in Nat
        BY DEF VoiceInv, Single
      <4>2. Len(pending) \in Nat /\ Len(completed) \in Nat /\ Len(publish) \in Nat
        BY <2>2 DEF Lengths
      <4> HIDE DEF busy
      <4> QED
        BY <4>1, <4>2
    <3>2. (publish = <<j>> => Len(completed) = 0) /\ (completed = <<j>> => Len(publish) = 0)
      BY <2>2, <3>1
    <3> QED
      BY <2>2, <3>2, EmptySeq
  <2>4. /\ publish = <<j>> => publish' = <<j>>
        /\ completed = <<j>> => publish' = <<j>>
    BY <1>1, <2>2, <2>3, ConcatEmptySeq
  <2> QED
    BY <1>1, <2>1, <2>4 DEF Flies, Carried, Busy
<1>4. flush = sch.flush => \A k \in DOMAIN windows' : Safe(k)'
  BY <1>1, <1>3 DEF CursorInv, Safe, Sound
<1> QED
  BY <1>1, <1>2, <1>4 DEF CursorInv, SameReceiver, AfterTick, ChunkFits, ChunkFlies

LEMMA ConsumedSize ==
    ASSUME NEW w \in Window, NEW r \in Job
    PROVE  Consumed(w, r).size = w.size
BY DEF Consumed, commitDecodeAbsolute, holdDecodeAbsolute, Window, WindowFields

LEMMA RolledBack ==
    ASSUME NEW w \in Window
    PROVE  LET v == rollbackSubmittedDecode(w)
           IN  /\ v.size = w.size /\ v.last = w.last /\ v.heard = w.heard /\ v.alien = w.alien
               /\ v.submitted = None
BY DEF rollbackSubmittedDecode, Window, WindowFields

LEMMA PublishCursor == ASSUME VoiceInv, CursorInv, Publish PROVE CursorInv'
<1> DEFINE r == Head(publish)
<1>1. /\ UNCHANGED <<use, flush, rx, sch, worker>> /\ publish # <<>> /\ sch.pc = "publish"
      /\ r \in Job /\ (r.key \notin DOMAIN windows => windows' = windows)
      /\ r.key \in DOMAIN windows =>
            \/ windows' = Put(r.key, Consumed(windows[r.key], r))
            \/ windows' = Put(r.key, rollbackSubmittedDecode(windows[r.key]))
  <2>1. publish # <<>> /\ sch.pc = "publish"
    BY DEF Publish, At
  <2> QED
    BY <2>1, PublishStep
<1> HIDE DEF r
<1>2. SUFFICES ASSUME flush = sch.flush, NEW k \in DOMAIN windows'
               PROVE  Safe(k)'
  BY <1>1 DEF CursorInv, SameReceiver, AfterTick, ChunkFits, ChunkFlies
<1>3. VoiceTyped /\ r.key \in Key /\ r.from \in Nat /\ r.end \in Nat
  BY <1>1, JobNumbers DEF VoiceInv
<1>4. ASSUME NEW x \in DOMAIN windows, x # r.key
      PROVE  ~windows[x].alien => windows[x].submitted = None
  BY <1>1, <1>2, <1>4, OnlyFrontFlies DEF CursorInv, Safe, r
<1>5. CASE windows'[k] = windows[k] /\ k \in DOMAIN windows /\ k # r.key
  BY <1>1, <1>2, <1>4, <1>5 DEF CursorInv, Safe, Sound
<1>6. CASE k = r.key /\ r.key \in DOMAIN windows
  <2> DEFINE w == windows[k]
             v == windows'[k]
  <2>1. /\ w \in Window
        /\ v = Consumed(w, r) \/ v = rollbackSubmittedDecode(w)
    <3>1. w \in Window
      BY <1>6, KeysTyped
    <3>2. Consumed(w, r) \in Window /\ rollbackSubmittedDecode(w) \in Window
      BY <1>1, <3>1, ConsumedTyped, MarksTyped
    <3> QED
      BY <1>1, <1>3, <1>6, <3>1, <3>2, Puts
  <2>2. w.last \in Nat /\ w.heard \in Nat /\ use.protect \in Nat /\ (w.size = 0 \/ w.size > 0)
    BY <1>3, <2>1, WindowNumbers, UseNumbers
  <2>3. Safe(k) /\ use' = use
    BY <1>1, <1>2, <1>6 DEF CursorInv
  <2>4. CASE v = rollbackSubmittedDecode(w)
    <3>1. /\ v.size = w.size /\ v.last = w.last /\ v.heard = w.heard /\ v.alien = w.alien
          /\ v.submitted = None
      BY <2>1, <2>4, RolledBack
    <3> QED
      BY <2>3, <3>1 DEF Safe, Sound
  <2>5. CASE v = Consumed(w, r)
    <3>1. /\ v.size = w.size /\ v.submitted = None /\ v.alien = (w.alien \/ w.submitted = None)
          /\ v.last = IF r.used THEN Most(w.last, r.end) ELSE w.last
          /\ v.heard = IF r.used THEN Heard(w, r) ELSE w.heard
      BY <1>1, <2>1, <2>5, ConsumedTyped, ConsumedSize
    <3>2. ASSUME ~v.alien, w.size > 0
          PROVE  v.last <= v.heard
      <4>1. ~w.alien /\ w.submitted # None
        BY <3>1, <3>2
      <4>2. w.last <= w.heard /\ \E f \in Nat : f <= w.heard /\ Flies(k, f)
        BY <2>3, <3>2, <4>1 DEF Safe, Sound
      <4>3. r.from <= w.heard
        BY <1>1, <4>2, OnlyFrontFlies DEF r
      <4>4. Heard(w, r) = Most(w.heard, r.end)
        BY <4>3 DEF Heard
      <4> QED
        BY <1>3, <2>2, <3>1, <4>2, <4>4 DEF Most
    <3> QED
      BY <2>2, <3>1, <3>2 DEF Safe, Sound
  <2> QED
    BY <2>1, <2>4, <2>5
<1>7. \/ windows'[k] = windows[k] /\ k \in DOMAIN windows /\ k # r.key
      \/ k = r.key /\ r.key \in DOMAIN windows
  <2>1. CASE r.key \notin DOMAIN windows
    BY <1>1, <1>2, <2>1
  <2>2. CASE r.key \in DOMAIN windows
    <3>1. windows[r.key] \in Window
      BY <2>2, KeysTyped
    <3>2. Consumed(windows[r.key], r) \in Window /\ rollbackSubmittedDecode(windows[r.key]) \in Window
      BY <1>1, <3>1, ConsumedTyped, MarksTyped
    <3> QED
      BY ZenonT(30), <1>1, <1>2, <1>3, <2>2, <3>2, Puts
  <2> QED
    BY <2>1, <2>2
<1> QED
  BY <1>5, <1>6, <1>7

LEMMA TickCursor == ASSUME VoiceInv, CursorInv, Tick PROVE CursorInv'
<1>1. /\ UNCHANGED <<use, flush, rx>> /\ UNCHANGED flight /\ sch \in SchFields /\ VoiceTyped
      /\ sch' = [sch EXCEPT !.pc = "look", !.flush = flush, !.traffic = rx.call, !.id = rx.id]
      /\ flush \in Nat
  BY DEF Tick, At, VoiceInv, VoiceTyped, flight
<1>2. sch'.pc = "look" /\ sch'.flush = flush /\ sch'.id = rx.id
  BY <1>1 DEF SchFields
<1>3. \A k \in DOMAIN windows' : Safe(k)'
  <2>1. CASE windows' = << >>
    BY <2>1, EmptyWindows
  <2>2. CASE windows' # << >>
    <3>1. flush = sch.flush /\ windows' = Only({Session})
      BY <2>2 DEF Tick
    <3> QED
      BY <1>1, <3>1, Keeps, StaySafe DEF CursorInv
  <2> QED
    BY <2>1, <2>2
<1> QED
  BY <1>1, <1>2, <1>3 DEF CursorInv, SameReceiver, AfterTick, ChunkFits, ChunkFlies

LEMMA LookCursor == ASSUME VoiceInv, CursorInv, Look PROVE CursorInv'
<1>1. /\ UNCHANGED <<use, flush>> /\ UNCHANGED flight /\ sch.pc = "look" /\ sch \in SchFields
      /\ VoiceTyped /\ rx \in RxFields /\ rx.gen \in Nat
  BY DEF Look, At, VoiceInv, VoiceTyped, RxFields
<1>2. /\ rx' = rx \/ rx' = Reset(rx)
      /\ windows' = windows \/ \E S : windows' = Only(S)
  BY DEF Look
<1>3. rx' \in RxFields /\ rx'.id = rx.id /\ rx'.gen >= rx.gen
  BY <1>1, <1>2, ResetTyped
<1>4. flush = sch.flush => \A k \in DOMAIN windows' : Safe(k)'
  BY <1>1, <1>2, Keeps, StaySafe DEF CursorInv
<1>5. CASE NextLoop
  <2>1. sch'.pc = "drain" /\ sch'.flush = sch.flush
    BY <1>1, <1>5, NextLoopTyped
  <2> QED
    BY <1>1, <1>3, <1>4, <2>1, SchedulerCursor
<1>6. CASE /\ sch' = [sch EXCEPT !.pc = "prepare", !.key = Session, !.call = rx.call, !.eye = rx.eye]
           /\ rx' = rx
  <2>1. sch'.pc = "prepare" /\ sch'.flush = sch.flush /\ sch'.id = sch.id /\ sch'.key = Session
    BY <1>1, <1>6 DEF SchFields
  <2>2. sch.pc \in AfterTick
    BY <1>1 DEF AfterTick
  <2> QED
    BY <1>1, <1>3, <1>4, <1>6, <2>1, <2>2, SchedulerCursor
<1> QED
  BY <1>5, <1>6 DEF Look

LEMMA PrepareCursor == ASSUME VoiceInv, CursorInv, Prepare PROVE CursorInv'
<1> DEFINE w == IF Has(CurrentKey) THEN windows[CurrentKey] ELSE NoWindow
<1>1. /\ UNCHANGED <<use, flush, rx>> /\ UNCHANGED flight /\ sch.pc = "prepare" /\ sch \in SchFields
      /\ VoiceTyped /\ rx \in RxFields /\ rx.gen >= rx.gen /\ CurrentKey \in Key
      /\ windows' = Put(CurrentKey, w)
  <2>1. sch.pc = "prepare"
    BY DEF Prepare, At
  <2>2. rx.gen \in Nat
    BY DEF VoiceInv, VoiceTyped, RxFields
  <2> QED
    BY SMTT(30), <2>1, <2>2, KeysTyped DEF Prepare, At, VoiceInv, VoiceTyped
<1>2. sch'.pc = "pull" /\ sch'.flush = sch.flush /\ sch'.id = sch.id /\ sch'.key = CurrentKey
  BY <1>1 DEF Prepare, SchFields
<1>3. w \in Window
  BY KeysTyped, NoWindowTyped DEF Has
<1>4. ASSUME flush = sch.flush, NEW k \in DOMAIN windows'
      PROVE  Safe(k)'
  <2> HIDE DEF w
  <2>0. /\ DOMAIN windows' = DOMAIN windows \cup {CurrentKey} /\ windows'[CurrentKey] = w
        /\ \A x \in DOMAIN windows : x # CurrentKey => windows'[x] = windows[x]
    BY <1>1, <1>3, Puts
  <2>1. /\ k = CurrentKey \/ k \in DOMAIN windows
        /\ k # CurrentKey => windows'[k] = windows[k]
        /\ windows'[CurrentKey] = w
    BY <1>4, <2>0
  <2>2. CASE k \in DOMAIN windows
    <3>1. windows'[k] = windows[k]
      BY <2>1, <2>2 DEF w, Has
    <3> QED
      BY <1>1, <1>4, <2>2, <3>1, StaySafe DEF CursorInv
  <2>3. CASE k \notin DOMAIN windows
    <3>1. windows'[k] = NoWindow
      BY <2>1, <2>3 DEF w, Has
    <3> QED
      BY <3>1, EmptyIsSafe
  <2> QED
    BY <2>2, <2>3
<1>5. flush = sch.flush => \A k \in DOMAIN windows' : Safe(k)'
  BY <1>4
<1>6. sch.pc \in AfterTick /\ (CurrentKey = Session \/ CurrentKey = sch.key)
  BY <1>1 DEF AfterTick, CurrentKey
<1> QED
  BY <1>1, <1>2, <1>5, <1>6, SchedulerCursor

LEMMA AppendSize ==
    ASSUME VoiceTyped, NEW w \in Window, NEW iq, iq.start \in Nat, iq.end \in Nat, iq.epoch \in Nat,
           iq.start <= iq.end, w.size > 0
    PROVE  append(w, iq).size > 0
<1>1. /\ w \in WindowFields /\ w.start \in Nat /\ w.size \in Nat /\ w.end \in Nat /\ Labelled(w)
      /\ w.start <= w.last /\ w.torn \in BOOLEAN
  BY WindowNumbers
<1>2. CASE iq.end <= w.end
  <2>1. append(w, iq) = [w EXCEPT !.epoch = iq.epoch]
    BY <1>1, <1>2 DEF append
  <2> QED
    BY <1>1, <2>1 DEF WindowFields
<1>3. CASE ~(iq.end <= w.end)
  <2> DEFINE hole == Hole(w, iq.start)
             new == iq.end - Most(iq.start, w.end)
             torn == w.torn \/ Less(iq.start, w.end) > Join
             v == [w EXCEPT !.size = w.size + hole + new, !.end = iq.end, !.epoch = iq.epoch,
                            !.torn = torn]
  <2>1. append(w, iq) = Trimmed(v)
    BY <1>1, <1>3 DEF append
  <2>2. /\ hole \in Nat /\ new \in Nat
        /\ Less(iq.start, w.end) <= Join => hole + new = iq.end - w.end
    BY <1>1, <1>3 DEF Hole, Less, Most
  <2>3. torn \in BOOLEAN /\ (~torn => ~w.torn /\ Less(iq.start, w.end) <= Join)
    BY <1>1 DEF Less
  <2> HIDE DEF hole, new, torn
  <2>4. w.size + hole + new \in Nat /\ w.size + hole + new > 0
    BY <1>1, <2>2
  <2>5. /\ v \in WindowFields /\ v.start = w.start /\ v.end = iq.end /\ v.size = w.size + hole + new
        /\ v.last = w.last /\ v.torn = torn
    BY <1>1, <2>3, <2>4 DEF WindowFields
  <2> HIDE DEF v
  <2>6. v.torn \/ v.end = v.start + v.size
    BY <1>1, <1>3, <2>2, <2>3, <2>5 DEF Labelled
  <2>7. v \in Window
    BY <1>1, <2>5, <2>6 DEF Window, Labelled
  <2> QED
    BY <2>1, <2>4, <2>5, <2>7, TrimmedTyped
<1> QED
  BY <1>2, <1>3

LEMMA PullCursor == ASSUME VoiceInv, CursorInv, Handoff \/ Discontinuity \/ AppendIq PROVE CursorInv'
<1>1. /\ UNCHANGED <<use, flush>> /\ UNCHANGED flight /\ sch.pc = "pull" /\ sch \in SchFields
      /\ VoiceTyped /\ rx \in RxFields /\ rx.gen \in Nat
  BY DEF Handoff, Discontinuity, AppendIq, At, VoiceInv, VoiceTyped, RxFields
<1>2. sch.key \in Key /\ sch.key \in DOMAIN windows /\ windows[sch.key] \in Window
  BY <1>1, KeysTyped DEF VoiceInv, InHand
<1>3. CASE Handoff \/ Discontinuity
  <2>1. /\ rx' = Reset(rx) \/ rx' = rx
        /\ windows' = Put(sch.key, NoWindow) \/ windows' = Only(DOMAIN windows \ {sch.key})
        /\ NextLoop
    BY <1>3 DEF Handoff, Discontinuity, ResetOrMiss
  <2>2. rx' \in RxFields /\ rx'.id = rx.id /\ rx'.gen >= rx.gen
    BY <1>1, <2>1, ResetTyped
  <2>3. sch'.pc = "drain" /\ sch'.flush = sch.flush
    BY <1>1, <2>1, NextLoopTyped
  <2>4. ASSUME flush = sch.flush, NEW k \in DOMAIN windows'
        PROVE  Safe(k)'
    <3>1. CASE windows' = Put(sch.key, NoWindow)
      <4>1. /\ k = sch.key => windows'[k] = NoWindow
            /\ k # sch.key => k \in DOMAIN windows /\ windows'[k] = windows[k]
        BY <1>1, <1>2, <2>4, <3>1, NoWindowTyped, Puts
      <4> QED
        BY <1>1, <2>4, <4>1, EmptyIsSafe, StaySafe DEF CursorInv
    <3>2. CASE windows' = Only(DOMAIN windows \ {sch.key})
      BY <1>1, <2>4, <3>2, Keeps, StaySafe DEF CursorInv
    <3> QED
      BY <2>1, <3>1, <3>2
  <2>5. flush = sch.flush => \A k \in DOMAIN windows' : Safe(k)'
    BY <2>4
  <2> QED
    BY <1>1, <2>2, <2>3, <2>5, SchedulerCursor
<1>4. CASE AppendIq
  <2> DEFINE w == windows[sch.key]
             v == append(w, Iq)
  <2>1. /\ UNCHANGED rx /\ sch' = [sch EXCEPT !.pc = "take", !.at = None, !.epoch = None]
        /\ windows' = windows \/ windows' = Put(sch.key, v)
    BY <1>4 DEF AppendIq
  <2>2. sch'.pc = "take" /\ sch'.key = sch.key /\ sch'.id = sch.id /\ sch'.flush = sch.flush
        /\ rx.gen >= rx.gen
    BY <1>1, <2>1 DEF SchFields
  <2>3. Iq.start \in Nat /\ Iq.end \in Nat /\ Iq.epoch \in Nat /\ Iq.start <= Iq.end
    BY <1>1, IqTyped
  <2>4. /\ v \in Window /\ v.submitted = w.submitted /\ v.alien = w.alien
        /\ w.size = 0 /\ w.submitted = None => Sound(v)
        /\ w.size > 0 => v.heard >= w.heard /\ v.size > 0
        /\ w.size > 0 /\ Sound(w) => Sound(v)
    BY <1>1, <1>2, <2>3, AppendTyped, AppendSize
  <2>5. ASSUME flush = sch.flush, NEW k \in DOMAIN windows'
        PROVE  Safe(k)'
    <3>0. \A x \in DOMAIN windows : Safe(x)
      BY <2>5 DEF CursorInv
    <3>1. CASE windows' = windows
      BY <1>1, <2>5, <3>0, <3>1, StaySafe
    <3>2. CASE windows' = Put(sch.key, v)
      <4> HIDE DEF v
      <4>1. /\ k = sch.key => windows'[k] = v
            /\ k # sch.key => k \in DOMAIN windows /\ windows'[k] = windows[k]
        BY <1>1, <1>2, <2>4, <2>5, <3>2, Puts
      <4>2. CASE k # sch.key
        BY <1>1, <3>0, <4>1, <4>2, StaySafe
      <4>3. CASE k = sch.key
        <5>1. Safe(sch.key)
          BY <1>2, <3>0
        <5>2. /\ w.size \in Nat /\ w.heard \in Nat /\ v.heard \in Nat /\ v.size \in Nat
          BY <1>2, <2>4, WindowNumbers
        <5>3. ~w.alien => /\ w.size = 0 => w.submitted = None
                          /\ w.size > 0 => Sound(w)
                          /\ w.submitted # None => \E f \in Nat : f <= w.heard /\ Flies(k, f)
          BY <4>3, <5>1 DEF Safe
        <5>4. ~v.alien => Sound(v) /\ (v.size = 0 => v.submitted = None)
          <6>1. w.size = 0 \/ w.size > 0
            BY <5>2
          <6> HIDE DEF w
          <6> QED
            BY <2>4, <5>2, <5>3, <6>1
        <5>5. ~v.alien /\ v.submitted # None => \E f \in Nat : f <= v.heard /\ Flies(k, f)'
          <6>1. SUFFICES ASSUME ~v.alien, v.submitted # None
                         PROVE  \E f \in Nat : f <= v.heard /\ Flies(k, f)'
            OBVIOUS
          <6>2. w.size > 0 /\ \E f \in Nat : f <= w.heard /\ Flies(k, f)
            BY <2>4, <5>2, <5>3, <6>1
          <6>3. PICK f \in Nat : f <= w.heard /\ Flies(k, f)
            BY <6>2
          <6>4. f <= v.heard
            BY <2>4, <5>2, <6>2, <6>3
          <6> QED
            BY <1>1, <6>3, <6>4, StillCarried
        <5> HIDE DEF w
        <5>6. windows'[k] = v /\ use' = use
          BY <1>1, <4>1, <4>3
        <5> QED
          BY <5>4, <5>5, <5>6 DEF Safe, Sound
      <4> QED
        BY <4>2, <4>3
    <3> QED
      BY <2>1, <3>1, <3>2
  <2>6. flush = sch.flush => \A k \in DOMAIN windows' : Safe(k)'
    BY <2>5
  <2>7. sch.pc \in AfterTick
    BY <1>1 DEF AfterTick
  <2> QED
    BY <1>1, <2>1, <2>2, <2>6, <2>7, SchedulerCursor
<1> QED
  BY <1>3, <1>4

LEMMA TakeCursor ==
    ASSUME VoiceInv, CursorInv, Take \/ NotNow
    PROVE  CursorInv'
<1>1. /\ UNCHANGED <<use, flush, rx, windows>> /\ UNCHANGED flight /\ sch.pc = "take"
      /\ sch \in SchFields /\ VoiceTyped /\ rx \in RxFields /\ rx.gen >= rx.gen
  <2>1. rx.gen \in Nat
    BY DEF VoiceInv, VoiceTyped, RxFields
  <2> QED
    BY <2>1 DEF Take, NotNow, At, VoiceInv, VoiceTyped
<1>2. sch.key \in Key /\ sch.call \in Nat /\ sch.key \in DOMAIN windows /\ windows[sch.key] \in Window
  BY <1>1, KeysTyped DEF VoiceInv, InHand
<1>3. flush = sch.flush => \A k \in DOMAIN windows' : Safe(k)'
  BY <1>1, StaySafe DEF CursorInv
<1>4. CASE NextLoop
  <2>1. sch'.pc = "drain" /\ sch'.flush = sch.flush
    BY <1>1, <1>4, NextLoopTyped
  <2> QED
    BY <1>1, <1>3, <2>1, SchedulerCursor
<1>5. CASE Take
  <2> DEFINE w == windows[sch.key]
             j == takeUndecoded(w)
  <2>1. MayTake(w) /\ p25VoiceWorkerCanAcceptJob /\ sch' = [sch EXCEPT !.pc = "submit", !.job = j]
    BY <1>5 DEF Take
  <2>2. /\ j \in Job /\ j.from <= effectiveDecodeAbsolute(w)
        /\ \E size \in {use.cold, use.hop, use.catchUp} : j.end <= j.from + size
    BY <1>1, <1>2, <2>1, TakeTyped
  <2>3. sch'.pc = "submit" /\ sch'.key = sch.key /\ sch'.job = j /\ sch'.flush = sch.flush
        /\ sch'.id = sch.id
    BY <1>1, <2>1 DEF SchFields
  <2>4. SUFFICES ASSUME flush = sch.flush
                 PROVE  SameReceiver' /\ ChunkFits' /\ ChunkFlies'
    BY <1>1, <1>3, <2>3 DEF CursorInv
  <2>5. SameReceiver'
    BY <1>1, <2>3, <2>4 DEF CursorInv, SameReceiver, AfterTick
  <2>6. ChunkFlies'
    BY <2>3 DEF ChunkFlies
  <2>7. w.size > 0
    BY <2>1 DEF MayTake
  <2>8. ASSUME ~w.alien
        PROVE  j.from <= w.heard
    <3>1. Safe(sch.key)
      BY <1>2, <2>4 DEF CursorInv
    <3>2. w.submitted = None /\ Sound(w)
      BY <2>1, <2>7, <2>8, <3>1, NothingFlies DEF Safe
    <3>3. j.from <= w.last
      BY <1>2, <2>2, <3>2, Cursor
    <3>4. w.last <= w.heard /\ w.last \in Nat /\ w.heard \in Nat /\ j.from \in Nat
      BY <1>2, <2>2, <3>2, WindowNumbers, JobNumbers DEF Sound
    <3> HIDE DEF w, j
    <3> QED
      BY <3>3, <3>4
  <2> HIDE DEF j
  <2>9. ChunkFits'
    BY <1>1, <1>2, <2>3, <2>7, <2>8 DEF ChunkFits
  <2> QED
    BY <2>5, <2>6, <2>9
<1> QED
  BY <1>4, <1>5 DEF NotNow

LEMMA SubmitCursor == ASSUME VoiceInv, CursorInv, Submit PROVE CursorInv'
<1>1. /\ UNCHANGED <<use, flush, rx, windows, worker, completed, publish>> /\ sch.pc = "submit"
      /\ sch \in SchFields /\ VoiceTyped /\ rx \in RxFields /\ rx.gen >= rx.gen
  <2>1. rx.gen \in Nat
    BY DEF VoiceInv, VoiceTyped, RxFields
  <2> QED
    BY SMTT(30), <2>1 DEF Submit, At, VoiceInv, VoiceTyped
<1>2. sch.key \in Key /\ sch.job \in Job /\ CurrentKey \in Key /\ flush \in Nat
  BY <1>1, KeysTyped DEF VoiceInv, VoiceTyped, InHand
<1>3. CASE ~p25VoiceWorkerCanAcceptJob
  <2>1. NextLoop /\ UNCHANGED flight
    BY <1>1, <1>3 DEF Submit, flight
  <2>2. sch'.pc = "drain" /\ sch'.flush = sch.flush
    BY <1>1, <2>1, NextLoopTyped
  <2>3. flush = sch.flush => \A k \in DOMAIN windows' : Safe(k)'
    BY <1>1, <2>1, StaySafe DEF CursorInv
  <2> QED
    BY <1>1, <2>1, <2>2, <2>3, SchedulerCursor
<1>4. CASE p25VoiceWorkerCanAcceptJob
  <2> DEFINE j == [sch.job EXCEPT !.key = CurrentKey, !.flush = flush]
  <2>1. pending' = Append(pending, j) /\ sch' = [sch EXCEPT !.pc = "mark"]
    BY <1>4 DEF Submit
  <2>2. j \in Job /\ j.key = CurrentKey /\ j.from = sch.job.from
    BY <1>2 DEF Job, JobFields
  <2> HIDE DEF j
  <2>3. pending' = <<j>>
    <3>1. pending = <<>>
      BY <1>4, NothingFlies
    <3> QED
      BY <2>1, <3>1
  <2>4. sch'.pc = "mark" /\ sch'.key = sch.key /\ sch'.job = sch.job /\ sch'.flush = sch.flush
        /\ sch'.id = sch.id
    BY <1>1, <2>1 DEF SchFields
  <2>5. SUFFICES ASSUME flush = sch.flush
                 PROVE  (\A k \in DOMAIN windows' : Safe(k)') /\ SameReceiver' /\ ChunkFits' /\ ChunkFlies'
    BY <1>1, <2>4 DEF CursorInv
  <2>6. ASSUME NEW k \in DOMAIN windows'
        PROVE  Safe(k)'
    <3>1. Safe(k)
      BY <1>1, <2>5, <2>6 DEF CursorInv
    <3>2. ~windows[k].alien => windows[k].submitted = None
      BY <1>4, <3>1, NothingFlies DEF Safe
    <3> QED
      BY <1>1, <3>1, <3>2 DEF Safe, Sound
  <2>7. SameReceiver'
    BY <1>1, <2>4, <2>5 DEF CursorInv, SameReceiver, AfterTick
  <2>8. ChunkFits'
    BY <1>1, <2>4, <2>5 DEF CursorInv, ChunkFits
  <2>9. ChunkFlies'
    <3>1. SUFFICES ASSUME sch.key = Session
                   PROVE  Flies(sch.key, sch.job.from)'
      BY <1>1, <2>4 DEF ChunkFlies, Session
    <3>2. j.key = sch.key
      BY <2>2, <3>1 DEF CurrentKey
    <3> QED
      BY <1>1, <2>2, <2>3, <2>4, <3>2 DEF Flies, Carried
  <2> QED
    BY <2>6, <2>7, <2>8, <2>9
<1> QED
  BY <1>3, <1>4

LEMMA MarkCursor == ASSUME VoiceInv, CursorInv, Mark PROVE CursorInv'
<1> DEFINE w == IF Has(CurrentKey) THEN windows[CurrentKey] ELSE NoWindow
           v == [markDecodeSubmitted(w, sch.job.end) EXCEPT !.alien = w.alien \/ CurrentKey # sch.key]
<1>1. /\ UNCHANGED <<use, flush, rx>> /\ UNCHANGED flight /\ sch.pc = "mark" /\ NextLoop
      /\ sch \in SchFields /\ VoiceTyped /\ rx \in RxFields /\ rx.gen >= rx.gen
  <2>1. rx.gen \in Nat
    BY DEF VoiceInv, VoiceTyped, RxFields
  <2> QED
    BY <2>1 DEF Mark, At, VoiceInv, VoiceTyped
<1>2. sch.key \in Key /\ sch.job \in Job /\ CurrentKey \in Key /\ flush \in Nat
      /\ sch.job.end \in Nat /\ sch.job.from \in Nat
  BY <1>1, KeysTyped, JobNumbers DEF VoiceInv, VoiceTyped, InHand
<1>3. w \in Window
  BY KeysTyped, NoWindowTyped DEF Has
<1>4. windows' = Put(CurrentKey, v)
  <2>1. markDecodeSubmitted(w, sch.job.end).alien = w.alien
    BY <1>3 DEF markDecodeSubmitted, Window, WindowFields
  <2>2. windows' = Put(CurrentKey, [markDecodeSubmitted(w, sch.job.end)
                     EXCEPT !.alien = markDecodeSubmitted(w, sch.job.end).alien \/ CurrentKey # sch.key])
    BY DEF Mark
  <2> QED
    BY <2>1, <2>2
<1>5. /\ v \in Window /\ v.size = w.size /\ v.last = w.last /\ v.heard = w.heard
      /\ v.submitted = sch.job.end /\ v.alien = (w.alien \/ CurrentKey # sch.key)
  <2> DEFINE a == w.alien \/ CurrentKey # sch.key
  <2>1. a \in BOOLEAN
    OBVIOUS
  <2> HIDE DEF a, w
  <2>2. v = [markDecodeSubmitted(w, sch.job.end) EXCEPT !.alien = a]
    BY DEF a
  <2> HIDE DEF v
  <2>3. v \in Window
    BY <1>2, <1>3, <2>1, <2>2, MarksTyped
  <2>4. /\ v.size = w.size /\ v.last = w.last /\ v.heard = w.heard
        /\ v.submitted = sch.job.end /\ v.alien = a
    BY <1>3, <2>2 DEF markDecodeSubmitted, Window, WindowFields
  <2> QED
    BY <2>3, <2>4 DEF a
<1>6. sch'.pc = "drain" /\ sch'.flush = sch.flush
  BY <1>1, NextLoopTyped
<1>7. ASSUME flush = sch.flush, NEW k \in DOMAIN windows'
      PROVE  Safe(k)'
  <2>0. /\ \A x \in DOMAIN windows : Safe(x)
        /\ SameReceiver /\ ChunkFits /\ ChunkFlies
    BY <1>7 DEF CursorInv
  <2> HIDE DEF v
  <2>1. /\ DOMAIN windows' = DOMAIN windows \cup {CurrentKey} /\ windows'[CurrentKey] = v
        /\ \A x \in DOMAIN windows : x # CurrentKey => windows'[x] = windows[x]
    BY <1>1, <1>2, <1>4, <1>5, Puts
  <2>2. CASE k # CurrentKey
    BY <1>1, <1>7, <2>0, <2>1, <2>2, StaySafe
  <2>3. CASE k = CurrentKey /\ CurrentKey # sch.key
    <3>1. windows'[k] = v /\ v.alien
      BY <1>5, <2>1, <2>3
    <3> QED
      BY <3>1 DEF Safe
  <2>4. CASE k = CurrentKey /\ CurrentKey = sch.key
    <3>1. sch.key = Session
      BY <1>1, <2>0, <2>4 DEF SameReceiver, AfterTick, CurrentKey
    <3>2. Flies(sch.key, sch.job.from) /\ sch.key \in DOMAIN windows /\ windows[sch.key].size > 0
      BY <1>1, <2>0, <3>1 DEF ChunkFlies, ChunkFits
    <3>3. w = windows[sch.key]
      BY <2>4, <3>2 DEF Has
    <3> HIDE DEF w
    <3>4. ~w.alien => w.last <= w.heard /\ sch.job.from <= w.heard
      BY <1>1, <2>0, <3>2, <3>3 DEF ChunkFits, Safe, Sound
    <3>5. windows'[k] = v /\ use' = use /\ v.alien = w.alien /\ v.size > 0 /\ v.size # 0
      <4>1. w.size \in Nat /\ w.size > 0 /\ w.alien \in BOOLEAN
        BY <1>3, <3>2, <3>3, WindowNumbers
      <4> QED
        BY <1>1, <1>5, <2>1, <2>4, <4>1
    <3>6. ~v.alien => Sound(v) /\ \E f \in Nat : f <= v.heard /\ Flies(k, f)'
      <4>1. PICK f \in Nat : f = sch.job.from
        BY <1>2
      <4>2. Flies(k, f)'
        <5>1. Flies(k, f)
          BY <2>4, <3>2, <4>1
        <5> QED
          BY <1>1, <5>1, StillCarried
      <4>3. ~v.alien => Sound(v)
        BY <1>5, <3>4, <3>5 DEF Sound
      <4>4. ~v.alien => f <= v.heard
        BY <1>5, <3>4, <3>5, <4>1
      <4> QED
        BY <4>2, <4>3, <4>4
    <3> QED
      BY <3>5, <3>6 DEF Safe, Sound
  <2> QED
    BY <2>2, <2>3, <2>4
<1>8. flush = sch.flush => \A k \in DOMAIN windows' : Safe(k)'
  BY <1>7
<1> QED
  BY <1>1, <1>6, <1>8, SchedulerCursor

LEMMA CursorStep ==
    ASSUME VoiceInv, CursorInv, [Next]_vars
    PROVE  CursorInv'
<1>1. CASE Scheduler
  BY <1>1, DrainCursor, PublishCursor, TickCursor, LookCursor, PrepareCursor, PullCursor,
     TakeCursor, SubmitCursor, MarkCursor DEF Scheduler
<1>2. CASE UNCHANGED vars
  BY <1>2 DEF vars, radioVars, rxVars, flight, CursorInv, Safe, Sound, Flies, Carried, Busy,
              SameReceiver, ChunkFits, ChunkFlies, Session
<1> QED
  BY <1>1, <1>2, OutsideCursor, WorkerCursor DEF Next

(* The decode cursor never passes IQ whose decoding failed, was stale or was  *)
(* held (commit, rollback, hold, trimming), but for IQ that trimming gives    *)
(* up: in an overload, or under a chunk longer than it protects, as the first *)
(* one of a cold window is (P25RollingIq.h, P25VoiceTiming.h).                *)
THEOREM CursorPassesNothing == Spec => []NothingSkipped
<1>1. Init => VoiceInv /\ CursorInv
  <2>1. ASSUME Init PROVE CursorInv
    <3>1. windows = << >> /\ DOMAIN windows = {} /\ sch.pc = "drain" /\ flush = 0 /\ sch.flush = 0
      BY <2>1 DEF Init
    <3> QED
      BY <3>1 DEF CursorInv, SameReceiver, AfterTick, ChunkFits, ChunkFlies
  <2> QED
    BY <2>1, InitInv
<1>2. VoiceInv /\ CursorInv /\ [Next]_vars => VoiceInv' /\ CursorInv'
  BY VoiceStep, CursorStep
<1>3. VoiceInv /\ CursorInv => NothingSkipped
  BY DEF CursorInv, Safe, Sound, NothingSkipped, Rolling
<1> QED
  BY <1>1, <1>2, <1>3, PTL DEF Spec
=============================================================================
