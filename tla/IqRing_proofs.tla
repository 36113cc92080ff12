---------------------------- MODULE IqRing_proofs ----------------------------
(***************************************************************************)
(* What is proved of the sample ring, for any number of readers, sizes and *)
(* samples.                                                                *)
(*                                                                         *)
(* RingInv is the ring: above the floor of the last loss, retune or reset  *)
(* nothing is missing.  PureInv follows from it for what is handed out.    *)
(* GapsInv ties what each kind of reader judges its next window by to the  *)
(* sample it heard last, but only within the epoch it was taken in (Tied): *)
(* a session's cursor, a filter's look at its cursor, the decoders' mark.  *)
(* While a window is in hand its own end stands for what was heard, and    *)
(* its flag or the mark tells whether it continues it.  SatInv ties the    *)
(* satellite engine's cursor to what it heard and to the snapshot on its   *)
(* way (SnapContinues), of any epoch.  A cursor is early where its epoch   *)
(* begins at it: then it is not tied to what was heard.                    *)
(***************************************************************************)
EXTENDS IqRing, SequenceTheorems, TLAPS

Sample == [id : Nat, centre : Centre]
Cursors == [last : Nat, epoch : Nat, clearing : BOOLEAN]
Pulls == [at : {"idle", "looked", "inside", "pulled"}, expected : Nat, epoch : Nat, last : Nat]
Hands == [gap : BOOLEAN, ids : Seq(Nat), epoch : Nat, from : Nat]
Marks == [epoch : Nat, next : Nat]
Windows == [gap : BOOLEAN, prev : Nat \cup {None}, ids : Seq(Nat), excused : BOOLEAN]
SatCursors == [valid : BOOLEAN, next : Nat, epoch : Nat, early : BOOLEAN]
Snaps == [from : Nat, to : Nat, epoch : Nat, ids : Seq(Nat), early : BOOLEAN]

RingTyped ==
    /\ use \in Use /\ centre \in use.centres
    /\ stream \in Seq(Sample)
    /\ made \in Nat /\ events \in Nat /\ epoch \in Nat \ {0}
    /\ retuneFloor \in 0..Total /\ lossFloor \in 0..retuneFloor
ReadersTyped ==
    /\ rx \in [Reader -> Cursors] /\ pull \in [Reader -> Pulls]
    /\ hand \in [Reader -> Hands] /\ mark \in [Reader -> Marks]
    /\ heard \in [Reader -> Nat \cup {None}] /\ got \in [Reader -> Windows]
    /\ missed \in [Reader -> BOOLEAN] /\ switches \in Nat /\ busy \in Nat
SatelliteTyped ==
    /\ sat \in SatCursors /\ snap \in Snaps \cup {None}
    /\ satHeard \in Nat \cup {None} /\ satGot \in Windows
    /\ snaps \in Nat /\ satResets \in Nat

(* Above the floor nothing is missing in the ring, and what comes next       *)
(* continues it.                                                             *)
RingInv ==
    /\ RingTyped
    /\ \A i \in (retuneFloor + 1)..(Total - 1) : stream[i + 1].id = stream[i].id + 1
    /\ Total > retuneFloor => stream[Total].id = made

PureInv == ReadersTyped /\ \A r \in Reader : Joined(got[r].ids) /\ Joined(hand[r].ids)

(* Of this epoch, the position behind a sample.                              *)
Tied(id, position, seen) ==
    seen = epoch => position \in (retuneFloor + 1)..Total /\ stream[position].id = id

(* An SSTV session.                                                          *)
SessionInv(r) ==
    /\ ~rx[r].clearing /\ (rx[r].epoch = 0 => heard[r] = None)
    /\ heard[r] # None =>
         /\ Tied(heard[r], rx[r].last, rx[r].epoch)
         /\ rx[r].epoch = pull[r].epoch
         /\ pull[r].at = "inside" => pull[r].last = rx[r].last

(* AM, SSB and CW filters; all bets are off after a window was thrown away.  *)
FilterInv(r) ==
    /\ heard[r] # None => ~rx[r].clearing
    /\ heard[r] # None /\ ~missed[r] /\ pull[r].at # "pulled" =>
         /\ Tied(heard[r], rx[r].last, rx[r].epoch)
         /\ pull[r].at # "idle" => Tied(heard[r], pull[r].expected, pull[r].epoch)
         /\ pull[r].at = "inside" => pull[r].last = rx[r].last
    /\ pull[r].at = "pulled" =>
         /\ hand[r].ids # <<>>
         /\ ~rx[r].clearing => Tied(Last(hand[r].ids), rx[r].last, rx[r].epoch)
         /\ heard[r] # None /\ ~missed[r] /\ ~hand[r].gap => Head(hand[r].ids) = heard[r] + 1

(* The data decoders.                                                        *)
DecoderInv(r) ==
    /\ heard[r] # None => Tied(heard[r], mark[r].next, mark[r].epoch)
    /\ pull[r].at = "pulled" =>
         /\ hand[r].ids # <<>>
         /\ Tied(Last(hand[r].ids), MarkedBy(hand[r]).next, hand[r].epoch)
         /\ heard[r] # None /\ mark[r] = [epoch |-> hand[r].epoch, next |-> hand[r].from]
              => Head(hand[r].ids) = heard[r] + 1

ReaderInv(r) ==
    /\ rx[r].epoch <= epoch /\ pull[r].epoch <= epoch
    /\ hand[r].epoch <= epoch /\ mark[r].epoch <= epoch
    /\ got[r].excused \/ Continues(got[r])
    /\ r \notin use.lagging => SessionInv(r)
    /\ r \in use.lagging \ use.data => FilterInv(r)
    /\ r \in use.data => DecoderInv(r)
GapsInv == switches = 0 => \A r \in Reader : ReaderInv(r)

-----------------------------------------------------------------------------
(* Numbers and sequences.                                                    *)
LEMMA Greater ==
    ASSUME NEW a \in Nat, NEW b \in Nat
    PROVE  Max({a, b}) = IF a >= b THEN a ELSE b
<1> DEFINE Greatest(x) == x \in {a, b} /\ \A y \in {a, b} : x >= y
<1>1. Greatest(IF a >= b THEN a ELSE b)
  OBVIOUS
<1>2. Max({a, b}) = CHOOSE x \in {a, b} : \A y \in {a, b} : x >= y
  BY DEF Max
<1>3. Greatest(Max({a, b}))
  BY <1>1, <1>2
<1> QED
  BY <1>1, <1>3

LEMMA Smaller ==
    ASSUME NEW a \in Nat, NEW b \in Nat
    PROVE  Min({a, b}) = IF a <= b THEN a ELSE b
<1> DEFINE Smallest(x) == x \in {a, b} /\ \A y \in {a, b} : x <= y
<1>1. Smallest(IF a <= b THEN a ELSE b)
  OBVIOUS
<1>2. Min({a, b}) = CHOOSE x \in {a, b} : \A y \in {a, b} : x =< y
  BY DEF Min
<1>3. Smallest(Min({a, b}))
  BY <1>1, <1>2
<1> QED
  BY <1>1, <1>3

LEMMA SmallestOfThree ==
    ASSUME NEW a \in Nat, NEW b \in Nat, NEW c \in Nat
    PROVE  /\ Min({a, b, c}) \in Nat
           /\ Min({a, b, c}) <= a /\ Min({a, b, c}) <= b /\ Min({a, b, c}) <= c
           /\ Min({a, b, c}) \in {a, b, c}
<1> DEFINE Smallest(x) == x \in {a, b, c} /\ \A y \in {a, b, c} : x <= y
<1>1. \E x : Smallest(x)
  <2>1. Smallest(a) \/ Smallest(b) \/ Smallest(c)
    OBVIOUS
  <2> QED
    BY <2>1
<1>2. Min({a, b, c}) = CHOOSE x \in {a, b, c} : \A y \in {a, b, c} : x =< y
  BY DEF Min
<1>3. Smallest(Min({a, b, c}))
  BY <1>1, <1>2
<1> QED
  BY <1>3

LEMMA NoWholePart ==
    ASSUME NEW n \in Nat, NEW c \in Nat \ {0}, n < c
    PROVE  n \div c = 0
OBVIOUS

LEMMA Appended ==
    ASSUME NEW S, NEW s \in Seq(S), NEW t \in Seq(S)
    PROVE  /\ s \o t \in Seq(S) /\ Len(s \o t) = Len(s) + Len(t)
           /\ \A i \in 1..Len(s) + Len(t) : (s \o t)[i] = IF i <= Len(s) THEN s[i] ELSE t[i - Len(s)]
OBVIOUS

(* What is left of a snapshot that covers from + 1 .. to behind start, where  *)
(* nothing is missing behind start.                                          *)
JoinedFrom(s, k) == \A i \in (k + 1)..(Len(s) - 1) : s[i + 1] = s[i] + 1

LEMMA SnapshotCut ==
    ASSUME NEW s \in Seq(Nat), NEW from \in Nat, NEW to \in Nat, NEW start \in Nat,
           from <= start, start <= to, Len(s) = to - from
    PROVE  /\ SubSeq(s, start - from + 1, Len(s)) \in Seq(Nat)
           /\ Len(SubSeq(s, start - from + 1, Len(s))) = to - start
           /\ \A i \in 1..(to - start) : SubSeq(s, start - from + 1, Len(s))[i] = s[start - from + i]
           /\ JoinedFrom(s, start - from) => Joined(SubSeq(s, start - from + 1, Len(s)))
<1> DEFINE ids == SubSeq(s, start - from + 1, Len(s))
<1>1. PICK k \in Nat : k = start - from
  OBVIOUS
<1>2. ids \in Seq(Nat) /\ Len(ids) = to - start /\ \A i \in 1..(to - start) : ids[i] = s[k + i]
  <2>1. ids = SubSeq(s, k + 1, Len(s)) /\ k + 1 \in Int /\ Len(s) \in Int /\ k + 1 <= Len(s) + 1
    BY <1>1
  <2> HIDE DEF ids
  <2>2. ids \in Seq(Nat) /\ Len(ids) = Len(s) - k
    BY <1>1, <2>1
  <2>3. ASSUME NEW i \in 1..(to - start) PROVE ids[i] = s[k + i]
    <3>1. i \in Nat /\ i \in 1..(Len(s) - (k + 1) + 1) /\ (k + 1) + i - 1 = k + i
      BY <1>1
    <3>2. ids[i] = s[(k + 1) + i - 1]
      BY <2>1, <3>1
    <3> QED
      BY <3>1, <3>2
  <2> QED
    BY <1>1, <2>2, <2>3
<1> HIDE DEF ids
<1>3. ASSUME JoinedFrom(s, k), NEW i \in 1..(to - start - 1) PROVE ids[i + 1] = ids[i] + 1
  <2>1. /\ i \in 1..(to - start) /\ i + 1 \in 1..(to - start)
        /\ k + i \in (k + 1)..(Len(s) - 1) /\ k + (i + 1) = k + i + 1
    BY <1>1
  <2>2. ids[i] = s[k + i] /\ ids[i + 1] = s[k + (i + 1)]
    BY <1>2, <2>1
  <2>3. s[k + i + 1] = s[k + i] + 1
    BY <1>3, <2>1 DEF JoinedFrom
  <2> QED
    BY <2>1, <2>2, <2>3
<1>4. JoinedFrom(s, k) => Joined(ids)
  <2>1. ASSUME JoinedFrom(s, k), NEW i \in 1..(Len(ids) - 1) PROVE ids[i + 1] = ids[i] + 1
    <3>1. i \in 1..(to - start - 1)
      BY <1>2, <2>1
    <3> QED
      BY <1>3, <2>1, <3>1
  <2> QED
    BY <2>1 DEF Joined
<1> QED
  BY <1>1, <1>2, <1>4 DEF ids

-----------------------------------------------------------------------------
USE RingAssumption DEF RingAssumption

(* What the ring still holds lies at its own slot.                           *)
LEMMA SlotsHold ==
    ASSUME stream \in Seq(Sample), NEW a \in Nat, a < Total, Total - a <= Capacity
    PROVE  Newest(a) = a
<1>1. Total \in Nat
  BY DEF Total
<1>2. (Total - 1 - a) \div Capacity = 0
  BY <1>1, NoWholePart
<1> QED
  BY <1>2 DEF Newest

LEMMA Copied ==
    ASSUME stream \in Seq(Sample), NEW from \in Nat, NEW to \in Nat,
           from <= to, to <= Total, Total - from <= Capacity
    PROVE  /\ Copy(from, to) \in Seq(Sample) /\ Len(Copy(from, to)) = to - from
           /\ \A i \in 1..(to - from) : Copy(from, to)[i] = stream[from + i]
           /\ Ids(Copy(from, to)) \in Seq(Nat) /\ Len(Ids(Copy(from, to))) = to - from
           /\ \A i \in 1..(to - from) : Ids(Copy(from, to))[i] = stream[from + i].id
<1> DEFINE w == Copy(from, to)
<1>1. Total \in Nat /\ to - from \in Nat
  BY DEF Total
<1>2. \A i \in 1..(to - from) : Newest(from + i - 1) + 1 = from + i
  <2>1. TAKE i \in 1..(to - from)
  <2>2. Newest(from + i - 1) = from + i - 1
    BY <1>1, SlotsHold
  <2> QED
    BY <2>2
<1>3. w = [i \in 1..(to - from) |-> stream[from + i]]
  BY <1>2 DEF Copy
<1>4. \A i \in 1..(to - from) : stream[from + i] \in Sample
  BY <1>1 DEF Total
<1> DEFINE size == to - from
<1>5. w \in Seq(Sample) /\ Len(w) = to - from /\ DOMAIN w = 1..(to - from)
      /\ \A i \in 1..(to - from) : w[i] = stream[from + i]
  <2>1. w \in [1..size -> Sample] /\ size \in Nat
    BY <1>1, <1>3, <1>4
  <2> HIDE DEF w, size
  <2>2. w \in Seq(Sample) /\ Len(w) = size /\ DOMAIN w = 1..size
    BY <2>1
  <2> QED
    BY <1>3, <2>2 DEF size
<1>6. Ids(w) = [i \in 1..(to - from) |-> stream[from + i].id]
  BY <1>5 DEF Ids
<1>7. \A i \in 1..(to - from) : stream[from + i].id \in Nat
  BY <1>4 DEF Sample
<1>8. Ids(w) \in Seq(Nat) /\ Len(Ids(w)) = to - from
      /\ \A i \in 1..(to - from) : Ids(w)[i] = stream[from + i].id
  BY <1>1, <1>6, <1>7
<1> QED
  BY <1>5, <1>8

LEMMA Copies ==
    ASSUME RingInv, NEW from \in retuneFloor..Total, NEW to \in from..Total, Total - from <= Capacity
    PROVE  Joined(Ids(Copy(from, to)))
<1>1. /\ stream \in Seq(Sample) /\ Total \in Nat /\ retuneFloor \in Nat
      /\ from \in Nat /\ to \in Nat /\ from <= to /\ to <= Total /\ retuneFloor <= from
  BY DEF RingInv, RingTyped, Total
<1>2. /\ Len(Ids(Copy(from, to))) = to - from
      /\ \A i \in 1..(to - from) : Ids(Copy(from, to))[i] = stream[from + i].id
  BY <1>1, Copied
<1>3. \A i \in 1..(to - from - 1) : stream[from + i + 1].id = stream[from + i].id + 1
  <2> TAKE i \in 1..(to - from - 1)
  <2>1. i \in Nat /\ 1 <= i /\ i <= to - from - 1
    BY <1>1
  <2>2. from + i \in (retuneFloor + 1)..(Total - 1)
    BY <1>1, <2>1
  <2> QED
    BY <2>2 DEF RingInv
<1> DEFINE ids == Ids(Copy(from, to))
<1>4. ASSUME NEW i \in 1..(Len(ids) - 1) PROVE ids[i + 1] = ids[i] + 1
  <2>1. i \in 1..(to - from - 1) /\ i \in 1..(to - from) /\ i + 1 \in 1..(to - from)
    <3>1. i \in 1..(to - from - 1)
      BY <1>2, <1>4
    <3> QED
      BY <1>1, <3>1
  <2>2. ids[i + 1] = stream[from + (i + 1)].id /\ ids[i] = stream[from + i].id
    BY <1>2, <2>1
  <2>3. from + (i + 1) = from + i + 1
    BY <1>1, <2>1
  <2> QED
    BY <1>3, <2>1, <2>2, <2>3
<1> QED
  BY <1>4 DEF Joined

-----------------------------------------------------------------------------
LEMMA RingInit == Init => RingInv
BY DEF Init, RingInv, RingTyped, Total

LEMMA RingStep ==
    ASSUME RingInv, [Next]_vars
    PROVE  RingInv'
<1> USE DEF RingInv, RingTyped
<1>0. Total \in Nat /\ retuneFloor \in Nat /\ lossFloor \in Nat
  BY DEF Total
<1>1. ASSUME NEW n \in Block, appendIQBlock(n), UNCHANGED use PROVE RingInv'
  <2> DEFINE more == [i \in 1..n |-> [id |-> made + i, centre |-> centre]]
  <2>1. n \in Nat \ {0}
    OBVIOUS
  <2>2. centre \in Centre
    OBVIOUS
  <2>3. more \in Seq(Sample) /\ Len(more) = n /\ \A i \in 1..n : more[i].id = made + i
    BY <2>1, <2>2 DEF Sample
  <2>4. stream' = stream \o more /\ stream \in Seq(Sample)
    BY <1>1 DEF appendIQBlock
  <2> HIDE DEF more
  <2>5. /\ stream' \in Seq(Sample) /\ Total' = Total + n
        /\ \A i \in 1..Total : stream'[i] = stream[i]
        /\ \A i \in (Total + 1)..(Total + n) : stream'[i] = more[i - Total]
    <3> DEFINE whole == stream \o more
    <3>1. /\ Len(whole) = Len(stream) + Len(more)
          /\ \A i \in 1..Len(stream) + Len(more) :
                whole[i] = IF i <= Len(stream) THEN stream[i] ELSE more[i - Len(stream)]
          /\ whole \in Seq(Sample)
      <4>1. stream \in Seq(Sample) /\ more \in Seq(Sample)
        BY <2>3, <2>4
      <4> HIDE DEF RingInv, RingTyped
      <4> QED
        BY <4>1, Appended
    <3> HIDE DEF whole
    <3>2. stream' = whole
      BY <2>4 DEF whole
    <3>3. Total' = Len(whole) /\ Total = Len(stream) /\ Total \in Nat
      BY <1>0, <3>2 DEF Total
    <3>4. ASSUME NEW i \in (Total + 1)..(Total + n) PROVE whole[i] = more[i - Total]
      <4>1. i \in 1..Len(stream) + Len(more) /\ ~(i <= Len(stream))
        BY <2>1, <2>3, <3>3, <3>4
      <4> QED
        BY <3>1, <3>3, <4>1
    <3>5. ASSUME NEW i \in 1..Total PROVE whole[i] = stream[i]
      BY <2>1, <2>3, <3>1, <3>3
    <3> QED
      BY <2>3, <3>1, <3>2, <3>3, <3>4, <3>5
  <2>6. made' = made + n /\ UNCHANGED <<centre, events, epoch, retuneFloor, lossFloor>>
    BY <1>1 DEF appendIQBlock
  <2>7. RingTyped'
    BY SMTT(30), <1>0, <1>1, <2>1, <2>5, <2>6
  <2>8. ASSUME NEW i \in (retuneFloor + 1)..(Total' - 1) PROVE stream'[i + 1].id = stream'[i].id + 1
    <3>0. i \in Nat /\ i > retuneFloor /\ i + 1 <= Total + n
      BY <1>0, <2>1, <2>5
    <3>1. CASE i < Total
      <4>1. stream'[i + 1] = stream[i + 1] /\ stream'[i] = stream[i]
        BY <1>0, <2>5, <3>0, <3>1
      <4>2. i \in (retuneFloor + 1)..(Total - 1)
        BY <1>0, <3>0, <3>1
      <4> QED
        BY <4>1, <4>2
    <3>2. CASE i = Total
      <4>1. stream[Total].id = made /\ Total > retuneFloor
        BY <1>0, <2>8, <3>2
      <4>2. stream'[i + 1] = more[1] /\ stream'[i] = stream[i]
        BY <1>0, <2>1, <2>5, <2>8, <3>2
      <4> QED
        BY <2>1, <2>3, <3>2, <4>1, <4>2
    <3>3. CASE i > Total
      <4>0. i \in (Total + 1)..(Total + n) /\ i + 1 \in (Total + 1)..(Total + n)
        BY SMTT(30), <1>0, <2>1, <3>0, <3>3
      <4>1. stream'[i + 1] = more[i + 1 - Total] /\ stream'[i] = more[i - Total]
        BY <1>0, <2>5, <3>0, <4>0
      <4>2. i + 1 - Total \in 1..n /\ i - Total \in 1..n
        BY SMTT(30), <1>0, <2>1, <2>5, <2>8, <3>3
      <4>3. more[i + 1 - Total].id = made + (i + 1 - Total) /\ more[i - Total].id = made + (i - Total)
        BY <2>3, <4>2
      <4> QED
        BY <1>0, <4>1, <4>3
    <3> QED
      BY <1>0, <2>8, <3>1, <3>2, <3>3
  <2>9. stream'[Total'].id = made'
    <3>1. stream'[Total'] = more[n]
      <4>1. Total + n \in (Total + 1)..(Total + n) /\ (Total + n) - Total = n
        BY <1>0, <2>1
      <4>2. stream'[Total + n] = more[(Total + n) - Total]
        BY <2>5, <4>1
      <4> QED
        BY <2>5, <4>1, <4>2
    <3> QED
      BY <2>1, <2>3, <2>6, <3>1
  <2> QED
    BY <2>6, <2>7, <2>8, <2>9
<1>2. ASSUME Overflow, UNCHANGED use PROVE RingInv'
  <2>1. Total' = Total
    BY <1>2 DEF Overflow, Total
  <2> QED
    BY <1>0, <1>2, <2>1 DEF Overflow, Event
<1>3. ASSUME NEW c \in use.centres, markStreamRetune(c), UNCHANGED use PROVE RingInv'
  <2>1. Total' = Total
    BY <1>3 DEF markStreamRetune, Total
  <2> QED
    <3>1. CASE Distance(c, centre) > HopLimit
      BY SMTT(30), <1>0, <1>3, <2>1, <3>1 DEF markStreamRetune, Event
    <3>2. CASE ~(Distance(c, centre) > HopLimit)
      BY <1>0, <1>3, <2>1, <3>2 DEF markStreamRetune, Event
    <3> QED
      BY <3>1, <3>2
<1>4. ASSUME resetStreamBuffers, UNCHANGED use PROVE RingInv'
  <2>1. Total' = 0 /\ stream' \in Seq(Sample)
    BY <1>4 DEF resetStreamBuffers, Total
  <2> QED
    BY <1>0, <1>4, <2>1 DEF resetStreamBuffers, Event
<1>5. ASSUME UNCHANGED <<radioVars, use>> PROVE RingInv'
  BY <1>5 DEF radioVars, Total
<1>6. Satellite => UNCHANGED radioVars
  BY DEF Satellite, pullNewIq, consume, resetChronologicalInput
<1>7. ASSUME NEW r \in use.reads, Read(r) PROVE UNCHANGED radioVars
  BY <1>7 DEF Read, Switch, Look, Enter, getNewIQWindowForReceiver, FeedFilters, FeedDecoders,
              Discard, ResetCursor, ResetSeenEpoch, setReceiverCursorToLiveEdge
<1> QED
  BY <1>1, <1>2, <1>3, <1>4, <1>5, <1>6, <1>7 DEF Next, Radio, vars
-----------------------------------------------------------------------------
(* Where a pull begins: above the floor; and where the cursor was, unless a  *)
(* listener with a latency budget is moved on.                               *)
LEMMA Begins ==
    ASSUME RingSizes, RingTyped, NEW r, NEW last \in Nat, NEW seen,
           Anchored(last, seen) <= Total
    PROVE  /\ CaughtUp(r, Started(Anchored(last, seen))) \in retuneFloor..Total
           /\ seen = epoch /\ last \in (retuneFloor + 1)..Total /\
              (r \notin use.lagging \/ CaughtUp(r, Started(Anchored(last, seen))) = Total)
                => CaughtUp(r, Started(Anchored(last, seen))) = last
<1> DEFINE anchored == Anchored(last, seen)
           started == Started(anchored)
           start == CaughtUp(r, started)
<1>1. Total \in Nat /\ retuneFloor \in 0..Total
  BY DEF RingTyped, Total
<1>2. \A n \in Nat : BackTo(n) \in 0..Total /\ BackTo(n) = IF Total > n THEN Total - n ELSE 0
  BY <1>1 DEF BackTo
<1>3. /\ anchored \in retuneFloor..Total
      /\ seen = epoch /\ last > retuneFloor => anchored = last
  <2>1. CASE seen # epoch
    <3>1. anchored = IF BackTo(MaxSamples) >= retuneFloor THEN BackTo(MaxSamples) ELSE retuneFloor
      BY <1>1, <1>2, <2>1, Greater DEF Anchored
    <3> QED
      BY <1>1, <1>2, <2>1, <3>1
  <2>2. CASE seen = epoch
    <3>1. anchored = IF last >= retuneFloor THEN last ELSE retuneFloor
      BY <1>1, <2>2, Greater DEF Anchored
    <3> QED
      BY <1>1, <3>1
  <2> QED
    BY <2>1, <2>2
<1> HIDE DEF anchored
<1>4. started \in retuneFloor..Total /\ (anchored > 0 => started = anchored)
  BY <1>1, <1>2, <1>3 DEF Started
<1> HIDE DEF started
<1>5. Keep \in 1..MaxLag
  <2>1. MaxLag \div 4 \in Nat /\ MaxLag \div 4 <= MaxLag /\ 4 * MaxSamples \in Nat
    OBVIOUS
  <2> DEFINE share == MaxLag \div 4
  <2>2. Keep = Min({4 * MaxSamples, Max({share, MaxSamples})})
    BY DEF Keep
  <2> HIDE DEF share
  <2>3. share \in Nat /\ share <= MaxLag
    BY <2>1 DEF share
  <2>4. Max({share, MaxSamples}) = IF share >= MaxSamples THEN share ELSE MaxSamples
    BY <2>3, Greater
  <2>5. Max({share, MaxSamples}) \in 1..MaxLag
    BY <2>3, <2>4 DEF RingSizes
  <2> DEFINE most == Max({share, MaxSamples})
  <2> HIDE DEF most
  <2>6. most \in 1..MaxLag
    BY <2>5 DEF most
  <2>7. Keep = IF 4 * MaxSamples <= most THEN 4 * MaxSamples ELSE most
    <3> DEFINE four == 4 * MaxSamples
    <3>1. four \in Nat /\ most \in Nat /\ Keep = Min({four, most})
      BY <2>1, <2>2, <2>6 DEF most
    <3> HIDE DEF four
    <3>2. Min({four, most}) = IF four <= most THEN four ELSE most
      BY <3>1, Smaller
    <3> QED
      BY <3>1, <3>2 DEF four
  <2> QED
    BY <2>6, <2>7
<1>6. start = started \/ (r \in use.lagging /\ start > started /\ start < Total /\ start \in Nat)
  <2>1. CASE r \in use.lagging /\ Total - started > MaxLag
    <3>1. start = Total - Keep
      BY <1>1, <1>2, <1>4, <1>5, <2>1 DEF CaughtUp
    <3> QED
      BY <1>1, <1>4, <1>5, <2>1, <3>1
  <2>2. CASE ~(r \in use.lagging /\ Total - started > MaxLag)
    BY <2>2 DEF CaughtUp
  <2> QED
    BY <2>1, <2>2
<1>7. start \in retuneFloor..Total
  BY <1>1, <1>4, <1>6
<1>8. ASSUME seen = epoch, last \in (retuneFloor + 1)..Total, r \notin use.lagging \/ start = Total
      PROVE  start = last
  <2>1. anchored = last /\ last > 0
    BY <1>1, <1>3, <1>8
  <2>2. started = last
    BY <1>4, <2>1
  <2> QED
    BY <1>6, <1>8, <2>2
<1> QED
  BY <1>7, <1>8 DEF started, anchored

(* What a pull does.                                                         *)
Moves(r, to) == rx' = [rx EXCEPT ![r].last = to, ![r].epoch = epoch]

PulledNothing(r) ==
    /\ rx' = [rx EXCEPT ![r].last = Total] /\ Deliver(r, FALSE, Total, Total)
    /\ rx[r].epoch = epoch /\ pull[r].last \in (retuneFloor + 1)..Total => pull[r].last = Total
PulledRewound(r) ==
    /\ rx' = [rx EXCEPT ![r].last = BackTo(MaxSamples)] /\ Deliver(r, TRUE, 0, 0)
    /\ ~(rx[r].epoch = epoch /\ pull[r].last \in (retuneFloor + 1)..Total)
PulledWindow(r, disc, from, to) ==
    /\ Moves(r, to) /\ Deliver(r, disc, from, to)
    /\ Total - from <= Capacity
    /\ ~disc /\ r \notin use.lagging /\ rx[r].epoch = epoch
         /\ pull[r].last \in (retuneFloor + 1)..Total => from = pull[r].last

LEMMA Pulled ==
    ASSUME RingSizes, RingTyped, ReadersTyped, NEW r \in Reader, getNewIQWindowForReceiver(r)
    PROVE  \/ PulledNothing(r) \/ PulledRewound(r)
           \/ \E disc \in BOOLEAN, from \in retuneFloor..Total : \E to \in (from + 1)..Total :
                 PulledWindow(r, disc, from, to)
<1> DEFINE anchored == Anchored(pull[r].last, rx[r].epoch)
           start == CaughtUp(r, Started(anchored))
<1>0. Total \in Nat /\ retuneFloor \in 0..Total
  BY DEF RingTyped, Total
<1>1. pull[r].last \in Nat /\ rx[r].epoch \in Nat
  BY DEF ReadersTyped, Cursors, Pulls
<1>2. anchored \in Nat
  <2>1. BackTo(MaxSamples) \in Nat
    BY <1>0 DEF BackTo
  <2>2. CASE rx[r].epoch # epoch
    <3>1. anchored = IF BackTo(MaxSamples) >= retuneFloor THEN BackTo(MaxSamples) ELSE retuneFloor
      BY <1>0, <2>1, <2>2, Greater DEF Anchored
    <3> QED
      BY <1>0, <2>1, <3>1
  <2>3. CASE rx[r].epoch = epoch
    <3>1. anchored = IF pull[r].last >= retuneFloor THEN pull[r].last ELSE retuneFloor
      BY <1>0, <1>1, <2>3, Greater DEF Anchored
    <3> QED
      BY <1>0, <1>1, <3>1
  <2> QED
    BY <2>2, <2>3
<1>3. CASE anchored > Total
  <2>1. PullsRewound(r, anchored)
    BY <1>3 DEF getNewIQWindowForReceiver
  <2>2. ~(rx[r].epoch = epoch /\ pull[r].last \in (retuneFloor + 1)..Total)
    <3>1. SUFFICES ASSUME rx[r].epoch = epoch, pull[r].last \in (retuneFloor + 1)..Total PROVE FALSE
      OBVIOUS
    <3>2. anchored = IF pull[r].last >= retuneFloor THEN pull[r].last ELSE retuneFloor
      BY <1>0, <1>1, <3>1, Greater DEF Anchored
    <3> QED
      BY <1>0, <1>1, <1>3, <3>1, <3>2
  <2> QED
    BY <2>1, <2>2 DEF PullsRewound, PulledRewound
<1>4. CASE ~(anchored > Total)
  <2>1. PullsNothing(r, start) \/ PullsFade(r, start) \/ PullsSamples(r, start)
    BY <1>4 DEF getNewIQWindowForReceiver
  <2>2. anchored <= Total
    BY <1>0, <1>2, <1>4
  <2>3. /\ start \in retuneFloor..Total
        /\ rx[r].epoch = epoch /\ pull[r].last \in (retuneFloor + 1)..Total
             /\ (r \notin use.lagging \/ start = Total) => start = pull[r].last
    BY <1>1, <2>2, Begins
  <2> HIDE DEF anchored, start
  <2>4. CASE PullsNothing(r, start)
    BY <2>3, <2>4 DEF PullsNothing, PulledNothing
  <2>5. CASE PullsFade(r, start)
    <3> DEFINE from == Total - (Capacity \div 2)
               to == from + Min({FadeLen, MaxSamples})
    <3>1. Capacity \div 2 \in Nat /\ Capacity \div 2 <= Capacity
      OBVIOUS
    <3>2. Total - start > Capacity
      BY <2>5 DEF PullsFade
    <3>3. Min({FadeLen, MaxSamples}) \in 1..(Capacity \div 2)
      <4>1. Min({FadeLen, MaxSamples}) = IF FadeLen <= MaxSamples THEN FadeLen ELSE MaxSamples
        BY Smaller
      <4> QED
        BY <3>1, <4>1 DEF RingSizes
    <3>4. from \in retuneFloor..Total /\ to \in (from + 1)..Total /\ Total - from <= Capacity
      BY <1>0, <2>3, <3>1, <3>2, <3>3
    <3>5. PulledWindow(r, TRUE, from, to)
      BY <2>5, <3>4 DEF PullsFade, PulledWindow, Moves
    <3> HIDE DEF from, to
    <3> QED
      BY <3>4, <3>5
  <2>6. CASE PullsSamples(r, start)
    <3> DEFINE size == Min({MaxSamples, Total - start})
    <3>1. start < Total /\ Total - start <= Capacity /\ start \in Nat
      BY <1>0, <2>3, <2>6 DEF PullsSamples
    <3>2. size = IF MaxSamples <= Total - start THEN MaxSamples ELSE Total - start
      BY <1>0, <3>1, Smaller
    <3>3. start + size \in (start + 1)..Total
      BY <1>0, <3>1, <3>2
    <3>4. PulledWindow(r, FALSE, start, start + size)
      BY <2>3, <2>6, <3>1 DEF PullsSamples, PulledWindow, Moves
    <3> HIDE DEF size
    <3> QED
      BY <2>3, <3>3, <3>4
  <2> QED
    BY <2>1, <2>4, <2>5, <2>6
<1> QED
  BY <1>3, <1>4

(* The numbers of a window that is copied out.                               *)
WindowOf(ids, from, to) ==
    /\ ids \in Seq(Nat) /\ Len(ids) = to - from
    /\ ids = <<>> <=> from = to
    /\ from < to => Head(ids) = stream[from + 1].id /\ Last(ids) = stream[to].id

LEMMA CopiedWindow ==
    ASSUME RingTyped, NEW from \in Nat, NEW to \in Nat, from <= to, to <= Total,
           from < to => Total - from <= Capacity
    PROVE  WindowOf(Ids(Copy(from, to)), from, to)
<1> DEFINE ids == Ids(Copy(from, to))
<1>0. stream \in Seq(Sample) /\ Total \in Nat /\ to - from \in Nat
  BY DEF RingTyped, Total
<1>1. CASE from = to
  <2>1. 1..(to - from) = {} /\ to - from = 0
    BY <1>1
  <2>2. Copy(from, to) = <<>>
    BY <2>1 DEF Copy
  <2>3. ids = <<>>
    BY <2>2 DEF Ids
  <2> HIDE DEF ids
  <2>4. <<>> \in Seq(Nat) /\ Len(<<>>) = 0
    OBVIOUS
  <2>5. WindowOf(ids, from, to)
    BY <1>1, <2>1, <2>3, <2>4 DEF WindowOf
  <2> QED
    BY <2>5 DEF ids
<1>2. CASE from < to
  <2>1. /\ ids \in Seq(Nat) /\ Len(ids) = to - from
        /\ \A i \in 1..(to - from) : ids[i] = stream[from + i].id
    BY <1>0, <1>2, Copied
  <2> HIDE DEF ids
  <2>2. 1 \in 1..(to - from) /\ to - from \in 1..(to - from) /\ from + (to - from) = to
    BY <1>0, <1>2
  <2>3. ids[1] = stream[from + 1].id /\ ids[to - from] = stream[from + (to - from)].id
    BY <2>1, <2>2
  <2>4. Head(ids) = stream[from + 1].id /\ Last(ids) = stream[to].id /\ ids # <<>>
    BY <2>1, <2>2, <2>3 DEF Last
  <2>5. WindowOf(ids, from, to)
    BY <1>2, <2>1, <2>4 DEF WindowOf
  <2> QED
    BY <2>5 DEF ids
<1> QED
  BY <1>1, <1>2

(* What a listener's loop leaves with, and what a session is fed.            *)
TakesInHand(r, disc, from, to) ==
    /\ UNCHANGED <<heard, got>>
    /\ from = to => hand' = hand /\ pull' = [pull EXCEPT ![r] = Unlooked]
    /\ from < to =>
         /\ pull' = [pull EXCEPT ![r] = [Unlooked EXCEPT !.at = "pulled"]]
         /\ hand' = [hand EXCEPT ![r] = [gap |-> SourceGap(r, disc, from, FALSE),
                                         ids |-> Ids(Copy(from, to)),
                                         epoch |-> epoch, from |-> from]]
HearsAtOnce(r, disc, from, to) ==
    /\ hand' = hand
    /\ Hears(r, disc \/ epoch # pull[r].epoch, Ids(Copy(from, to)), FALSE)
    /\ pull' = [pull EXCEPT ![r] =
                  [Unlooked EXCEPT !.epoch = IF from = to THEN pull[r].epoch ELSE epoch]]

LEMMA Delivered ==
    ASSUME RingTyped, NEW r \in Reader, NEW disc \in BOOLEAN,
           NEW from \in Nat, NEW to \in Nat, from <= to, to <= Total,
           from < to => Total - from <= Capacity, Deliver(r, disc, from, to)
    PROVE  /\ r \in use.lagging => TakesInHand(r, disc, from, to)
           /\ r \notin use.lagging => HearsAtOnce(r, disc, from, to)
<1> DEFINE ids == Ids(Copy(from, to))
<1>1. ids = <<>> <=> from = to
  BY CopiedWindow DEF WindowOf
<1>2. use.data \subseteq use.lagging
  BY DEF RingTyped
<1>3. ASSUME r \in use.lagging PROVE TakesInHand(r, disc, from, to)
  <2>1. CASE from = to
    <3>0. ids = <<>>
      BY <1>1, <2>1
    <3>1. UNCHANGED <<heard, got, hand>> /\ pull' = [pull EXCEPT ![r] = [Unlooked EXCEPT !.at = "idle"]]
      <4> HIDE DEF ids
      <4>1. /\ hand' = IF ids = <<>> THEN hand
                       ELSE [hand EXCEPT ![r] =
                               [gap |-> SourceGap(r, disc, from, ids = <<>>), ids |-> ids, epoch |-> epoch, from |-> from]]
            /\ pull' = [pull EXCEPT ![r] =
                          [Unlooked EXCEPT !.at = IF ids = <<>> THEN "idle" ELSE "pulled"]]
            /\ UNCHANGED <<heard, got>>
        BY <1>3 DEF Deliver, ids
      <4> QED
        BY <3>0, <4>1
    <3>2. [Unlooked EXCEPT !.at = "idle"] = Unlooked
      BY DEF Unlooked
    <3>3. pull' = [pull EXCEPT ![r] = Unlooked]
      BY <3>1, <3>2
    <3>4. ~(from < to)
      BY <2>1
    <3> QED
      BY <3>1, <3>3, <3>4 DEF TakesInHand
  <2>2. CASE from < to
    <3>1. ids # <<>>
      BY <1>1, <2>2
    <3>2. (ids = <<>>) = FALSE
      BY <3>1
    <3> DEFINE new == [gap |-> SourceGap(r, disc, from, FALSE), ids |-> ids, epoch |-> epoch, from |-> from]
    <3>3. UNCHANGED <<heard, got>> /\ pull' = [pull EXCEPT ![r] = [Unlooked EXCEPT !.at = "pulled"]]
          /\ hand' = [hand EXCEPT ![r] = new]
      <4> HIDE DEF ids
      <4>1. /\ hand' = IF ids = <<>> THEN hand
                       ELSE [hand EXCEPT ![r] =
                               [gap |-> SourceGap(r, disc, from, ids = <<>>), ids |-> ids, epoch |-> epoch, from |-> from]]
            /\ pull' = [pull EXCEPT ![r] =
                          [Unlooked EXCEPT !.at = IF ids = <<>> THEN "idle" ELSE "pulled"]]
            /\ UNCHANGED <<heard, got>>
        BY <1>3 DEF Deliver, ids
      <4> QED
        BY <3>1, <3>2, <4>1
    <3> HIDE DEF new
    <3>4. from # to
      BY <2>2
    <3>5. hand' = [hand EXCEPT ![r] = [gap |-> SourceGap(r, disc, from, FALSE),
                                       ids |-> Ids(Copy(from, to)), epoch |-> epoch, from |-> from]]
      BY <3>3 DEF new
    <3> QED
      BY <3>3, <3>4, <3>5 DEF TakesInHand
  <2> QED
    BY <2>1, <2>2
<1>4. ASSUME r \notin use.lagging PROVE HearsAtOnce(r, disc, from, to)
  <2>1. SourceGap(r, disc, from, ids = <<>>) = (disc \/ epoch # pull[r].epoch)
    BY <1>2, <1>4 DEF SourceGap
  <2> QED
    BY <1>1, <1>4, <2>1 DEF Deliver, HearsAtOnce
<1> QED
  BY <1>3, <1>4

LEMMA HeardTyped ==
    ASSUME ReadersTyped, NEW r \in Reader, NEW gap \in BOOLEAN, NEW ids \in Seq(Nat),
           NEW excused \in BOOLEAN, Hears(r, gap, ids, excused)
    PROVE  /\ got' \in [Reader -> Windows] /\ heard' \in [Reader -> Nat \cup {None}]
           /\ got'[r] = [gap |-> gap, prev |-> heard[r], ids |-> ids, excused |-> excused]
           /\ heard'[r] = IF ids = <<>> THEN heard[r] ELSE Last(ids)
           /\ \A o \in Reader \ {r} : got'[o] = got[o] /\ heard'[o] = heard[o]
<1> DEFINE new == [gap |-> gap, prev |-> heard[r], ids |-> ids, excused |-> excused]
<1>1. got \in [Reader -> Windows] /\ heard \in [Reader -> Nat \cup {None}]
  BY DEF ReadersTyped
<1>2. new \in Windows
  BY <1>1 DEF Windows
<1>3. got' = [got EXCEPT ![r] = new] /\ heard' = IF ids = <<>> THEN heard ELSE [heard EXCEPT ![r] = Last(ids)]
  BY DEF Hears
<1>4. ids # <<>> => Last(ids) \in Nat
  <2>1. ids # <<>> => Len(ids) \in 1..Len(ids)
    OBVIOUS
  <2> QED
    BY <2>1 DEF Last
<1> HIDE DEF new
<1>5. got' \in [Reader -> Windows] /\ got'[r] = new /\ \A o \in Reader \ {r} : got'[o] = got[o]
  BY ONLY <1>1, <1>2, <1>3, r \in Reader
<1> DEFINE last == Last(ids)
<1> HIDE DEF last
<1>6. ids # <<>> => last \in Nat
  BY <1>4 DEF last
<1>7. heard' = IF ids = <<>> THEN heard ELSE [heard EXCEPT ![r] = last]
  BY <1>3 DEF last
<1>8. CASE ids = <<>>
  BY <1>1, <1>5, <1>7, <1>8 DEF new
<1>9. CASE ids # <<>>
  <2>1. heard' \in [Reader -> Nat \cup {None}] /\ heard'[r] = last /\ \A o \in Reader \ {r} : heard'[o] = heard[o]
    BY ONLY <1>1, <1>6, <1>7, <1>9, r \in Reader
  <2> QED
    BY <1>5, <1>9, <2>1 DEF new, last
<1> QED
  BY <1>8, <1>9
-----------------------------------------------------------------------------
LEMMA UseNumbers ==
    ASSUME RingTyped
    PROVE  /\ use.reads \subseteq Reader /\ use.lagging \subseteq use.reads
           /\ use.made \in Nat /\ use.events \in Nat /\ Total \in Nat
BY DEF RingTyped, Total

(* Neither the radio nor the engine touches a reader.                        *)
LEMMA ReadersActAlone ==
    ASSUME RingTyped, [Next]_vars
    PROVE  \/ UNCHANGED readVars
           \/ /\ UNCHANGED <<radioVars, satVars, use>>
              /\ \E r \in Reader \cap use.reads : Read(r)
<1>1. Radio => UNCHANGED readVars
  BY DEF Radio, appendIQBlock, Overflow, markStreamRetune, resetStreamBuffers
<1>2. Satellite => UNCHANGED readVars
  BY DEF Satellite, pullNewIq, consume, resetChronologicalInput
<1>3. ASSUME NEW r \in use.reads, Read(r) PROVE UNCHANGED <<radioVars, satVars>>
  BY <1>3 DEF Read, Switch, Look, Enter, getNewIQWindowForReceiver, FeedFilters, FeedDecoders,
              Discard, ResetCursor, ResetSeenEpoch, setReceiverCursorToLiveEdge
<1>4. use.reads \subseteq Reader
  BY UseNumbers
<1> QED
  BY <1>1, <1>2, <1>3, <1>4 DEF Next, vars

CursorAt(r, last, seen) ==
    /\ rx' \in [Reader -> Cursors]
    /\ rx'[r].last = last /\ rx'[r].epoch = seen /\ rx'[r].clearing = rx[r].clearing
    /\ \A o \in Reader \ {r} : rx'[o] = rx[o]

LEMMA CursorMoved ==
    ASSUME ReadersTyped, NEW r \in Reader, NEW last \in Nat, NEW seen \in Nat,
           rx' = [rx EXCEPT ![r].last = last, ![r].epoch = seen]
    PROVE  CursorAt(r, last, seen)
<1> DEFINE new == [rx[r] EXCEPT !.last = last, !.epoch = seen]
<1>1. rx \in [Reader -> Cursors] /\ rx[r] \in Cursors
  BY DEF ReadersTyped
<1>2. rx' = [rx EXCEPT ![r] = new]
  BY <1>1
<1>3. new \in Cursors /\ new.last = last /\ new.epoch = seen /\ new.clearing = rx[r].clearing
  BY <1>1 DEF Cursors
<1> HIDE DEF new
<1>4. rx' \in [Reader -> Cursors] /\ rx'[r] = new /\ \A o \in Reader \ {r} : rx'[o] = rx[o]
  BY ONLY <1>1, <1>2, <1>3, r \in Reader
<1> QED
  BY <1>3, <1>4 DEF CursorAt

(* A reader that looks, or enters, notes what it saw.                        *)
LEMMA PullNoted ==
    ASSUME ReadersTyped, NEW r \in Reader, Look(r) \/ Enter(r)
    PROVE  /\ pull' \in [Reader -> Pulls] /\ pull'[r].at = IF Look(r) THEN "looked" ELSE "inside"
           /\ Look(r) => pull'[r].expected = rx[r].last /\ pull'[r].last = pull[r].last
           /\ Look(r) => pull'[r].epoch = IF r \in use.lagging THEN rx[r].epoch ELSE pull[r].epoch
           /\ Enter(r) => /\ pull'[r].last = rx[r].last /\ pull'[r].expected = pull[r].expected
                          /\ pull'[r].epoch = pull[r].epoch /\ pull[r].at = "looked"
           /\ \A o \in Reader \ {r} : pull'[o] = pull[o]
<1>1. pull[r] \in Pulls /\ rx[r] \in Cursors /\ pull \in [Reader -> Pulls]
  BY DEF ReadersTyped
<1>2. CASE Look(r)
  <2> DEFINE new == [pull[r] EXCEPT !.at = "looked", !.expected = rx[r].last,
                            !.epoch = IF r \in use.lagging THEN rx[r].epoch ELSE pull[r].epoch]
  <2>1. pull' = [pull EXCEPT ![r] = new]
    BY <1>1, <1>2 DEF Look
  <2>2. /\ new \in Pulls /\ new.at = "looked" /\ new.expected = rx[r].last /\ new.last = pull[r].last
        /\ new.epoch = IF r \in use.lagging THEN rx[r].epoch ELSE pull[r].epoch
    BY <1>1 DEF Pulls, Cursors
  <2> HIDE DEF new
  <2>3. pull' \in [Reader -> Pulls] /\ pull'[r] = new /\ \A o \in Reader \ {r} : pull'[o] = pull[o]
    BY <1>1, <2>1, <2>2
  <2>4. ~Enter(r)
    BY <1>2 DEF Look, Enter
  <2> QED
    BY <1>2, <2>2, <2>3, <2>4
<1>3. CASE Enter(r)
  <2> DEFINE new == [pull[r] EXCEPT !.at = "inside", !.last = rx[r].last]
  <2>1. pull' = [pull EXCEPT ![r] = new] /\ pull[r].at = "looked"
    BY <1>1, <1>3 DEF Enter
  <2>2. /\ new \in Pulls /\ new.at = "inside" /\ new.expected = pull[r].expected
        /\ new.last = rx[r].last /\ new.epoch = pull[r].epoch
    BY <1>1 DEF Pulls, Cursors
  <2> HIDE DEF new
  <2>3. pull' \in [Reader -> Pulls] /\ pull'[r] = new /\ \A o \in Reader \ {r} : pull'[o] = pull[o]
    BY <1>1, <2>1, <2>2
  <2>4. ~Look(r)
    BY <1>3 DEF Look, Enter
  <2> QED
    BY <1>3, <2>1, <2>2, <2>3, <2>4
<1> QED
  BY <1>2, <1>3

LEMMA ReadersInit ==
    ASSUME Init
    PROVE  PureInv /\ GapsInv
<1>1. ReadersTyped
  BY DEF Init, ReadersTyped, Cursors, Pulls, Windows, Hands, Marks, NoWindow, NoHand, Unmarked, Unlooked
<1>2. \A r \in Reader : got[r].ids = <<>> /\ hand[r].ids = <<>> /\ got[r].prev = None /\ heard[r] = None
                        /\ rx[r].epoch = 0 /\ pull[r].epoch = 0 /\ ~rx[r].clearing /\ pull[r].at = "idle"
                        /\ hand[r].epoch = 0 /\ mark[r].epoch = 0
  BY DEF Init, NoWindow, Unlooked, NoHand, Unmarked
<1>3. \A r \in Reader : Joined(got[r].ids) /\ Joined(hand[r].ids)
  BY <1>2 DEF Joined
<1>4. \A r \in Reader : ReaderInv(r)
  BY <1>2 DEF Init, ReaderInv, SessionInv, FilterInv, DecoderInv, Continues
<1> QED
  BY <1>1, <1>3, <1>4 DEF PureInv, GapsInv

(* A step of one reader leaves the others as they were.                      *)
Untouched(o) ==
    /\ rx'[o] = rx[o] /\ pull'[o] = pull[o] /\ hand'[o] = hand[o] /\ mark'[o] = mark[o]
    /\ heard'[o] = heard[o] /\ got'[o] = got[o] /\ missed'[o] = missed[o]

LEMMA OthersUntouched ==
    ASSUME ReadersTyped, NEW r \in Reader, NEW o \in Reader, o # r, Read(r)
    PROVE  Untouched(o)
<1> USE DEF ReadersTyped, Untouched
<1>1. CASE Switch(r)
  BY <1>1 DEF Switch
<1>2. CASE Look(r) \/ Enter(r)
  BY <1>2 DEF Look, Enter
<1>3. CASE getNewIQWindowForReceiver(r)
  <2>1. /\ \E last : rx' = [rx EXCEPT ![r].last = last] \/ rx' = [rx EXCEPT ![r].last = last, ![r].epoch = epoch]
        /\ \E disc, from, to : Deliver(r, disc, from, to)
    BY <1>3 DEF getNewIQWindowForReceiver, PullsNothing, PullsRewound, PullsFade, PullsSamples
  <2>2. rx'[o] = rx[o]
    BY <2>1
  <2>3. UNCHANGED <<mark, missed>>
    BY <1>3 DEF getNewIQWindowForReceiver
  <2>4. pull'[o] = pull[o] /\ hand'[o] = hand[o] /\ heard'[o] = heard[o] /\ got'[o] = got[o]
    BY <2>1 DEF Deliver, Hears
  <2> QED
    BY <2>2, <2>3, <2>4
<1>4. CASE FeedFilters(r) \/ Discard(r)
  BY <1>4 DEF FeedFilters, Discard, Hears
<1>5. ASSUME NEW decodeData \in BOOLEAN, FeedDecoders(r, decodeData) PROVE Untouched(o)
  BY <1>5 DEF FeedDecoders, Hears
<1>6. CASE ResetCursor(r) \/ ResetSeenEpoch(r) \/ setReceiverCursorToLiveEdge(r)
  BY <1>6 DEF ResetCursor, ResetSeenEpoch, setReceiverCursorToLiveEdge
<1> QED
  BY <1>1, <1>2, <1>3, <1>4, <1>5, <1>6 DEF Read

LEMMA HandTyped ==
    ASSUME RingTyped, NEW r, NEW disc \in BOOLEAN, NEW from \in Nat, NEW ids \in Seq(Nat)
    PROVE  [gap |-> SourceGap(r, disc, from, FALSE), ids |-> ids, epoch |-> epoch, from |-> from] \in Hands
<1>1. SourceGap(r, disc, from, FALSE) \in BOOLEAN
  BY DEF SourceGap
<1> QED
  BY <1>1 DEF Hands, RingTyped

LEMMA ReadersStep ==
    ASSUME RingSizes, RingInv, PureInv, [Next]_vars
    PROVE  PureInv'
<1>0. RingTyped /\ ReadersTyped
  BY DEF RingInv, PureInv
<1>1. CASE UNCHANGED readVars
  BY <1>1 DEF PureInv, ReadersTyped, readVars, Joined
<1>2. ASSUME NEW r \in Reader \cap use.reads, Read(r), UNCHANGED <<radioVars, satVars, use>>
      PROVE  PureInv'
  <2>0. use.made \in Nat /\ use.events \in Nat /\ Total \in Nat /\ epoch \in Nat /\ <<>> \in Seq(Nat)
    BY <1>0, UseNumbers DEF RingTyped
  <2>U. Unlooked \in Pulls /\ NoHand \in Hands /\ Unmarked \in Marks
    BY <2>0 DEF Unlooked, Pulls, NoHand, Hands, Unmarked, Marks
  <2>J. Joined(<<>>) /\ Joined(NoHand.ids)
    BY DEF Joined, NoHand
  <2>1. CASE Switch(r)
    <3>1. PICK last \in 1..use.made, seen \in 1..(use.events + 1) :
            rx' = [rx EXCEPT ![r].last = last, ![r].epoch = seen]
      BY <2>1 DEF Switch
    <3>2. last \in Nat /\ seen \in Nat /\ Elsewhere \in Nat
      BY <2>0 DEF Elsewhere
    <3>3. /\ heard' = [heard EXCEPT ![r] = Elsewhere] /\ switches' = switches + 1
          /\ UNCHANGED <<pull, hand, mark, got, missed, busy>>
      BY <2>1 DEF Switch
    <3>4. rx' \in [Reader -> Cursors]
      BY <1>0, <3>1, <3>2, CursorMoved DEF CursorAt
    <3>5. heard' \in [Reader -> Nat \cup {None}] /\ switches' \in Nat
      BY <1>0, <3>2, <3>3 DEF ReadersTyped
    <3> QED
      BY <1>0, <3>3, <3>4, <3>5 DEF PureInv, ReadersTyped, Joined
  <2>2. CASE Look(r)
    <3>1. UNCHANGED <<rx, hand, mark, heard, got, missed, switches, busy>>
      BY <2>2 DEF Look
    <3>2. pull' \in [Reader -> Pulls]
      BY <1>0, <2>2, PullNoted
    <3> QED
      BY <1>0, <3>1, <3>2 DEF PureInv, ReadersTyped, Joined
  <2>3. CASE Enter(r)
    <3>1. UNCHANGED <<rx, hand, mark, heard, got, missed, switches, busy>>
      BY <2>3 DEF Enter
    <3>2. pull' \in [Reader -> Pulls]
      BY <1>0, <2>3, PullNoted
    <3> QED
      BY <1>0, <3>1, <3>2 DEF PureInv, ReadersTyped, Joined
  <2>4. CASE ResetCursor(r)
    <3>1. /\ rx' = [rx EXCEPT ![r].last = 0, ![r].clearing = TRUE]
          /\ heard' = IF r \in use.data THEN heard ELSE [heard EXCEPT ![r] = None]
          /\ UNCHANGED <<pull, hand, mark, got, missed, switches, busy>>
      BY <2>4 DEF ResetCursor
    <3>2. rx' \in [Reader -> Cursors] /\ heard' \in [Reader -> Nat \cup {None}]
      BY <1>0, <3>1 DEF ReadersTyped, Cursors
    <3> QED
      BY <1>0, <3>1, <3>2 DEF PureInv, ReadersTyped, Joined
  <2>5. CASE ResetSeenEpoch(r)
    <3>1. rx' \in [Reader -> Cursors] /\ UNCHANGED <<pull, hand, mark, heard, got, missed, switches, busy>>
      BY <1>0, <2>5 DEF ResetSeenEpoch, ReadersTyped, Cursors
    <3> QED
      BY <1>0, <3>1 DEF PureInv, ReadersTyped, Joined
  <2>6. CASE setReceiverCursorToLiveEdge(r)
    <3>1. /\ rx' = [rx EXCEPT ![r].last = Total, ![r].epoch = epoch]
          /\ UNCHANGED <<pull, hand, mark, heard, got, missed, switches, busy>>
      BY <2>6 DEF setReceiverCursorToLiveEdge
    <3>2. rx' \in [Reader -> Cursors]
      BY <1>0, <2>0, <3>1, CursorMoved DEF CursorAt
    <3> QED
      BY <1>0, <3>1, <3>2 DEF PureInv, ReadersTyped, Joined
  <2>7. CASE getNewIQWindowForReceiver(r)
    <3> DEFINE Handed(from, to, last, seen) ==
                 /\ rx' = [rx EXCEPT ![r].last = last, ![r].epoch = seen]
                 /\ \E disc \in BOOLEAN : Deliver(r, disc, from, to)
    <3>1. ASSUME NEW from \in Nat, NEW to \in Nat, NEW last \in Nat, NEW seen \in Nat,
                 from <= to, to <= Total,
                 from < to => from >= retuneFloor, from < to => Total - from <= Capacity,
                 Handed(from, to, last, seen)
          PROVE  PureInv'
      <4>1. PICK disc \in BOOLEAN : Deliver(r, disc, from, to)
        BY <3>1
      <4> DEFINE ids == Ids(Copy(from, to))
      <4>2. /\ r \in use.lagging => TakesInHand(r, disc, from, to)
            /\ r \notin use.lagging => HearsAtOnce(r, disc, from, to)
        BY <1>0, <3>1, <4>1, Delivered
      <4>3. rx' \in [Reader -> Cursors]
        BY <1>0, <3>1, CursorMoved DEF CursorAt
      <4>4. UNCHANGED <<mark, missed, switches, busy>>
        BY <2>7 DEF getNewIQWindowForReceiver
      <4>5. ids \in Seq(Nat) /\ Joined(ids)
        <5>0. WindowOf(ids, from, to)
          BY <1>0, <3>1, CopiedWindow
        <5>1. CASE from < to
          <6>1. from \in retuneFloor..Total /\ to \in from..Total /\ Total - from <= Capacity
            BY SMTT(30), <1>0, <2>0, <3>1, <5>1 DEF RingTyped
          <6>2. Joined(ids)
            BY <6>1, Copies
          <6> QED
            BY <5>0, <6>2 DEF WindowOf
        <5>2. CASE from = to
          BY <2>J, <5>0, <5>2 DEF WindowOf
        <5> QED
          BY <3>1, <5>1, <5>2
      <4> HIDE DEF ids
      <4>6. CASE r \in use.lagging /\ from = to
        <5>1. UNCHANGED <<heard, got, hand>> /\ pull' = [pull EXCEPT ![r] = Unlooked]
          BY <4>2, <4>6 DEF TakesInHand
        <5>2. pull' \in [Reader -> Pulls]
          BY <1>0, <2>U, <5>1 DEF ReadersTyped
        <5> QED
          BY <1>0, <4>3, <4>4, <5>1, <5>2 DEF PureInv, ReadersTyped, Joined
      <4>7. CASE r \in use.lagging /\ from < to
        <5> DEFINE new == [gap |-> SourceGap(r, disc, from, FALSE), ids |-> ids, epoch |-> epoch, from |-> from]
                   next == [Unlooked EXCEPT !.at = "pulled"]
        <5>1. UNCHANGED <<heard, got>> /\ pull' = [pull EXCEPT ![r] = next] /\ hand' = [hand EXCEPT ![r] = new]
          BY <4>2, <4>7 DEF TakesInHand, ids
        <5>2. new \in Hands /\ new.ids = ids
          BY <1>0, <4>5, HandTyped
        <5>3. next \in Pulls
          BY DEF Unlooked, Pulls
        <5> HIDE DEF new, next
        <5>4. hand' \in [Reader -> Hands] /\ hand'[r] = new /\ \A o \in Reader \ {r} : hand'[o] = hand[o]
          BY <1>0, <5>1, <5>2 DEF ReadersTyped
        <5>5. pull' \in [Reader -> Pulls]
          BY <1>0, <5>1, <5>3 DEF ReadersTyped
        <5>6. \A o \in Reader : Joined(hand'[o].ids) /\ Joined(got'[o].ids)
          BY <4>5, <5>1, <5>2, <5>4 DEF PureInv
        <5> QED
          BY <1>0, <4>3, <4>4, <5>1, <5>4, <5>5, <5>6 DEF PureInv, ReadersTyped, Joined
      <4>8. CASE r \notin use.lagging
        <5> DEFINE gap == disc \/ epoch # pull[r].epoch
                   next == [Unlooked EXCEPT !.epoch = IF from = to THEN pull[r].epoch ELSE epoch]
        <5>1. hand' = hand /\ Hears(r, gap, ids, FALSE) /\ pull' = [pull EXCEPT ![r] = next]
          BY <4>2, <4>8 DEF HearsAtOnce, ids
        <5>2. gap \in BOOLEAN /\ next \in Pulls
          <6>1. pull[r] \in Pulls /\ pull[r].epoch \in Nat
            BY <1>0 DEF ReadersTyped, Pulls
          <6> QED
            BY <2>0, <6>1 DEF Unlooked, Pulls
        <5> HIDE DEF gap, next
        <5>3. /\ got' \in [Reader -> Windows] /\ heard' \in [Reader -> Nat \cup {None}] /\ got'[r].ids = ids
              /\ \A o \in Reader \ {r} : got'[o] = got[o]
          <6>1. FALSE \in BOOLEAN /\ r \in Reader
            OBVIOUS
          <6>2. /\ got' \in [Reader -> Windows] /\ heard' \in [Reader -> Nat \cup {None}]
                /\ got'[r] = [gap |-> gap, prev |-> heard[r], ids |-> ids, excused |-> FALSE]
                /\ \A o \in Reader \ {r} : got'[o] = got[o]
            BY <1>0, <4>5, <5>1, <5>2, <6>1, HeardTyped
          <6> QED
            BY <6>2
        <5>4. pull' \in [Reader -> Pulls]
          BY <1>0, <5>1, <5>2 DEF ReadersTyped
        <5>5. \A o \in Reader : Joined(hand'[o].ids) /\ Joined(got'[o].ids)
          BY <4>5, <5>1, <5>3 DEF PureInv
        <5> QED
          BY <1>0, <4>3, <4>4, <5>1, <5>3, <5>4, <5>5 DEF PureInv, ReadersTyped, Joined
      <4> QED
        BY <3>1, <4>6, <4>7, <4>8
    <3>2. PulledNothing(r) \/ PulledRewound(r)
          \/ \E disc \in BOOLEAN, from \in retuneFloor..Total : \E to \in (from + 1)..Total :
                PulledWindow(r, disc, from, to)
      BY <1>0, <2>7, Pulled
    <3>3. rx[r].epoch \in Nat /\ rx \in [Reader -> Cursors] /\ retuneFloor \in Nat /\ BackTo(MaxSamples) \in Nat
      BY <1>0, <2>0 DEF ReadersTyped, Cursors, RingTyped, BackTo
    <3>4. \A last \in Nat : [rx EXCEPT ![r].last = last]
                              = [rx EXCEPT ![r].last = last, ![r].epoch = rx[r].epoch]
      BY <3>3 DEF Cursors
    <3>5. CASE PulledNothing(r)
      <4>1. Handed(Total, Total, Total, rx[r].epoch)
        BY <2>0, <3>4, <3>5 DEF PulledNothing
      <4> HIDE DEF Handed
      <4> QED
        BY <2>0, <3>1, <3>3, <4>1
    <3>6. CASE PulledRewound(r)
      <4>1. Handed(0, 0, BackTo(MaxSamples), rx[r].epoch)
        BY <3>3, <3>4, <3>6 DEF PulledRewound
      <4> HIDE DEF Handed
      <4> QED
        BY <2>0, <3>1, <3>3, <4>1
    <3>7. ASSUME NEW disc \in BOOLEAN, NEW from \in retuneFloor..Total, NEW to \in (from + 1)..Total,
                 PulledWindow(r, disc, from, to)
          PROVE  PureInv'
      <4>1. Handed(from, to, to, epoch)
        BY <3>7 DEF PulledWindow, Moves
      <4>2. from \in Nat /\ to \in Nat /\ from < to /\ to <= Total /\ Total - from <= Capacity /\ from >= retuneFloor
        BY <2>0, <3>3, <3>7 DEF PulledWindow
      <4> HIDE DEF Handed
      <4> QED
        BY <2>0, <3>1, <4>1, <4>2
    <3> QED
      BY <3>2, <3>5, <3>6, <3>7
  <2>8. CASE FeedFilters(r)
    <3>1. /\ Hears(r, hand[r].gap, hand[r].ids, missed[r]) /\ UNCHANGED <<rx, mark, switches, busy>>
          /\ pull' = [pull EXCEPT ![r] = Unlooked] /\ hand' = [hand EXCEPT ![r] = NoHand]
          /\ missed' = [missed EXCEPT ![r] = FALSE]
      BY <2>8 DEF FeedFilters
    <3>2. hand[r] \in Hands /\ hand[r].gap \in BOOLEAN /\ hand[r].ids \in Seq(Nat) /\ missed[r] \in BOOLEAN
      BY <1>0 DEF ReadersTyped, Hands
    <3>3. /\ got' \in [Reader -> Windows] /\ heard' \in [Reader -> Nat \cup {None}] /\ got'[r].ids = hand[r].ids
          /\ \A o \in Reader \ {r} : got'[o] = got[o]
      <4>1. r \in Reader
        OBVIOUS
      <4>2. /\ got' \in [Reader -> Windows] /\ heard' \in [Reader -> Nat \cup {None}]
            /\ got'[r] = [gap |-> hand[r].gap, prev |-> heard[r], ids |-> hand[r].ids, excused |-> missed[r]]
            /\ \A o \in Reader \ {r} : got'[o] = got[o]
        BY <1>0, <3>1, <3>2, <4>1, HeardTyped
      <4> QED
        BY <4>2
    <3>4. /\ pull' \in [Reader -> Pulls] /\ hand' \in [Reader -> Hands] /\ missed' \in [Reader -> BOOLEAN]
          /\ hand'[r] = NoHand /\ \A o \in Reader \ {r} : hand'[o] = hand[o]
      BY <1>0, <2>U, <3>1 DEF ReadersTyped
    <3>5. \A o \in Reader : Joined(got'[o].ids) /\ Joined(hand'[o].ids)
      BY <2>J, <3>3, <3>4 DEF PureInv
    <3> QED
      BY <1>0, <3>1, <3>3, <3>4, <3>5 DEF PureInv, ReadersTyped, Joined
  <2>9. ASSUME NEW decodeData \in BOOLEAN, FeedDecoders(r, decodeData) PROVE PureInv'
    <3>1. /\ UNCHANGED <<rx, missed, switches, busy>>
          /\ pull' = [pull EXCEPT ![r] = Unlooked] /\ hand' = [hand EXCEPT ![r] = NoHand]
          /\ \/ /\ Hears(r, mark[r] # [epoch |-> hand[r].epoch, next |-> hand[r].from], hand[r].ids, FALSE)
                /\ mark' = [mark EXCEPT ![r] = MarkedBy(hand[r])]
             \/ Hears(r, TRUE, <<>>, FALSE) /\ mark' = [mark EXCEPT ![r] = Unmarked]
      BY <2>9 DEF FeedDecoders
    <3>2. hand[r] \in Hands /\ hand[r].ids \in Seq(Nat) /\ MarkedBy(hand[r]) \in Marks
      BY <1>0 DEF ReadersTyped, Hands, MarkedBy, Marks
    <3>3. /\ got' \in [Reader -> Windows] /\ heard' \in [Reader -> Nat \cup {None}]
          /\ got'[r].ids = hand[r].ids \/ got'[r].ids = <<>>
          /\ \A o \in Reader \ {r} : got'[o] = got[o]
      <4>1. CASE Hears(r, TRUE, <<>>, FALSE)
        <5>1. TRUE \in BOOLEAN /\ FALSE \in BOOLEAN /\ r \in Reader
          OBVIOUS
        <5>2. /\ got' \in [Reader -> Windows] /\ heard' \in [Reader -> Nat \cup {None}]
              /\ got'[r] = [gap |-> TRUE, prev |-> heard[r], ids |-> <<>>, excused |-> FALSE]
              /\ \A o \in Reader \ {r} : got'[o] = got[o]
          BY <1>0, <2>0, <4>1, <5>1, HeardTyped
        <5> QED
          BY <5>2
      <4>2. CASE Hears(r, mark[r] # [epoch |-> hand[r].epoch, next |-> hand[r].from], hand[r].ids, FALSE)
        <5>0. PICK ids \in Seq(Nat) : ids = hand[r].ids
          BY <3>2
        <5>1. Hears(r, TRUE, ids, FALSE) \/ Hears(r, FALSE, ids, FALSE)
          BY <4>2, <5>0
        <5>2. TRUE \in BOOLEAN /\ FALSE \in BOOLEAN /\ r \in Reader /\ ids \in Seq(Nat)
          BY <5>0
        <5>3. CASE Hears(r, TRUE, ids, FALSE)
          <6>1. /\ got' \in [Reader -> Windows] /\ heard' \in [Reader -> Nat \cup {None}]
                /\ got'[r] = [gap |-> TRUE, prev |-> heard[r], ids |-> ids, excused |-> FALSE]
                /\ \A o \in Reader \ {r} : got'[o] = got[o]
            BY <1>0, <5>2, <5>3, HeardTyped
          <6> QED
            BY <5>0, <6>1
        <5>4. CASE Hears(r, FALSE, ids, FALSE)
          <6>1. /\ got' \in [Reader -> Windows] /\ heard' \in [Reader -> Nat \cup {None}]
                /\ got'[r] = [gap |-> FALSE, prev |-> heard[r], ids |-> ids, excused |-> FALSE]
                /\ \A o \in Reader \ {r} : got'[o] = got[o]
            BY <1>0, <5>2, <5>4, HeardTyped
          <6> QED
            BY <5>0, <6>1
        <5> QED
          BY <5>1, <5>3, <5>4
      <4> QED
        BY <3>1, <4>1, <4>2
    <3>4. /\ pull' \in [Reader -> Pulls] /\ hand' \in [Reader -> Hands] /\ mark' \in [Reader -> Marks]
          /\ hand'[r] = NoHand /\ \A o \in Reader \ {r} : hand'[o] = hand[o]
      <4>1. PICK new \in Marks : mark' = [mark EXCEPT ![r] = new]
        BY <2>U, <3>1, <3>2
      <4> QED
        BY <1>0, <2>U, <3>1, <4>1 DEF ReadersTyped
    <3>5. \A o \in Reader : Joined(got'[o].ids) /\ Joined(hand'[o].ids)
      BY <2>J, <3>3, <3>4 DEF PureInv
    <3> QED
      BY <1>0, <3>1, <3>3, <3>4, <3>5 DEF PureInv, ReadersTyped, Joined
  <2>10. CASE Discard(r)
    <3>1. /\ UNCHANGED <<rx, mark, heard, got, switches>> /\ (busy' = busy \/ busy' = busy + 1)
          /\ pull' = [pull EXCEPT ![r] = Unlooked] /\ hand' = [hand EXCEPT ![r] = NoHand]
          /\ missed' = [missed EXCEPT ![r] = r \notin use.data]
      BY <2>10 DEF Discard
    <3>2. /\ pull' \in [Reader -> Pulls] /\ hand' \in [Reader -> Hands] /\ missed' \in [Reader -> BOOLEAN]
          /\ hand'[r] = NoHand /\ (\A o \in Reader \ {r} : hand'[o] = hand[o]) /\ busy' \in Nat
      BY <1>0, <2>U, <3>1 DEF ReadersTyped
    <3>3. \A o \in Reader : Joined(got'[o].ids) /\ Joined(hand'[o].ids)
      BY <2>J, <3>1, <3>2 DEF PureInv
    <3> QED
      BY <1>0, <3>1, <3>2, <3>3 DEF PureInv, ReadersTyped, Joined
  <2> QED
    BY <1>2, <2>1, <2>2, <2>3, <2>4, <2>5, <2>6, <2>7, <2>8, <2>9, <2>10 DEF Read
<1> QED
  BY <1>0, <1>1, <1>2, ReadersActAlone
-----------------------------------------------------------------------------
(* Within an epoch the ring only grows.                                      *)
EpochGoesOn ==
    \/ epoch' > epoch
    \/ /\ UNCHANGED <<epoch, retuneFloor, lossFloor>> /\ Total' >= Total
       /\ \A i \in 1..Total : stream'[i] = stream[i]

LEMMA EpochStep ==
    ASSUME RingTyped, [Next]_vars
    PROVE  EpochGoesOn /\ UNCHANGED use
<1> USE DEF RingTyped
<1>0. Total \in Nat /\ epoch \in Nat
  BY DEF Total
<1>1. ASSUME NEW n \in Block, appendIQBlock(n) PROVE EpochGoesOn
  <2> DEFINE more == [i \in 1..n |-> [id |-> made + i, centre |-> centre]]
  <2>1. n \in Nat /\ centre \in Centre /\ made \in Nat
    OBVIOUS
  <2>2. more \in Seq(Sample) /\ stream \in Seq(Sample)
    BY <2>1 DEF Sample
  <2>3. stream' = stream \o more /\ UNCHANGED <<epoch, retuneFloor, lossFloor>>
    BY <1>1 DEF appendIQBlock
  <2> HIDE DEF more
  <2> DEFINE whole == stream \o more
  <2>4. /\ Len(whole) = Len(stream) + Len(more)
        /\ \A i \in 1..Len(stream) + Len(more) :
              whole[i] = IF i <= Len(stream) THEN stream[i] ELSE more[i - Len(stream)]
    <3> HIDE DEF RingTyped
    <3> QED
      BY <2>2, Appended
  <2> HIDE DEF whole
  <2>5. stream' = whole
    BY <2>3 DEF whole
  <2>6. Len(stream) \in Nat /\ Len(more) \in Nat
    BY <2>2
  <2> QED
    BY <2>3, <2>4, <2>5, <2>6 DEF EpochGoesOn, Total
<1>2. Overflow => EpochGoesOn
  BY <1>0 DEF Overflow, EpochGoesOn
<1>3. ASSUME NEW c \in use.centres, markStreamRetune(c) PROVE EpochGoesOn
  <2>1. stream' = stream /\ lossFloor' = lossFloor /\ Total' = Total
    BY <1>3 DEF markStreamRetune, Total
  <2>2. epoch' = epoch + 1 \/ UNCHANGED <<epoch, retuneFloor>>
    BY <1>3 DEF markStreamRetune
  <2> QED
    BY <1>0, <2>1, <2>2 DEF EpochGoesOn
<1>4. resetStreamBuffers => EpochGoesOn
  BY <1>0 DEF resetStreamBuffers, EpochGoesOn
<1>5. UNCHANGED radioVars => EpochGoesOn
  BY <1>0 DEF radioVars, EpochGoesOn, Total
<1>6. Satellite => UNCHANGED radioVars
  BY DEF Satellite, pullNewIq, consume, resetChronologicalInput
<1>7. ASSUME NEW r \in use.reads, Read(r) PROVE UNCHANGED radioVars
  BY <1>7 DEF Read, Switch, Look, Enter, getNewIQWindowForReceiver, FeedFilters, FeedDecoders,
              Discard, ResetCursor, ResetSeenEpoch, setReceiverCursorToLiveEdge
<1> QED
  BY <1>1, <1>2, <1>3, <1>4, <1>5, <1>6, <1>7 DEF Next, Radio, vars

LEMMA CursorKept ==
    ASSUME ReadersTyped, NEW r \in Reader, NEW last \in Nat, rx' = [rx EXCEPT ![r].last = last]
    PROVE  CursorAt(r, last, rx[r].epoch)
<1>1. rx \in [Reader -> Cursors] /\ rx[r].epoch \in Nat
  BY DEF ReadersTyped, Cursors
<1>2. rx' = [rx EXCEPT ![r].last = last, ![r].epoch = rx[r].epoch]
  BY <1>1 DEF Cursors
<1>3. PICK seen \in Nat : seen = rx[r].epoch
  BY <1>1
<1>4. rx' = [rx EXCEPT ![r].last = last, ![r].epoch = seen]
  BY <1>2, <1>3
<1>5. CursorAt(r, last, seen)
  BY <1>4, CursorMoved
<1> QED
  BY <1>3, <1>5 DEF CursorAt

LEMMA TiedKept ==
    ASSUME RingTyped, RingTyped', EpochGoesOn, NEW id, NEW position, NEW seen \in Nat, seen <= epoch,
           Tied(id, position, seen)
    PROVE  seen = epoch' => position \in (retuneFloor' + 1)..Total' /\ stream'[position].id = id
<1>1. /\ Total \in Nat /\ Total' \in Nat /\ retuneFloor \in Nat /\ retuneFloor' \in Nat
      /\ epoch \in Nat /\ epoch' \in Nat
  BY DEF RingTyped, Total
<1>2. CASE epoch' > epoch
  BY <1>1, <1>2
<1>3. CASE /\ UNCHANGED <<epoch, retuneFloor, lossFloor>> /\ Total' >= Total
           /\ \A i \in 1..Total : stream'[i] = stream[i]
  <2>1. SUFFICES ASSUME seen = epoch
                 PROVE  position \in (retuneFloor' + 1)..Total' /\ stream'[position].id = id
    BY <1>3
  <2>2. position \in (retuneFloor + 1)..Total /\ stream[position].id = id
    BY <2>1 DEF Tied
  <2>3. position \in 1..Total /\ position \in (retuneFloor' + 1)..Total'
    BY <1>1, <1>3, <2>2
  <2> QED
    BY <1>3, <2>2, <2>3
<1> QED
  BY <1>2, <1>3 DEF EpochGoesOn

(* What is not touched stays true while the radio goes on.                   *)
LEMMA ReaderUntouched ==
    ASSUME RingTyped, RingTyped', ReadersTyped, EpochGoesOn, UNCHANGED use,
           NEW o \in Reader, Untouched(o), ReaderInv(o)
    PROVE  ReaderInv(o)'
<1>1. /\ rx[o].epoch \in Nat /\ pull[o].epoch \in Nat /\ hand[o].epoch \in Nat /\ mark[o].epoch \in Nat
      /\ epoch \in Nat /\ epoch' \in Nat /\ epoch <= epoch'
  <2>1. rx[o] \in Cursors /\ pull[o] \in Pulls /\ hand[o] \in Hands /\ mark[o] \in Marks
    BY DEF ReadersTyped
  <2>2. epoch \in Nat /\ epoch' \in Nat
    BY DEF RingTyped
  <2>3. epoch <= epoch'
    BY <2>2 DEF EpochGoesOn
  <2> QED
    BY <2>1, <2>2, <2>3 DEF Cursors, Pulls, Hands, Marks
<1>2. /\ rx[o].epoch <= epoch /\ pull[o].epoch <= epoch /\ hand[o].epoch <= epoch /\ mark[o].epoch <= epoch
  BY DEF ReaderInv
<1>3. /\ rx'[o].epoch <= epoch' /\ pull'[o].epoch <= epoch'
      /\ hand'[o].epoch <= epoch' /\ mark'[o].epoch <= epoch'
      /\ got'[o].excused \/ Continues(got'[o])
  <2>1. rx'[o] = rx[o] /\ pull'[o] = pull[o] /\ hand'[o] = hand[o] /\ mark'[o] = mark[o] /\ got'[o] = got[o]
    BY DEF Untouched
  <2>2. \A e \in Nat : e <= epoch => e <= epoch'
    BY <1>1
  <2>3. got[o].excused \/ Continues(got[o])
    BY DEF ReaderInv
  <2>4. got'[o].excused \/ Continues(got'[o])
    BY <2>1, <2>3 DEF Continues
  <2> QED
    BY <1>1, <1>2, <2>1, <2>2, <2>4
<1> DEFINE Still(id, position, seen) ==
             seen = epoch' => position \in (retuneFloor' + 1)..Total' /\ stream'[position].id = id
<1>4. ASSUME NEW id, NEW position, NEW seen \in Nat, seen <= epoch, Tied(id, position, seen)
      PROVE  Still(id, position, seen)
  BY <1>4, TiedKept
<1>5. ASSUME o \notin use'.lagging PROVE SessionInv(o)'
  <2>1. SessionInv(o)
    BY <1>5 DEF ReaderInv
  <2>2. heard[o] # None => Still(heard[o], rx[o].last, rx[o].epoch)
    BY <1>1, <1>2, <1>4, <2>1 DEF SessionInv
  <2> QED
    BY <2>1, <2>2 DEF SessionInv, Untouched, Tied
<1>6. ASSUME o \in use'.lagging \ use'.data PROVE FilterInv(o)'
  <2>1. FilterInv(o)
    BY <1>6 DEF ReaderInv
  <2>2. heard[o] # None /\ ~missed[o] /\ pull[o].at # "pulled" =>
           /\ Still(heard[o], rx[o].last, rx[o].epoch)
           /\ pull[o].at # "idle" => Still(heard[o], pull[o].expected, pull[o].epoch)
    <3>1. heard[o] # None /\ ~missed[o] /\ pull[o].at # "pulled" =>
            /\ Tied(heard[o], rx[o].last, rx[o].epoch)
            /\ pull[o].at # "idle" => Tied(heard[o], pull[o].expected, pull[o].epoch)
      BY <2>1 DEF FilterInv
    <3> HIDE DEF Still
    <3> QED
      BY <1>1, <1>2, <1>4, <3>1
  <2>3. pull[o].at = "pulled" /\ ~rx[o].clearing => Still(Last(hand[o].ids), rx[o].last, rx[o].epoch)
    <3>1. pull[o].at = "pulled" /\ ~rx[o].clearing => Tied(Last(hand[o].ids), rx[o].last, rx[o].epoch)
      BY <2>1 DEF FilterInv
    <3> HIDE DEF Still
    <3> QED
      BY <1>1, <1>2, <1>4, <3>1
  <2> QED
    BY <2>1, <2>2, <2>3 DEF FilterInv, Untouched, Tied
<1>7. ASSUME o \in use'.data PROVE DecoderInv(o)'
  <2>1. DecoderInv(o)
    BY <1>7 DEF ReaderInv
  <2>2. heard[o] # None => Still(heard[o], mark[o].next, mark[o].epoch)
    <3>1. heard[o] # None => Tied(heard[o], mark[o].next, mark[o].epoch)
      BY <2>1 DEF DecoderInv
    <3> HIDE DEF Still
    <3> QED
      BY <1>1, <1>2, <1>4, <3>1
  <2>3. pull[o].at = "pulled" => Still(Last(hand[o].ids), MarkedBy(hand[o]).next, hand[o].epoch)
    <3>1. pull[o].at = "pulled" => Tied(Last(hand[o].ids), MarkedBy(hand[o]).next, hand[o].epoch)
      BY <2>1 DEF DecoderInv
    <3> HIDE DEF Still
    <3> QED
      BY <1>1, <1>2, <1>4, <3>1
  <2> QED
    BY <2>1, <2>2, <2>3 DEF DecoderInv, Untouched, Tied, MarkedBy
<1> QED
  BY <1>3, <1>5, <1>6, <1>7 DEF ReaderInv

(* What a step of reader r leaves of the ring, and what it finds.            *)
Steady ==
    /\ UNCHANGED <<epoch, retuneFloor, stream, use>> /\ Total' = Total
    /\ epoch \in Nat /\ epoch # 0 /\ Total \in Nat /\ retuneFloor \in Nat
    /\ use.data \subseteq use.lagging

(* A pull that brings nothing.                                               *)
LEMMA PulledEmpty ==
    ASSUME Steady, ReadersTyped, NEW r \in Reader, ReaderInv(r), pull[r].at = "inside",
           NEW last \in Nat, NEW from \in Nat, NEW disc \in BOOLEAN,
           CursorAt(r, last, rx[r].epoch), WindowOf(Ids(Copy(from, from)), from, from),
           r \in use.lagging => TakesInHand(r, disc, from, from),
           r \notin use.lagging => HearsAtOnce(r, disc, from, from),
           UNCHANGED <<mark, missed>>,
           rx[r].epoch = epoch /\ pull[r].last \in (retuneFloor + 1)..Total => last = pull[r].last
    PROVE  ReaderInv(r)'
<1> USE DEF Steady
<1>1. /\ rx'[r].last = last /\ rx'[r].epoch = rx[r].epoch /\ rx'[r].clearing = rx[r].clearing
      /\ mark' = mark /\ missed' = missed /\ hand' = hand /\ heard' = heard
      /\ pull'[r].at = "idle" /\ pull'[r].epoch = IF r \in use.lagging THEN 0 ELSE pull[r].epoch
  <2>1. Ids(Copy(from, from)) = <<>>
    BY DEF WindowOf
  <2>2. hand' = hand /\ heard' = heard
    BY <2>1 DEF TakesInHand, HearsAtOnce, Hears
  <2>3. CASE r \in use.lagging
    <3>1. pull' = [pull EXCEPT ![r] = Unlooked] /\ pull \in [Reader -> Pulls]
      BY <2>3 DEF TakesInHand, ReadersTyped
    <3> QED
      BY <2>2, <2>3, <3>1 DEF CursorAt, Unlooked
  <2>4. CASE r \notin use.lagging
    <3>1. pull' = [pull EXCEPT ![r] = [Unlooked EXCEPT !.epoch = pull[r].epoch]] /\ pull \in [Reader -> Pulls]
      BY <2>4 DEF HearsAtOnce, ReadersTyped
    <3> QED
      BY <2>2, <2>4, <3>1 DEF CursorAt, Unlooked
  <2> QED
    BY <2>3, <2>4
<1>2. got'[r].excused \/ Continues(got'[r])
  <2>1. CASE r \in use.lagging
    BY <2>1 DEF TakesInHand, ReaderInv, Continues
  <2>2. CASE r \notin use.lagging
    <3>1. got'[r].ids = <<>>
      BY <2>2 DEF HearsAtOnce, Hears, WindowOf, ReadersTyped
    <3> QED
      BY <3>1 DEF Continues
  <2> QED
    BY <2>1, <2>2
<1>3. ASSUME Tied(heard[r], rx[r].last, rx[r].epoch), pull[r].last = rx[r].last
      PROVE  Tied(heard[r], rx[r].last, rx[r].epoch)' /\ (rx[r].epoch = epoch => last = rx[r].last)
  <2>1. rx[r].epoch = epoch => last = rx[r].last
    BY <1>3 DEF Tied
  <2> QED
    BY <1>1, <1>3, <2>1 DEF Tied
<1>4. ASSUME r \notin use'.lagging PROVE SessionInv(r)'
  <2>1. SessionInv(r) /\ r \notin use.lagging
    BY <1>4 DEF ReaderInv
  <2> QED
    BY <1>1, <1>3, <2>1 DEF SessionInv
<1>5. ASSUME r \in use'.lagging \ use'.data PROVE FilterInv(r)'
  <2>1. FilterInv(r)
    BY <1>5 DEF ReaderInv
  <2> QED
    BY <1>1, <1>3, <2>1 DEF FilterInv
<1>6. ASSUME r \in use'.data PROVE DecoderInv(r)'
  <2>1. DecoderInv(r)
    BY <1>6 DEF ReaderInv
  <2> QED
    BY <1>1, <2>1 DEF DecoderInv, Tied
<1>7. rx'[r].epoch <= epoch' /\ pull'[r].epoch <= epoch' /\ hand'[r].epoch <= epoch' /\ mark'[r].epoch <= epoch'
  BY <1>1 DEF ReaderInv
<1> QED
  BY <1>2, <1>4, <1>5, <1>6, <1>7 DEF ReaderInv

(* A pull that brings a window.                                              *)
LEMMA PulledFull ==
    ASSUME Steady, RingInv, ReadersTyped, NEW r \in Reader, ReaderInv(r), pull[r].at = "inside",
           NEW disc \in BOOLEAN, NEW from \in retuneFloor..Total, NEW to \in (from + 1)..Total,
           CursorAt(r, to, epoch), WindowOf(Ids(Copy(from, to)), from, to),
           r \in use.lagging => TakesInHand(r, disc, from, to),
           r \notin use.lagging => HearsAtOnce(r, disc, from, to),
           UNCHANGED <<mark, missed>>,
           ~disc /\ r \notin use.lagging /\ rx[r].epoch = epoch
             /\ pull[r].last \in (retuneFloor + 1)..Total => from = pull[r].last
    PROVE  ReaderInv(r)'
<1> USE DEF Steady
<1> DEFINE ids == Ids(Copy(from, to))
<1>0. from \in Nat /\ to \in Nat /\ from < to /\ to \in (retuneFloor + 1)..Total /\ ~(from = to)
  OBVIOUS
<1>1. /\ rx'[r].last = to /\ rx'[r].epoch = epoch /\ rx'[r].clearing = rx[r].clearing
      /\ mark' = mark /\ missed' = missed
  BY DEF CursorAt
<1>2. /\ ids # <<>> /\ Len(ids) = to - from /\ Head(ids) = stream[from + 1].id /\ Last(ids) = stream[to].id
  BY <1>0 DEF WindowOf
<1>3. ASSUME NEW id, Tied(id, from, epoch) PROVE Head(ids) = id + 1
  <2>1. from \in (retuneFloor + 1)..(Total - 1) /\ stream[from].id = id
    BY <1>0, <1>3 DEF Tied
  <2> QED
    BY <1>2, <2>1 DEF RingInv
<1> HIDE DEF ids
<1>4. rx'[r].epoch <= epoch' /\ hand'[r].epoch <= epoch' /\ mark'[r].epoch <= epoch' /\ pull'[r].epoch <= epoch'
  <2>1. hand[r].epoch <= epoch /\ mark[r].epoch <= epoch
    BY DEF ReaderInv
  <2>2. CASE r \in use.lagging
    <3>1. /\ pull' = [pull EXCEPT ![r] = [Unlooked EXCEPT !.at = "pulled"]] /\ pull \in [Reader -> Pulls]
          /\ hand' = [hand EXCEPT ![r] = [gap |-> SourceGap(r, disc, from, FALSE), ids |-> ids,
                                          epoch |-> epoch, from |-> from]]
          /\ hand \in [Reader -> Hands]
      BY <1>0, <2>2 DEF TakesInHand, ReadersTyped, ids
    <3>2. hand'[r].epoch = epoch /\ pull'[r].epoch = 0
      BY <3>1 DEF Unlooked
    <3> QED
      BY <1>1, <2>1, <3>2
  <2>3. CASE r \notin use.lagging
    <3>1. /\ pull' = [pull EXCEPT ![r] = [Unlooked EXCEPT !.epoch = epoch]] /\ pull \in [Reader -> Pulls]
          /\ hand' = hand
      BY <1>0, <2>3 DEF HearsAtOnce, ReadersTyped
    <3>2. pull'[r].epoch = epoch
      BY <3>1 DEF Unlooked
    <3> QED
      BY <1>1, <2>1, <3>1, <3>2
  <2> QED
    BY <2>2, <2>3
<1>5. ASSUME r \notin use.lagging
      PROVE  SessionInv(r)' /\ Continues(got'[r])
  <2>0. SessionInv(r)
    BY <1>5 DEF ReaderInv
  <2>1. /\ pull' = [pull EXCEPT ![r] = [Unlooked EXCEPT !.epoch = epoch]] /\ pull \in [Reader -> Pulls]
        /\ Hears(r, disc \/ epoch # pull[r].epoch, ids, FALSE)
        /\ heard \in [Reader -> Nat \cup {None}] /\ got \in [Reader -> Windows]
    BY <1>0, <1>5 DEF HearsAtOnce, ReadersTyped, ids
  <2>2. pull'[r].epoch = epoch /\ pull'[r].at = "idle"
    BY <2>1 DEF Unlooked
  <2>3. heard'[r] = Last(ids)
    <3>1. heard' = [heard EXCEPT ![r] = Last(ids)]
      BY <1>2, <2>1 DEF Hears
    <3> QED
      BY <2>1, <3>1
  <2>4. SessionInv(r)'
    BY <1>0, <1>1, <1>2, <2>0, <2>2, <2>3 DEF SessionInv, Tied
  <2>5. /\ got'[r].prev = heard[r] /\ got'[r].ids = ids
        /\ got'[r].gap = (disc \/ epoch # pull[r].epoch)
    BY <2>1 DEF Hears
  <2>6. ASSUME heard[r] # None, ~disc, epoch = pull[r].epoch PROVE Head(ids) = heard[r] + 1
    <3>1. /\ Tied(heard[r], rx[r].last, epoch) /\ rx[r].epoch = epoch
          /\ pull[r].last = rx[r].last
      BY <2>0, <2>6 DEF SessionInv
    <3>2. from = pull[r].last
      BY <1>5, <2>6, <3>1 DEF Tied
    <3> QED
      BY <1>3, <3>1, <3>2
  <2>7. Continues(got'[r])
    BY <2>5, <2>6 DEF Continues
  <2> QED
    BY <2>4, <2>7
<1>6. ASSUME r \in use.lagging
      PROVE  /\ heard' = heard /\ got' = got /\ pull'[r].at = "pulled"
             /\ hand'[r].gap = SourceGap(r, disc, from, FALSE) /\ hand'[r].ids = ids
             /\ hand'[r].epoch = epoch /\ hand'[r].from = from
  <2>1. /\ pull' = [pull EXCEPT ![r] = [Unlooked EXCEPT !.at = "pulled"]] /\ pull \in [Reader -> Pulls]
        /\ hand' = [hand EXCEPT ![r] = [gap |-> SourceGap(r, disc, from, FALSE), ids |-> ids,
                                        epoch |-> epoch, from |-> from]]
        /\ hand \in [Reader -> Hands] /\ heard' = heard /\ got' = got
    BY <1>0, <1>6 DEF TakesInHand, ReadersTyped, ids
  <2> QED
    BY <2>1 DEF Unlooked
<1>7. ASSUME r \in use.lagging \ use.data PROVE FilterInv(r)'
  <2>0. FilterInv(r)
    BY <1>7 DEF ReaderInv
  <2>1. ASSUME heard[r] # None, ~missed[r], ~SourceGap(r, disc, from, FALSE)
        PROVE  Head(ids) = heard[r] + 1
    <3>1. epoch = pull[r].epoch /\ from = pull[r].expected
      BY <1>7, <2>1 DEF SourceGap
    <3>2. Tied(heard[r], from, epoch)
      BY <2>0, <2>1, <3>1 DEF FilterInv
    <3> QED
      BY <1>3, <3>2
  <2>2. to \in (retuneFloor' + 1)..Total' /\ stream'[to].id = Last(ids)
    BY <1>0, <1>2
  <2>3. Tied(Last(hand[r].ids), rx[r].last, rx[r].epoch)'
    BY <1>1, <1>6, <1>7, <2>2 DEF Tied
  <2> QED
    BY <1>1, <1>2, <1>6, <1>7, <2>0, <2>1, <2>3 DEF FilterInv, Tied
<1>8. ASSUME r \in use.data PROVE DecoderInv(r)'
  <2>0. DecoderInv(r) /\ r \in use.lagging
    BY <1>8 DEF ReaderInv
  <2>1. MarkedBy(hand[r]).next' = to
    <3>1. MarkedBy(hand[r]).next' = hand'[r].from + Len(hand'[r].ids)
      BY DEF MarkedBy
    <3>2. from + (to - from) = to
      BY <1>0
    <3> QED
      BY <1>2, <1>6, <2>0, <3>1, <3>2
  <2>2. ASSUME heard[r] # None, mark[r] = [epoch |-> epoch, next |-> from] PROVE Head(ids) = heard[r] + 1
    <3>1. Tied(heard[r], from, epoch)
      BY <2>0, <2>2 DEF DecoderInv
    <3> QED
      BY <1>3, <3>1
  <2> QED
    BY <1>0, <1>1, <1>2, <1>6, <2>0, <2>1, <2>2 DEF DecoderInv, Tied
<1>9. got'[r].excused \/ Continues(got'[r])
  BY <1>5, <1>6 DEF ReaderInv, Continues
<1> QED
  BY <1>4, <1>5, <1>7, <1>8, <1>9 DEF ReaderInv

LEMMA GapsStep ==
    ASSUME RingSizes, RingInv, PureInv, GapsInv, [Next]_vars
    PROVE  GapsInv'
<1>0. RingTyped /\ ReadersTyped /\ RingTyped' /\ ReadersTyped'
  BY RingStep, ReadersStep DEF RingInv, PureInv
<1>1. SUFFICES ASSUME switches' = 0, NEW o \in Reader PROVE ReaderInv(o)'
  BY DEF GapsInv
<1>2. EpochGoesOn /\ UNCHANGED use
  BY <1>0, EpochStep
<1>3. CASE UNCHANGED readVars
  <2>1. ReaderInv(o) /\ Untouched(o)
    BY <1>1, <1>3 DEF GapsInv, readVars, Untouched
  <2> QED
    BY <1>0, <1>2, <2>1, ReaderUntouched
<1>4. ASSUME NEW r \in Reader \cap use.reads, Read(r), UNCHANGED <<radioVars, satVars, use>>
      PROVE  ReaderInv(o)'
  <2>1. switches = 0 /\ ~Switch(r)
    <3>1. switches \in Nat
      BY <1>0 DEF ReadersTyped
    <3>2. switches' = switches \/ switches' = switches + 1
      BY <1>4 DEF Read, Switch, Look, Enter, getNewIQWindowForReceiver, FeedFilters, FeedDecoders,
              Discard, ResetCursor, ResetSeenEpoch, setReceiverCursorToLiveEdge
    <3>3. Switch(r) => switches' = switches + 1
      BY DEF Switch
    <3> QED
      BY <1>1, <3>1, <3>2, <3>3
  <2>2. ReaderInv(o) /\ ReaderInv(r) /\ r \in Reader
    BY <2>1 DEF GapsInv
  <2>3. CASE o # r
    <3>1. Untouched(o)
      BY <1>0, <1>4, <2>2, <2>3, OthersUntouched
    <3> QED
      BY <1>0, <1>2, <2>2, <3>1, ReaderUntouched
  <2>4. Steady
    <3>1. use \in Use /\ UNCHANGED <<epoch, retuneFloor, stream, use>>
      BY <1>0, <1>4 DEF RingTyped, radioVars
    <3> QED
      BY <1>0, <3>1 DEF Steady, RingTyped, Total
  <2>5. /\ rx[r] \in Cursors /\ rx \in [Reader -> Cursors] /\ pull \in [Reader -> Pulls]
        /\ hand \in [Reader -> Hands] /\ mark \in [Reader -> Marks] /\ heard \in [Reader -> Nat \cup {None}]
        /\ got \in [Reader -> Windows] /\ missed \in [Reader -> BOOLEAN]
    BY <1>0, <2>2 DEF ReadersTyped
  <2>6. CASE Look(r)
    <3>0. pull[r].at = "idle"
      BY <2>6 DEF Look
    <3>1. /\ pull'[r].at = "looked" /\ pull'[r].expected = rx[r].last /\ pull[r].at = "idle"
          /\ pull'[r].epoch = IF r \in use.lagging THEN rx[r].epoch ELSE pull[r].epoch
      BY <1>0, <2>2, <2>6, <3>0, PullNoted
    <3>2. UNCHANGED <<rx, hand, mark, heard, got, missed>>
      BY <2>6 DEF Look
    <3>3. ReaderInv(r)'
      BY <2>2, <2>4, <3>1, <3>2 DEF Steady, ReaderInv, Continues, SessionInv, FilterInv, DecoderInv, Tied
    <3> QED
      BY <2>3, <3>3
  <2>7. CASE Enter(r)
    <3>1. /\ pull'[r].at = "inside" /\ pull'[r].expected = pull[r].expected /\ pull[r].at = "looked"
          /\ pull'[r].epoch = pull[r].epoch /\ pull'[r].last = rx[r].last
      <4>1. ~Look(r)
        BY <2>7 DEF Look, Enter
      <4> QED
        BY <1>0, <2>2, <2>7, <4>1, PullNoted
    <3>2. UNCHANGED <<rx, hand, mark, heard, got, missed>>
      BY <2>7 DEF Enter
    <3>3. ReaderInv(r)'
      BY <2>2, <2>4, <3>1, <3>2 DEF Steady, ReaderInv, Continues, SessionInv, FilterInv, DecoderInv, Tied
    <3> QED
      BY <2>3, <3>3
  <2>8. CASE getNewIQWindowForReceiver(r)
    <3>0. /\ pull[r].at = "inside" /\ pull[r].last \in Nat /\ rx[r].epoch \in Nat
          /\ UNCHANGED <<mark, missed>>
      BY <2>2, <2>5, <2>8 DEF getNewIQWindowForReceiver, Cursors, Pulls
    <3>1. PulledNothing(r) \/ PulledRewound(r)
          \/ \E disc \in BOOLEAN, from \in retuneFloor..Total : \E to \in (from + 1)..Total :
                PulledWindow(r, disc, from, to)
      BY <1>0, <2>2, <2>8, Pulled
    <3>2. ASSUME NEW last \in Nat, NEW from \in Nat, NEW disc \in BOOLEAN, from <= Total,
                 rx' = [rx EXCEPT ![r].last = last], Deliver(r, disc, from, from),
                 rx[r].epoch = epoch /\ pull[r].last \in (retuneFloor + 1)..Total => last = pull[r].last
          PROVE  ReaderInv(r)'
      <4>1. from <= from /\ ~(from < from)
        OBVIOUS
      <4>2. /\ r \in use.lagging => TakesInHand(r, disc, from, from)
            /\ r \notin use.lagging => HearsAtOnce(r, disc, from, from)
        BY <1>0, <2>2, <3>2, <4>1, Delivered
      <4>3. WindowOf(Ids(Copy(from, from)), from, from)
        BY <1>0, <3>2, <4>1, CopiedWindow
      <4>4. CursorAt(r, last, rx[r].epoch)
        BY <1>0, <2>2, <3>2, CursorKept
      <4> QED
        BY <1>0, <2>2, <2>4, <3>0, <3>2, <4>2, <4>3, <4>4, PulledEmpty
    <3>3. CASE PulledNothing(r)
      <4>1. Total \in Nat /\ Total <= Total /\ FALSE \in BOOLEAN
        BY <2>4 DEF Steady
      <4>2. /\ rx' = [rx EXCEPT ![r].last = Total] /\ Deliver(r, FALSE, Total, Total)
            /\ rx[r].epoch = epoch /\ pull[r].last \in (retuneFloor + 1)..Total => Total = pull[r].last
        BY <3>3 DEF PulledNothing
      <4>3. ReaderInv(r)'
        BY <3>2, <4>1, <4>2
      <4> QED
        BY <2>3, <4>3
    <3>4. CASE PulledRewound(r)
      <4>1. 0 \in Nat /\ 0 <= Total /\ TRUE \in BOOLEAN /\ BackTo(MaxSamples) \in Nat
        BY <2>4 DEF Steady, BackTo
      <4>2. /\ rx' = [rx EXCEPT ![r].last = BackTo(MaxSamples)] /\ Deliver(r, TRUE, 0, 0)
            /\ ~(rx[r].epoch = epoch /\ pull[r].last \in (retuneFloor + 1)..Total)
        BY <3>4 DEF PulledRewound
      <4>3. ReaderInv(r)'
        BY <3>2, <4>1, <4>2
      <4> QED
        BY <2>3, <4>3
    <3>5. ASSUME NEW disc \in BOOLEAN, NEW from \in retuneFloor..Total, NEW to \in (from + 1)..Total,
                 PulledWindow(r, disc, from, to)
          PROVE  ReaderInv(o)'
      <4>0. /\ from \in Nat /\ to \in Nat /\ from <= to /\ to <= Total /\ Total - from <= Capacity
            /\ epoch \in Nat
        BY <2>4, <3>5 DEF PulledWindow, Steady
      <4>1. /\ rx' = [rx EXCEPT ![r].last = to, ![r].epoch = epoch] /\ Deliver(r, disc, from, to)
            /\ ~disc /\ r \notin use.lagging /\ rx[r].epoch = epoch
                 /\ pull[r].last \in (retuneFloor + 1)..Total => from = pull[r].last
        BY <3>5 DEF PulledWindow, Moves
      <4>2. /\ r \in use.lagging => TakesInHand(r, disc, from, to)
            /\ r \notin use.lagging => HearsAtOnce(r, disc, from, to)
        BY <1>0, <2>2, <4>0, <4>1, Delivered
      <4>3. WindowOf(Ids(Copy(from, to)), from, to)
        BY <1>0, <4>0, CopiedWindow
      <4>4. CursorAt(r, to, epoch)
        <5>1. PICK seen \in Nat : seen = epoch
          BY <4>0
        <5>2. CursorAt(r, to, seen)
          BY <1>0, <2>2, <4>0, <4>1, <5>1, CursorMoved
        <5> QED
          BY <5>1, <5>2 DEF CursorAt
      <4>5. ReaderInv(r)'
        BY <1>0, <2>2, <2>4, <3>0, <4>1, <4>2, <4>3, <4>4, PulledFull
      <4> QED
        BY <2>3, <4>5
    <3> QED
      BY <3>1, <3>3, <3>4, <3>5
  <2>9. CASE FeedFilters(r)
    <3>1. /\ r \in use.lagging \ use.data /\ pull[r].at = "pulled" /\ ~rx[r].clearing
          /\ Hears(r, hand[r].gap, hand[r].ids, missed[r]) /\ UNCHANGED <<rx, mark>>
          /\ pull' = [pull EXCEPT ![r] = Unlooked] /\ hand' = [hand EXCEPT ![r] = NoHand]
          /\ missed' = [missed EXCEPT ![r] = FALSE]
      BY <2>9 DEF FeedFilters
    <3>2. FilterInv(r)
      BY <2>2, <3>1 DEF ReaderInv
    <3>3. /\ pull'[r].at = "idle" /\ pull'[r].epoch = 0 /\ hand'[r].epoch = 0 /\ ~missed'[r]
      BY <2>2, <2>5, <3>1 DEF Unlooked, NoHand
    <3>4. heard'[r] = Last(hand[r].ids)
      BY <2>2, <2>5, <3>1, <3>2 DEF Hears, FilterInv
    <3>5. /\ got'[r].excused = missed[r] /\ got'[r].prev = heard[r]
          /\ got'[r].ids = hand[r].ids /\ got'[r].gap = hand[r].gap
      BY <2>2, <2>5, <3>1 DEF Hears
    <3>6. got'[r].excused \/ Continues(got'[r])
      BY <3>1, <3>2, <3>5 DEF Continues, FilterInv
    <3>7. FilterInv(r)'
      BY <2>4, <3>1, <3>2, <3>3, <3>4 DEF Steady, FilterInv, Tied
    <3>8. ReaderInv(r)'
      BY <2>2, <2>4, <3>1, <3>3, <3>6, <3>7 DEF Steady, ReaderInv
    <3> QED
      BY <2>3, <3>8
  <2>10. ASSUME NEW decodeData \in BOOLEAN, FeedDecoders(r, decodeData) PROVE ReaderInv(o)'
    <3>1. /\ r \in use.data /\ pull[r].at = "pulled" /\ UNCHANGED <<rx, missed>>
          /\ pull' = [pull EXCEPT ![r] = Unlooked] /\ hand' = [hand EXCEPT ![r] = NoHand]
          /\ \/ /\ Hears(r, mark[r] # [epoch |-> hand[r].epoch, next |-> hand[r].from], hand[r].ids, FALSE)
                /\ mark' = [mark EXCEPT ![r] = MarkedBy(hand[r])]
             \/ Hears(r, TRUE, <<>>, FALSE) /\ mark' = [mark EXCEPT ![r] = Unmarked]
      BY <2>10 DEF FeedDecoders
    <3>2. DecoderInv(r) /\ r \in use.lagging
      BY <2>2, <2>4, <3>1 DEF ReaderInv, Steady
    <3>3. pull'[r].at = "idle" /\ pull'[r].epoch = 0 /\ hand'[r].epoch = 0
      BY <2>2, <2>5, <3>1 DEF Unlooked, NoHand
    <3>4. CASE /\ Hears(r, mark[r] # [epoch |-> hand[r].epoch, next |-> hand[r].from], hand[r].ids, FALSE)
               /\ mark' = [mark EXCEPT ![r] = MarkedBy(hand[r])]
      <4>1. heard'[r] = Last(hand[r].ids) /\ mark'[r] = MarkedBy(hand[r])
        BY <2>2, <2>5, <3>1, <3>2, <3>4 DEF Hears, DecoderInv
      <4>2. /\ got'[r].prev = heard[r] /\ got'[r].ids = hand[r].ids
            /\ ~got'[r].gap => mark[r] = [epoch |-> hand[r].epoch, next |-> hand[r].from]
        BY <2>2, <2>5, <3>4 DEF Hears
      <4>3. Continues(got'[r])
        BY <3>1, <3>2, <4>2 DEF Continues, DecoderInv
      <4>4. MarkedBy(hand[r]).epoch = hand[r].epoch
        BY DEF MarkedBy
      <4>5. DecoderInv(r)'
        BY <2>4, <3>1, <3>2, <3>3, <4>1, <4>4 DEF Steady, DecoderInv, Tied
      <4>6. ReaderInv(r)'
        BY <2>2, <2>4, <3>1, <3>2, <3>3, <4>1, <4>3, <4>4, <4>5 DEF Steady, ReaderInv
      <4> QED
        BY <2>3, <4>6
    <3>5. CASE Hears(r, TRUE, <<>>, FALSE) /\ mark' = [mark EXCEPT ![r] = Unmarked]
      <4>1. heard' = heard /\ mark'[r].epoch = 0
        BY <2>2, <2>5, <3>5 DEF Hears, Unmarked
      <4>2. got'[r].ids = <<>>
        BY <2>2, <2>5, <3>5 DEF Hears
      <4>3. Continues(got'[r])
        BY <4>2 DEF Continues
      <4>4. DecoderInv(r)'
        BY <2>4, <3>3, <4>1 DEF Steady, DecoderInv, Tied
      <4>5. ReaderInv(r)'
        BY <2>2, <2>4, <3>1, <3>2, <3>3, <4>1, <4>3, <4>4 DEF Steady, ReaderInv
      <4> QED
        BY <2>3, <4>5
    <3> QED
      BY <3>1, <3>4, <3>5
  <2>11. CASE Discard(r)
    <3>1. /\ r \in use.lagging /\ UNCHANGED <<rx, mark, heard, got>>
          /\ pull' = [pull EXCEPT ![r] = Unlooked] /\ hand' = [hand EXCEPT ![r] = NoHand]
          /\ missed' = [missed EXCEPT ![r] = r \notin use.data]
      BY <2>11 DEF Discard
    <3>2. pull'[r].at = "idle" /\ pull'[r].epoch = 0 /\ hand'[r].epoch = 0 /\ missed'[r] = (r \notin use.data)
      BY <2>2, <2>5, <3>1 DEF Unlooked, NoHand
    <3>3. ASSUME r \in use'.lagging \ use'.data PROVE FilterInv(r)'
      <4>1. FilterInv(r) /\ missed'[r]
        BY <2>2, <2>4, <3>2, <3>3 DEF ReaderInv, Steady
      <4> QED
        BY <3>1, <3>2, <4>1 DEF FilterInv
    <3>4. ASSUME r \in use'.data PROVE DecoderInv(r)'
      <4>1. DecoderInv(r)
        BY <2>2, <2>4, <3>4 DEF ReaderInv, Steady
      <4> QED
        BY <2>4, <3>1, <3>2, <4>1 DEF Steady, DecoderInv, Tied
    <3>5. ReaderInv(r)'
      BY <2>2, <2>4, <3>1, <3>2, <3>3, <3>4 DEF Steady, ReaderInv, Continues
    <3> QED
      BY <2>3, <3>5
  <2>12. CASE ResetCursor(r)
    <3>1. /\ r \in use.lagging /\ UNCHANGED <<pull, hand, mark, got, missed>>
          /\ rx' = [rx EXCEPT ![r].last = 0, ![r].clearing = TRUE]
          /\ heard' = IF r \in use.data THEN heard ELSE [heard EXCEPT ![r] = None]
      BY <2>12 DEF ResetCursor
    <3>2. /\ rx'[r].epoch = rx[r].epoch /\ rx'[r].clearing
          /\ heard'[r] = IF r \in use.data THEN heard[r] ELSE None
      BY <2>2, <2>5, <3>1 DEF Cursors
    <3>3. ASSUME r \in use'.lagging \ use'.data PROVE FilterInv(r)'
      <4>1. FilterInv(r) /\ heard'[r] = None
        BY <2>2, <2>4, <3>2, <3>3 DEF ReaderInv, Steady
      <4> QED
        BY <3>1, <3>2, <4>1 DEF FilterInv
    <3>4. ASSUME r \in use'.data PROVE DecoderInv(r)'
      <4>1. DecoderInv(r) /\ heard'[r] = heard[r]
        BY <2>2, <2>4, <3>2, <3>4 DEF ReaderInv, Steady
      <4> QED
        BY <2>4, <3>1, <4>1 DEF Steady, DecoderInv, Tied
    <3>5. ReaderInv(r)'
      BY <2>2, <2>4, <3>1, <3>2, <3>3, <3>4 DEF Steady, ReaderInv, Continues
    <3> QED
      BY <2>3, <3>5
  <2>13. CASE ResetSeenEpoch(r)
    <3>1. /\ rx[r].clearing /\ UNCHANGED <<pull, hand, mark, heard, got, missed>>
          /\ rx' = [rx EXCEPT ![r].epoch = 0, ![r].clearing = FALSE]
      BY <2>13 DEF ResetSeenEpoch
    <3>2. rx'[r].epoch = 0 /\ ~rx'[r].clearing /\ r \in use.lagging
      BY <2>2, <2>5, <3>1 DEF Cursors, ReaderInv, SessionInv
    <3>3. ASSUME r \in use'.lagging \ use'.data PROVE FilterInv(r)'
      <4>1. FilterInv(r) /\ heard[r] = None
        BY <2>2, <2>4, <3>1, <3>3 DEF ReaderInv, FilterInv, Steady
      <4> QED
        BY <2>4, <3>1, <3>2, <4>1 DEF Steady, FilterInv, Tied
    <3>4. ASSUME r \in use'.data PROVE DecoderInv(r)'
      <4>1. DecoderInv(r)
        BY <2>2, <2>4, <3>4 DEF ReaderInv, Steady
      <4> QED
        BY <2>4, <3>1, <4>1 DEF Steady, DecoderInv, Tied
    <3>5. ReaderInv(r)'
      BY <2>2, <2>4, <3>1, <3>2, <3>3, <3>4 DEF Steady, ReaderInv, Continues
    <3> QED
      BY <2>3, <3>5
  <2>14. CASE setReceiverCursorToLiveEdge(r)
    <3>1. /\ UNCHANGED <<pull, hand, mark, heard, got, missed>> /\ r \notin use.lagging /\ rx[r].epoch = 0
          /\ rx' = [rx EXCEPT ![r].last = Total, ![r].epoch = epoch]
      BY <2>14 DEF setReceiverCursorToLiveEdge
    <3>2. rx'[r].epoch = epoch /\ rx'[r].clearing = rx[r].clearing
      BY <2>2, <2>5, <3>1 DEF Cursors
    <3>3. SessionInv(r) /\ heard[r] = None
      BY <2>2, <3>1 DEF ReaderInv, SessionInv
    <3>4. SessionInv(r)'
      BY <2>4, <3>1, <3>2, <3>3 DEF Steady, SessionInv
    <3>5. epoch <= epoch /\ r \notin use.data
      BY <2>4, <3>1 DEF Steady
    <3>6. ReaderInv(r)'
      BY <2>2, <2>4, <3>1, <3>2, <3>4, <3>5 DEF Steady, ReaderInv, Continues
    <3> QED
      BY <2>3, <3>6
  <2> QED
    BY <1>4, <2>1, <2>6, <2>7, <2>8, <2>9, <2>10, <2>11, <2>12, <2>13, <2>14 DEF Read
<1> QED
  BY <1>0, <1>3, <1>4, ReadersActAlone
-----------------------------------------------------------------------------
(* A snapshot begins at its floor or later, and fits into the ring.          *)
LEMMA RecentBegins ==
    ASSUME RingTyped, NEW n \in Nat, NEW near \in BOOLEAN
    PROVE  /\ RecentFrom(n, near) \in lossFloor..Total /\ Total - RecentFrom(n, near) <= Capacity
           /\ near => RecentFrom(n, near) >= retuneFloor
<1> DEFINE other == IF near THEN retuneFloor ELSE 0
           floor == Min({Total, Max({lossFloor, other})})
           size == Min({Total - floor, Capacity, n})
<1>1. Total \in Nat /\ lossFloor \in Nat /\ retuneFloor \in Nat /\ lossFloor <= retuneFloor /\ retuneFloor <= Total
  BY DEF RingTyped, Total
<1>2. other \in Nat /\ other <= Total
  BY <1>1
<1>3. Max({lossFloor, other}) = IF lossFloor >= other THEN lossFloor ELSE other
  <2> HIDE DEF other
  <2> QED
    BY <1>1, <1>2, Greater
<1>4. /\ Max({lossFloor, other}) \in Nat /\ Max({lossFloor, other}) <= Total
      /\ Max({lossFloor, other}) >= lossFloor /\ (near => Max({lossFloor, other}) >= retuneFloor)
  BY <1>1, <1>2, <1>3
<1>5. floor = Max({lossFloor, other})
  <2> DEFINE most == Max({lossFloor, other})
  <2> HIDE DEF most
  <2>1. most \in Nat /\ most <= Total
    BY <1>4 DEF most
  <2>2. Min({Total, most}) = IF Total <= most THEN Total ELSE most
    BY <1>1, <2>1, Smaller
  <2> QED
    BY <1>1, <2>1, <2>2 DEF most
<1>6. RecentFrom(n, near) = Total - size
  BY DEF RecentFrom
<1> HIDE DEF other, floor
<1>7. floor \in Nat /\ floor <= Total /\ floor >= lossFloor /\ (near => floor >= retuneFloor)
  BY <1>4, <1>5
<1>8. size \in Nat /\ size <= Total - floor /\ size <= Capacity
  <2>1. Total - floor \in Nat
    BY <1>1, <1>7
  <2> QED
    BY <2>1, SmallestOfThree
<1> HIDE DEF size
<1>9. /\ Total - size \in lossFloor..Total /\ Total - (Total - size) <= Capacity
      /\ near => Total - size >= retuneFloor
  BY <1>1, <1>7, <1>8
<1> QED
  BY <1>6, <1>9

(* The parts of what is known of the engine's cursor and of its snapshot.    *)
CursorHeard ==
    sat.valid /\ sat.epoch = epoch =>
       /\ sat.next \in retuneFloor..Total /\ (sat.early <=> sat.next = retuneFloor)
       /\ ~sat.early => stream[sat.next].id = satHeard
SnapHolds ==
    snap # None /\ snap.epoch = epoch =>
       /\ snap.to \in retuneFloor..Total /\ (snap.early <=> snap.to = retuneFloor)
       /\ \A i \in 1..Len(snap.ids) : snap.ids[i] = stream[snap.from + i].id
SnapJoins == snap # None => snap.epoch <= epoch /\ Len(snap.ids) = snap.to - snap.from
SnapContinues ==
    snap # None /\ sat.valid /\ sat.epoch = snap.epoch /\ sat.next \in snap.from..snap.to =>
       /\ JoinedFrom(snap.ids, sat.next - snap.from)
       /\ ~sat.early =>
            /\ sat.next > snap.from => snap.ids[sat.next - snap.from] = satHeard
            /\ sat.next < snap.to => snap.ids[sat.next - snap.from + 1] = satHeard + 1
SatInv ==
    /\ SatelliteTyped /\ sat.epoch <= epoch
    /\ CursorHeard /\ SnapHolds /\ SnapJoins /\ SnapContinues
    /\ SatelliteStream

LEMMA SatInit ==
    ASSUME Init
    PROVE  SatInv
<1>1. SatelliteTyped
  BY DEF Init, SatelliteTyped, NoWindow, NoCursor, Windows, SatCursors
<1>2. CursorHeard /\ SnapHolds /\ SnapJoins /\ SnapContinues /\ sat.epoch <= epoch
  BY DEF Init, NoCursor, CursorHeard, SnapHolds, SnapJoins, SnapContinues
<1>3. SatelliteStream
  BY DEF Init, NoWindow, SatelliteStream, Continues
<1> QED
  BY <1>1, <1>2, <1>3 DEF SatInv

LEMMA SatStep ==
    ASSUME RingInv, SatInv, [Next]_vars
    PROVE  SatInv'
<1> HIDE DEF RingAssumption
<1>0. /\ RingTyped /\ RingTyped' /\ SatelliteTyped /\ EpochGoesOn /\ UNCHANGED use
      /\ Total \in Nat /\ Total' \in Nat /\ epoch \in Nat /\ epoch' \in Nat /\ retuneFloor \in Nat
  BY RingStep, EpochStep DEF RingInv, RingTyped, SatInv, Total
<1>1. CASE UNCHANGED satVars
  <2>1. UNCHANGED <<sat, snap, satHeard, satGot>> /\ SatelliteTyped'
    BY <1>0, <1>1 DEF satVars, SatelliteTyped
  <2>2. epoch <= epoch'
    BY <1>0 DEF EpochGoesOn
  <2>3. sat.epoch \in Nat /\ sat.next \in Nat /\ (snap # None => snap \in Snaps)
    BY <1>0 DEF SatelliteTyped, SatCursors
  <2>4. CursorHeard' /\ SnapHolds'
    <3>1. CASE epoch' > epoch
      BY <1>0, <2>1, <2>3, <3>1 DEF SatInv, CursorHeard, SnapHolds, SnapJoins, Snaps
    <3>2. CASE /\ UNCHANGED <<epoch, retuneFloor, lossFloor>> /\ Total' >= Total
               /\ \A i \in 1..Total : stream'[i] = stream[i]
      <4>1. CursorHeard'
        <5>1. SUFFICES ASSUME sat.valid, sat.epoch = epoch
                       PROVE  /\ sat.next \in retuneFloor..Total' /\ (sat.early <=> sat.next = retuneFloor)
                              /\ ~sat.early => stream'[sat.next].id = satHeard
          BY <2>1, <3>2 DEF CursorHeard
        <5>2. /\ sat.next \in retuneFloor..Total /\ (sat.early <=> sat.next = retuneFloor)
              /\ ~sat.early => stream[sat.next].id = satHeard
          BY <5>1 DEF SatInv, CursorHeard
        <5>3. ~sat.early => sat.next \in 1..Total
          BY <1>0, <2>3, <5>2
        <5> QED
          BY <1>0, <3>2, <5>2, <5>3
      <4>2. SnapHolds'
        <5>1. SUFFICES ASSUME snap # None, snap.epoch = epoch
                       PROVE  /\ snap.to \in retuneFloor..Total' /\ (snap.early <=> snap.to = retuneFloor)
                              /\ \A i \in 1..Len(snap.ids) : snap.ids[i] = stream'[snap.from + i].id
          BY <2>1, <3>2 DEF SnapHolds
        <5>2. /\ snap.to \in retuneFloor..Total /\ snap.from \in Nat /\ snap.to \in Nat
              /\ (snap.early <=> snap.to = retuneFloor)
              /\ \A i \in 1..Len(snap.ids) : snap.ids[i] = stream[snap.from + i].id
              /\ Len(snap.ids) = snap.to - snap.from
          BY <2>3, <5>1 DEF SatInv, SnapHolds, SnapJoins, Snaps
        <5>3. \A i \in 1..Len(snap.ids) : stream'[snap.from + i] = stream[snap.from + i]
          BY <1>0, <3>2, <5>2
        <5>4. snap.to \in retuneFloor..Total'
          BY <1>0, <3>2, <5>2
        <5> QED
          BY <5>2, <5>3, <5>4
      <4> QED
        BY <4>1, <4>2
    <3> QED
      BY <1>0, <3>1, <3>2 DEF EpochGoesOn
  <2>5. SnapJoins' /\ SnapContinues' /\ SatelliteStream' /\ sat'.epoch <= epoch'
    <3>1. sat'.epoch <= epoch'
      BY <1>0, <2>1, <2>2, <2>3 DEF SatInv
    <3>2. SnapJoins'
      <4>1. snap # None => snap.epoch <= epoch /\ snap.epoch \in Nat
        BY <2>3 DEF SatInv, SnapJoins, Snaps
      <4> QED
        BY <1>0, <2>1, <2>2, <4>1 DEF SatInv, SnapJoins
    <3>3. SnapContinues' /\ SatelliteStream'
      BY <2>1 DEF SatInv, SnapContinues, JoinedFrom, SatelliteStream, Continues, Joined
    <3> QED
      BY <3>1, <3>2, <3>3
  <2> QED
    BY <2>1, <2>4, <2>5 DEF SatInv
<1>2. ASSUME Satellite PROVE SatInv'
  <2>1. UNCHANGED radioVars /\ UNCHANGED <<epoch, retuneFloor, stream>> /\ Total' = Total
    BY <1>2 DEF Satellite, pullNewIq, consume, resetChronologicalInput, radioVars, Total
  <2>2. CASE pullNewIq
    <3>1. /\ UNCHANGED <<sat, satHeard, satGot, satResets>> /\ snaps' = snaps + 1 /\ snaps < use.snaps
          /\ snap' = [from |-> RecentFrom(Capacity, FALSE), to |-> Total, epoch |-> epoch,
                      ids |-> Ids(Copy(RecentFrom(Capacity, FALSE), Total)), early |-> Total = retuneFloor]
      BY <2>2 DEF pullNewIq
    <3>2. snaps' \in Nat
      BY <1>0, <3>1 DEF SatelliteTyped
    <3> DEFINE from == RecentFrom(Capacity, FALSE)
               ids == Ids(Copy(from, Total))
    <3>4. from \in lossFloor..Total /\ Total - from <= Capacity
      <4>1. Capacity \in Nat
        BY DEF RingAssumption
      <4> QED
        BY <1>0, <4>1, RecentBegins
    <3>6. snap' = [from |-> from, to |-> Total, epoch |-> epoch, ids |-> ids, early |-> Total = retuneFloor]
      BY <3>1
    <3> HIDE DEF from
    <3>5. from \in Nat /\ from <= Total /\ Total - from <= Capacity
      BY <1>0, <3>4 DEF RingTyped
    <3>7. ids \in Seq(Nat) /\ Len(ids) = Total - from
          /\ \A i \in 1..(Total - from) : ids[i] = stream[from + i].id
      <4>1. stream \in Seq(Sample) /\ Total <= Total
        BY <1>0 DEF RingTyped
      <4> QED
        BY <1>0, <3>5, <4>1, Copied
    <3> HIDE DEF ids
    <3>9. SatelliteTyped'
      <4>1. snap' \in Snaps
        BY <1>0, <3>5, <3>6, <3>7 DEF Snaps
      <4> QED
        BY <1>0, <3>1, <3>2, <4>1 DEF SatelliteTyped
    <3>10. CursorHeard' /\ sat'.epoch <= epoch' /\ SatelliteStream'
      BY <2>1, <3>1 DEF SatInv, CursorHeard, SatelliteStream, Continues, Joined
    <3>11. SnapHolds' /\ SnapJoins'
      <4>1. snap'.from = from /\ snap'.to = Total /\ snap'.epoch = epoch /\ snap'.ids = ids
            /\ snap'.early = (Total = retuneFloor)
        BY <3>6
      <4>2. SnapHolds'
        <5>1. \A i \in 1..Len(ids) : ids[i] = stream[from + i].id
          BY <3>7
        <5>2. Total \in retuneFloor..Total
          BY <1>0 DEF RingTyped
        <5> QED
          BY <2>1, <4>1, <5>1, <5>2 DEF SnapHolds
      <4>3. SnapJoins'
        BY <1>0, <2>1, <3>7, <4>1 DEF SnapJoins
      <4> QED
        BY <4>2, <4>3
    <3>12. SnapContinues'
      <4>1. SUFFICES ASSUME sat.valid, sat.epoch = epoch, sat.next \in from..Total
                     PROVE  /\ JoinedFrom(ids, sat.next - from)
                            /\ ~sat.early =>
                                 /\ sat.next > from => ids[sat.next - from] = satHeard
                                 /\ sat.next < Total => ids[sat.next - from + 1] = satHeard + 1
        <5>1. snap'.from = from /\ snap'.to = Total /\ snap'.epoch = epoch /\ snap'.ids = ids
          BY <3>6
        <5>2. sat' = sat /\ satHeard' = satHeard
          BY <3>1
        <5> QED
          BY <2>1, <5>1, <5>2 DEF SnapContinues, JoinedFrom
      <4>2. /\ sat.next \in retuneFloor..Total /\ (sat.early <=> sat.next = retuneFloor)
            /\ ~sat.early => stream[sat.next].id = satHeard
        BY <4>1 DEF SatInv, CursorHeard
      <4>3. PICK next \in Nat : next = sat.next /\ next >= from /\ next <= Total /\ next >= retuneFloor
        BY <1>0, <3>5, <4>1, <4>2
      <4>4. ASSUME NEW i \in (next - from + 1)..(Total - from - 1) PROVE ids[i + 1] = ids[i] + 1
        <5>1. /\ i \in 1..(Total - from) /\ i + 1 \in 1..(Total - from)
              /\ from + i \in (retuneFloor + 1)..(Total - 1) /\ from + (i + 1) = from + i + 1
          BY <1>0, <3>5, <4>3
        <5>2. stream[from + i + 1].id = stream[from + i].id + 1
          BY <5>1 DEF RingInv
        <5>3. ids[i] = stream[from + i].id /\ ids[i + 1] = stream[from + (i + 1)].id
          BY <3>7, <5>1
        <5> QED
          BY <5>1, <5>2, <5>3
      <4>5. JoinedFrom(ids, sat.next - from)
        BY <3>7, <4>3, <4>4 DEF JoinedFrom
      <4>6. ASSUME ~sat.early, next > from PROVE ids[next - from] = satHeard
        <5>1. next - from \in 1..(Total - from) /\ from + (next - from) = next
          BY <1>0, <3>5, <4>3, <4>6
        <5>2. ids[next - from] = stream[from + (next - from)].id
          BY <3>7, <5>1
        <5> QED
          BY <4>2, <4>3, <4>6, <5>1, <5>2
      <4>7. ASSUME ~sat.early, next < Total PROVE ids[next - from + 1] = satHeard + 1
        <5>1. /\ next - from + 1 \in 1..(Total - from) /\ from + (next - from + 1) = next + 1
              /\ next \in (retuneFloor + 1)..(Total - 1)
          BY <1>0, <3>5, <4>2, <4>3, <4>7
        <5>2. stream[next + 1].id = stream[next].id + 1
          BY <5>1 DEF RingInv
        <5>3. ids[next - from + 1] = stream[from + (next - from + 1)].id
          BY <3>7, <5>1
        <5> QED
          BY <4>2, <4>3, <4>7, <5>1, <5>2, <5>3
      <4> QED
        BY <4>3, <4>5, <4>6, <4>7
    <3> QED
      BY <3>9, <3>10, <3>11, <3>12 DEF SatInv
  <2>3. CASE consume
    <3>1. snap # None /\ snap' = None /\ UNCHANGED <<snaps, satResets>>
      BY <2>3 DEF consume
    <3>2. SnapHolds' /\ SnapJoins' /\ SnapContinues'
      BY <3>1 DEF SnapHolds, SnapJoins, SnapContinues
    <3>3. /\ snap.from \in Nat /\ snap.to \in Nat /\ snap.epoch \in Nat /\ snap.ids \in Seq(Nat)
          /\ Len(snap.ids) = snap.to - snap.from /\ snap.epoch <= epoch /\ snap.early \in BOOLEAN
      BY <1>0, <3>1 DEF SatelliteTyped, Snaps, SatInv, SnapJoins
    <3>4. CASE snap.ids = <<>>
      <4>1. UNCHANGED <<sat, satHeard, satGot>>
        BY <2>3, <3>4 DEF consume
      <4>2. SatelliteTyped'
        BY <1>0, <3>1, <4>1 DEF SatelliteTyped
      <4>3. CursorHeard' /\ sat'.epoch <= epoch' /\ SatelliteStream'
        BY <2>1, <4>1 DEF SatInv, CursorHeard, SatelliteStream, Continues, Joined
      <4> QED
        BY <3>2, <4>2, <4>3 DEF SatInv
    <3>5. CASE snap.ids # <<>>
      <4> DEFINE start == IF Stitches(snap) THEN sat.next ELSE snap.from
      <4>1. sat.next \in Nat /\ sat.epoch \in Nat /\ sat.early \in BOOLEAN /\ satHeard \in Nat \cup {None}
        BY <1>0 DEF SatelliteTyped, SatCursors
      <4>2. Stitches(snap) => sat.valid /\ sat.epoch = snap.epoch /\ sat.next \in snap.from..snap.to
        BY <3>3, <4>1 DEF Stitches
      <4>3. start \in snap.from..snap.to /\ snap.from < snap.to
        <5>1. Len(snap.ids) > 0
          BY <3>3, <3>5
        <5> QED
          BY <3>3, <4>1, <4>2, <5>1
      <4>4. PICK from \in Nat : from = start
        BY <3>3, <4>3
      <4> DEFINE ids == SubSeq(snap.ids, from - snap.from + 1, Len(snap.ids))
      <4>5. /\ ids \in Seq(Nat) /\ Len(ids) = snap.to - from
            /\ JoinedFrom(snap.ids, from - snap.from) => Joined(ids)
            /\ \A i \in 1..(snap.to - from) : ids[i] = snap.ids[from - snap.from + i]
        <5>1. PICK f \in Nat, t \in Nat, q \in Seq(Nat) : f = snap.from /\ t = snap.to /\ q = snap.ids
          BY <3>3
        <5>2. f <= from /\ from <= t /\ Len(q) = t - f
          BY <3>3, <4>3, <4>4, <5>1
        <5>3. /\ SubSeq(q, from - f + 1, Len(q)) \in Seq(Nat)
              /\ Len(SubSeq(q, from - f + 1, Len(q))) = t - from
              /\ \A i \in 1..(t - from) : SubSeq(q, from - f + 1, Len(q))[i] = q[from - f + i]
              /\ JoinedFrom(q, from - f) => Joined(SubSeq(q, from - f + 1, Len(q)))
          BY <5>2, SnapshotCut
        <5> QED
          BY <5>1, <5>3
      <4>6. /\ sat' = [valid |-> TRUE, next |-> snap.to, epoch |-> snap.epoch, early |-> snap.early]
            /\ satGot' = [gap |-> ~Stitches(snap), prev |-> satHeard, ids |-> ids, excused |-> sat.early]
            /\ satHeard' = IF ids = <<>> THEN satHeard ELSE Last(ids)
        BY <2>3, <3>5, <4>4 DEF consume
      <4> HIDE DEF ids, start
      <4>7. satHeard' \in Nat \cup {None} /\ (ids # <<>> => Last(ids) = ids[snap.to - from] /\ snap.to > from)
        <5>1. CASE ids = <<>>
          BY <4>1, <4>6, <5>1
        <5>2. CASE ids # <<>>
          <6>1. Len(ids) \in 1..Len(ids) /\ Last(ids) \in Nat
            BY <4>5, <5>2 DEF Last
          <6>2. snap.to > from
            BY <3>3, <4>4, <4>5, <6>1
          <6> QED
            BY <4>5, <4>6, <5>2, <6>1, <6>2 DEF Last
        <5> QED
          BY <5>1, <5>2
      <4>8. SatelliteTyped'
        <5>1. Stitches(snap) \in BOOLEAN
          BY <1>0 DEF Stitches, SatelliteTyped
        <5>2. satGot' \in Windows
          BY <4>1, <4>5, <4>6, <5>1 DEF Windows
        <5>3. sat' \in SatCursors
          BY <3>3, <4>6 DEF SatCursors
        <5> QED
          BY <1>0, <3>1, <4>7, <5>2, <5>3 DEF SatelliteTyped
      <4>9. sat'.epoch <= epoch'
        BY <2>1, <3>3, <4>6
      <4>10. ASSUME Stitches(snap)
             PROVE  /\ from = sat.next /\ JoinedFrom(snap.ids, from - snap.from)
                    /\ ~sat.early =>
                         /\ from > snap.from => snap.ids[from - snap.from] = satHeard
                         /\ from < snap.to => snap.ids[from - snap.from + 1] = satHeard + 1
        <5>1. from = sat.next
          BY <4>4, <4>10 DEF start
        <5>2. SnapContinues
          BY DEF SatInv
        <5> QED
          BY <3>1, <4>2, <4>10, <5>1, <5>2 DEF SnapContinues
      <4>11. CursorHeard'
        <5>1. SUFFICES ASSUME snap.epoch = epoch
                       PROVE  /\ snap.to \in retuneFloor..Total /\ (snap.early <=> snap.to = retuneFloor)
                              /\ ~snap.early => stream[snap.to].id = satHeard'
          BY <2>1, <4>6 DEF CursorHeard
        <5>2. /\ snap.to \in retuneFloor..Total /\ (snap.early <=> snap.to = retuneFloor)
              /\ \A i \in 1..Len(snap.ids) : snap.ids[i] = stream[snap.from + i].id
          BY <3>1, <5>1 DEF SatInv, SnapHolds
        <5>3. snap.to - snap.from \in 1..Len(snap.ids) /\ snap.from + (snap.to - snap.from) = snap.to
          BY SMTT(30), <3>3, <4>3
        <5>4. snap.ids[snap.to - snap.from] = stream[snap.to].id
          BY <5>2, <5>3
        <5>5. ASSUME ids = <<>>, ~snap.early PROVE stream[snap.to].id = satHeard'
          <6>1. from = snap.to
            BY <3>3, <4>3, <4>4, <4>5, <5>5
          <6>2. Stitches(snap) /\ from > snap.from
            BY <3>3, <4>3, <4>4, <6>1 DEF start
          <6>3. sat.valid /\ sat.epoch = epoch /\ sat.next = snap.to
            BY <4>2, <4>10, <5>1, <6>1, <6>2
          <6>4. ~sat.early
            BY <5>2, <5>5, <6>3 DEF SatInv, CursorHeard
          <6>5. snap.ids[from - snap.from] = satHeard
            BY <4>10, <6>2, <6>4
          <6> QED
            BY <4>6, <5>4, <5>5, <6>1, <6>5
        <5>6. ASSUME ids # <<>> PROVE stream[snap.to].id = satHeard'
          <6>0. snap.to > from /\ snap.to \in Nat /\ snap.from \in Nat
            BY <3>3, <4>7, <5>6
          <6>1. snap.to - from \in 1..(snap.to - from) /\ from - snap.from + (snap.to - from) = snap.to - snap.from
            BY <6>0
          <6>2. ids[snap.to - from] = snap.ids[snap.to - snap.from]
            BY <4>5, <6>1
          <6> QED
            BY <4>6, <4>7, <5>4, <5>6, <6>2
        <5> QED
          BY <5>2, <5>5, <5>6
      <4>13. ASSUME ids # <<>>, Stitches(snap), ~sat.early PROVE Head(ids) = satHeard + 1
        <5>1. snap.to > from
          BY <4>7, <4>13
        <5>2. 1 \in 1..(snap.to - from)
          BY <3>3, <5>1
        <5>3. ids[1] = snap.ids[from - snap.from + 1]
          BY <4>5, <5>2
        <5>4. Head(ids) = ids[1]
          BY DEF Head
        <5> QED
          BY <4>10, <4>13, <5>1, <5>3, <5>4
      <4>14. SatelliteStream'
        <5>1. /\ satGot'.ids = ids /\ satGot'.prev = satHeard /\ (~satGot'.gap => Stitches(snap))
              /\ satGot'.excused = sat.early
          BY <4>6
        <5>2. satGot'.excused \/ Continues(satGot')
          BY <4>13, <5>1 DEF Continues
        <5>3. ~satGot'.gap => Joined(ids)
          BY <4>5, <4>10, <5>1
        <5> QED
          BY <5>1, <5>2, <5>3 DEF SatelliteStream, Continues, Joined
      <4> QED
        BY <3>2, <4>8, <4>9, <4>11, <4>14 DEF SatInv
    <3> QED
      BY <3>4, <3>5
  <2>4. CASE resetChronologicalInput
    <3>1. /\ sat' = NoCursor /\ satHeard' = None
          /\ satResets' = satResets + 1 /\ UNCHANGED <<snap, satGot, snaps>>
      BY <2>4 DEF resetChronologicalInput
    <3>2. SatelliteTyped' /\ sat'.epoch <= epoch' /\ ~sat'.valid
      BY <1>0, <3>1 DEF SatelliteTyped, NoCursor, SatCursors
    <3>3. SnapHolds' /\ SnapJoins' /\ SatelliteStream'
      BY <2>1, <3>1 DEF SatInv, SnapHolds, SnapJoins, SatelliteStream, Continues, Joined
    <3> QED
      BY <3>2, <3>3 DEF SatInv, CursorHeard, SnapContinues
  <2> QED
    BY <1>2, <2>2, <2>3, <2>4 DEF Satellite
<1>3. Radio => UNCHANGED satVars
  BY DEF Radio, appendIQBlock, Overflow, markStreamRetune, resetStreamBuffers
<1>4. ASSUME NEW r \in use.reads, Read(r) PROVE UNCHANGED satVars
  BY <1>4 DEF Read, Switch, Look, Enter, getNewIQWindowForReceiver, FeedFilters, FeedDecoders,
              Discard, ResetCursor, ResetSeenEpoch, setReceiverCursorToLiveEdge
<1> QED
  BY <1>1, <1>2, <1>3, <1>4 DEF Next, vars

-----------------------------------------------------------------------------
(* What a filter, a data decoder or a session takes for the continuation of  *)
(* what it heard before is that: losses, retunes, resets, overruns and       *)
(* catching up are all marked.  Only filters whose window before was thrown  *)
(* away, and a receiver that was moved to another radio, are excepted        *)
(* (GapsAreSeen).  RingSizes is what the program's own sizes are.            *)
THEOREM GapsReachTheReader ==
    ASSUME RingSizes
    PROVE  Spec => []GapsAreSeen
<1>1. Init => RingInv /\ PureInv /\ GapsInv
  BY RingInit, ReadersInit
<1>2. RingInv /\ PureInv /\ GapsInv /\ [Next]_vars => (RingInv /\ PureInv /\ GapsInv)'
  BY RingStep, ReadersStep, GapsStep
<1>3. GapsInv => GapsAreSeen
  BY DEF GapsInv, ReaderInv, GapsAreSeen
<1> QED
  BY <1>1, <1>2, <1>3, PTL DEF Spec

(* No window that is handed out spans a loss, a retune or a reset, and       *)
(* neither does a snapshot of the current tuning of any length.              *)
THEOREM WindowsStayPure ==
    ASSUME RingSizes
    PROVE  Spec => []WindowsArePure
<1>1. Init => RingInv /\ PureInv
  BY RingInit, ReadersInit
<1>2. RingInv /\ PureInv /\ [Next]_vars => (RingInv /\ PureInv)'
  BY RingStep, ReadersStep
<1>3. ASSUME RingInv, NEW n \in 1..Total
      PROVE  Joined(Ids(Copy(RecentFrom(n, TRUE), Total)))
  <2> DEFINE from == RecentFrom(n, TRUE)
  <2>1. RingTyped /\ Total \in Nat /\ n \in Nat /\ retuneFloor \in Nat /\ lossFloor \in Nat
    BY <1>3 DEF RingInv, RingTyped, Total
  <2>2. from \in lossFloor..Total /\ from >= retuneFloor /\ Total - from <= Capacity
    BY <2>1, RecentBegins
  <2> HIDE DEF from
  <2>3. from \in retuneFloor..Total /\ Total \in from..Total
    BY <2>1, <2>2
  <2>4. Joined(Ids(Copy(from, Total)))
    BY <1>3, <2>2, <2>3, Copies
  <2> QED
    BY <2>4 DEF from
<1>4. RingInv /\ PureInv => WindowsArePure
  BY <1>3 DEF PureInv, WindowsArePure
<1> QED
  BY <1>1, <1>2, <1>4, PTL DEF Spec

(* What the satellite engine's cursor hands on unmarked continues what it    *)
(* handed on before, and nothing is missing in it, whatever the sizes and    *)
(* however far the radio is moved; only what follows a snapshot that was     *)
(* taken before the first sample of a new epoch is excepted.                 *)
THEOREM EngineHearsAStream == Spec => []SatelliteStream
<1>1. Init => RingInv /\ SatInv
  BY RingInit, SatInit
<1>2. RingInv /\ SatInv /\ [Next]_vars => (RingInv /\ SatInv)'
  BY RingStep, SatStep
<1>3. SatInv => SatelliteStream
  BY DEF SatInv
<1> QED
  BY <1>1, <1>2, <1>3, PTL DEF Spec
=============================================================================
