-------------------------------- MODULE IqRing --------------------------------
(***************************************************************************)
(* The sample ring of a receive stream (StreamState in                     *)
(* src/DeviceManager.cpp) and those who read it.  The receive thread       *)
(* appends blocks; hardware losses, retunes and stream resets begin a new  *)
(* epoch.  Receivers pull what is new to them through a cursor of absolute *)
(* sample numbers, snapshots take the newest samples, and the satellite    *)
(* engine makes a stream out of snapshots (include/SatcomIqCursor.h).      *)
(* A listener's window is fed to its filters or decoders only if the       *)
(* receiver's dspMutex is free (src/MainWindowP25Orchestration.cpp).       *)
(*                                                                         *)
(* Abstracted: a sample is its number at the antenna, which skips what the *)
(* radio lost, and the centre it was taken at.  A block is one or more     *)
(* samples; sizes are a few samples instead of thousands.                  *)
(***************************************************************************)
EXTENDS Integers, Sequences, SequencesExt, FiniteSetsExt

CONSTANTS
    Reader,       \* receivers that pull new samples
    None,
    Capacity,     \* ringCapacity
    MaxSamples,   \* the most one pull returns
    MaxLag,       \* the latency budget
    FadeLen,      \* length of the silence after an overrun
    Block,        \* sizes of the blocks the radio delivers
    Centre,       \* centre frequencies
    HopLimit,     \* a larger move begins a new epoch (25 kHz)
    Use           \* what reads the ring, with the bounds of the instance:
                  \*   reads      the receivers that pull: listeners and SSTV sessions
                  \*   lagging    the listeners; they have a latency budget
                  \*   data       those of them that stand for the data decoders of
                  \*              WFM and NFM; the others are AM, SSB, CW filters
                  \*   centres    where the radio may be tuned to
                  \*   made       sample numbers
                  \*   events     losses, retunes and stream resets
                  \*   switches   readers that come from another radio
                  \*   busy       times a listener's lock is held by the GUI
                  \*   snaps      snapshots of the satellite engine
                  \*   satResets  resets of its input

ASSUME RingAssumption ==
    /\ None \notin Nat
    /\ {Capacity, MaxSamples, MaxLag, FadeLen} \subseteq Nat \ {0}
    /\ Block \subseteq Nat \ {0} /\ Centre \subseteq Nat \ {0} /\ HopLimit \in Nat
    /\ \A u \in Use :
          /\ u.data \subseteq u.lagging /\ u.lagging \subseteq u.reads /\ u.reads \subseteq Reader
          /\ u.centres \subseteq Centre
          /\ {u.made, u.events, u.switches, u.busy, u.snaps, u.satResets} \subseteq Nat

VARIABLES
    use,          \* the instance that runs; never changes
    stream,       \* what was written since the last reset: the ring holds the
                  \* newest Capacity of it
    made, centre, events,             \* the radio
    epoch, retuneFloor, lossFloor,    \* streamEpoch, retuneValidFromAbsolute, hardwareLossFloor
    ringMutex,    \* the reader inside getNewIQWindowForReceiver
    rx,           \* cursor and last epoch of each receiver, and its reset
    pull,         \* what the reading loop looked at before and in the call
    hand,         \* the window a listener's loop pulled and has not fed yet
    mark,         \* rdsIqEpoch and rdsNextIq of the data decoders
    heard,        \* the last sample the reader's filters or decoders were fed
    got,          \* the last window they were fed
    missed,       \* ghost: a window for the filters was thrown away
    switches, busy,
    sat, snap, satHeard, satGot,      \* the satellite engine's input
    snaps, satResets

radioVars == <<stream, made, centre, events, epoch, retuneFloor, lossFloor>>
readVars == <<ringMutex, rx, pull, hand, mark, heard, got, missed, switches, busy>>
satVars == <<sat, snap, satHeard, satGot, snaps, satResets>>
vars == <<radioVars, readVars, satVars, use>>

Total == Len(stream)
NoWindow == [gap |-> TRUE, prev |-> None, ids |-> <<>>, excused |-> FALSE]
NoHand == [gap |-> FALSE, ids |-> <<>>, epoch |-> 0, from |-> 0]
Unmarked == [epoch |-> 0, next |-> 0]
Unlooked == [at |-> "idle", expected |-> 0, epoch |-> 0, last |-> 0]
NoCursor == [valid |-> FALSE, next |-> 0, epoch |-> 0, early |-> FALSE]

Init ==
    /\ use \in Use
    /\ stream = <<>> /\ made = 0 /\ centre \in use.centres /\ events = 0
    /\ epoch = 1 /\ retuneFloor = 0 /\ lossFloor = 0
    /\ ringMutex = None
    /\ rx = [r \in Reader |-> [last |-> 0, epoch |-> 0, clearing |-> FALSE]]
    /\ pull = [r \in Reader |-> Unlooked] /\ hand = [r \in Reader |-> NoHand]
    /\ mark = [r \in Reader |-> Unmarked]
    /\ heard = [r \in Reader |-> None] /\ got = [r \in Reader |-> NoWindow]
    /\ missed = [r \in Reader |-> FALSE] /\ switches = 0 /\ busy = 0
    /\ sat = NoCursor /\ snap = None
    /\ satHeard = None /\ satGot = NoWindow /\ snaps = 0 /\ satResets = 0

-----------------------------------------------------------------------------
(* The slot of an absolute number, and a window that is copied out.          *)
Newest(a) == a + Capacity * ((Total - 1 - a) \div Capacity)
Copy(from, to) == [i \in 1..(to - from) |-> stream[Newest(from + i - 1) + 1]]
Ids(w) == [i \in DOMAIN w |-> w[i].id]

-----------------------------------------------------------------------------
(* The radio and its receive thread; every action holds the ring's lock.     *)

appendIQBlock(n) ==
    /\ ringMutex = None /\ made + n <= use.made
    /\ stream' = stream \o [i \in 1..n |-> [id |-> made + i, centre |-> centre]]
    /\ made' = made + n
    /\ UNCHANGED <<centre, events, epoch, retuneFloor, lossFloor, readVars, satVars>>

Event == ringMutex = None /\ events < use.events /\ made < use.made /\ events' = events + 1

(* The radio reports a loss of unknown length.                               *)
Overflow ==
    /\ Event
    /\ made' = made + 1
    /\ lossFloor' = Total /\ retuneFloor' = Total /\ epoch' = epoch + 1
    /\ UNCHANGED <<stream, centre, readVars, satVars>>

Distance(a, b) == IF a < b THEN b - a ELSE a - b

markStreamRetune_NoFloor(c) ==
    /\ Event /\ c # centre
    /\ centre' = c
    /\ IF Distance(c, centre) > HopLimit
       THEN made' = made + 1 /\ epoch' = epoch + 1
       ELSE UNCHANGED <<made, epoch>>
    /\ UNCHANGED <<stream, retuneFloor, lossFloor, readVars, satVars>>

(* A tune is applied; a short move keeps the epoch.                          *)
markStreamRetune(c) ==
    /\ Event /\ c # centre
    /\ centre' = c
    /\ IF Distance(c, centre) > HopLimit
       THEN made' = made + 1 /\ retuneFloor' = Total /\ epoch' = epoch + 1
       ELSE UNCHANGED <<made, retuneFloor, epoch>>
    /\ UNCHANGED <<stream, lossFloor, readVars, satVars>>

resetStreamBuffers ==
    /\ Event
    /\ made' = made + 1
    /\ stream' = <<>> /\ retuneFloor' = 0 /\ lossFloor' = 0 /\ epoch' = epoch + 1
    /\ UNCHANGED <<centre, readVars, satVars>>

Radio ==
    \/ \E n \in Block : appendIQBlock(n)
    \/ Overflow \/ (\E c \in use.centres : markStreamRetune(c)) \/ resetStreamBuffers

-----------------------------------------------------------------------------
(* getNewIQWindowForReceiver: where the window begins.                       *)

BackTo(n) == IF Total > n THEN Total - n ELSE 0

(* A new epoch starts near the live edge, never before the retune; an old    *)
(* cursor below the retune moves up to it.                                   *)
Anchored(last, seen) ==
    IF seen # epoch THEN Max({BackTo(MaxSamples), retuneFloor})
    ELSE Max({last, retuneFloor})

(* A receiver without a cursor starts at the live edge.                      *)
Started(last) == IF last = 0 THEN BackTo(MaxSamples) ELSE last

Keep == Min({4 * MaxSamples, Max({MaxLag \div 4, MaxSamples})})

(* Too much waits for a listener with a latency budget.                      *)
CaughtUp(r, last) ==
    IF r \in use.lagging /\ Total - last > MaxLag THEN BackTo(Keep) ELSE last

SourceGap_EpochOnly(r, disc, from, empty) == disc \/ epoch # pull[r].epoch

(* What the loop makes of the window.  AM, SSB and CW compare it with the    *)
(* cursor and epoch they read before the call, an SSTV session with the      *)
(* epoch of its window before; WFM and NFM take an overrun alone.            *)
SourceGap(r, disc, from, empty) ==
    \/ disc
    \/ r \notin use.data /\ epoch # pull[r].epoch
    \/ r \in use.lagging \ use.data /\ ~empty /\ from # pull[r].expected

Hears(r, gap, ids, excused) ==
    /\ got' = [got EXCEPT ![r] =
                  [gap |-> gap, prev |-> heard[r], ids |-> ids, excused |-> excused]]
    /\ heard' = IF ids = <<>> THEN heard ELSE [heard EXCEPT ![r] = Last(ids)]

(* A listener's loop leaves with the window in hand, or goes on without one; *)
(* an SSTV session feeds it at once.                                         *)
Deliver(r, disc, from, to) ==
    LET ids == Ids(Copy(from, to))
        gap == SourceGap(r, disc, from, ids = <<>>)
    IN IF r \in use.lagging
       THEN /\ hand' = IF ids = <<>> THEN hand
                       ELSE [hand EXCEPT ![r] =
                               [gap |-> gap, ids |-> ids, epoch |-> epoch, from |-> from]]
            /\ pull' = [pull EXCEPT ![r] =
                          [Unlooked EXCEPT !.at = IF ids = <<>> THEN "idle" ELSE "pulled"]]
            /\ UNCHANGED <<heard, got>>
       ELSE /\ Hears(r, gap, ids, FALSE)
            /\ pull' = [pull EXCEPT ![r] =
                          [Unlooked EXCEPT !.epoch = IF ids = <<>> THEN pull[r].epoch ELSE epoch]]
            /\ UNCHANGED hand

Look(r) ==
    /\ pull[r].at = "idle"
    /\ pull' = [pull EXCEPT ![r].at = "looked", ![r].expected = rx[r].last,
                            ![r].epoch = IF r \in use.lagging THEN rx[r].epoch ELSE @]
    /\ UNCHANGED <<radioVars, ringMutex, rx, hand, mark, heard, got, missed, switches, busy, satVars>>

Enter(r) ==
    /\ pull[r].at = "looked" /\ ringMutex = None
    /\ ringMutex' = r
    /\ pull' = [pull EXCEPT ![r].at = "inside", ![r].last = rx[r].last]
    /\ UNCHANGED <<radioVars, rx, hand, mark, heard, got, missed, switches, busy, satVars>>

PullsNothing(r, last) ==
    /\ last = Total
    /\ rx' = [rx EXCEPT ![r].last = last]
    /\ Deliver(r, FALSE, last, last)

(* The cursor is of another stream clock.                                    *)
PullsRewound(r, last) ==
    /\ last > Total
    /\ rx' = [rx EXCEPT ![r].last = BackTo(MaxSamples)]
    /\ Deliver(r, TRUE, 0, 0)

(* Samples were overwritten before they were read: a short silence stands    *)
(* for the first of those that are left.                                     *)
PullsFade(r, last) ==
    /\ Total - last > Capacity
    /\ LET from == Total - (Capacity \div 2)
           to == from + Min({FadeLen, MaxSamples})
       IN /\ rx' = [rx EXCEPT ![r].last = to, ![r].epoch = epoch]
          /\ Deliver(r, TRUE, from, to)

PullsSamples(r, last) ==
    /\ last < Total /\ Total - last <= Capacity
    /\ LET to == last + Min({MaxSamples, Total - last})
       IN /\ rx' = [rx EXCEPT ![r].last = to, ![r].epoch = epoch]
          /\ Deliver(r, FALSE, last, to)

getNewIQWindowForReceiver(r) ==
    /\ pull[r].at = "inside"
    /\ LET anchored == Anchored(pull[r].last, rx[r].epoch)
           last == CaughtUp(r, Started(anchored))
       IN IF anchored > Total
          THEN PullsRewound(r, anchored)
          ELSE PullsNothing(r, last) \/ PullsFade(r, last) \/ PullsSamples(r, last)
    /\ ringMutex' = None
    /\ UNCHANGED <<radioVars, mark, missed, switches, busy, satVars>>

(* The receiver's lock is free: the window goes to the filters, which are    *)
(* reset first if it is marked.                                              *)
FeedFilters(r) ==
    /\ r \in use.lagging \ use.data
    /\ pull[r].at = "pulled" /\ ~rx[r].clearing
    /\ Hears(r, hand[r].gap, hand[r].ids, missed[r])
    /\ pull' = [pull EXCEPT ![r] = Unlooked] /\ hand' = [hand EXCEPT ![r] = NoHand]
    /\ missed' = [missed EXCEPT ![r] = FALSE]
    /\ UNCHANGED <<radioVars, ringMutex, rx, mark, switches, busy, satVars>>

MarkedBy(w) == [epoch |-> w.epoch, next |-> w.from + Len(w.ids)]

(* The data decoders keep a mark of their own.  After an overrun, and while   *)
(* they are not wanted (RDS when the speaker starves), they are reset and    *)
(* get nothing.                                                              *)
FeedDecoders(r, decodeData) ==
    /\ r \in use.data
    /\ pull[r].at = "pulled" /\ ~rx[r].clearing
    /\ IF decodeData /\ ~hand[r].gap
       THEN /\ Hears(r, mark[r] # [epoch |-> hand[r].epoch, next |-> hand[r].from],
                     hand[r].ids, FALSE)
            /\ mark' = [mark EXCEPT ![r] = MarkedBy(hand[r])]
       ELSE /\ Hears(r, TRUE, <<>>, FALSE)
            /\ mark' = [mark EXCEPT ![r] = Unmarked]
    /\ pull' = [pull EXCEPT ![r] = Unlooked] /\ hand' = [hand EXCEPT ![r] = NoHand]
    /\ UNCHANGED <<radioVars, ringMutex, rx, missed, switches, busy, satVars>>

(* The lock is held, by the reset below or by the GUI, and the loop goes on   *)
(* without the window and what was known of it.                              *)
Discard(r) ==
    /\ r \in use.lagging /\ pull[r].at = "pulled"
    /\ IF rx[r].clearing THEN UNCHANGED busy ELSE busy < use.busy /\ busy' = busy + 1
    /\ pull' = [pull EXCEPT ![r] = Unlooked] /\ hand' = [hand EXCEPT ![r] = NoHand]
    /\ missed' = [missed EXCEPT ![r] = r \notin use.data]
    /\ UNCHANGED <<radioVars, ringMutex, rx, mark, heard, got, switches, satVars>>

(* The operator changes the receiver: resetDemodState clears the filters and *)
(* then the cursor, with the receiver's lock but without the ring's.  The    *)
(* data decoders keep what they have.                                        *)
ResetCursor(r) ==
    /\ r \in use.lagging /\ ~rx[r].clearing
    /\ rx[r].epoch # 0
    /\ rx' = [rx EXCEPT ![r].last = 0, ![r].clearing = TRUE]
    /\ heard' = IF r \in use.data THEN heard ELSE [heard EXCEPT ![r] = None]
    /\ UNCHANGED <<radioVars, ringMutex, pull, hand, mark, got, missed, switches, busy, satVars>>

ResetSeenEpoch(r) ==
    /\ rx[r].clearing
    /\ rx' = [rx EXCEPT ![r].epoch = 0, ![r].clearing = FALSE]
    /\ UNCHANGED <<radioVars, ringMutex, pull, hand, mark, heard, got, missed, switches, busy, satVars>>

(* An SSTV session begins.                                                   *)
setReceiverCursorToLiveEdge(r) ==
    /\ r \notin use.lagging /\ rx[r].epoch = 0 /\ pull[r].at = "idle" /\ ringMutex = None
    /\ rx' = [rx EXCEPT ![r].last = Total, ![r].epoch = epoch]
    /\ UNCHANGED <<radioVars, ringMutex, pull, hand, mark, heard, got, missed, switches, busy, satVars>>

(* The operator chooses another radio to listen to: the receiver keeps the    *)
(* cursor, the epoch and the filters it had on the radio before.             *)
Elsewhere == use.made + 2
Switch(r) ==
    /\ r \in use.lagging /\ switches < use.switches /\ pull[r].at = "idle"
    /\ switches' = switches + 1
    /\ \E last \in 1..use.made, seen \in 1..(use.events + 1) :
          rx' = [rx EXCEPT ![r].last = last, ![r].epoch = seen]
    /\ heard' = [heard EXCEPT ![r] = Elsewhere]
    /\ UNCHANGED <<radioVars, ringMutex, pull, hand, mark, got, missed, busy, satVars>>

Read(r) ==
    \/ Switch(r)
    \/ Look(r) \/ Enter(r) \/ getNewIQWindowForReceiver(r)
    \/ FeedFilters(r) \/ (\E decodeData \in BOOLEAN : FeedDecoders(r, decodeData)) \/ Discard(r)
    \/ ResetCursor(r) \/ ResetSeenEpoch(r) \/ setReceiverCursorToLiveEdge(r)

-----------------------------------------------------------------------------
(* getRecentIQWindowWithCursor, and the satellite engine's cursor on it.     *)

RecentFrom(n, currentTuningOnly) ==
    LET floor == Min({Total, Max({lossFloor, IF currentTuningOnly THEN retuneFloor ELSE 0})})
    IN Total - Min({Total - floor, Capacity, n})

(* Ghost: early, the epoch has begun and none of its samples has come.       *)
pullNewIq ==
    /\ snap = None /\ ringMutex = None /\ snaps < use.snaps
    /\ snaps' = snaps + 1
    /\ snap' = [from |-> RecentFrom(Capacity, FALSE), to |-> Total, epoch |-> epoch,
                ids |-> Ids(Copy(RecentFrom(Capacity, FALSE), Total)),
                early |-> Total = retuneFloor]
    /\ UNCHANGED <<radioVars, readVars, sat, satHeard, satGot, satResets>>

Stitches_AnyEpoch(w) == sat.valid /\ w.to >= sat.next /\ sat.next >= w.from

Stitches(w) ==
    sat.valid /\ w.epoch = sat.epoch /\ w.to >= sat.next /\ sat.next >= w.from

(* A snapshot that continues the last one is cut to what is new; any other   *)
(* is delivered whole and marked.                                            *)
consume ==
    /\ snap # None
    /\ snap' = None
    /\ IF snap.ids = <<>> THEN UNCHANGED <<sat, satHeard, satGot>>
       ELSE LET from == IF Stitches(snap) THEN sat.next ELSE snap.from
                ids == SubSeq(snap.ids, from - snap.from + 1, Len(snap.ids))
            IN /\ sat' = [valid |-> TRUE, next |-> snap.to, epoch |-> snap.epoch, early |-> snap.early]
               /\ satGot' = [gap |-> ~Stitches(snap), prev |-> satHeard, ids |-> ids,
                             excused |-> sat.early]
               /\ satHeard' = IF ids = <<>> THEN satHeard ELSE Last(ids)
    /\ UNCHANGED <<radioVars, readVars, snaps, satResets>>

(* The demodulator is reset with the cursor.                                 *)
resetChronologicalInput ==
    /\ satResets < use.satResets
    /\ satResets' = satResets + 1
    /\ sat' = NoCursor
    /\ satHeard' = None
    /\ UNCHANGED <<radioVars, readVars, snap, satGot, snaps>>

Satellite == pullNewIq \/ consume \/ resetChronologicalInput

Next == /\ Radio \/ Satellite \/ \E r \in use.reads : Read(r)
        /\ UNCHANGED use

Spec == Init /\ [][Next]_vars

-----------------------------------------------------------------------------
(* What the program's sizes have in common: a latency budget holds at least  *)
(* what one pull returns (half a second of samples against 25 ms of them),   *)
(* and the silence after an overrun fits into the half of the ring that is   *)
(* left (256 samples against 16 million).                                    *)
RingSizes == MaxSamples <= MaxLag /\ FadeLen <= Capacity \div 2

Joined(ids) == \A i \in 1..(Len(ids) - 1) : ids[i + 1] = ids[i] + 1

Continues(w) == w.prev # None /\ w.ids # <<>> /\ ~w.gap => Head(w.ids) = w.prev + 1

(* What a reader takes for the continuation of the samples before is that:   *)
(* losses, retunes, stream resets, overruns and catching up never reach the  *)
(* AM, SSB and CW filters, the data decoders of WFM and NFM, or an SSTV      *)
(* session unseen, whichever way the operator's resets fall between their    *)
(* steps (DEC-0171, DEC-0217; "preserve gap evidence").  Excepted are a       *)
(* receiver that was moved to another radio, and AM, SSB and CW filters      *)
(* whose window before was thrown away because the receiver's lock was held: *)
(* that gap the code does not see.                                           *)
GapsAreSeen == switches = 0 => \A r \in Reader : got[r].excused \/ Continues(got[r])

(* No window has a loss, a retune or a reset in the middle, and a snapshot of *)
(* the current tuning spans neither a loss nor a move beyond the limit nor a  *)
(* reset, however long it is (DEC-0194).                                      *)
WindowsArePure ==
    /\ \A r \in Reader : Joined(got[r].ids)
    /\ \A n \in 1..Total : Joined(Ids(Copy(RecentFrom(n, TRUE), Total)))

(* What the satellite engine's cursor hands on unmarked continues what it    *)
(* handed on before, and nothing is missing in it (DEC-0217), however far    *)
(* the radio is moved.  Excepted is what follows a snapshot that was taken   *)
(* after the move and before the first sample of the new centre: it has the  *)
(* epoch of what follows and none of its samples.                            *)
SatelliteStream ==
    /\ satGot.excused \/ Continues(satGot)
    /\ ~satGot.gap => Joined(satGot.ids)
=============================================================================
