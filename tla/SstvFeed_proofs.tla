---------------------------- MODULE SstvFeed_proofs ----------------------------
(***************************************************************************)
(* The SSTV feed, for any number of sessions, any size of the queue and    *)
(* any source: it keeps its types, it never lets a closed queue grow, its  *)
(* worker meets no event it must refuse, and no block is spliced to one    *)
(* that it does not follow.  The first two rest on the push that looks at  *)
(* the queue's active_ again under the queue's own lock; the others on an  *)
(* invariant of what the queue holds (QueueInv), of the worker and its     *)
(* queue (LinkInv), and of the last block queued and the source (Agrees).  *)
(***************************************************************************)
EXTENDS SstvFeed, SequenceTheorems, TLAPS

USE FeedAssumption DEF FeedAssumption

(* The source numbers what it makes, and the receive loop carries a block    *)
(* exactly when it publishes one.                                            *)
Carries ==
    /\ source \in [n : 0..use.blocks, epoch : Nat, first : Nat, cut : BOOLEAN]
    /\ source.epoch <= source.n /\ source.first <= source.n
    /\ rx \in [at : {"idle", "gate", "missed", "push", "contended"}, kind : Kind,
               block : Block \cup {None}]
    /\ rx.kind = "block" => rx.block \in Block
    /\ worker \in [Session -> [last : Block \cup {None}, gen : Nat, gapGen : Nat]]

FeedInv == TypeOK /\ Carries

-----------------------------------------------------------------------------
(* The calls of SstvLiveInput keep its type, and none but an admitted push   *)
(* makes the queue longer.                                                   *)

LEMMA ResetTyped ==
    ASSUME NEW in \in Events
    PROVE  resetLocked(in) \in Events /\ resetLocked(in).queue = <<>>
<1>1. <<>> \in Seq(Block)
  OBVIOUS
<1>2. in.gen + 1 \in Nat
  BY DEF Events
<1> HIDE DEF Block
<1> QED
  BY <1>1, <1>2 DEF Events, resetLocked

LEMMA PendingTyped ==
    ASSUME NEW in \in Events
    PROVE  /\ pendingLocked(in) \in Events
           /\ pendingLocked(in).queue \in {in.queue, <<>>}
           /\ pendingLocked(in).active = in.active
<1>1. [in EXCEPT !.pending = FALSE] \in Events
  BY DEF Events
<1> QED
  BY <1>1, ResetTyped DEF Events, pendingLocked, resetLocked

LEMMA CallsTyped ==
    ASSUME NEW in \in Events
    PROVE  /\ invalidate(in) \in Events /\ invalidate(in).queue = in.queue
           /\ stop(in) \in Events /\ stop(in).queue = <<>>
           /\ finish(in) \in Events /\ finish(in).queue \in {in.queue, <<>>}
<1> DEFINE closed == [in EXCEPT !.active = FALSE]
<1>1. closed \in Events /\ closed.queue = in.queue
  BY DEF Events
<1>2. (in.pending \/ in.active) \in BOOLEAN
  OBVIOUS
<1>3. invalidate(in) \in Events /\ invalidate(in).queue = in.queue
  BY <1>2 DEF Events, invalidate
<1> HIDE DEF closed
<1>4. stop(in) \in Events /\ stop(in).queue = <<>>
  BY <1>1, PendingTyped, ResetTyped DEF stop, closed
<1>5. finish(in) \in Events /\ finish(in).queue \in {in.queue, <<>>}
  BY <1>1, PendingTyped DEF finish, closed
<1> QED
  BY <1>3, <1>4, <1>5

LEMMA PushTyped ==
    ASSUME NEW in \in Events, NEW b \in Block
    PROVE  tryPush(in, b) \in Events /\ (~in.active => tryPush(in, b) = in)
<1> DEFINE ready == pendingLocked(in)
           kept == IF Breaks(ready, b) THEN resetLocked(ready) ELSE ready
           room == IF Len(kept.queue) = SlotCount THEN resetLocked(kept) ELSE kept
<1>1. ready \in Events
  BY PendingTyped
<1>2. kept \in Events
  BY <1>1, ResetTyped
<1>3. room \in Events
  BY <1>2, ResetTyped
<1>4. Append(room.queue, b) \in Seq(Block)
  BY <1>3 DEF Events
<1>5. [room EXCEPT !.queue = Append(@, b), !.last = b] \in Events
  BY <1>3, <1>4 DEF Events
<1> QED
  BY <1>5 DEF tryPush

LEMMA Shorter ==
    ASSUME NEW q \in Seq(Block), NEW r, r \in {q, <<>>}
    PROVE  Len(r) <= Len(q)
OBVIOUS

LEMMA Updated ==
    ASSUME FeedInv, NEW s \in Session, NEW in \in Events,
           in.queue \in {input[s].queue, <<>>},
           input' = [input EXCEPT ![s] = in]
    PROVE  /\ input' \in [Session -> Events]
           /\ \A t \in Session : ~input[t].active => Len(input'[t].queue) <= Len(input[t].queue)
<1>1. input \in [Session -> Events] /\ \A t \in Session : input[t].queue \in Seq(Block)
  BY DEF FeedInv, TypeOK, Events
<1>2. ASSUME NEW t \in Session PROVE Len(input'[t].queue) <= Len(input[t].queue)
  <2>1. input'[t].queue \in {input[t].queue, <<>>}
    BY <1>1
  <2> QED
    BY <2>1, <1>1, Shorter
<1> QED
  BY <1>1, <1>2

Drained == \A t \in Session : ~input[t].active => Len(input'[t].queue) <= Len(input[t].queue)

LEMMA NotTouched ==
    ASSUME FeedInv, input' = input
    PROVE  input' \in [Session -> Events] /\ Drained
<1>1. \A t \in Session : input[t].queue \in Seq(Block)
  BY DEF FeedInv, TypeOK, Events
<1>2. \A t \in Session : Len(input[t].queue) \in Nat
  BY <1>1
<1> QED
  BY <1>2 DEF Drained, FeedInv, TypeOK

LEMMA BlocksStay == UNCHANGED use => Block' = Block /\ Events' = Events
BY DEF Block, Events

-----------------------------------------------------------------------------
(* The receive loop.                                                         *)

LEMMA ReceiveInv ==
    ASSUME FeedInv, UNCHANGED use, Receive
    PROVE  FeedInv' /\ Drained
<1> USE DEF FeedInv, Carries
<1>0. Block' = Block /\ Events' = Events
  BY BlocksStay
<1>b. use.blocks \in Nat
  BY DEF TypeOK
<1>i. /\ Idle \in [at : {"idle", "gate", "missed", "push", "contended"}, kind : Kind,
                   block : Block \cup {None}]
      /\ Idle.kind # "block" /\ Idle.at = "idle"
  BY DEF Idle, Kind
<1>1. CASE EmitBlock
  <2> DEFINE made == [n |-> source.n + 1, cut |-> source.cut,
                      epoch |-> IF source.cut THEN source.epoch + 1 ELSE source.epoch,
                      first |-> IF source.cut THEN 0 ELSE source.first + 1]
  <2>1. made \in Block
    BY <1>1, <1>b DEF EmitBlock, Block
  <2>2. /\ source' = [made EXCEPT !.cut = FALSE] /\ Offer("block", made)
        /\ UNCHANGED <<feedVars, input, pc, worker>> /\ rx.at = "idle" /\ source.n < use.blocks
    BY <1>1 DEF EmitBlock
  <2>3. /\ source' \in [n : 0..use.blocks, epoch : Nat, first : Nat, cut : BOOLEAN]
        /\ source'.epoch <= source'.n /\ source'.first <= source'.n
    <3>1. /\ made.n \in 0..use.blocks /\ made.epoch \in Nat /\ made.first \in Nat
          /\ made.epoch <= made.n /\ made.first <= made.n
      BY <1>b, <2>2
    <3>2. source' = [n |-> made.n, epoch |-> made.epoch, first |-> made.first, cut |-> FALSE]
      BY <2>2
    <3> QED
      BY <3>1, <3>2
  <2> HIDE DEF made
  <2>4. /\ rx' \in [at : {"idle", "gate", "missed", "push", "contended"}, kind : Kind,
                     block : Block \cup {None}]
        /\ rx'.kind = "block" => rx'.block \in Block
        /\ rx'.at \in {"idle", "gate"}
    BY <2>1, <2>2 DEF Offer, Kind
  <2>5. TypeOK' /\ Drained
    BY <1>0, <2>2, <2>4, NotTouched DEF TypeOK, feedVars
  <2> QED
    BY <1>0, <2>2, <2>3, <2>4, <2>5
<1>2. CASE EmitCut
  <2>1. /\ source'.epoch <= source'.n /\ source'.first <= source'.n
        /\ source' \in [n : 0..use.blocks, epoch : Nat, first : Nat, cut : BOOLEAN]
    <3>1. /\ source'.n = source.n + 1 /\ source.n < use.blocks
          /\ source' = [n |-> source.n + 1, epoch |-> source.epoch, first |-> source.first,
                        cut |-> TRUE]
      BY <1>2 DEF EmitCut
    <3> QED
      BY <1>b, <3>1
  <2>2. /\ rx' \in [at : {"idle", "gate", "missed", "push", "contended"}, kind : Kind,
                     block : Block \cup {None}]
        /\ rx'.kind = "block" => rx'.block \in Block
        /\ rx'.at \in {"idle", "gate"} /\ rx.at = "idle"
    BY <1>2 DEF EmitCut, Offer, Kind
  <2> QED
    BY <1>0, <1>2, <2>1, <2>2, NotTouched DEF EmitCut, TypeOK, feedVars
<1>3. CASE EmitBad
  <2>2. /\ rx' \in [at : {"idle", "gate", "missed", "push", "contended"}, kind : Kind,
                     block : Block \cup {None}]
        /\ rx'.kind = "block" => rx'.block \in Block
        /\ rx'.at \in {"idle", "gate"} /\ rx.at = "idle"
    BY <1>3 DEF EmitBad, Offer, Kind
  <2> QED
    BY <1>0, <1>3, <2>2, NotTouched DEF EmitBad, TypeOK, feedVars
<1>4. CASE Refused \/ Missed
  <2>2. /\ rx' \in [at : {"idle", "gate", "missed", "push", "contended"}, kind : Kind,
                     block : Block \cup {None}]
        /\ rx'.kind = "block" => rx'.block \in Block
        /\ rx'.at \in {"idle", "missed"} /\ rx.at \in {"gate", "missed"}
    BY <1>4 DEF Refused, Missed, Idle, Kind
  <2>3. /\ missed' \in BOOLEAN /\ missed \in BOOLEAN /\ input' = input
        /\ UNCHANGED <<attached, waiting, holding, current, source, pc, worker>>
    BY <1>4 DEF Refused, Missed, feedVars, TypeOK
  <2> QED
    BY <1>0, <2>2, <2>3, NotTouched DEF TypeOK
<1>5. CASE Admitted
  <2>1. CASE current = None
    <3>1. /\ rx' = Idle
          /\ UNCHANGED <<missed, holding, input, attached, waiting, current, source, pc, worker>>
      BY <1>5, <2>1 DEF Admitted
    <3>2. TypeOK' /\ Drained
      BY <1>0, <1>i, <1>5, <3>1, NotTouched DEF TypeOK, Admitted
    <3>3. Carries'
      BY <1>0, <1>i, <3>1
    <3> QED
      BY <3>2, <3>3
  <2>2. CASE current # None
    <3>1. current \in Session
      BY <2>2 DEF TypeOK
    <3>2. input' \in [Session -> Events] /\ Drained
      <4>1. CASE missed /\ rx.kind # "cut"
        <5>1. input' = [input EXCEPT ![current] = invalidate(input[current])]
          BY <1>5, <2>2, <4>1 DEF Admitted
        <5>2. input[current] \in Events
          BY <3>1 DEF TypeOK
        <5> QED
          BY <5>1, <5>2, <3>1, CallsTyped, Updated DEF Drained
      <4>2. CASE ~(missed /\ rx.kind # "cut")
        BY <1>5, <2>2, <4>2, NotTouched DEF Admitted
      <4> QED
        BY <4>1, <4>2
    <3>3. /\ rx' \in [at : {"idle", "gate", "missed", "push", "contended"}, kind : Kind,
                       block : Block \cup {None}]
          /\ rx'.kind = "block" => rx'.block \in Block
          /\ rx'.at = "push" /\ holding' = TRUE
      BY <1>5, <2>2 DEF Admitted
    <3> QED
      BY <1>0, <1>5, <2>2, <3>2, <3>3 DEF Admitted, TypeOK
  <2> QED
    BY <2>1, <2>2
<1>6. CASE Push
  <2>1. current \in Session /\ input[current] \in Events
    BY <1>6 DEF Push, TypeOK
  <2>2. input' = [input EXCEPT ![current] = Publishes(input[current])]
    BY <1>6 DEF Push
  <2>3. input' \in [Session -> Events] /\ Drained
    <3>1. CASE rx.kind # "block"
      BY <2>1, <2>2, <3>1, CallsTyped, Updated DEF Publishes, Drained
    <3>2. CASE rx.kind = "block"
      <4>1. /\ Publishes(input[current]) \in Events
            /\ ~input[current].active => Publishes(input[current]) = input[current]
        BY <2>1, <3>2, PushTyped DEF Publishes
      <4>2. \A t \in Session : input[t].queue \in Seq(Block)
        BY DEF TypeOK, Events
      <4>3. \A t \in Session : Len(input[t].queue) \in Nat
        BY <4>2
      <4>4. ASSUME NEW t \in Session, ~input[t].active
            PROVE  Len(input'[t].queue) <= Len(input[t].queue)
        BY <2>1, <2>2, <4>1, <4>3, <4>4 DEF TypeOK
      <4> QED
        BY <2>1, <2>2, <4>1, <4>4 DEF TypeOK, Drained
    <3> QED
      BY <3>1, <3>2
  <2> QED
    <3>1. /\ rx' = Idle /\ holding' = FALSE
          /\ UNCHANGED <<attached, missed, waiting, current, source, pc, worker>>
      BY <1>6 DEF Push
    <3>0. rx'.at = "idle" /\ rx'.kind \in Kind
      BY <1>i, <3>1
    <3>4. holding' = (rx'.at \in {"push", "contended"})
      <4>1. (rx'.at \in {"push", "contended"}) = FALSE
        BY <3>0
      <4>2. holding' = FALSE
        BY <3>1
      <4> QED
        BY <4>1, <4>2, Zenon
    <3>5. ~holding'
      BY <3>1
    <3>2. TypeOK'
      BY <1>0, <3>0, <2>3, <3>1, <3>4, <3>5 DEF TypeOK
    <3>3. Carries'
      BY <1>0, <1>i, <3>1
    <3> QED
      BY <2>3, <3>2, <3>3
<1>7. CASE PushContended
  BY <1>0, <1>7, NotTouched DEF PushContended, TypeOK, feedVars
<1>8. CASE NoteContention
  <2>1. current \in Session /\ input[current] \in Events
    BY <1>8 DEF NoteContention, TypeOK
  <2> DEFINE noted == [input[current] EXCEPT !.pending = TRUE]
  <2>2. noted \in Events /\ noted.queue = input[current].queue
    BY <2>1 DEF Events
  <2>3. input' = [input EXCEPT ![current] = noted]
    BY <1>8 DEF NoteContention
  <2> HIDE DEF noted
  <2>4. input' \in [Session -> Events] /\ Drained
    BY <2>1, <2>2, <2>3, Updated DEF Drained
  <2> QED
    <3>1. /\ rx' = Idle /\ holding' = FALSE
          /\ UNCHANGED <<attached, missed, waiting, current, source, pc, worker>>
      BY <1>8 DEF NoteContention
    <3>0. rx'.at = "idle" /\ rx'.kind \in Kind
      BY <1>i, <3>1
    <3>4. holding' = (rx'.at \in {"push", "contended"})
      <4>1. (rx'.at \in {"push", "contended"}) = FALSE
        BY <3>0
      <4>2. holding' = FALSE
        BY <3>1
      <4> QED
        BY <4>1, <4>2, Zenon
    <3>5. ~holding'
      BY <3>1
    <3>2. TypeOK'
      BY <1>0, <3>0, <2>4, <3>1, <3>4, <3>5 DEF TypeOK
    <3>3. Carries'
      BY <1>0, <1>i, <3>1
    <3> QED
      BY <2>4, <3>2, <3>3
<1> QED
  BY <1>1, <1>2, <1>3, <1>4, <1>5, <1>6, <1>7, <1>8 DEF Receive

-----------------------------------------------------------------------------
(* The control calls and the session's thread.                               *)

(* Who touches neither the receive loop nor the source keeps the invariant   *)
(* when the queues and the worker keep theirs.                               *)
LEMMA ControlKeeps ==
    ASSUME FeedInv, UNCHANGED <<use, source, rx, holding>>,
           attached' \in BOOLEAN, missed' \in BOOLEAN, waiting' \subseteq Control,
           current' \in Session \cup {None}, holding => current' # None,
           input' \in [Session -> Events],
           worker' \in [Session -> [last : Block \cup {None}, gen : Nat, gapGen : Nat]]
    PROVE  FeedInv'
<1>1. Block' = Block /\ Events' = Events
  BY BlocksStay
<1>2. TypeOK'
  <2>1. \A s \in Session : worker'[s].last \in Block \cup {None}
    OBVIOUS
  <2> QED
    BY <1>1, <2>1 DEF FeedInv, TypeOK
<1>3. Carries'
  BY <1>1 DEF FeedInv, Carries
<1> QED
  BY <1>2, <1>3 DEF FeedInv

LEMMA AnnounceInv ==
    ASSUME FeedInv, UNCHANGED use, NEW t \in Control, NEW from, NEW to,
           Announce(t, from, to) \/ Withdraw(t, from, to)
    PROVE  FeedInv' /\ Drained
<1>1. /\ UNCHANGED <<attached, missed, holding, current, input, source, rx, worker>>
      /\ waiting' \subseteq Control
  BY DEF Announce, Withdraw, FeedInv, TypeOK
<1>2. input' \in [Session -> Events] /\ Drained
  BY <1>1, NotTouched
<1>3. FeedInv'
  BY <1>1, <1>2, ControlKeeps DEF FeedInv, TypeOK, Carries
<1> QED
  BY <1>2, <1>3

LEMMA LockedInv ==
    ASSUME FeedInv, UNCHANGED use, NEW s \in Session,
           attach(s) \/ detach(s) \/ finishFeed(s) \/ stats
    PROVE  FeedInv' /\ Drained
<1>1. /\ UNCHANGED <<waiting, holding, source, rx, worker>> /\ ~holding
      /\ {attached', missed'} \subseteq BOOLEAN /\ current' \in Session \cup {None}
  BY DEF attach, detach, finishFeed, stats, Locked, FeedInv, TypeOK
<1>2. input[s] \in Events
  BY DEF FeedInv, TypeOK
<1>3. input' \in [Session -> Events] /\ Drained
  <2>1. CASE attach(s)
    <3>1. NewInput \in Events /\ NewInput.queue = <<>>
      BY DEF NewInput, Events
    <3>2. CASE current = None
      BY <2>1, <3>1, <3>2, Updated DEF attach, Drained
    <3>3. CASE current # None
      BY <2>1, <3>3, NotTouched DEF attach
    <3> QED
      BY <3>2, <3>3
  <2>2. CASE detach(s)
    <3>1. CASE current = s
      BY <2>2, <3>1, <1>2, CallsTyped, Updated DEF detach, Drained
    <3>2. CASE current # s
      BY <2>2, <3>2, NotTouched DEF detach
    <3> QED
      BY <3>1, <3>2
  <2>3. CASE finishFeed(s)
    <3> DEFINE in == IF missed THEN invalidate(input[s]) ELSE input[s]
    <3>1. in \in Events /\ in.queue = input[s].queue
      BY <1>2, CallsTyped
    <3>2. input' = [input EXCEPT ![s] = finish(in)]
      BY <2>3 DEF finishFeed
    <3> HIDE DEF in
    <3> QED
      BY <3>1, <3>2, CallsTyped, Updated DEF Drained
  <2>4. CASE stats
    BY <2>4, NotTouched DEF stats
  <2> QED
    BY <2>1, <2>2, <2>3, <2>4
<1>4. FeedInv'
  BY <1>1, <1>3, ControlKeeps DEF FeedInv, TypeOK, Carries
<1> QED
  BY <1>3, <1>4

LEMMA PopInv ==
    ASSUME FeedInv, UNCHANGED use, NEW s \in Session, pop(s)
    PROVE  FeedInv' /\ Drained
<1> DEFINE in == pendingLocked(input[s])
           Local == [last : Block \cup {None}, gen : Nat, gapGen : Nat]
<1>1. input[s] \in Events /\ worker[s] \in Local /\ worker \in [Session -> Local]
  BY DEF FeedInv, TypeOK, Carries
<1>2. in \in Events /\ in.queue \in {input[s].queue, <<>>}
  BY <1>1, PendingTyped
<1>3. /\ UNCHANGED <<feedVars, source, rx>>
      /\ TakesGap(s, in) \/ TakesBlock(s, in) \/ TakesNothing(s, in)
  BY DEF pop
<1> HIDE DEF in
<1>4. /\ input' \in [Session -> Events] /\ Drained
      /\ worker' \in [Session -> Local]
  <2>1. CASE TakesGap(s, in)
    <3> DEFINE noted == [in EXCEPT !.gap = FALSE]
               fresh == [worker[s] EXCEPT !.last = None, !.gapGen = in.gen]
    <3>1. noted \in Events /\ noted.queue = in.queue
      BY <1>2 DEF Events
    <3>2. input' = [input EXCEPT ![s] = noted]
      BY <2>1 DEF TakesGap
    <3>3. fresh \in Local
      <4>1. in.gen \in Nat
        BY <1>2 DEF Events
      <4> HIDE DEF Block
      <4> QED
        BY <4>1, <1>1
    <3>4. worker' = [worker EXCEPT ![s] = fresh] \/ worker' = worker
      <4>1. worker' = [worker EXCEPT ![s].last = None, ![s].gapGen = in.gen] \/ worker' = worker
        BY <2>1 DEF TakesGap
      <4> QED
        BY <4>1, <1>1
    <3> HIDE DEF noted, fresh, Local
    <3>5. input' \in [Session -> Events] /\ Drained
      BY <1>2, <3>1, <3>2, Updated DEF Drained
    <3>6. worker' \in [Session -> Local]
      BY <1>1, <3>3, <3>4
    <3> QED
      BY <3>5, <3>6 DEF Local
  <2>2. CASE TakesBlock(s, in)
    <3> DEFINE rest == [in EXCEPT !.queue = Tail(in.queue)]
               fed == [worker[s] EXCEPT !.last = Head(in.queue), !.gen = in.gen]
    <3>1. in.queue \in Seq(Block) /\ in.queue # <<>> /\ in.gen \in Nat
      BY <1>2, <2>2 DEF TakesBlock, Events
    <3>2. /\ Head(in.queue) \in Block /\ Tail(in.queue) \in Seq(Block)
          /\ Len(Tail(in.queue)) <= Len(in.queue)
      <4> HIDE DEF Block
      <4> QED
        BY <3>1
    <3>3. rest \in Events /\ rest.queue = Tail(in.queue)
      BY <1>2, <3>2 DEF Events
    <3>4. input' = [input EXCEPT ![s] = rest]
      BY <2>2 DEF TakesBlock
    <3>5. fed \in Local
      BY <1>1, <3>1, <3>2
    <3>6. worker' = [worker EXCEPT ![s] = fed] \/ worker' = worker
      <4>1. \/ worker' = [worker EXCEPT ![s].last = Head(in.queue), ![s].gen = in.gen]
            \/ worker' = worker
        BY <2>2 DEF TakesBlock
      <4> QED
        BY <4>1, <1>1
    <3> HIDE DEF rest, fed, Local
    <3>7. input' \in [Session -> Events]
      BY <3>3, <3>4 DEF FeedInv, TypeOK
    <3>8. Drained
      <4>1. \A t \in Session : input[t].queue \in Seq(Block)
        BY DEF FeedInv, TypeOK, Events
      <4>2. \A t \in Session : Len(input[t].queue) \in Nat
        BY <4>1
      <4>3. in.queue = input[s].queue
        BY <1>2, <3>1
      <4>4. ASSUME NEW t \in Session PROVE Len(input'[t].queue) <= Len(input[t].queue)
        <5>1. input'[t] = IF t = s THEN rest ELSE input[t]
          BY <3>4 DEF FeedInv, TypeOK
        <5>2. CASE t = s
          BY <3>2, <3>3, <4>3, <5>1, <5>2
        <5>3. CASE t # s
          BY <4>2, <5>1, <5>3
        <5> QED
          BY <5>2, <5>3
      <4> QED
        BY <4>4 DEF Drained
    <3>9. worker' \in [Session -> Local]
      BY <1>1, <3>5, <3>6
    <3> QED
      BY <3>7, <3>8, <3>9 DEF Local
  <2>3. CASE TakesNothing(s, in)
    <3>1. input' = [input EXCEPT ![s] = in] /\ worker' = worker
      BY <2>3 DEF TakesNothing
    <3> QED
      BY <1>1, <1>2, <3>1, Updated DEF Drained
  <2> QED
    BY <1>3, <2>1, <2>2, <2>3
<1>5. FeedInv'
  BY <1>3, <1>4, ControlKeeps DEF FeedInv, TypeOK, Carries, feedVars
<1> QED
  BY <1>4, <1>5

-----------------------------------------------------------------------------
LEMMA InitInv == Init => FeedInv
<1> SUFFICES ASSUME Init PROVE FeedInv
  OBVIOUS
<1>b. use.blocks \in Nat
  BY DEF Init
<1>1. [NewInput EXCEPT !.active = FALSE] \in Events
  <2>1. <<>> \in Seq(Block)
    OBVIOUS
  <2> HIDE DEF Block
  <2> QED
    BY <2>1 DEF NewInput, Events
<1>2. (rx.at \in {"push", "contended"}) = FALSE
  BY DEF Init, Idle
<1>3. holding = (rx.at \in {"push", "contended"})
  <2>1. holding = FALSE
    BY DEF Init
  <2> QED
    BY <1>2, <2>1, Zenon
<1>4. /\ use \in Use /\ {attached, missed} \subseteq BOOLEAN /\ waiting \subseteq Control
      /\ current \in Session \cup {None} /\ input \in [Session -> Events] /\ ~holding
  BY <1>1 DEF Init
<1>5. rx.at = "idle" /\ rx.kind = "cut" /\ rx.block = None /\ rx = Idle
  BY DEF Init, Idle
<1>6. worker \in [Session -> [last : Block \cup {None}, gen : Nat, gapGen : Nat]]
  BY DEF Init
<1>7. TypeOK
  <2>1. rx.kind \in Kind /\ rx.at \in {"idle", "gate", "missed", "push", "contended"}
    BY <1>5 DEF Kind
  <2>2. \A s \in Session : worker[s].last \in Block \cup {None}
    BY <1>6
  <2> QED
    BY <1>3, <1>4, <2>1, <2>2 DEF TypeOK
<1>8. Carries
  <2>1. /\ source \in [n : 0..use.blocks, epoch : Nat, first : Nat, cut : BOOLEAN]
        /\ source.epoch <= source.n /\ source.first <= source.n
    BY <1>b DEF Init
  <2>2. /\ rx \in [at : {"idle", "gate", "missed", "push", "contended"}, kind : Kind,
                   block : Block \cup {None}]
        /\ rx.kind # "block"
    BY <1>5 DEF Idle, Kind
  <2> QED
    BY <1>6, <2>1, <2>2 DEF Carries
<1> QED
  BY <1>7, <1>8 DEF FeedInv

LEMMA StepInv ==
    ASSUME FeedInv, [Next]_vars
    PROVE  FeedInv' /\ Drained
<1>1. CASE Next
  <2>1. UNCHANGED use
    BY <1>1 DEF Next
  <2>2. CASE Receive
    BY <2>1, <2>2, ReceiveInv
  <2>3. CASE DiagStep
    <3>1. Diag \in Control
      BY DEF Control
    <3>3. CASE stats
      <4>1. /\ UNCHANGED <<waiting, holding, source, rx, worker, attached, missed, current, input>>
        BY <3>3 DEF stats, Locked
      <4>2. input' \in [Session -> Events] /\ Drained
        BY <4>1, NotTouched
      <4> QED
        BY <2>1, <4>1, <4>2, ControlKeeps DEF FeedInv, TypeOK, Carries
    <3> QED
      BY <2>1, <2>3, <3>1, <3>3, AnnounceInv DEF DiagStep
  <2>4. CASE \E s \in use.sessions : Begins(s) \/ Finishes(s) \/ Leaves(s) \/ SessionStep(s)
    <3>1. PICK s \in use.sessions : Begins(s) \/ Finishes(s) \/ Leaves(s) \/ SessionStep(s)
      BY <2>4
    <3>2. s \in Session /\ s \in Control
      BY DEF FeedInv, TypeOK, Control
    <3>3. \/ \E from, to : Announce(s, from, to) \/ Withdraw(s, from, to)
          \/ attach(s) \/ detach(s) \/ finishFeed(s) \/ pop(s)
      BY <3>1 DEF Begins, Finishes, Leaves, SessionStep
    <3> QED
      BY <2>1, <3>2, <3>3, AnnounceInv, LockedInv, PopInv
  <2> QED
    BY <1>1, <2>2, <2>3, <2>4 DEF Next
<1>2. CASE UNCHANGED vars
  <2>1. /\ UNCHANGED <<use, source, rx, holding, attached, missed, waiting, current,
                       input, worker>>
    BY <1>2 DEF vars, feedVars
  <2>2. input' \in [Session -> Events] /\ Drained
    BY <2>1, NotTouched
  <2> QED
    BY <2>1, <2>2, ControlKeeps DEF FeedInv, TypeOK, Carries
<1> QED
  BY <1>1, <1>2

-----------------------------------------------------------------------------
(* However the receive loop, the sessions and the diagnostics interleave,    *)
(* every variable keeps its type, and publish() holds the feed's lock        *)
(* exactly while it pushes into the queue of an attached session.            *)
THEOREM FeedTyped == Spec => []TypeOK
<1>1. FeedInv /\ [Next]_vars => FeedInv'
  BY StepInv
<1>2. FeedInv => TypeOK
  BY DEF FeedInv
<1> QED
  BY InitInv, <1>1, <1>2, PTL DEF Spec

(* Once finish() or detach() has closed a queue, publish() adds nothing to   *)
(* it, even when it looked at attached_ before; pop() and resets shorten it. *)
THEOREM ClosedQueuesDrain == Spec => ClosedQueuesOnlyDrain
<1>1. FeedInv /\ [Next]_vars => FeedInv'
  BY StepInv
<1>2. FeedInv /\ [Next]_vars => Drained
  BY StepInv
<1>3. Drained => (\A s \in Session : ~input[s].active => Len(input'[s].queue) <= Len(input[s].queue))
  BY DEF Drained
<1> QED
  BY InitInv, <1>1, <1>2, <1>3, PTL DEF Spec, ClosedQueuesOnlyDrain

-----------------------------------------------------------------------------
(* No splice: what the queue holds and what the helper was fed last are one  *)
(* unbroken piece of the source, or a gap stands between them.               *)

Follows(a, b) == b.n = a.n + 1 /\ b.epoch = a.epoch /\ b.first = a.first + 1

QueueInv(in) ==
    /\ \A k \in 1..Len(in.queue) - 1 : Follows(in.queue[k], in.queue[k + 1])
    /\ in.queue # <<>> => in.last # None /\ in.last = in.queue[Len(in.queue)]

(* The worker and its queue: a gap it has still to take is of a later        *)
(* generation than what it was fed; otherwise both are of the same one.      *)
LinkInv(w, in) ==
    /\ w.gen <= in.gen /\ w.gapGen <= in.gen
    /\ ~in.gap => w.gapGen = in.gen
    /\ w.last # None /\ in.gap => w.gen < in.gen
    /\ w.last # None /\ ~in.gap =>
           /\ w.gen = in.gen
           /\ in.queue = <<>> => in.last = w.last
           /\ in.queue # <<>> => Follows(w.last, in.queue[1])

(* A block of the source's present epoch is as far from its beginning in the *)
(* source as in the count of samples.                                        *)
Agrees(b, src) ==
    /\ b.epoch <= src.epoch
    /\ b.epoch = src.epoch /\ ~src.cut => b.n - b.first = src.n - src.first

(* A session before its attach, and while it decodes.                        *)
Fresh == {"idle", "attach"}
Live == Fresh \cup {"attached", "reading", "finish", "finished", "draining"}

Linked(s) ==
    /\ pc[s] # "refused"
    /\ QueueInv(input[s])
    /\ pc[s] \in Live => LinkInv(worker[s], input[s])
    /\ pc[s] \in Fresh => worker[s].last = None /\ worker[s].gen = 0 /\ worker[s].gapGen = 0
    /\ input[s].last # None => Agrees(input[s].last, source)

(* What the receive loop carries is the last block the source made.          *)
Latest ==
    rx.at # "idle" /\ rx.kind = "block" =>
        /\ rx.block.n = source.n /\ rx.block.epoch = source.epoch
        /\ rx.block.first = source.first /\ ~source.cut

SpliceInv == DOMAIN pc = Control /\ (\A s \in Session : Linked(s)) /\ Latest

WorkerState == [last : Block \cup {None}, gen : Nat, gapGen : Nat]

LEMMA NoneIsNoBlock == FeedInv => None \notin Block
<1> SUFFICES ASSUME FeedInv PROVE Block \subseteq [n : Nat, epoch : Nat, first : Nat, cut : BOOLEAN]
  OBVIOUS
<1> QED
  BY DEF FeedInv, TypeOK, Block

LEMMA EventFields ==
    ASSUME NEW in \in Events
    PROVE  in.gen \in Nat /\ in.queue \in Seq(Block) /\ in.gap \in BOOLEAN /\ in.pending \in BOOLEAN
BY DEF Events

LEMMA WorkerNumbers ==
    ASSUME NEW w \in WorkerState
    PROVE  w.gen \in Nat /\ w.gapGen \in Nat /\ w.last \in Block \cup {None}
BY DEF WorkerState

LEMMA ResetLinks ==
    ASSUME NEW in \in Events, NEW w \in WorkerState
    PROVE  /\ QueueInv(resetLocked(in)) /\ resetLocked(in).last = None
           /\ LinkInv(w, in) => LinkInv(w, resetLocked(in))
<1>1. /\ resetLocked(in).queue = <<>> /\ resetLocked(in).gap = TRUE
      /\ resetLocked(in).last = None /\ resetLocked(in).gen = in.gen + 1
  BY DEF resetLocked, Events
<1>2. QueueInv(resetLocked(in))
  BY <1>1 DEF QueueInv
<1>3. LinkInv(w, in) => LinkInv(w, resetLocked(in))
  BY <1>1, EventFields, WorkerNumbers DEF LinkInv
<1> QED
  BY <1>1, <1>2, <1>3

LEMMA SameLinks ==
    ASSUME NEW in, NEW out, NEW w,
           out.queue = in.queue, out.gap = in.gap, out.gen = in.gen, out.last = in.last
    PROVE  /\ QueueInv(in) => QueueInv(out)
           /\ LinkInv(w, in) => LinkInv(w, out)
BY DEF QueueInv, LinkInv

LEMMA PendingLinks ==
    ASSUME NEW in \in Events, NEW w \in WorkerState, QueueInv(in)
    PROVE  /\ QueueInv(pendingLocked(in)) /\ pendingLocked(in).last \in {None, in.last}
           /\ LinkInv(w, in) => LinkInv(w, pendingLocked(in))
<1> DEFINE clear == [in EXCEPT !.pending = FALSE]
<1>1. /\ clear \in Events
      /\ clear.queue = in.queue /\ clear.gap = in.gap /\ clear.gen = in.gen /\ clear.last = in.last
  BY DEF Events
<1>2. pendingLocked(in) = IF in.pending THEN resetLocked(clear) ELSE in
  BY DEF pendingLocked
<1> HIDE DEF clear
<1>3. LinkInv(w, in) => LinkInv(w, clear)
  BY <1>1, SameLinks
<1> QED
  BY <1>1, <1>2, <1>3, ResetLinks

LEMMA CallsLink ==
    ASSUME NEW in \in Events, NEW w \in WorkerState, QueueInv(in)
    PROVE  /\ QueueInv(invalidate(in)) /\ invalidate(in).last = in.last
           /\ LinkInv(w, in) => LinkInv(w, invalidate(in))
           /\ QueueInv(stop(in)) /\ stop(in).last = None
           /\ LinkInv(w, in) => LinkInv(w, stop(in))
           /\ QueueInv(finish(in)) /\ finish(in).last \in {None, in.last}
           /\ LinkInv(w, in) => LinkInv(w, finish(in))
<1> DEFINE closed == [in EXCEPT !.active = FALSE]
<1>1. /\ closed \in Events
      /\ closed.queue = in.queue /\ closed.gap = in.gap /\ closed.gen = in.gen
      /\ closed.last = in.last
  BY DEF Events
<1>2. /\ invalidate(in).queue = in.queue /\ invalidate(in).gap = in.gap
      /\ invalidate(in).gen = in.gen /\ invalidate(in).last = in.last
  BY DEF Events, invalidate
<1>3. stop(in) = resetLocked(pendingLocked(closed)) /\ finish(in) = pendingLocked(closed)
  BY DEF stop, finish
<1> HIDE DEF closed
<1>4. QueueInv(closed) /\ (LinkInv(w, in) => LinkInv(w, closed))
  BY <1>1, SameLinks
<1>5. pendingLocked(closed) \in Events
  BY <1>1, PendingTyped
<1>6. /\ QueueInv(pendingLocked(closed)) /\ pendingLocked(closed).last \in {None, in.last}
      /\ LinkInv(w, closed) => LinkInv(w, pendingLocked(closed))
  BY <1>1, <1>4, PendingLinks
<1>7. /\ QueueInv(resetLocked(pendingLocked(closed)))
      /\ resetLocked(pendingLocked(closed)).last = None
      /\ LinkInv(w, pendingLocked(closed)) => LinkInv(w, resetLocked(pendingLocked(closed)))
  BY <1>5, ResetLinks
<1>8. QueueInv(invalidate(in)) /\ (LinkInv(w, in) => LinkInv(w, invalidate(in)))
  BY <1>2, SameLinks
<1> QED
  BY <1>2, <1>3, <1>4, <1>6, <1>7, <1>8

(* A block joins the queue behind the block it follows, or behind a gap.     *)
LEMMA PushLinks ==
    ASSUME FeedInv, NEW in \in Events, NEW w \in WorkerState, NEW b \in Block, QueueInv(in),
           in.last # None /\ b.epoch = in.last.epoch /\ b.first = in.last.first + 1
               => b.n = in.last.n + 1
    PROVE  /\ QueueInv(tryPush(in, b)) /\ tryPush(in, b).last \in {in.last, b}
           /\ LinkInv(w, in) => LinkInv(w, tryPush(in, b))
<1> DEFINE ready == pendingLocked(in)
           kept == IF Breaks(ready, b) THEN resetLocked(ready) ELSE ready
           room == IF Len(kept.queue) = SlotCount THEN resetLocked(kept) ELSE kept
           new == [room EXCEPT !.queue = Append(room.queue, b), !.last = b]
<1>1. /\ ready \in Events /\ QueueInv(ready) /\ ready.last \in {None, in.last}
      /\ LinkInv(w, in) => LinkInv(w, ready)
  BY PendingTyped, PendingLinks
<1>a. tryPush(in, b) = IF in.active THEN new ELSE in
  BY DEF tryPush
<1> HIDE DEF ready
<1>2. /\ kept \in Events /\ QueueInv(kept)
      /\ LinkInv(w, in) => LinkInv(w, kept)
      /\ kept.last = None \/ Follows(kept.last, b)
  <2>1. CASE Breaks(ready, b)
    BY <1>1, <2>1, ResetTyped, ResetLinks
  <2>2. CASE ~Breaks(ready, b)
    BY <1>1, <2>2 DEF Breaks, Follows
  <2> QED
    BY <2>1, <2>2
<1> HIDE DEF kept
<1>3. /\ room \in Events /\ QueueInv(room)
      /\ LinkInv(w, in) => LinkInv(w, room)
      /\ room.last = None \/ Follows(room.last, b)
  BY <1>2, ResetTyped, ResetLinks
<1> HIDE DEF room
<1> DEFINE q == room.queue
<1>4. /\ q \in Seq(Block) /\ Len(q) \in Nat
      /\ new.queue = Append(q, b) /\ new.last = b /\ new.gap = room.gap /\ new.gen = room.gen
  BY <1>3 DEF Events
<1>5. /\ Len(Append(q, b)) = Len(q) + 1 /\ Append(q, b)[Len(q) + 1] = b
      /\ \A k \in 1..Len(q) : Append(q, b)[k] = q[k]
      /\ Append(q, b) # <<>> /\ (q = <<>> <=> Len(q) = 0)
  BY SMTT(30), <1>4
<1> HIDE DEF new, q
<1>6. QueueInv(new)
  <2>1. b # None
    BY NoneIsNoBlock
  <2>2. ASSUME NEW k \in 1..Len(q) PROVE Follows(Append(q, b)[k], Append(q, b)[k + 1])
    <3>1. CASE k = Len(q)
      BY <1>3, <1>4, <1>5, <3>1 DEF QueueInv, q
    <3>2. CASE k # Len(q)
      <4>1. k \in 1..Len(q) - 1 /\ k + 1 \in 1..Len(q)
        BY <1>4, <3>2
      <4> QED
        BY <1>3, <1>5, <4>1 DEF QueueInv, q
    <3> QED
      BY <3>1, <3>2
  <2> QED
    BY <1>4, <1>5, <2>1, <2>2 DEF QueueInv
<1>7. ASSUME LinkInv(w, room) PROVE LinkInv(w, new)
  <2>1. CASE q = <<>>
    BY <1>3, <1>4, <1>5, <1>7, <2>1 DEF LinkInv, q
  <2>2. CASE q # <<>>
    <3>1. Append(q, b)[1] = q[1]
      BY <1>4, <1>5, <2>2
    <3> QED
      BY <1>4, <1>5, <1>7, <2>2, <3>1 DEF LinkInv, q
  <2> QED
    BY <2>1, <2>2
<1> QED
  BY <1>3, <1>4, <1>6, <1>7, <1>a

(* The worker takes the gap, or the block that its queue begins with.        *)
LEMMA GapTaken ==
    ASSUME NEW in \in Events, NEW out, NEW w \in WorkerState, NEW v, QueueInv(in), LinkInv(w, in),
           in.gap, out.queue = in.queue, out.gap = FALSE, out.gen = in.gen, out.last = in.last,
           v.last = None, v.gen = w.gen, v.gapGen = in.gen
    PROVE  /\ QueueInv(out) /\ LinkInv(v, out)
           /\ ~(w.gapGen > in.gen) /\ ~(w.last # None /\ in.gen <= w.gen)
BY EventFields, WorkerNumbers DEF QueueInv, LinkInv

LEMMA BlockTaken ==
    ASSUME FeedInv, NEW in \in Events, NEW out, NEW w \in WorkerState, NEW v,
           QueueInv(in), LinkInv(w, in), ~in.gap, in.queue # <<>>,
           out.queue = Tail(in.queue), out.gap = in.gap, out.gen = in.gen, out.last = in.last,
           v.last = Head(in.queue), v.gen = in.gen, v.gapGen = w.gapGen
    PROVE  /\ Accepts(w, in, Head(in.queue))
           /\ QueueInv(out) /\ LinkInv(v, out)
           /\ w.last # None => v.last.n = w.last.n + 1
<1> DEFINE q == in.queue
           rest == Tail(in.queue)
<1>1. q \in Seq(Block) /\ q # <<>> /\ in.gen \in Nat
  BY EventFields
<1> HIDE DEF Block
<1>2. /\ Len(q) \in Nat /\ Len(q) >= 1 /\ Head(q) = q[1] /\ q[1] \in Block
      /\ rest \in Seq(Block) /\ Len(rest) = Len(q) - 1
      /\ \A k \in 1..Len(rest) : rest[k] = q[k + 1]
      /\ (rest = <<>> <=> Len(rest) = 0)
  <2>1. Len(q) \in Nat \ {0} /\ q \in [1..Len(q) -> Block]
    BY <1>1, EmptySeq, LenProperties
  <2>2. Head(q) = q[1]
    BY <1>1
  <2>3. /\ rest \in Seq(Block) /\ Len(rest) = Len(q) - 1
        /\ \A k \in 1..Len(rest) : rest[k] = q[k + 1]
    BY <1>1, HeadTailProperties
  <2> HIDE DEF q, rest
  <2>4. rest = <<>> => Len(rest) = 0
    BY <2>3, EmptySeq
  <2>5. Len(rest) = 0 => rest = <<>>
    BY ONLY <2>3, EmptySeq
  <2> QED
    BY <2>1, <2>2, <2>3, <2>4, <2>5
<1>3. /\ \A k \in 1..Len(q) - 1 : Follows(q[k], q[k + 1])
      /\ in.last # None /\ in.last = q[Len(q)]
  BY <1>1 DEF QueueInv
<1>4. w.last # None => Follows(w.last, q[1])
  BY <1>1 DEF LinkInv
<1>n. q[1] # None
  BY <1>2, NoneIsNoBlock
<1> HIDE DEF q, rest
<1>5. QueueInv(out)
  <2>1. ASSUME NEW k \in 1..Len(rest) - 1 PROVE Follows(rest[k], rest[k + 1])
    <3>1. k \in 1..Len(rest) /\ k + 1 \in 1..Len(rest) /\ k + 1 \in 1..Len(q) - 1
      BY <1>2
    <3> QED
      BY <1>2, <1>3, <3>1
  <2>2. rest # <<>> => rest[Len(rest)] = q[Len(q)]
    <3> SUFFICES ASSUME rest # <<>> PROVE rest[Len(rest)] = q[Len(q)]
      OBVIOUS
    <3>1. Len(rest) \in 1..Len(rest) /\ Len(rest) + 1 = Len(q)
      BY <1>2
    <3> QED
      BY <1>2, <3>1
  <2> QED
    BY <1>3, <2>1, <2>2 DEF QueueInv, q, rest
<1>6. rest = <<>> => in.last = q[1]
  <2>1. rest = <<>> => Len(q) = 1
    BY <1>2
  <2> QED
    BY <1>3, <2>1
<1>7. rest # <<>> => Follows(q[1], rest[1])
  BY <1>2, <1>3
<1>8. v.last = q[1] /\ v.gen = in.gen /\ v.gapGen = in.gen /\ out.queue = rest
  BY <1>2 DEF LinkInv, q, rest
<1>9. LinkInv(v, out)
  BY <1>1, <1>6, <1>7, <1>8 DEF LinkInv
<1>10. Accepts(w, in, Head(in.queue))
  BY <1>2, <1>4 DEF Accepts, LinkInv, Follows, q
<1> QED
  BY <1>4, <1>5, <1>8, <1>9, <1>10 DEF Follows

(* A step in which a session's worker takes nothing, and its queue keeps its *)
(* links, leaves the session linked.                                         *)
LEMMA StaysLinked ==
    ASSUME SpliceInv, NEW s \in Session, worker'[s] = worker[s],
           input[s].last # None /\ Agrees(input[s].last, source) => Agrees(input[s].last, source'),
           pc'[s] # "refused", pc'[s] \in Live => pc[s] \in Live,
           pc'[s] \in Fresh => pc[s] \in Fresh,
           QueueInv(input'[s]),
           LinkInv(worker[s], input[s]) => LinkInv(worker[s], input'[s]),
           input'[s].last \in {None, input[s].last} \/ Agrees(input'[s].last, source')
    PROVE  Linked(s)'
BY DEF SpliceInv, Linked

LEMMA SourceAgrees ==
    ASSUME FeedInv, NEW b \in Block, Agrees(b, source), EmitBlock \/ EmitCut \/ UNCHANGED source
    PROVE  Agrees(b, source')
<1>1. /\ source.n \in Nat /\ source.epoch \in Nat /\ source.first \in Nat
      /\ source.cut \in BOOLEAN
      /\ b.n \in Nat /\ b.epoch \in Nat /\ b.first \in Nat
  BY DEF FeedInv, Carries, TypeOK, Block
<1>2. CASE EmitBlock
  <2>1. /\ source'.n = source.n + 1 /\ source'.cut = FALSE
        /\ source'.epoch = IF source.cut THEN source.epoch + 1 ELSE source.epoch
        /\ source'.first = IF source.cut THEN 0 ELSE source.first + 1
    BY <1>2 DEF EmitBlock
  <2>2. CASE source.cut
    BY <1>1, <2>1, <2>2 DEF Agrees
  <2>3. CASE ~source.cut
    BY <1>1, <2>1, <2>3 DEF Agrees
  <2> QED
    BY <2>2, <2>3
<1>3. CASE EmitCut
  <2>1. source'.cut = TRUE /\ source'.epoch = source.epoch
    BY <1>3 DEF EmitCut, FeedInv, Carries
  <2> QED
    BY <1>1, <2>1 DEF Agrees
<1> QED
  BY <1>2, <1>3

LEMMA SessionFields ==
    ASSUME FeedInv, NEW s \in Session
    PROVE  /\ input[s] \in Events /\ worker[s] \in WorkerState
           /\ input[s].last \in Block \cup {None} /\ s \in Control
BY DEF FeedInv, TypeOK, Carries, WorkerState, Events, Control

(* A call that touches the queue of one session, and may move its thread.    *)
LEMMA TouchLinks ==
    ASSUME FeedInv, SpliceInv, UNCHANGED <<worker, source>>, NEW c \in Session, NEW new, NEW next,
           input' = [input EXCEPT ![c] = new],
           (pc' = pc /\ next = pc[c]) \/ pc' = [pc EXCEPT ![c] = next],
           next # "refused", next \in Live => pc[c] \in Live, next \in Fresh => pc[c] \in Fresh,
           QueueInv(new), LinkInv(worker[c], input[c]) => LinkInv(worker[c], new),
           new.last \in {None, input[c].last} \/ Agrees(new.last, source)
    PROVE  DOMAIN pc' = Control /\ \A s \in Session : Linked(s)'
<1>1. c \in Control /\ DOMAIN pc = Control /\ DOMAIN pc' = Control
  BY SessionFields DEF SpliceInv
<1>2. ASSUME NEW s \in Session PROVE Linked(s)'
  <2>1. CASE s = c
    <3>1. input'[s] = new /\ pc'[s] = next
      BY <1>1, <2>1 DEF FeedInv, TypeOK
    <3> QED
      BY <2>1, <3>1, StaysLinked
  <2>2. CASE s # c
    <3>1. input'[s] = input[s] /\ pc'[s] = pc[s] /\ pc[s] # "refused" /\ QueueInv(input[s])
      <4>1. s \in Control
        BY SessionFields
      <4> QED
        BY <1>1, <2>2, <4>1 DEF FeedInv, TypeOK, SpliceInv, Linked
    <3> QED
      BY <3>1, StaysLinked
  <2> QED
    BY <2>1, <2>2
<1> QED
  BY <1>1, <1>2

(* A step that touches no queue and no worker, and may move one thread.      *)
LEMMA MoveLinks ==
    ASSUME FeedInv, SpliceInv, UNCHANGED <<worker, input>>, NEW t \in Control, NEW next,
           EmitBlock \/ EmitCut \/ UNCHANGED source,
           (pc' = pc /\ next = pc[t]) \/ pc' = [pc EXCEPT ![t] = next],
           t \in Session =>
              next # "refused" /\ (next \in Live => pc[t] \in Live) /\ (next \in Fresh => pc[t] \in Fresh)
    PROVE  DOMAIN pc' = Control /\ \A s \in Session : Linked(s)'
<1>1. DOMAIN pc = Control /\ DOMAIN pc' = Control
  BY DEF SpliceInv
<1>2. ASSUME NEW s \in Session PROVE Linked(s)'
  <2>1. input'[s] = input[s] /\ worker'[s] = worker[s] /\ QueueInv(input[s]) /\ pc[s] # "refused"
    BY DEF SpliceInv, Linked
  <2>2. input[s].last # None /\ Agrees(input[s].last, source) => Agrees(input[s].last, source')
    BY SessionFields, SourceAgrees
  <2>3. /\ pc'[s] # "refused" /\ (pc'[s] \in Live => pc[s] \in Live)
        /\ pc'[s] \in Fresh => pc[s] \in Fresh
    <3>1. s \in Control
      BY SessionFields
    <3>2. pc'[s] = IF pc' # pc /\ s = t THEN next ELSE pc[s]
      BY <1>1, <3>1
    <3> QED
      BY <2>1, <3>2
  <2> QED
    BY <2>1, <2>2, <2>3, StaysLinked
<1> QED
  BY <1>1, <1>2

LEMMA ReceiveLinks ==
    ASSUME FeedInv, SpliceInv, UNCHANGED use, Receive
    PROVE  SpliceInv' /\ UNCHANGED worker
<1>0. UNCHANGED <<pc, worker>>
  BY DEF Receive, EmitBlock, EmitCut, EmitBad, Refused, Missed, Admitted, Push, PushContended, NoteContention
<1>s. /\ source.n \in Nat /\ source.epoch \in Nat /\ source.first \in Nat
      /\ source.cut \in BOOLEAN /\ Diag \in Control
      /\ source \in [n : 0..use.blocks, epoch : Nat, first : Nat, cut : BOOLEAN]
  BY DEF FeedInv, Carries, TypeOK, Control
<1>l. Latest
  BY DEF SpliceInv
<1>m. ASSUME UNCHANGED input, EmitBlock \/ EmitCut \/ UNCHANGED source
      PROVE  DOMAIN pc' = Control /\ \A s \in Session : Linked(s)'
  <2>1. Diag \in Control /\ Diag \notin Session /\ pc' = pc /\ pc[Diag] = pc[Diag]
    BY <1>0, <1>s
  <2>2. UNCHANGED <<worker, input>>
    BY <1>0, <1>m
  <2> QED
    BY <1>m, <2>1, <2>2, MoveLinks
<1>1. CASE EmitBlock
  <2> DEFINE made == [n |-> source.n + 1, cut |-> source.cut,
                      epoch |-> IF source.cut THEN source.epoch + 1 ELSE source.epoch,
                      first |-> IF source.cut THEN 0 ELSE source.first + 1]
  <2>1. source' = [made EXCEPT !.cut = FALSE] /\ Offer("block", made) /\ rx.at = "idle" /\ UNCHANGED input
    BY <1>1 DEF EmitBlock
  <2>2. Latest'
    BY <2>1 DEF Latest, Offer
  <2> QED
    BY <1>0, <1>1, <1>m, <2>1, <2>2 DEF SpliceInv
<1>2. CASE EmitCut
  <2>1. Latest' /\ UNCHANGED input
    BY <1>2 DEF EmitCut, Latest, Offer
  <2> QED
    BY <1>0, <1>2, <1>m, <2>1 DEF SpliceInv
<1>3. CASE EmitBad
  <2>1. Latest' /\ UNCHANGED <<input, source>>
    BY <1>3 DEF EmitBad, Latest, Offer
  <2> QED
    BY <1>0, <1>m, <2>1 DEF SpliceInv
<1>4. CASE Refused \/ Missed \/ PushContended
  <2>1. Latest' /\ UNCHANGED <<input, source>>
    BY <1>4, <1>l DEF Refused, Missed, PushContended, Latest, Idle, FeedInv, Carries
  <2> QED
    BY <1>0, <1>m, <2>1 DEF SpliceInv
<1>5. CASE Admitted
  <2>1. Latest' /\ UNCHANGED source
    BY <1>5, <1>l DEF Admitted, Latest, Idle, FeedInv, Carries
  <2>2. CASE UNCHANGED input
    BY <1>0, <1>m, <2>1, <2>2 DEF SpliceInv
  <2>3. CASE ~UNCHANGED input
    <3>1. current \in Session /\ input' = [input EXCEPT ![current] = invalidate(input[current])]
      BY <1>5, <2>3 DEF Admitted, FeedInv, TypeOK
    <3>2. QueueInv(input[current]) /\ pc[current] # "refused"
      BY <3>1 DEF SpliceInv, Linked
    <3> QED
      BY <1>0, <2>1, <3>1, <3>2, CallsLink, SessionFields, TouchLinks DEF SpliceInv
  <2> QED
    BY <2>2, <2>3
<1>6. CASE Push
  <2>1. /\ Latest' /\ UNCHANGED source /\ current \in Session
        /\ input' = [input EXCEPT ![current] = Publishes(input[current])]
    BY <1>6 DEF Push, Latest, Idle, FeedInv, TypeOK
  <2>2. /\ QueueInv(input[current]) /\ pc[current] # "refused"
        /\ input[current].last # None => Agrees(input[current].last, source)
    BY <2>1 DEF SpliceInv, Linked
  <2>3. CASE rx.kind # "block"
    BY <1>0, <2>1, <2>2, <2>3, CallsLink, SessionFields, TouchLinks DEF SpliceInv, Publishes
  <2>4. CASE rx.kind = "block"
    <3> DEFINE b == rx.block
               in == input[current]
    <3>1. /\ b \in Block /\ b.n = source.n /\ b.epoch = source.epoch
          /\ b.first = source.first /\ ~source.cut
      BY <1>6, <1>l, <2>4 DEF Push, Latest, FeedInv, Carries
    <3>2. in \in Events /\ worker[current] \in WorkerState /\ in.last \in Block \cup {None}
      BY <2>1, SessionFields
    <3>3. Agrees(b, source)
      BY <3>1, <1>s DEF Agrees
    <3>4. in.last # None /\ b.epoch = in.last.epoch /\ b.first = in.last.first + 1
              => b.n = in.last.n + 1
      <4> SUFFICES ASSUME in.last # None, b.epoch = in.last.epoch, b.first = in.last.first + 1
                   PROVE  b.n = in.last.n + 1
        OBVIOUS
      <4>1. in.last \in Block /\ Agrees(in.last, source)
        BY <2>2, <3>2
      <4>2. in.last.n \in Nat /\ in.last.first \in Nat
        BY <4>1 DEF Block, FeedInv, TypeOK
      <4> HIDE DEF b, in
      <4>3. in.last.n - in.last.first = source.n - source.first
        BY <3>1, <4>1 DEF Agrees
      <4> QED
        BY <1>s, <3>1, <4>2, <4>3
    <3> HIDE DEF b
    <3>5. /\ QueueInv(tryPush(in, b)) /\ tryPush(in, b).last \in {in.last, b}
          /\ LinkInv(worker[current], in) => LinkInv(worker[current], tryPush(in, b))
      BY <2>2, <3>1, <3>2, <3>4, PushLinks
    <3>6. input' = [input EXCEPT ![current] = tryPush(in, b)]
      BY <2>1, <2>4 DEF Publishes, b
    <3> QED
      BY <1>0, <2>1, <2>2, <3>3, <3>5, <3>6, TouchLinks DEF SpliceInv
  <2> QED
    BY <2>3, <2>4
<1>7. CASE NoteContention
  <2> DEFINE noted == [input[current] EXCEPT !.pending = TRUE]
  <2>1. /\ Latest' /\ UNCHANGED source /\ current \in Session
        /\ input' = [input EXCEPT ![current] = noted]
    BY <1>7 DEF NoteContention, Latest, Idle, FeedInv, TypeOK
  <2>2. QueueInv(input[current]) /\ pc[current] # "refused"
    BY <2>1 DEF SpliceInv, Linked
  <2>3. /\ noted.queue = input[current].queue /\ noted.gap = input[current].gap
        /\ noted.gen = input[current].gen /\ noted.last = input[current].last
    BY <2>1, SessionFields DEF Events
  <2> HIDE DEF noted
  <2> QED
    BY <1>0, <2>1, <2>2, <2>3, SameLinks, TouchLinks DEF SpliceInv
<1> QED
  BY <1>0, <1>1, <1>2, <1>3, <1>4, <1>5, <1>6, <1>7 DEF Receive

LEMMA LatestStays == Latest /\ UNCHANGED <<rx, source>> => Latest'
BY DEF Latest

(* A thread that announces a call or withdraws it goes from a live place to  *)
(* a live one, or leaves.                                                    *)
LEMMA AnnounceLinks ==
    ASSUME FeedInv, SpliceInv, NEW t \in Control, NEW from, NEW to,
           Announce(t, from, to) \/ Withdraw(t, from, to),
           t \in Session => to # "refused" /\ (to \notin Fresh \/ (from \in Fresh /\ to = "attach")),
           t \in Session => (to \in Live => from \in Live)
    PROVE  SpliceInv' /\ UNCHANGED worker
<1>1. /\ UNCHANGED <<input, source, rx, worker>>
      /\ pc[t] = from /\ pc' = [pc EXCEPT ![t] = to]
  BY DEF Announce, Withdraw
<1>2. t \in Session =>
         to # "refused" /\ (to \in Live => pc[t] \in Live) /\ (to \in Fresh => pc[t] \in Fresh)
  BY <1>1
<1>3. DOMAIN pc' = Control /\ \A s \in Session : Linked(s)'
  BY <1>1, <1>2, MoveLinks
<1> QED
  BY <1>1, <1>3, LatestStays DEF SpliceInv

LEMMA LockedLinks ==
    ASSUME FeedInv, SpliceInv, NEW s \in Session, attach(s) \/ detach(s) \/ finishFeed(s)
    PROVE  SpliceInv' /\ UNCHANGED worker
<1>1. UNCHANGED <<source, rx, worker>> /\ s \in Control
  BY SessionFields DEF attach, detach, finishFeed, Locked
<1>2. input[s] \in Events /\ worker[s] \in WorkerState /\ QueueInv(input[s])
  BY SessionFields DEF SpliceInv, Linked
<1>3. Latest'
  BY <1>1, LatestStays DEF SpliceInv
<1>4. CASE attach(s)
  <2>1. pc[s] = "attach"
    BY <1>4 DEF attach, Locked
  <2>2. CASE current = None
    <3>1. pc' = [pc EXCEPT ![s] = "attached"] /\ input' = [input EXCEPT ![s] = NewInput]
      BY <1>4, <2>2 DEF attach, Locked
    <3>2. worker[s].last = None /\ worker[s].gen = 0 /\ worker[s].gapGen = 0
      BY <2>1 DEF SpliceInv, Linked, Fresh
    <3>3. QueueInv(NewInput) /\ NewInput.last = None /\ LinkInv(worker[s], NewInput)
      BY <3>2 DEF QueueInv, LinkInv, NewInput
    <3>4. "attached" # "refused" /\ pc[s] \in Live /\ "attached" \notin Fresh
      BY <2>1 DEF Live, Fresh
    <3> QED
      BY <1>1, <1>3, <3>1, <3>3, <3>4, TouchLinks DEF SpliceInv
  <2>3. CASE current # None
    <3>1. pc' = [pc EXCEPT ![s] = "busy"] /\ UNCHANGED input
      BY <1>4, <2>3 DEF attach, Locked
    <3>2. "busy" # "refused" /\ "busy" \notin Live /\ "busy" \notin Fresh
      BY DEF Live, Fresh
    <3> QED
      BY <1>1, <1>3, <3>1, <3>2, MoveLinks DEF SpliceInv
  <2> QED
    BY <2>2, <2>3
<1>5. CASE detach(s)
  <2>1. pc' = [pc EXCEPT ![s] = "detached"]
    BY <1>5 DEF detach, Locked
  <2>2. "detached" # "refused" /\ "detached" \notin Live /\ "detached" \notin Fresh
    BY DEF Live, Fresh
  <2>3. CASE current = s
    <3>1. input' = [input EXCEPT ![s] = stop(input[s])]
      BY <1>5, <2>3 DEF detach
    <3> QED
      BY <1>1, <1>2, <1>3, <2>1, <2>2, <3>1, CallsLink, TouchLinks DEF SpliceInv
  <2>4. CASE current # s
    <3>1. UNCHANGED input
      BY <1>5, <2>4 DEF detach
    <3> QED
      BY <1>1, <1>3, <2>1, <2>2, <3>1, MoveLinks DEF SpliceInv
  <2> QED
    BY <2>3, <2>4
<1>6. CASE finishFeed(s)
  <2> DEFINE in == IF missed THEN invalidate(input[s]) ELSE input[s]
  <2>1. /\ pc' = [pc EXCEPT ![s] = "finished"] /\ pc[s] = "finish"
        /\ input' = [input EXCEPT ![s] = finish(in)]
    BY <1>6 DEF finishFeed, Locked
  <2>2. /\ in \in Events /\ QueueInv(in) /\ in.last = input[s].last
        /\ LinkInv(worker[s], input[s]) => LinkInv(worker[s], in)
    BY <1>2, CallsLink, CallsTyped
  <2> HIDE DEF in
  <2>3. /\ QueueInv(finish(in)) /\ finish(in).last \in {None, input[s].last}
        /\ LinkInv(worker[s], input[s]) => LinkInv(worker[s], finish(in))
    BY <1>2, <2>2, CallsLink
  <2>4. "finished" # "refused" /\ pc[s] \in Live /\ "finished" \notin Fresh
    BY <2>1 DEF Live, Fresh
  <2> QED
    BY <1>1, <1>3, <2>1, <2>3, <2>4, TouchLinks DEF SpliceInv
<1> QED
  BY <1>4, <1>5, <1>6

(* What pop() hands over is never refused, and is the block that follows.    *)
Spliced ==
    \A s \in Session :
        worker[s].last # None /\ worker'[s].last \notin {None, worker[s].last}
            => worker'[s].last.n = worker[s].last.n + 1

LEMMA PopLinks ==
    ASSUME FeedInv, SpliceInv, NEW s \in Session, pop(s)
    PROVE  SpliceInv' /\ Spliced
<1> DEFINE in == pendingLocked(input[s])
           w == worker[s]
<1>1. /\ input[s] \in Events /\ w \in WorkerState /\ s \in Control
      /\ worker \in [Session -> WorkerState] /\ input \in [Session -> Events]
  BY SessionFields DEF FeedInv, TypeOK, Carries, WorkerState
<1>2. /\ pc[s] \in {"reading", "draining"} /\ UNCHANGED <<feedVars, source, rx>>
      /\ TakesGap(s, in) \/ TakesBlock(s, in) \/ TakesNothing(s, in)
  BY DEF pop
<1>3. pc[s] \in Live /\ pc[s] \notin Fresh /\ DOMAIN pc = Control /\ pc[s] # "refused"
  BY <1>2 DEF Live, Fresh, SpliceInv
<1>4. QueueInv(input[s]) /\ LinkInv(w, input[s])
  BY <1>3 DEF SpliceInv, Linked
<1>5. in \in Events /\ QueueInv(in) /\ LinkInv(w, in) /\ in.last \in {None, input[s].last}
  BY <1>1, <1>4, PendingTyped, PendingLinks
<1>6. Latest'
  BY <1>2, LatestStays DEF SpliceInv
<1>w. w.gen \in Nat /\ w.gapGen \in Nat /\ in.gen \in Nat
  BY <1>1, <1>5, WorkerNumbers, EventFields
<1> HIDE DEF in
<1>7. ASSUME NEW out, NEW v, NEW next,
             input' = [input EXCEPT ![s] = out], worker' = [worker EXCEPT ![s] = v],
             (pc' = pc /\ next = pc[s]) \/ pc' = [pc EXCEPT ![s] = next],
             next # "refused", next \notin Fresh,
             QueueInv(out), next \in Live => LinkInv(v, out), out.last = in.last,
             w.last # None /\ v.last \notin {None, w.last} => v.last.n = w.last.n + 1
      PROVE  SpliceInv' /\ Spliced
  <2>1. \A t \in Session : /\ input'[t] = IF t = s THEN out ELSE input[t]
                           /\ worker'[t] = IF t = s THEN v ELSE worker[t]
                           /\ pc'[t] = IF t = s THEN next ELSE pc[t]
    BY <1>1, <1>3, <1>7 DEF Control
  <2>2. DOMAIN pc' = Control
    BY <1>3, <1>7
  <2>3. ASSUME NEW t \in Session PROVE Linked(t)'
    <3>1. CASE t = s
      <4>1. input'[s] = out /\ worker'[s] = v /\ pc'[s] = next /\ source' = source
        BY <1>2, <2>1
      <4>2. out.last # None => Agrees(out.last, source)
        BY <1>5, <1>7 DEF SpliceInv, Linked
      <4> QED
        BY <1>7, <3>1, <4>1, <4>2 DEF Linked
    <3>2. CASE t # s
      <4>1. /\ input'[t] = input[t] /\ worker'[t] = worker[t] /\ pc'[t] = pc[t]
            /\ source' = source /\ Linked(t)
        BY <1>2, <2>1, <3>2 DEF SpliceInv
      <4> QED
        BY <4>1 DEF Linked
    <3> QED
      BY <3>1, <3>2
  <2>4. Spliced
    BY <1>7, <2>1 DEF Spliced
  <2> QED
    BY <1>6, <2>2, <2>3, <2>4 DEF SpliceInv
<1>8. CASE TakesGap(s, in)
  <2> DEFINE out == [in EXCEPT !.gap = FALSE]
             v == [w EXCEPT !.last = None, !.gapGen = in.gen]
  <2>1. in.gap /\ input' = [input EXCEPT ![s] = out]
    BY <1>8 DEF TakesGap
  <2>2. /\ out.queue = in.queue /\ out.gap = FALSE /\ out.gen = in.gen /\ out.last = in.last
        /\ v.last = None /\ v.gen = w.gen /\ v.gapGen = in.gen
    BY <1>1, <1>5 DEF Events, WorkerState
  <2> HIDE DEF out, v
  <2>3. /\ QueueInv(out) /\ LinkInv(v, out)
        /\ ~(w.gapGen > in.gen) /\ ~(w.last # None /\ in.gen <= w.gen)
    BY <1>1, <1>5, <2>1, <2>2, GapTaken
  <2>4. CASE w.last # None /\ s \notin Archiving
    <3>1. pc' = [pc EXCEPT ![s] = "aborted"] /\ worker' = worker
      BY <1>8, <2>4 DEF TakesGap
    <3>2. worker' = [worker EXCEPT ![s] = w]
      BY <1>1, <3>1
    <3>3. "aborted" # "refused" /\ "aborted" \notin Fresh /\ "aborted" \notin Live
      BY DEF Live, Fresh
    <3> QED
      BY <1>7, <2>1, <2>2, <2>3, <3>1, <3>2, <3>3
  <2>5. CASE ~(w.last # None /\ s \notin Archiving)
    <3>1. /\ pc' = pc
          /\ worker' = [worker EXCEPT ![s].last = None, ![s].gapGen = in.gen]
      BY <1>8, <2>3, <2>5 DEF TakesGap
    <3>2. worker' = [worker EXCEPT ![s] = v]
      BY <1>1, <3>1 DEF v
    <3> QED
      BY <1>3, <1>7, <2>1, <2>2, <2>3, <3>1, <3>2
  <2> QED
    BY <2>4, <2>5
<1>9. CASE TakesBlock(s, in)
  <2> DEFINE out == [in EXCEPT !.queue = Tail(in.queue)]
             v == [w EXCEPT !.last = Head(in.queue), !.gen = in.gen]
  <2>1. ~in.gap /\ in.queue # <<>> /\ input' = [input EXCEPT ![s] = out]
    BY <1>9 DEF TakesBlock
  <2>2. /\ out.queue = Tail(in.queue) /\ out.gap = in.gap /\ out.gen = in.gen
        /\ out.last = in.last
        /\ v.last = Head(in.queue) /\ v.gen = in.gen /\ v.gapGen = w.gapGen
    BY <1>1, <1>5 DEF Events, WorkerState
  <2>3. /\ Accepts(w, in, Head(in.queue)) /\ QueueInv(out) /\ LinkInv(v, out)
        /\ w.last # None => v.last.n = w.last.n + 1
    <3> HIDE DEF out, v, w
    <3> QED
      BY <1>1, <1>5, <2>1, <2>2, BlockTaken
  <2>4. pc' = pc /\ worker' = [worker EXCEPT ![s].last = Head(in.queue), ![s].gen = in.gen]
    BY <1>9, <2>3 DEF TakesBlock
  <2>5. worker' = [worker EXCEPT ![s] = v]
    BY <1>1, <2>4
  <2> HIDE DEF out, v
  <2> QED
    BY <1>3, <1>7, <2>1, <2>2, <2>3, <2>4, <2>5
<1>10. CASE TakesNothing(s, in)
  <2> DEFINE next == IF pc[s] = "draining" THEN "ended" ELSE pc[s]
  <2>1. /\ input' = [input EXCEPT ![s] = in] /\ worker' = worker
        /\ pc' = [pc EXCEPT ![s] = next]
    BY <1>10 DEF TakesNothing
  <2>2. worker' = [worker EXCEPT ![s] = w]
    BY <1>1, <2>1
  <2>3. next # "refused" /\ next \notin Fresh
    BY <1>3 DEF Fresh
  <2> HIDE DEF next
  <2> QED
    BY <1>5, <1>7, <2>1, <2>2, <2>3
<1> QED
  BY <1>2, <1>8, <1>9, <1>10

LEMMA SpliceInit == Init => SpliceInv
<1> SUFFICES ASSUME Init PROVE SpliceInv
  OBVIOUS
<1>1. DOMAIN pc = Control /\ \A t \in Control : pc[t] = "idle"
  BY DEF Init
<1>2. Latest
  BY DEF Init, Idle, Latest
<1>3. ASSUME NEW s \in Session PROVE Linked(s)
  <2>1. pc[s] = "idle" /\ worker[s] = [last |-> None, gen |-> 0, gapGen |-> 0]
    BY <1>1 DEF Init, Control
  <2>2. /\ input[s].queue = <<>> /\ input[s].gap = TRUE /\ input[s].gen = 1
        /\ input[s].last = None
    BY DEF Init, NewInput
  <2> QED
    BY <2>1, <2>2 DEF Linked, QueueInv, LinkInv
<1> QED
  BY <1>1, <1>2, <1>3 DEF SpliceInv

LEMMA SpliceStep ==
    ASSUME FeedInv, SpliceInv, [Next]_vars
    PROVE  SpliceInv' /\ Spliced
<1>0. ASSUME UNCHANGED worker PROVE Spliced
  <2>1. \A s \in Session : worker'[s] = worker[s]
    BY <1>0
  <2> QED
    BY <2>1 DEF Spliced
<1>1. CASE Next
  <2>1. UNCHANGED use
    BY <1>1 DEF Next
  <2>2. CASE Receive
    BY <1>0, <2>1, <2>2, ReceiveLinks
  <2>3. CASE DiagStep
    <3>1. Diag \in Control /\ Diag \notin Session
      BY DEF Control
    <3>2. CASE stats
      <4>1. /\ UNCHANGED <<source, rx, worker, input>>
            /\ pc' = [pc EXCEPT ![Diag] = "answered"]
        BY <3>2 DEF stats, Locked
      <4>2. DOMAIN pc' = Control /\ \A s \in Session : Linked(s)'
        BY <3>1, <4>1, MoveLinks
      <4> QED
        BY <1>0, <4>1, <4>2, LatestStays DEF SpliceInv
    <3>3. CASE Announce(Diag, "idle", "stats") \/ Withdraw(Diag, "answered", "idle")
      BY <1>0, <3>1, <3>3, AnnounceLinks
    <3> QED
      BY <2>3, <3>2, <3>3 DEF DiagStep
  <2>4. CASE \E s \in use.sessions : Begins(s) \/ Finishes(s) \/ Leaves(s) \/ SessionStep(s)
    <3>1. PICK s \in use.sessions : Begins(s) \/ Finishes(s) \/ Leaves(s) \/ SessionStep(s)
      BY <2>4
    <3>2. s \in Session /\ s \in Control
      BY DEF FeedInv, TypeOK, Control
    <3>3. CASE \/ Announce(s, "idle", "attach") \/ Announce(s, "reading", "finish")
               \/ Announce(s, "reading", "detach") \/ Announce(s, "draining", "detach")
               \/ Withdraw(s, "attached", "reading") \/ Withdraw(s, "busy", "done")
               \/ Withdraw(s, "finished", "draining") \/ Announce(s, "ended", "detach")
               \/ Announce(s, "aborted", "detach") \/ Announce(s, "refused", "detach")
               \/ Withdraw(s, "detached", "done")
      <4>1. PICK from, to :
               /\ Announce(s, from, to) \/ Withdraw(s, from, to)
               /\ to # "refused" /\ (to \notin Fresh \/ (from \in Fresh /\ to = "attach"))
               /\ to \in Live => from \in Live
        BY <3>3 DEF Live, Fresh
      <4>2. SpliceInv' /\ UNCHANGED worker
        BY <3>2, <4>1, AnnounceLinks
      <4> QED
        BY <1>0, <4>2
    <3>4. CASE attach(s) \/ detach(s) \/ finishFeed(s)
      BY <1>0, <3>2, <3>4, LockedLinks
    <3>5. CASE pop(s)
      BY <3>2, <3>5, PopLinks
    <3> QED
      BY <3>1, <3>3, <3>4, <3>5 DEF Begins, Finishes, Leaves, SessionStep
  <2> QED
    BY <1>1, <2>2, <2>3, <2>4 DEF Next
<1>2. CASE UNCHANGED vars
  <2>1. UNCHANGED <<source, rx, input, worker, pc>>
    BY <1>2 DEF vars
  <2>2. Diag \in Control /\ Diag \notin Session
    BY DEF Control
  <2>3. DOMAIN pc' = Control /\ \A s \in Session : Linked(s)'
    BY <2>1, <2>2, MoveLinks
  <2> QED
    BY <1>0, <2>1, <2>3, LatestStays DEF SpliceInv
<1> QED
  BY <1>1, <1>2

(* Whatever the receive loop loses, rejects or is kept out of, the queue     *)
(* hands decodeSstvStream no event it must refuse: its generations never go  *)
(* back and a gap stands before every block that does not follow.            *)
THEOREM NothingIsRefused == Spec => []WorkerNeverRefuses
<1>1. FeedInv /\ SpliceInv /\ [Next]_vars => FeedInv' /\ SpliceInv'
  BY StepInv, SpliceStep
<1>2. SpliceInv => WorkerNeverRefuses
  BY DEF SpliceInv, Linked, WorkerNeverRefuses
<1> QED
  BY InitInv, SpliceInit, <1>1, <1>2, PTL DEF Spec

(* Two blocks that decodeSstvStream feeds to one helper one after the other  *)
(* are neighbours in the source, for a queue of any size and any number of   *)
(* sessions: the helper is restarted at every loss between them.             *)
THEOREM NothingIsSpliced == Spec => NoSplice
<1>1. FeedInv /\ SpliceInv /\ [Next]_vars => FeedInv' /\ SpliceInv'
  BY StepInv, SpliceStep
<1>2. FeedInv /\ SpliceInv /\ [Next]_vars => Spliced
  BY SpliceStep
<1>3. Spliced => (\A s \in Session :
                     worker[s].last # None /\ worker'[s].last \notin {None, worker[s].last}
                         => worker'[s].last.n = worker[s].last.n + 1)
  BY DEF Spliced
<1> QED
  BY InitInv, SpliceInit, <1>1, <1>2, <1>3, PTL DEF Spec, NoSplice
=============================================================================
