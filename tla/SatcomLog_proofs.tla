--------------------------- MODULE SatcomLog_proofs ---------------------------
(***************************************************************************)
(* The log accounts for every event and keeps them in order, whatever the  *)
(* size of its ring and the number of its producers.  What carries the     *)
(* proof is that the lock has one owner and that everything that moves an  *)
(* index owns it (Guarded); the order needs where each event is (OrderInv).*)
(***************************************************************************)
EXTENDS SatcomLog, SequenceTheorems, TLAPS

USE LogAssumption DEF LogAssumption

(* The lock is held exactly by the producer inside tryPush, or by the writer *)
(* while it looks at the ring.                                               *)
Guarded ==
    /\ \A p \in Producer : pc[p] # "idle" <=> lock = p
    /\ writer = "locked" <=> lock = Writer

LogInv == TypeOK /\ Guarded /\ Accounting

LEMMA SuccSlot == \A i \in Slot : Succ(i) \in Slot
BY DEF Slot, Succ

LEMMA Terms ==
    TypeOK => /\ Queued \in Nat /\ InHand \in Nat /\ Entering \in Nat
              /\ Len(written) \in Nat /\ dropped \in Nat /\ pushed \in Nat
<1> SUFFICES ASSUME TypeOK PROVE Queued \in Nat /\ Len(written) \in Nat
  BY DEF InHand, Entering, TypeOK
<1> QED
  BY DEF TypeOK, Queued, Slot

LEMMA LogInit == Init => LogInv
BY DEF Init, LogInv, TypeOK, Guarded, Accounting, Queued, InHand, InPush, Entering, Slot

LEMMA TryPushInv == ASSUME LogInv, NEW p \in Producer, tryPush(p) PROVE LogInv'
<1> USE DEF LogInv, tryPush
<1>1. TypeOK' /\ Guarded'
  <2>1. CASE lock = None
    BY <2>1 DEF TypeOK, Guarded
  <2>2. CASE lock # None
    BY <2>2 DEF TypeOK, Guarded
  <2> QED
    BY <2>1, <2>2
<1>2. Queued' = Queued /\ InHand' = InHand /\ Queued \in Nat
  BY Terms DEF Queued, InHand
<1>3. CASE lock = None
  <2>1. Entering = 0
    BY <1>3 DEF Guarded, Entering, InPush, TypeOK
  <2>2. Entering' = 1 /\ dropped' = dropped
    BY <1>3 DEF InPush, TypeOK, Entering
  <2> QED
    BY <1>1, <1>2, <1>3, <2>1, <2>2, Terms DEF Accounting
<1>4. CASE lock # None
  <2>1. Entering' = Entering /\ dropped' = dropped + 1
    BY <1>4 DEF Entering, InPush
  <2>2. pushed' = pushed + 1 /\ written' = written
    OBVIOUS
  <2>3. /\ Queued \in Nat /\ InHand \in Nat /\ Entering \in Nat
        /\ Len(written) \in Nat /\ dropped \in Nat /\ pushed \in Nat
    BY Terms
  <2>4. pushed = Len(written) + dropped + Queued + InHand + Entering
    BY DEF Accounting
  <2>5. pushed' = Len(written') + dropped' + Queued' + InHand' + Entering'
    BY <1>2, <2>1, <2>2, <2>3, <2>4
  <2> QED
    BY <1>1, <2>5 DEF Accounting
<1> QED
  BY <1>3, <1>4

LEMMA NumberInv == ASSUME LogInv, NEW p \in Producer, Number(p) PROVE LogInv'
<1> USE DEF LogInv, Number
<1>1. TypeOK' /\ Guarded'
  BY DEF TypeOK, Guarded
<1>2. InPush' = InPush
  BY DEF InPush, TypeOK
<1> QED
  BY <1>1, <1>2 DEF Accounting, Queued, InHand, Entering

LEMMA StoreInv == ASSUME LogInv, NEW p \in Producer, Store(p) PROVE LogInv'
<1> USE DEF LogInv, Store
<1>1. TypeOK' /\ Guarded'
  BY SuccSlot DEF TypeOK, Guarded
<1>2. Entering = 1 /\ Entering' = 0
  BY DEF Entering, InPush, Guarded, TypeOK
<1>3. InHand' = InHand /\ head' = Succ(head)
  BY DEF InHand
<1>4. CASE Succ(head) = tail
  <2>1. tail' = Succ(tail) /\ dropped' = dropped + 1
    BY <1>4
  <2>2. Queued = Capacity - 1 /\ Queued' = Capacity - 1
    BY <1>3, <1>4, <2>1 DEF Queued, Slot, Succ, TypeOK
  <2> QED
    BY SMTT(30), <1>1, <1>2, <1>3, <2>1, <2>2, Terms DEF Accounting
<1>5. CASE Succ(head) # tail
  <2>1. Queued' = Queued + 1 /\ dropped' = dropped
    BY <1>5, SuccSlot DEF Queued, Slot, Succ, TypeOK
  <2> QED
    BY <1>1, <1>2, <1>3, <2>1, Terms DEF Accounting
<1> QED
  BY <1>4, <1>5

LEMMA WriterInv == ASSUME LogInv, WriterStep PROVE LogInv'
<1> USE DEF LogInv
<1>1. ASSUME WriterLocks PROVE LogInv'
  BY <1>1 DEF WriterLocks, TypeOK, Guarded, Accounting, Queued, InHand, Entering, InPush
<1>2. ASSUME WriterTakes PROVE LogInv'
  <2> USE <1>2 DEF WriterTakes
  <2>1. TypeOK' /\ Guarded'
    BY SuccSlot DEF TypeOK, Guarded
  <2>2. Entering' = Entering /\ InHand = 0
    BY DEF Entering, InPush, InHand
  <2>3. Queued' + InHand' = Queued /\ Queued' \in Nat /\ InHand' \in Nat
    <3>1. CASE tail = head
      BY <3>1, Terms DEF Queued, InHand, Slot, TypeOK
    <3>2. CASE tail # head
      <4>1. InHand' = 1 /\ tail' = Succ(tail) /\ head' = head
        BY <3>2 DEF InHand, TypeOK
      <4>2. Queued' = Queued - 1 /\ Queued # 0
        BY <3>2, <4>1 DEF Queued, Slot, Succ, TypeOK
      <4> QED
        BY <4>1, <4>2, Terms
    <3> QED
      BY <3>1, <3>2
  <2> QED
    BY <2>1, <2>2, <2>3, Terms DEF Accounting
<1>3. ASSUME WriterWrites PROVE LogInv'
  <2> USE <1>3 DEF WriterWrites
  <2>1. TypeOK' /\ Guarded' /\ Len(written') = Len(written) + 1
    BY DEF TypeOK, Guarded
  <2>2. Entering' = Entering /\ Queued' = Queued /\ InHand = 1 /\ InHand' = 0
    BY DEF Entering, InPush, InHand, Queued
  <2> QED
    BY <2>1, <2>2, Terms DEF Accounting
<1>4. ASSUME WriterRests PROVE LogInv'
  BY <1>4 DEF WriterRests, TypeOK, Guarded, Accounting, Queued, InHand, Entering, InPush
<1> QED
  BY <1>1, <1>2, <1>3, <1>4 DEF WriterStep

LEMMA StopInv == ASSUME LogInv, stop PROVE LogInv'
BY DEF LogInv, stop, TypeOK, Guarded, Accounting, Queued, InHand, Entering, InPush

LEMMA StutterInv == ASSUME LogInv, UNCHANGED vars PROVE LogInv'
BY DEF LogInv, vars, TypeOK, Guarded, Accounting, Queued, InHand, Entering, InPush

(* In every behaviour of the log an event offered to tryPush is written,     *)
(* counted as dropped, queued, in the writer's hand or being stored.         *)
THEOREM LogAccounts == Spec => [](TypeOK /\ Accounting)
<1>1. LogInv /\ [Next]_vars => LogInv'
  BY TryPushInv, NumberInv, StoreInv, WriterInv, StopInv, StutterInv DEF Next, ProducerStep
<1>2. LogInv => TypeOK /\ Accounting
  BY DEF LogInv
<1> QED
  BY LogInit, <1>1, <1>2, PTL DEF Spec

-----------------------------------------------------------------------------
(* The order of the events. *)

(* The slot of the k-th waiting event of a ring read from slot t.            *)
Place(t, k) == IF t + k - 1 < Capacity THEN t + k - 1 ELSE t + k - 1 - Capacity

(* The newest number outside tryPush: the one being stored is still inside.  *)
Newest == IF \E p \in Producer : pc[p] = "store" THEN seq - 1 ELSE seq

WrittenInv ==
    /\ \A i, j \in 1..Len(written) : i < j => written[i] < written[j]
    /\ \A i \in 1..Len(written) : written[i] <= Newest

HandInv ==
    writer = "write" =>
        hand <= Newest /\ \A i \in 1..Len(written) : written[i] < hand

WaitingInv ==
    /\ \A k, l \in 1..Queued : k < l => ring[Place(tail, k)] < ring[Place(tail, l)]
    /\ \A k \in 1..Queued :
          /\ ring[Place(tail, k)] <= Newest
          /\ \A i \in 1..Len(written) : written[i] < ring[Place(tail, k)]
          /\ writer = "write" => hand < ring[Place(tail, k)]

OrderInv ==
    /\ WrittenInv /\ HandInv /\ WaitingInv
    /\ \A p \in Producer : pc[p] = "store" => mine[p] = seq

LEMMA Places ==
    ASSUME TypeOK
    PROVE  /\ \A k \in 1..Queued : Place(tail, k) \in Slot /\ Place(tail, k) # head
           /\ Queued < Capacity
BY DEF Place, Queued, Slot, TypeOK

(* The line of InOrder, element by element.                                  *)
LEMMA LineIsOrdered == ASSUME TypeOK, OrderInv PROVE InOrder
<1> DEFINE inHand == IF writer = "write" THEN <<hand>> ELSE <<>>
           front == written \o inHand
           line == front \o Pending
           w == Len(written)
           h == Len(inHand)
<1>1. /\ written \in Seq(Nat) /\ inHand \in Seq(Nat) /\ h \in {0, 1} /\ w \in Nat
      /\ h = 1 => writer = "write" /\ inHand[1] = hand
  BY DEF TypeOK
<1>2. Queued \in Nat /\ \A k \in 1..Queued : ring[Place(tail, k)] \in Nat
  BY Terms, Places DEF TypeOK
<1>3. Pending = [k \in 1..Queued |-> ring[Place(tail, k)]]
  BY DEF Pending, Place
<1>4. Pending \in Seq(Nat) /\ Len(Pending) = Queued
  BY <1>2, <1>3
<1> HIDE DEF inHand
<1>5. /\ front \in Seq(Nat) /\ Len(front) = w + h
      /\ \A i \in 1..(w + h) : front[i] = IF i <= w THEN written[i] ELSE inHand[i - w]
  BY <1>1
<1> HIDE DEF front, w, h
<1>6. /\ Len(line) = w + h + Queued
      /\ \A i \in 1..Len(line) :
             line[i] = IF i <= w + h THEN front[i] ELSE Pending[i - (w + h)]
  <2>1. /\ Len(line) = Len(front) + Len(Pending)
        /\ \A i \in 1..(Len(front) + Len(Pending)) :
               line[i] = IF i <= Len(front) THEN front[i] ELSE Pending[i - Len(front)]
    BY ONLY <1>4, <1>5, ConcatProperties
  <2> QED
    BY <1>4, <1>5, <2>1
<1> HIDE DEF line
<1>7. ASSUME NEW i \in 1..Len(line)
      PROVE  /\ i <= w => line[i] = written[i]
             /\ i > w /\ i <= w + h => writer = "write" /\ i = w + 1 /\ line[i] = hand
             /\ i > w + h => /\ i - (w + h) \in 1..Queued
                            /\ line[i] = ring[Place(tail, i - (w + h))]
  BY <1>1, <1>2, <1>3, <1>5, <1>6, <1>7
<1>8. ASSUME NEW i \in 1..Len(line), NEW j \in 1..Len(line), i < j PROVE line[i] < line[j]
  <2>1. i \in Nat /\ j \in Nat /\ w \in Nat /\ h \in {0, 1} /\ i > 0 /\ j > 0
    BY <1>1, <1>2, <1>6, <1>8
  <2>2. CASE j <= w
    <3>1. line[i] = written[i] /\ line[j] = written[j] /\ i \in 1..w /\ j \in 1..w
      BY <1>7, <1>8, <2>1, <2>2
    <3> QED
      BY <1>8, <3>1 DEF OrderInv, WrittenInv, w
  <2>3. CASE i <= w /\ j > w /\ j <= w + h
    <3>1. line[i] = written[i] /\ line[j] = hand /\ i \in 1..w /\ writer = "write"
      BY <1>7, <2>1, <2>3
    <3> QED
      BY <3>1 DEF OrderInv, HandInv, w
  <2>4. CASE i <= w /\ j > w + h
    <3>1. /\ line[i] = written[i] /\ i \in 1..w
          /\ j - (w + h) \in 1..Queued /\ line[j] = ring[Place(tail, j - (w + h))]
      BY <1>7, <2>1, <2>4
    <3> QED
      BY <3>1 DEF OrderInv, WaitingInv, w
  <2>5. CASE i > w /\ i <= w + h
    <3>1. /\ line[i] = hand /\ writer = "write" /\ j > w + h
          /\ j - (w + h) \in 1..Queued /\ line[j] = ring[Place(tail, j - (w + h))]
      BY <1>7, <1>8, <2>1, <2>5
    <3> QED
      BY <3>1 DEF OrderInv, WaitingInv
  <2>6. CASE i > w + h
    <3>1. /\ i - (w + h) \in 1..Queued /\ line[i] = ring[Place(tail, i - (w + h))]
          /\ j - (w + h) \in 1..Queued /\ line[j] = ring[Place(tail, j - (w + h))]
          /\ i - (w + h) < j - (w + h)
      BY <1>7, <1>8, <2>1, <2>6
    <3> QED
      BY <3>1 DEF OrderInv, WaitingInv
  <2> QED
    BY <2>1, <2>2, <2>3, <2>4, <2>5, <2>6
<1> QED
  BY <1>8 DEF InOrder, line, front, inHand

LEMMA OrderKept ==
    ASSUME OrderInv, UNCHANGED <<ring, head, tail, written, hand>>, Newest' = Newest,
           writer' = "write" => writer = "write",
           \A p \in Producer : pc'[p] = "store" => mine'[p] = seq'
    PROVE  OrderInv'
BY DEF OrderInv, WrittenInv, HandInv, WaitingInv, Queued, Place

LEMMA OrderStep == ASSUME LogInv, OrderInv, [Next]_vars PROVE OrderInv'
<1>0. TypeOK /\ Guarded
  BY DEF LogInv
<1>1. ASSUME NEW p \in Producer, tryPush(p) PROVE OrderInv'
  <2>1. \A q \in Producer : pc'[q] = "store" <=> pc[q] = "store"
    BY <1>0, <1>1 DEF tryPush, TypeOK
  <2>2. Newest' = Newest
    BY <1>1, <2>1 DEF tryPush, Newest
  <2> QED
    BY <1>1, <2>1, <2>2, OrderKept DEF tryPush, OrderInv
<1>2. ASSUME NEW p \in Producer, Number(p) PROVE OrderInv'
  <2>1. \A q \in Producer : q # p => pc[q] = "idle"
    BY <1>0, <1>2 DEF Number, Guarded
  <2>2. pc'[p] = "store" /\ mine'[p] = seq' /\ \A q \in Producer : pc'[q] = "store" => q = p
    BY <1>0, <1>2, <2>1 DEF Number, TypeOK
  <2>3. Newest' = Newest
    BY <1>0, <1>2, <2>1, <2>2 DEF Number, Newest, TypeOK
  <2> QED
    BY <1>2, <2>2, <2>3, OrderKept DEF Number
<1>3. ASSUME NEW p \in Producer, Store(p) PROVE OrderInv'
  <2>1. /\ pc[p] = "store" /\ mine[p] = seq /\ head' = Succ(head)
        /\ ring' = [ring EXCEPT ![head] = seq]
        /\ UNCHANGED <<seq, written, writer, hand, mine>>
    BY <1>3 DEF Store, OrderInv
  <2>2. \A q \in Producer : pc'[q] # "store"
    BY <1>0, <1>3 DEF Store, Guarded, TypeOK
  <2>3. Newest = seq - 1 /\ Newest' = seq /\ seq \in Nat
    BY <1>0, <2>1, <2>2 DEF Newest, TypeOK
  <2>4. WrittenInv' /\ HandInv'
    <3>1. \A i \in 1..Len(written) : written[i] \in Nat
      BY <1>0 DEF TypeOK
    <3> QED
      BY <1>0, <2>1, <2>3, <3>1 DEF OrderInv, WrittenInv, HandInv, TypeOK
  <2>5. /\ head \in Slot /\ tail \in Slot /\ \A s \in Slot : ring[s] \in Nat
        /\ ring'[head] = seq /\ \A s \in Slot : s # head => ring'[s] = ring[s]
    BY <1>0, <2>1 DEF TypeOK
  <2>6. \E d \in {0, 1} :
           /\ Queued' = Queued + 1 - d
           /\ \A k \in 1..Queued' : k # Queued' =>
                 Place(tail', k) = Place(tail, k + d) /\ k + d \in 1..Queued
           /\ Queued' > 0 => Place(tail', Queued') = head
    <3>1. CASE Succ(head) = tail
      <4>1. tail' = Succ(tail)
        BY <1>3, <3>1 DEF Store
      <4>2. Queued' = Queued
        BY <2>1, <2>5, <3>1, <4>1 DEF Queued, Succ, Slot
      <4>3. \A k \in 1..Queued' : k # Queued' =>
                Place(tail', k) = Place(tail, k + 1) /\ k + 1 \in 1..Queued
        BY <2>1, <2>5, <3>1, <4>1, <4>2 DEF Queued, Succ, Slot, Place
      <4>4. Queued' > 0 => Place(tail', Queued') = head
        BY <2>1, <2>5, <3>1, <4>1, <4>2 DEF Queued, Succ, Slot, Place
      <4>5. Queued \in Nat
        BY <1>0, Terms
      <4> QED
        BY <4>2, <4>3, <4>4, <4>5
    <3>2. CASE Succ(head) # tail
      <4>1. tail' = tail
        BY <1>3, <3>2 DEF Store
      <4>2. Queued' = Queued + 1 /\ Queued \in Nat
        BY <2>1, <2>5, <3>2, <4>1 DEF Queued, Succ, Slot
      <4>3. Place(tail', Queued') = head
        BY <2>1, <2>5, <3>2, <4>1, <4>2 DEF Queued, Succ, Slot, Place
      <4> QED
        BY <4>1, <4>2, <4>3
    <3> QED
      BY <3>1, <3>2
  <2>7. PICK d \in {0, 1} :
           /\ Queued' = Queued + 1 - d
           /\ \A k \in 1..Queued' : k # Queued' =>
                 Place(tail', k) = Place(tail, k + d) /\ k + d \in 1..Queued
           /\ Queued' > 0 => Place(tail', Queued') = head
    BY <2>6
(* The new event is last, the others are those that waited before.           *)
  <2>8. \A k \in 1..Queued' :
           /\ k # Queued' => ring'[Place(tail', k)] = ring[Place(tail, k + d)]
           /\ k = Queued' => ring'[Place(tail', k)] = seq
    BY <1>0, <2>5, <2>7, Places
  <2>9. Queued \in Nat /\ Queued' \in Nat
    BY <1>0, <2>7, Terms
  <2>10. \A k \in 1..Queued : ring[Place(tail, k)] \in Nat /\ ring[Place(tail, k)] <= seq - 1
    BY <1>0, <2>3, <2>5, Places DEF OrderInv, WaitingInv
  <2>11. \A k, l \in 1..Queued' :
            k < l => ring'[Place(tail', k)] < ring'[Place(tail', l)]
    <3> SUFFICES ASSUME NEW k \in 1..Queued', NEW l \in 1..Queued', k < l
                 PROVE  ring'[Place(tail', k)] < ring'[Place(tail', l)]
      OBVIOUS
    <3>1. k # Queued' /\ k + d \in 1..Queued
      BY <2>7, <2>9
    <3>2. CASE l = Queued'
      BY <2>3, <2>8, <2>10, <3>1, <3>2
    <3>3. CASE l # Queued'
      BY <2>7, <2>8, <2>9, <3>1, <3>3 DEF OrderInv, WaitingInv
    <3> QED
      BY <3>2, <3>3
  <2>12. \A k \in 1..Queued' :
            /\ ring'[Place(tail', k)] <= seq
            /\ \A i \in 1..Len(written) : written[i] < ring'[Place(tail', k)]
            /\ writer = "write" => hand < ring'[Place(tail', k)]
    <3> SUFFICES ASSUME NEW k \in 1..Queued'
                 PROVE  /\ ring'[Place(tail', k)] <= seq
                        /\ \A i \in 1..Len(written) : written[i] < ring'[Place(tail', k)]
                        /\ writer = "write" => hand < ring'[Place(tail', k)]
      OBVIOUS
    <3>1. CASE k = Queued'
      <4>1. \A i \in 1..Len(written) : written[i] \in Nat /\ written[i] <= seq - 1
        BY <1>0, <2>3 DEF OrderInv, WrittenInv, TypeOK
      <4>2. hand \in Nat /\ (writer = "write" => hand <= seq - 1)
        BY <1>0, <2>3 DEF OrderInv, HandInv, TypeOK
      <4> QED
        BY <2>3, <2>8, <3>1, <4>1, <4>2
    <3>2. CASE k # Queued'
      BY <2>3, <2>7, <2>8, <2>10, <3>2 DEF OrderInv, WaitingInv
    <3> QED
      BY <3>1, <3>2
  <2>13. WaitingInv'
    BY <2>1, <2>3, <2>11, <2>12 DEF WaitingInv
  <2> QED
    BY <2>2, <2>4, <2>13 DEF OrderInv
<1>4. CASE WriterLocks \/ WriterRests
  <2>1. UNCHANGED <<ring, head, tail, written, hand, seq, pc, mine>> /\ writer' # "write"
    BY <1>4 DEF WriterLocks, WriterRests
  <2> QED
    BY <2>1, OrderKept DEF OrderInv, Newest
<1>5. CASE WriterTakes
  <2>1. UNCHANGED <<ring, head, written, seq, pc, mine>> /\ writer = "locked"
    BY <1>5 DEF WriterTakes
  <2>2. CASE tail = head
    BY <1>5, <2>1, <2>2, OrderKept DEF OrderInv, Newest, WriterTakes
  <2>3. CASE tail # head
    <3>1. hand' = ring[tail] /\ tail' = Succ(tail)
      BY <1>5, <2>3 DEF WriterTakes
    <3>2. /\ Queued' = Queued - 1 /\ Queued \in Nat /\ Queued > 0 /\ Place(tail, 1) = tail
          /\ \A k \in 1..Queued' : Place(tail', k) = Place(tail, k + 1) /\ k + 1 \in 1..Queued
      BY <1>0, <2>1, <2>3, <3>1 DEF Queued, Succ, Slot, Place, TypeOK
    <3>3. Newest' = Newest
      BY <2>1 DEF Newest
    <3>4. WrittenInv'
      BY <2>1, <3>3 DEF OrderInv, WrittenInv
    <3>5. HandInv'
      BY <2>1, <3>1, <3>2, <3>3 DEF OrderInv, HandInv, WaitingInv
    <3>6. WaitingInv'
      BY <2>1, <3>1, <3>2, <3>3 DEF OrderInv, WaitingInv
    <3> QED
      BY <2>1, <3>4, <3>5, <3>6 DEF OrderInv
  <2> QED
    BY <2>2, <2>3
<1>6. CASE WriterWrites
  <2>1. /\ UNCHANGED <<ring, head, tail, seq, pc, mine, hand>> /\ writer = "write"
        /\ writer' = "check" /\ written' = Append(written, hand)
    BY <1>6 DEF WriterWrites
  <2>2. Newest' = Newest /\ Queued' = Queued
    BY <2>1 DEF Newest, Queued
  <2>3. /\ Len(written) \in Nat /\ Len(written') = Len(written) + 1
        /\ \A i \in 1..Len(written) : written'[i] = written[i]
        /\ written'[Len(written) + 1] = hand
    BY <1>0, <2>1 DEF TypeOK
  <2>4. WrittenInv' /\ HandInv'
    BY <2>1, <2>2, <2>3 DEF OrderInv, WrittenInv, HandInv
  <2>5. WaitingInv'
    BY <2>1, <2>2, <2>3 DEF OrderInv, WaitingInv
  <2> QED
    BY <2>1, <2>4, <2>5 DEF OrderInv
<1>7. CASE stop \/ UNCHANGED vars
  <2>1. UNCHANGED <<ring, head, tail, written, hand, seq, pc, mine, writer>>
    BY <1>7 DEF stop, vars
  <2> QED
    BY <2>1, OrderKept DEF OrderInv, Newest
<1> QED
  BY <1>1, <1>2, <1>3, <1>4, <1>5, <1>6, <1>7 DEF Next, ProducerStep, WriterStep

LEMMA OrderInit == Init => OrderInv
BY DEF Init, OrderInv, WrittenInv, HandInv, WaitingInv, Queued, Newest

(* What the writer has written, holds and has still to take is in the order  *)
(* in which the producers were given their numbers: the number is drawn      *)
(* (Number) and the slot filled (Store) under one hold of ringMutex_, and an *)
(* overflow drops the oldest event, never one in the middle.                 *)
THEOREM LogKeepsOrder == Spec => []InOrder
<1>1. LogInv /\ OrderInv /\ [Next]_vars => OrderInv'
  BY OrderStep
<1>2. LogInv /\ OrderInv => InOrder
  BY LineIsOrdered DEF LogInv
<1>3. LogInv /\ [Next]_vars => LogInv'
  BY TryPushInv, NumberInv, StoreInv, WriterInv, StopInv, StutterInv DEF Next, ProducerStep
<1> QED
  BY LogInit, OrderInit, <1>1, <1>2, <1>3, PTL DEF Spec
=============================================================================
