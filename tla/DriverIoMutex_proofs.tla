------------------------- MODULE DriverIoMutex_proofs -------------------------
(***************************************************************************)
(* The ticket lock is a first-come, first-served queue for any number of   *)
(* threads and tickets.  The queue is read off the outstanding tickets, so *)
(* the invariant that carries the proof says that each of them has exactly *)
(* one owner (TicketsOwned).                                               *)
(***************************************************************************)
EXTENDS DriverIoMutex, SequenceTheorems, TLAPS

USE MutexAssumption

LockInv == TypeOK /\ TicketsOwned

LEMMA LockInit == Init => LockInv
BY DEF Init, LockInv, TypeOK, TicketsOwned, Active

(* Taking a ticket, asleep or not, adds its one owner. *)
LEMMA TakesTicket ==
    ASSUME LockInv, NEW t \in Thread, pc[t] = "idle",
           next' = next + 1, serving' = serving, ticket' = [ticket EXCEPT ![t] = next],
           NEW l \in {"waiting", "holding"}, To(t, l), l = "holding" <=> next = serving,
           asleep' = asleep \/ (l = "waiting" /\ asleep' = asleep \cup {t})
    PROVE  LockInv'
<1> USE DEF LockInv, TypeOK, TicketsOwned, Active, To
<1>1. TypeOK'
  OBVIOUS
<1>2. \A u \in Active' : ticket'[u] \in serving'..(next' - 1)
  OBVIOUS
<1>3. \A u, v \in Active' : ticket'[u] = ticket'[v] => u = v
  OBVIOUS
<1>4. \A n \in serving'..(next' - 1) : \E u \in Active' : ticket'[u] = n
  <2> TAKE n \in serving'..(next' - 1)
  <2>1. CASE n = next
    <3>1. t \in Active' /\ ticket'[t] = n
      BY <2>1
    <3> QED
      BY <3>1
  <2>2. CASE n # next
    <3>1. PICK u \in Active : ticket[u] = n
      BY <2>2
    <3>2. u \in Active' /\ ticket'[u] = n
      BY <3>1
    <3> QED
      BY <3>2
  <2> QED
    BY <2>1, <2>2
<1>5. \A u \in Thread : pc'[u] = "holding" => ticket'[u] = serving'
  OBVIOUS
<1> QED
  BY <1>1, <1>2, <1>3, <1>4, <1>5

LEMMA WakesInv == ASSUME LockInv, NEW t \in Thread, Wakes(t) PROVE LockInv'
<1> USE DEF LockInv, TypeOK, TicketsOwned, Active, To, Wakes
<1>1. CASE ticket[t] = serving
  BY <1>1
<1>2. CASE ticket[t] # serving
  BY <1>2
<1> QED
  BY <1>1, <1>2

(* The holder's ticket is the one that leaves.                               *)
LEMMA UnlockInv == ASSUME LockInv, NEW t \in Thread, unlock(t) PROVE LockInv'
<1> USE DEF LockInv, TypeOK, TicketsOwned, Active, To, unlock
<1>1. ticket[t] = serving /\ serving < next
  OBVIOUS
<1>2. TypeOK'
  BY <1>1
<1>3. \A u \in Active' : u \in Active /\ u # t /\ ticket[u] # serving
  BY <1>1
<1>4. \A n \in serving'..(next' - 1) : \E u \in Active' : ticket'[u] = n
  <2> TAKE n \in serving'..(next' - 1)
  <2>1. PICK u \in Active : ticket[u] = n
    BY <1>1
  <2>2. u # t /\ u \in Active'
    BY <1>1, <2>1
  <2> QED
    BY <2>1, <2>2
<1>5. \A u \in Thread : pc'[u] # "holding"
  BY <1>1, <1>3
<1> QED
  BY <1>1, <1>2, <1>3, <1>4, <1>5

LEMMA LockNext == ASSUME LockInv, [Next]_vars PROVE LockInv'
<1>1. ASSUME NEW t \in Thread, lock(t) PROVE LockInv'
  <2>1. CASE next = serving
    BY <1>1, <2>1, TakesTicket DEF lock
  <2>2. CASE next # serving
    BY <1>1, <2>2, TakesTicket DEF lock
  <2> QED
    BY <2>1, <2>2
<1>2. ASSUME NEW t \in Thread, try_lock(t) PROVE LockInv'
  BY <1>2, TakesTicket DEF try_lock
<1>3. ASSUME NEW t \in Thread, Notifies(t) PROVE LockInv'
  BY <1>3 DEF Notifies, To, LockInv, TypeOK, TicketsOwned, Active
<1>4. CASE UNCHANGED vars
  BY <1>4 DEF vars, LockInv, TypeOK, TicketsOwned, Active
<1> QED
  BY <1>1, <1>2, <1>3, <1>4, WakesInv, UnlockInv DEF Next, ThreadSteps

LEMMA LockInvariant == Spec => []LockInv
<1> QED
  BY LockInit, LockNext, PTL DEF Spec

(* Type correctness: `serving' never runs ahead of `next', and only threads  *)
(* that wait are asleep on the condition variable (DriverIoMutex.h:14-34).   *)
THEOREM TicketsTyped == Spec => []TypeOK
<1>1. LockInv => TypeOK
  BY DEF LockInv
<1> QED
  BY <1>1, LockInvariant, PTL

(* Never are two calls inside one native driver (DriverIoMutex.h).           *)
THEOREM DriverCallsExclude == Spec => []MutualExclusion
<1>1. LockInv => MutualExclusion
  BY DEF LockInv, TicketsOwned, MutualExclusion, Active
<1> QED
  BY <1>1, LockInvariant, PTL

-----------------------------------------------------------------------------
(* The queue of a state. *)

Shape == /\ Queue \in Seq(Thread)
         /\ Len(Queue) = next - serving
         /\ \A n \in 1..(next - serving) : /\ Queue[n] \in Active
                                           /\ ticket[Queue[n]] = serving + n - 1

LEMMA QueueShape == LockInv => Shape
<1> SUFFICES ASSUME LockInv PROVE Shape
  OBVIOUS
<1>1. next - serving \in Nat
  BY DEF LockInv, TypeOK
<1>2. ASSUME NEW n \in 1..(next - serving)
      PROVE  Queue[n] \in Active /\ ticket[Queue[n]] = serving + n - 1
  <2>1. serving + n - 1 \in serving..(next - 1)
    BY DEF LockInv, TypeOK
  <2>2. \E t \in Active : ticket[t] = serving + n - 1
    BY <2>1 DEF LockInv, TicketsOwned
  <2> QED
    BY <2>2 DEF Queue
<1>3. Queue \in [1..(next - serving) -> Thread]
  BY <1>2 DEF Queue, Active
<1> QED
  BY <1>1, <1>2, <1>3 DEF Shape

(* A ticket's owner stands where its ticket says. *)
Places == \A t \in Active : Queue[ticket[t] - serving + 1] = t

LEMMA QueueOwner == LockInv => Places
<1> SUFFICES ASSUME LockInv, NEW t \in Active PROVE Queue[ticket[t] - serving + 1] = t
  BY DEF Places
<1> DEFINE n == ticket[t] - serving + 1
<1>1. n \in 1..(next - serving) /\ serving + n - 1 = ticket[t]
  BY DEF LockInv, TypeOK, TicketsOwned, Active
<1>2. Queue[n] \in Active /\ ticket[Queue[n]] = serving + n - 1
  BY <1>1, QueueShape DEF Shape
<1> QED
  BY <1>1, <1>2 DEF LockInv, TicketsOwned

-----------------------------------------------------------------------------
(* Refinement, step by step. *)

(* Taking a ticket appends to the queue, and is admitted if that was empty.  *)
LEMMA TakesTicketRefines ==
    ASSUME LockInv, LockInv', NEW t \in Thread, pc[t] = "idle",
           next' = next + 1, serving' = serving, ticket' = [ticket EXCEPT ![t] = next],
           NEW l \in {"waiting", "holding"}, To(t, l), l = "holding" <=> next = serving
    PROVE  Fifo!Request(t)
<1> DEFINE Held == \E u \in Thread : pc[u] = "holding"
<1>0. next \in Nat /\ serving \in 0..next /\ ticket \in [Thread -> Nat]
      /\ pc \in [Thread -> {"idle", "waiting", "holding", "notifying"}]
  BY DEF LockInv, TypeOK
<1>a. (LockInv => Places)' /\ (LockInv => Shape)'
  BY QueueOwner, QueueShape, PTL
<1>1. \A u \in Active' : Queue'[ticket'[u] - serving' + 1] = u
  BY <1>a DEF Places
<1>2. Queue' \in Seq(Thread) /\ Len(Queue') = next' - serving'
  BY <1>a DEF Shape
<1>3. Queue \in Seq(Thread) /\ Len(Queue) = next - serving
  BY QueueShape DEF Shape
<1>4. ASSUME NEW n \in 1..(next - serving) PROVE Queue'[n] = Queue[n]
  <2>1. Queue[n] \in Active /\ ticket[Queue[n]] = serving + n - 1
    BY QueueShape DEF Shape
  <2>2. Queue[n] \in Active' /\ ticket'[Queue[n]] = serving + n - 1
    BY <1>0, <2>1 DEF Active, To
  <2> QED
    BY <1>0, <1>1, <2>2
<1>5. Queue'[next - serving + 1] = t
  <2>1. t \in Active' /\ ticket'[t] = next
    BY <1>0 DEF Active, To
  <2> QED
    BY <1>1, <2>1
<1>6. Queue' = Append(Queue, t)
  <2>1. Append(Queue, t) \in Seq(Thread) /\ Len(Append(Queue, t)) = next - serving + 1
    BY <1>0, <1>3
  <2>2. Len(Queue') = next - serving + 1
    BY <1>0, <1>2
  <2>3. ASSUME NEW n \in 1..(next - serving + 1) PROVE Queue'[n] = Append(Queue, t)[n]
    BY <1>0, <1>3, <1>4, <1>5
  <2> QED
    BY <1>0, <1>2, <2>1, <2>2, <2>3, SeqEqual
<1>7. Held' <=> Held \/ next = serving
  BY <1>0 DEF To
<1>8. next = serving <=> Queue = <<>>
  BY <1>0, <1>3
<1> QED
  BY <1>6, <1>7, <1>8 DEF Fifo!Request

LEMMA WakesRefines ==
    ASSUME LockInv, LockInv', NEW t \in Thread, Wakes(t)
    PROVE  [Fifo!Next]_<<Queue, \E u \in Thread : pc[u] = "holding">>
<1> DEFINE Held == \E u \in Thread : pc[u] = "holding"
<1>1. Active' = Active
  BY DEF Wakes, To, Active, LockInv, TypeOK
<1>2. Queue' = Queue
  BY <1>1 DEF Wakes, Queue
<1>3. CASE ticket[t] = serving
  <2>1. Queue # <<>>
    <3>1. t \in Active
      BY DEF Wakes, Active
    <3>2. next - serving # 0
      BY <3>1 DEF LockInv, TypeOK, TicketsOwned
    <3> QED
      BY <3>2, QueueShape DEF Shape
  <2>2. ~Held
    BY <1>3 DEF Wakes, LockInv, TicketsOwned, Active
  <2>3. Held'
    BY <1>3 DEF Wakes, To, LockInv, TypeOK
  <2> QED
    BY <1>2, <2>1, <2>2, <2>3 DEF Fifo!Next, Fifo!Admit
<1>4. CASE ticket[t] # serving
  BY <1>2, <1>4 DEF Wakes
<1> QED
  BY <1>3, <1>4

LEMMA UnlockRefines ==
    ASSUME LockInv, LockInv', NEW t \in Thread, unlock(t) PROVE Fifo!Finish
<1> DEFINE Held == \E u \in Thread : pc[u] = "holding"
<1>0. /\ next \in Nat /\ serving \in 0..next
      /\ pc \in [Thread -> {"idle", "waiting", "holding", "notifying"}]
      /\ ticket[t] = serving /\ serving < next
      /\ serving' = serving + 1 /\ next' = next /\ ticket' = ticket
  BY DEF unlock, LockInv, TypeOK, TicketsOwned, Active
<1>a. (LockInv => Places)' /\ (LockInv => Shape)'
  BY QueueOwner, QueueShape, PTL
<1>1. \A u \in Active' : Queue'[ticket'[u] - serving' + 1] = u
  BY <1>a DEF Places
<1>2. Queue' \in Seq(Thread) /\ Len(Queue') = next' - serving'
  BY <1>a DEF Shape
<1>3. Queue \in Seq(Thread) /\ Len(Queue) = next - serving
  BY QueueShape DEF Shape
<1>4. ASSUME NEW n \in 1..(next - serving - 1) PROVE Queue'[n] = Queue[n + 1]
  <2>1. Queue[n + 1] \in Active /\ ticket[Queue[n + 1]] = serving + n
    BY <1>0, QueueShape DEF Shape
  <2>2. Queue[n + 1] \in Active' /\ ticket'[Queue[n + 1]] = serving' + n - 1
    BY <1>0, <2>1 DEF Active, To, unlock
  <2> QED
    BY <1>0, <1>1, <2>2
<1>5. Queue' = Tail(Queue)
  BY <1>0, <1>2, <1>3, <1>4
<1>6. Held
  BY DEF unlock
<1>7. ~Held'
  BY <1>0 DEF unlock, To, LockInv, TicketsOwned, Active
<1> QED
  BY <1>5, <1>6, <1>7 DEF Fifo!Finish

LEMMA NotifiesRefines ==
    ASSUME LockInv, NEW t \in Thread, Notifies(t)
    PROVE  UNCHANGED <<Queue, \E u \in Thread : pc[u] = "holding">>
<1>1. Active' = Active
  BY DEF Notifies, To, Active, LockInv, TypeOK
<1>2. (\E u \in Thread : pc[u] = "holding")' <=> \E u \in Thread : pc[u] = "holding"
  BY DEF Notifies, To, LockInv, TypeOK
<1> QED
  BY <1>1, <1>2 DEF Notifies, Queue

LEMMA NextServesInOrder ==
    ASSUME LockInv, LockInv', [Next]_vars
    PROVE  [Fifo!Next]_<<Queue, \E t \in Thread : pc[t] = "holding">>
<1>1. ASSUME NEW t \in Thread, lock(t) PROVE Fifo!Next
  <2>1. CASE next = serving
    BY <1>1, <2>1, TakesTicketRefines DEF lock, Fifo!Next
  <2>2. CASE next # serving
    BY <1>1, <2>2, TakesTicketRefines DEF lock, Fifo!Next
  <2> QED
    BY <2>1, <2>2
<1>2. ASSUME NEW t \in Thread, try_lock(t) PROVE Fifo!Next
  BY <1>2, TakesTicketRefines DEF try_lock, Fifo!Next
<1>3. ASSUME NEW t \in Thread, unlock(t) PROVE Fifo!Next
  BY <1>3, UnlockRefines DEF Fifo!Next
<1>4. CASE UNCHANGED vars
  BY <1>4 DEF vars, Queue, Active
<1> QED
  BY <1>1, <1>2, <1>3, <1>4, WakesRefines, NotifiesRefines DEF Next, ThreadSteps

(* DEC-0190: the lock serves its callers in the order in which they came; a  *)
(* receive loop cannot lock again ahead of a command that already waits.     *)
THEOREM LockServesInOrder == Spec => ServedInOrder
<1>1. Init => Fifo!Init
  BY DEF Init, Fifo!Init, Queue
<1>2. LockInv /\ LockInv' /\ [Next]_vars
      => [Fifo!Next]_<<Queue, \E t \in Thread : pc[t] = "holding">>
  BY NextServesInOrder
<1> QED
  BY <1>1, <1>2, LockInvariant, PTL DEF Spec, ServedInOrder, Fifo!Spec
=============================================================================
