---------------------------- MODULE DriverIoMutex ----------------------------
(***************************************************************************)
(* The ticket lock that serialises calls into one native radio             *)
(* (include/DriverIoMutex.h).  The receive loop, tuning, settings and      *)
(* teardown of a radio lock it; closing a transmitter only tries.          *)
(*                                                                         *)
(* The two counters are read and written under mutex_, so each critical    *)
(* section is a step; waiting on the condition variable and notifying it   *)
(* are steps of their own.  DriverIoMutexTable keeps one lock per radio.   *)
(***************************************************************************)
EXTENDS Integers, Sequences

CONSTANTS Thread,
          MaxTickets    \* bound on the tickets taken

ASSUME MutexAssumption == MaxTickets \in Nat

VARIABLES
    next, serving,      \* next_, serving_
    pc,                 \* per thread: outside, waiting, inside the lock, about to notify
    ticket,             \* per thread: the local of lock()
    asleep              \* threads blocked in ready_.wait

vars == <<next, serving, pc, ticket, asleep>>

TypeOK ==
    /\ next \in Nat
    /\ serving \in 0..next
    /\ pc \in [Thread -> {"idle", "waiting", "holding", "notifying"}]
    /\ ticket \in [Thread -> Nat]
    /\ asleep \subseteq {t \in Thread : pc[t] = "waiting"}

Init ==
    /\ next = 0 /\ serving = 0
    /\ pc = [t \in Thread |-> "idle"]
    /\ ticket = [t \in Thread |-> 0]
    /\ asleep = {}

-----------------------------------------------------------------------------
To(t, l) == pc' = [pc EXCEPT ![t] = l]

(* The caller of lock() takes a ticket; it sleeps unless that is served.     *)
lock(t) ==
    /\ pc[t] = "idle"
    /\ next < MaxTickets
    /\ next' = next + 1
    /\ ticket' = [ticket EXCEPT ![t] = next]
    /\ IF next = serving
       THEN To(t, "holding") /\ UNCHANGED asleep
       ELSE To(t, "waiting") /\ asleep' = asleep \cup {t}
    /\ UNCHANGED serving

(* A notified waiter looks again. *)
Wakes(t) ==
    /\ pc[t] = "waiting" /\ t \notin asleep
    /\ IF ticket[t] = serving
       THEN To(t, "holding") /\ UNCHANGED asleep
       ELSE UNCHANGED pc /\ asleep' = asleep \cup {t}
    /\ UNCHANGED <<next, serving, ticket>>

(* unlock() increments under mutex_ and notifies after letting go of it. *)
unlock(t) ==
    /\ pc[t] = "holding"
    /\ serving' = serving + 1
    /\ To(t, "notifying")
    /\ UNCHANGED <<next, ticket, asleep>>

(* Mutant: notify_one wakes a waiter, not the one whose turn it is. *)
Notifies_One(t) ==
    /\ pc[t] = "notifying"
    /\ To(t, "idle")
    /\ asleep' \in IF asleep = {} THEN {{}} ELSE {asleep \ {u} : u \in asleep}
    /\ UNCHANGED <<next, serving, ticket>>

Notifies(t) ==
    /\ pc[t] = "notifying"
    /\ To(t, "idle")
    /\ asleep' = {}
    /\ UNCHANGED <<next, serving, ticket>>

(* Mutant: it barges in front of a waiter that is still waking up.           *)
try_lock_Barges(t) ==
    /\ pc[t] = "idle"
    /\ \A u \in Thread : pc[u] # "holding"
    /\ serving > 0
    /\ serving' = serving - 1
    /\ ticket' = [ticket EXCEPT ![t] = serving - 1]
    /\ To(t, "holding")
    /\ UNCHANGED <<next, asleep>>

(* try_lock() that succeeds; one that fails changes nothing (DEC-0207). *)
try_lock(t) ==
    /\ pc[t] = "idle"
    /\ next < MaxTickets
    /\ next = serving
    /\ next' = next + 1
    /\ ticket' = [ticket EXCEPT ![t] = next]
    /\ To(t, "holding")
    /\ UNCHANGED <<serving, asleep>>

ThreadSteps(t) == Wakes(t) \/ unlock(t) \/ Notifies(t)

Next == \E t \in Thread : lock(t) \/ try_lock(t) \/ ThreadSteps(t)

Spec == Init /\ [][Next]_vars

(* Calls into the driver return and threads inside the lock keep running.    *)
FairSpec == Spec /\ \A t \in Thread : WF_vars(ThreadSteps(t))

-----------------------------------------------------------------------------
(* Threads with a ticket that has not been given back. *)
Active == {t \in Thread : pc[t] \in {"waiting", "holding"}}

(* Every outstanding ticket has exactly one owner, and a holder is served:   *)
(* what keeps the counters and the threads in step.                          *)
TicketsOwned ==
    /\ \A t \in Active : ticket[t] \in serving..(next - 1)
    /\ \A t, u \in Active : ticket[t] = ticket[u] => t = u
    /\ \A n \in serving..(next - 1) : \E t \in Active : ticket[t] = n
    /\ \A t \in Thread : pc[t] = "holding" => ticket[t] = serving

(* Never are two calls inside one native driver.                             *)
MutualExclusion ==
    \A t, u \in Thread : pc[t] = "holding" /\ pc[u] = "holding" => t = u

(* DEC-0190: "without letting a busy RX loop reacquire ahead of an already   *)
(* waiting startup/retune/stop command" (DriverIoMutex.h:10-11).  The lock   *)
(* implements a first-come, first-served queue.                              *)
Queue == [n \in 1..(next - serving) |->
              CHOOSE t \in Active : ticket[t] = serving + n - 1]
Fifo == INSTANCE FifoLock WITH queue <- Queue,
                               held <- \E t \in Thread : pc[t] = "holding"
ServedInOrder == Fifo!Spec

(* A command that waits for a busy radio is admitted, although the receive   *)
(* loop locks again and again and other threads try; no wake-up is lost      *)
(* between unlock's increment and its notification.                          *)
WaitersAdmitted == \A t \in Thread : pc[t] = "waiting" ~> pc[t] = "holding"
=============================================================================
