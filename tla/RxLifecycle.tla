----------------------------- MODULE RxLifecycle -----------------------------
(***************************************************************************)
(* One receive stream of DeviceManager (src/DeviceManager.cpp): the        *)
(* control thread that starts and stops it, the detached thread that opens *)
(* the native device, the receive worker of every session, and a caller    *)
(* that tunes.  Calls into the driver may take forever, so nobody joins    *)
(* the open thread and workers are detached after a timeout; what keeps    *)
(* the leftovers harmless is the session generation, checked under         *)
(* publicationMutex by whoever publishes.                                  *)
(*                                                                         *)
(* A native handle is named by the generation of the session that opened   *)
(* it; 0 is a null pointer.  A ring block records the session that wrote   *)
(* it and the handle it was read from (0: synthetic).  Permits come from   *)
(* DeviceLeases: start, stop and startup control of one stream exclude     *)
(* each other.  The spectrum worker has the same fence and is left out.    *)
(***************************************************************************)
EXTENDS Naturals, FiniteSets

CONSTANTS
    Freq,     \* centre frequencies
    MaxGen,   \* bound on session generations
    MaxTunes  \* bound on tune requests

ASSUME RxAssumption ==
    /\ Freq # {}
    /\ MaxGen \in Nat /\ MaxTunes \in Nat

Gen == 1..MaxGen
Handle == 0..MaxGen

VARIABLES
    sessionGen, stopFlag,
    active, isReal, runtimeState,
    handle,        \* soapyDev and rxStream
    rxThread,      \* the session whose worker the thread object refers to, or 0
    ring,          \* blocks appended since the last resetStreamBuffers
    currentCenter, centerTuneRequestSeq, centerTuneAppliedSeq, centerTuneFailedSeq,
    hwCenter,      \* the frequency each native handle is tuned to
    native,        \* native handles: closed, open, retired (close pending), failed
    lifecycle,     \* lifecycleMutex: "free", "control" or "opener"
    control,       \* the control thread
    opener,        \* the detached native open (one per identity)
    worker,        \* the receive worker of each session
    tuner,         \* the caller inside queueCenterFreq, which holds leaseMutex_
    lastRequested, \* history: the frequency of the last tune request
    overwritten    \* history: the stub wrote an older centre over it

sessionVars == <<sessionGen, stopFlag, active, isReal, runtimeState, handle, rxThread>>
tuneVars == <<currentCenter, centerTuneRequestSeq, centerTuneAppliedSeq, centerTuneFailedSeq>>
callerVars == <<tuner, lastRequested, overwritten>>
vars == <<sessionVars, ring, tuneVars, hwCenter, native, lifecycle, control, opener,
          worker, callerVars>>

Runtime == {"stopped", "simulated/stub", "opening hardware (stub active)",
            "opening hardware controls", "live hardware", "hardware failed, using stub",
            "driver stuck, restart recommended"}

Control == [pc : {"idle", "start", "join", "close"}, real : BOOLEAN,
            center : Freq, detached : BOOLEAN]
OpenerPc == {"begin", "readCenter", "native", "handoff", "join", "publish", "control",
             "readPpmCenter", "setPpm", "ready"}
Opener == [pc : OpenerPc, gen : Gen, handle : Handle, seq : Nat, center : Freq]
          \cup [pc : {"none"}, gen : {0}, handle : {0}, seq : {0}, center : Freq]
Worker == [pc : {"none", "loop", "readCenter", "setFrequency", "tuned", "untuned",
                 "stubWrite", "faulted", "done"},
           handle : Handle, seq : Nat, center : Freq]

TypeOK ==
    /\ sessionGen \in 0..MaxGen /\ stopFlag \in BOOLEAN
    /\ active \in BOOLEAN /\ isReal \in BOOLEAN /\ runtimeState \in Runtime
    /\ handle \in Handle /\ rxThread \in 0..MaxGen
    /\ ring \subseteq [gen : Gen, handle : Handle]
    /\ currentCenter \in Freq
    /\ centerTuneRequestSeq \in Nat
    /\ centerTuneAppliedSeq \in Nat /\ centerTuneFailedSeq \in Nat
    /\ hwCenter \in [Gen -> Freq]
    /\ native \in [Gen -> {"closed", "open", "retired", "failed"}]
    /\ lifecycle \in {"free", "control", "opener"}
    /\ control \in Control /\ opener \in Opener
    /\ worker \in [Gen -> Worker]
    /\ tuner \in {"idle", "queueing"}
    /\ lastRequested \in Freq /\ overwritten \in BOOLEAN

-----------------------------------------------------------------------------
AnyFreq == CHOOSE f \in Freq : TRUE

NoOpener == [pc |-> "none", gen |-> 0, handle |-> 0, seq |-> 0, center |-> AnyFreq]
NoWorker == [pc |-> "none", handle |-> 0, seq |-> 0, center |-> AnyFreq]

Init ==
    /\ sessionGen = 0 /\ stopFlag = FALSE
    /\ active = FALSE /\ isReal = FALSE /\ runtimeState = "stopped"
    /\ handle = 0 /\ rxThread = 0
    /\ ring = {}
    /\ currentCenter \in Freq
    /\ centerTuneRequestSeq = 0 /\ centerTuneAppliedSeq = 0 /\ centerTuneFailedSeq = 0
    /\ hwCenter = [h \in Gen |-> AnyFreq]
    /\ native = [h \in Gen |-> "closed"]
    /\ lifecycle = "free"
    /\ control = [pc |-> "idle", real |-> FALSE, center |-> AnyFreq, detached |-> FALSE]
    /\ opener = NoOpener
    /\ worker = [g \in Gen |-> NoWorker]
    /\ tuner = "idle"
    /\ lastRequested = currentCenter /\ overwritten = FALSE

(* Mutant: only the stop flag is looked at.                                  *)
cancelled_StopFlagOnly(g) == stopFlag

(* Another session has begun, or this one is being stopped. *)
cancelled(g) == stopFlag \/ sessionGen # g

(* Startup control holds the radio's permit. *)
StartupPermit == opener.pc \in {"readPpmCenter", "setPpm"}

(* Mutant: a close that failed is forgotten.                                 *)
rxCleanupPending_PendingOnly == \E h \in Gen : native[h] = "retired"

(* The cleanup record of a handle keeps new opens out until it is closed. *)
rxCleanupPending == \E h \in Gen : native[h] \in {"retired", "failed"}

(* registerSoapyRxCleanup: the handle leaves the stream before it is closed. *)
Retired(h) == IF h = 0 THEN native ELSE [native EXCEPT ![h] = "retired"]

(* finishSoapyRxCleanup: closed, or the driver threw and the record stays.   *)
Finished(h) == IF h = 0 THEN {native}
               ELSE {[native EXCEPT ![h] = s] : s \in {"closed", "failed"}}

(* launchRxWorkers: the worker picks up the published handle. *)
Launched(g, h) == [worker EXCEPT ![g] = [NoWorker EXCEPT !.pc = "loop", !.handle = h]]

-----------------------------------------------------------------------------
(* The tuning caller: queueCenterFreq under leaseMutex_.  allowed() keeps it *)
(* out while a command or a stop of this radio is in progress.               *)

QueueCenter(f) ==
    /\ tuner = "idle"
    /\ control.pc = "idle" /\ ~StartupPermit
    /\ centerTuneRequestSeq < MaxTunes
    /\ currentCenter' = f
    /\ lastRequested' = f /\ overwritten' = FALSE
    /\ tuner' = "queueing"
    /\ UNCHANGED <<sessionVars, ring, centerTuneRequestSeq, centerTuneAppliedSeq,
                   centerTuneFailedSeq, hwCenter, native, lifecycle, control, opener, worker>>

QueueRequest ==
    /\ tuner = "queueing"
    /\ centerTuneRequestSeq' = centerTuneRequestSeq + 1
    /\ tuner' = "idle"
    /\ UNCHANGED <<sessionVars, ring, currentCenter, centerTuneAppliedSeq,
                   centerTuneFailedSeq, hwCenter, native, lifecycle, control, opener, worker,
                   lastRequested, overwritten>>

-----------------------------------------------------------------------------
(* startStreamingImpl *)

(* Permit taken; checks; new generation; the requested centre is read.  An   *)
(* active stream is left alone here: replacing a stub is a stop, then a      *)
(* start.  attemptReal needs no quarantined handle and no open in flight.    *)
StartBegins(attemptReal) ==
    /\ control.pc = "idle" /\ tuner = "idle" /\ ~StartupPermit
    /\ lifecycle = "free"
    /\ ~active
    /\ attemptReal => ~rxCleanupPending /\ opener.pc = "none"
    /\ sessionGen + 3 <= MaxGen
    /\ lifecycle' = "control"
    /\ sessionGen' = sessionGen + 1
    /\ stopFlag' = FALSE
    /\ control' = [control EXCEPT !.pc = "start", !.real = attemptReal,
                                  !.center = currentCenter]
    /\ UNCHANGED <<active, isReal, runtimeState, handle, rxThread, ring, tuneVars,
                   hwCenter, native, opener, worker, callerVars>>

(* Mutant: the open thread does not capture its generation.                  *)
StartLaunches_NoGen ==
    /\ control.pc = "start"
    /\ currentCenter' = control.center
    /\ centerTuneAppliedSeq' = IF control.real THEN centerTuneAppliedSeq
                               ELSE centerTuneRequestSeq
    /\ ring' = {}
    /\ active' = TRUE /\ isReal' = FALSE
    /\ runtimeState' = IF control.real THEN "opening hardware (stub active)"
                       ELSE "simulated/stub"
    /\ worker' = Launched(sessionGen, 0)
    /\ rxThread' = sessionGen
    /\ opener' = IF control.real
                 THEN [NoOpener EXCEPT !.pc = "begin"]
                 ELSE opener
    /\ control' = [control EXCEPT !.pc = "idle"]
    /\ lifecycle' = "free"
    /\ UNCHANGED <<sessionGen, stopFlag, handle, centerTuneRequestSeq,
                   centerTuneFailedSeq, hwCenter, native, callerVars>>

(* Buffers reset, the stub worker and, for real hardware, the open thread    *)
(* are launched.                                                             *)
StartLaunches ==
    /\ control.pc = "start"
    /\ currentCenter' = control.center
    /\ centerTuneAppliedSeq' = IF control.real THEN centerTuneAppliedSeq
                               ELSE centerTuneRequestSeq
    /\ ring' = {}
    /\ active' = TRUE /\ isReal' = FALSE
    /\ runtimeState' = IF control.real THEN "opening hardware (stub active)"
                       ELSE "simulated/stub"
    /\ worker' = Launched(sessionGen, 0)
    /\ rxThread' = sessionGen
    /\ opener' = IF control.real
                 THEN [NoOpener EXCEPT !.pc = "begin", !.gen = sessionGen]
                 ELSE opener
    /\ control' = [control EXCEPT !.pc = "idle"]
    /\ lifecycle' = "free"
    /\ UNCHANGED <<sessionGen, stopFlag, handle, centerTuneRequestSeq,
                   centerTuneFailedSeq, hwCenter, native, callerVars>>

-----------------------------------------------------------------------------
(* stopStreamingImpl *)

StopBegins ==
    /\ control.pc = "idle" /\ tuner = "idle" /\ ~StartupPermit
    /\ lifecycle = "free"
    /\ active \/ handle # 0 \/ rxThread # 0
    /\ sessionGen < MaxGen
    /\ lifecycle' = "control"
    /\ sessionGen' = sessionGen + 1
    /\ stopFlag' = TRUE
    /\ control' = [control EXCEPT !.pc = "join", !.detached = FALSE]
    /\ UNCHANGED <<active, isReal, runtimeState, handle, rxThread, ring, tuneVars,
                   hwCenter, native, opener, worker, callerVars>>

(* Mutant: joined without a timeout.                                         *)
StopJoins_NoTimeout ==
    /\ control.pc = "join"
    /\ rxThread # 0 => worker[rxThread].pc = "done"
    /\ control' = [control EXCEPT
           !.pc = "close", !.detached = rxThread # 0 /\ worker[rxThread].pc # "done"]
    /\ rxThread' = 0
    /\ UNCHANGED <<sessionGen, stopFlag, active, isReal, runtimeState, handle, ring, tuneVars,
                   hwCenter, native, lifecycle, opener, worker, callerVars>>

(* The worker has finished and is joined, or 300 ms have passed and it is    *)
(* detached.                                                                 *)
StopJoins ==
    /\ control.pc = "join"
    /\ control' = [control EXCEPT
           !.pc = "close", !.detached = rxThread # 0 /\ worker[rxThread].pc # "done"]
    /\ rxThread' = 0
    /\ UNCHANGED <<sessionGen, stopFlag, active, isReal, runtimeState, handle, ring, tuneVars,
                   hwCenter, native, lifecycle, opener, worker, callerVars>>

(* The handles leave the stream; with a detached worker they are retired     *)
(* until it is done, otherwise closed now.                                   *)
StopCloses ==
    /\ control.pc = "close"
    /\ native' \in IF control.detached THEN {Retired(handle)} ELSE Finished(handle)
    /\ handle' = 0
    /\ active' = FALSE /\ isReal' = FALSE /\ runtimeState' = "stopped"
    /\ ring' = {}
    /\ control' = [control EXCEPT !.pc = "idle"]
    /\ lifecycle' = "free"
    /\ UNCHANGED <<sessionGen, stopFlag, rxThread, tuneVars, hwCenter, opener, worker, callerVars>>

(* retireSoapyRx: a retired handle is closed, or fails to close, once the    *)
(* worker that reads from it is done.                                        *)
RetiredCloses(h) ==
    /\ native[h] = "retired"
    /\ \A g \in Gen : worker[g].handle = h => worker[g].pc = "done"
    /\ native' \in Finished(h)
    /\ UNCHANGED <<sessionVars, ring, tuneVars, hwCenter, lifecycle, control, opener,
                   worker, callerVars>>

-----------------------------------------------------------------------------
(* The detached open thread.  Device::make and activateStream may never      *)
(* return; no step of it is fair before the hand-off.                        *)

OpenEnds == opener' = NoOpener

(* The superseded thread gives its device back: cleanupLocal. *)
OpenAbandons == native' \in Finished(opener.handle) /\ OpenEnds

OpenBegins ==
    /\ opener.pc = "begin"
    /\ IF cancelled(opener.gen)
       THEN OpenEnds /\ UNCHANGED native
       ELSE \/ /\ native' = [native EXCEPT ![opener.gen] = "open"]
               /\ opener' = [opener EXCEPT !.pc = "readCenter", !.handle = opener.gen,
                                           !.seq = centerTuneRequestSeq]
            \/ OpenEnds /\ UNCHANGED native
    /\ runtimeState' = IF opener'.pc = "none" /\ ~cancelled(opener.gen)
                       THEN "hardware failed, using stub" ELSE runtimeState
    /\ UNCHANGED <<sessionGen, stopFlag, active, isReal, handle, rxThread, ring, tuneVars,
                   hwCenter, lifecycle, control, worker, callerVars>>

OpenReadsCenter ==
    /\ opener.pc = "readCenter"
    /\ opener' = [opener EXCEPT !.pc = "native", !.center = currentCenter]
    /\ UNCHANGED <<sessionVars, ring, tuneVars, hwCenter, native, lifecycle, control,
                   worker, callerVars>>

(* Tuned and activated, or an exception: closed, and reported if current.    *)
OpenTunes ==
    /\ opener.pc = "native"
    /\ \/ /\ hwCenter' = [hwCenter EXCEPT ![opener.handle] = opener.center]
          /\ opener' = [opener EXCEPT !.pc = "handoff"]
          /\ UNCHANGED <<native, runtimeState>>
       \/ /\ OpenAbandons
          /\ runtimeState' = IF cancelled(opener.gen) THEN runtimeState
                             ELSE "hardware failed, using stub"
          /\ UNCHANGED hwCenter
    /\ UNCHANGED <<sessionGen, stopFlag, active, isReal, handle, rxThread, ring, tuneVars,
                   lifecycle, control, worker, callerVars>>

(* Hand-off, under lifecycleMutex: give up if superseded, else retire the    *)
(* stub's generation.                                                        *)
HandoffBegins ==
    /\ opener.pc = "handoff"
    /\ lifecycle = "free"
    /\ IF cancelled(opener.gen)
       THEN OpenAbandons /\ UNCHANGED <<sessionGen, stopFlag, lifecycle>>
       ELSE /\ lifecycle' = "opener"
            /\ stopFlag' = TRUE
            /\ sessionGen' = sessionGen + 1
            /\ opener' = [opener EXCEPT !.pc = "join", !.gen = sessionGen + 1]
            /\ UNCHANGED native
    /\ UNCHANGED <<active, isReal, runtimeState, handle, rxThread, ring, tuneVars, hwCenter,
                   control, worker, callerVars>>

(* Mutant: a stub worker that has finished is not joined.                    *)
HandoffJoins_NoJoin ==
    /\ opener.pc = "join"
    /\ IF rxThread # 0 /\ worker[rxThread].pc # "done"
       THEN /\ OpenAbandons
            /\ rxThread' = 0
            /\ active' = FALSE /\ isReal' = FALSE
            /\ runtimeState' = "driver stuck, restart recommended"
            /\ lifecycle' = "free"
       ELSE /\ opener' = [opener EXCEPT !.pc = "publish"]
            /\ UNCHANGED <<native, rxThread, active, isReal, runtimeState, lifecycle>>
    /\ UNCHANGED <<sessionGen, stopFlag, handle, ring, tuneVars, hwCenter, control, worker,
                   callerVars>>

(* The stub worker is joined, or after 500 ms detached and the upgrade given *)
(* up.                                                                       *)
HandoffJoins ==
    /\ opener.pc = "join"
    /\ rxThread' = 0
    /\ IF rxThread # 0 /\ worker[rxThread].pc # "done"
       THEN /\ OpenAbandons
            /\ active' = FALSE /\ isReal' = FALSE
            /\ runtimeState' = "driver stuck, restart recommended"
            /\ lifecycle' = "free"
       ELSE /\ opener' = [opener EXCEPT !.pc = "publish"]
            /\ UNCHANGED <<native, active, isReal, runtimeState, lifecycle>>
    /\ UNCHANGED <<sessionGen, stopFlag, handle, ring, tuneVars, hwCenter, control, worker,
                   callerVars>>

(* Buffers reset, the applied tune recorded, the handles published, the real *)
(* worker launched.                                                          *)
HandoffPublishes ==
    /\ opener.pc = "publish"
    /\ ring' = {}
    /\ centerTuneAppliedSeq' = opener.seq
    /\ handle' = opener.handle
    /\ stopFlag' = FALSE
    /\ active' = TRUE /\ isReal' = TRUE
    /\ runtimeState' = "opening hardware controls"
    /\ worker' = Launched(opener.gen, opener.handle)
    /\ rxThread' = opener.gen
    /\ lifecycle' = "free"
    /\ opener' = [opener EXCEPT !.pc = "control", !.handle = 0]
    /\ UNCHANGED <<sessionGen, currentCenter, centerTuneRequestSeq, centerTuneFailedSeq,
                   hwCenter, native, control, callerVars>>

-----------------------------------------------------------------------------
(* Startup control, on the same thread: the correction in ppm is applied to  *)
(* the published device, which tunes it to the centre read before.           *)

(* Waits until no command holds the radio; refused if superseded.            *)
StartupControl ==
    /\ opener.pc = "control"
    /\ control.pc = "idle" /\ tuner = "idle"
    /\ IF cancelled(opener.gen) THEN OpenEnds
       ELSE opener' = [opener EXCEPT !.pc = "readPpmCenter"]
    /\ UNCHANGED <<sessionVars, ring, tuneVars, hwCenter, native, lifecycle, control,
                   worker, callerVars>>

PpmReadsCenter ==
    /\ opener.pc = "readPpmCenter"
    /\ opener' = [opener EXCEPT !.pc = "setPpm", !.center = currentCenter]
    /\ UNCHANGED <<sessionVars, ring, tuneVars, hwCenter, native, lifecycle, control,
                   worker, callerVars>>

(* Tuned if the stream still has a device; the driver may throw.             *)
PpmTunes ==
    /\ opener.pc = "setPpm"
    /\ \/ /\ handle # 0 /\ ~stopFlag
          /\ hwCenter' = [hwCenter EXCEPT ![handle] = opener.center]
       \/ UNCHANGED hwCenter
    /\ opener' = [opener EXCEPT !.pc = "ready"]
    /\ UNCHANGED <<sessionVars, ring, tuneVars, native, lifecycle, control, worker, callerVars>>

(* Readiness is published unless the session was superseded.                 *)
StartupReady ==
    /\ opener.pc = "ready"
    /\ lifecycle = "free"
    /\ runtimeState' = IF cancelled(opener.gen) THEN runtimeState ELSE "live hardware"
    /\ OpenEnds
    /\ UNCHANGED <<sessionGen, stopFlag, active, isReal, handle, rxThread, ring, tuneVars,
                   hwCenter, native, lifecycle, control, worker, callerVars>>

-----------------------------------------------------------------------------
(* rxThreadFunc.  Any native call may block for ever: no step is fair.       *)

To(g, pc) == worker' = [worker EXCEPT ![g].pc = pc]

(* "if (cancelled()) return", at every publication and every loop head.      *)
WorkerExits(g) ==
    /\ worker[g].pc \in {"loop", "setFrequency", "tuned", "untuned", "faulted",
                         "stubWrite"}
    /\ cancelled(g)
    /\ worker[g].pc = "faulted" => worker[g].handle = 0
    /\ To(g, "done")
    /\ UNCHANGED <<sessionVars, ring, tuneVars, hwCenter, native, lifecycle, control, opener,
                   callerVars>>

(* A tune request is pending: its number is read before the frequency.       *)
WorkerSeesRequest(g) ==
    /\ worker[g].pc = "loop" /\ worker[g].handle # 0
    /\ ~cancelled(g)
    /\ centerTuneRequestSeq > centerTuneAppliedSeq
    /\ centerTuneRequestSeq > centerTuneFailedSeq
    /\ worker' = [worker EXCEPT ![g].pc = "readCenter", ![g].seq = centerTuneRequestSeq]
    /\ UNCHANGED <<sessionVars, ring, tuneVars, hwCenter, native, lifecycle, control, opener,
                   callerVars>>

WorkerReadsCenter(g) ==
    /\ worker[g].pc = "readCenter"
    /\ worker' = [worker EXCEPT ![g].pc = "setFrequency", ![g].center = currentCenter]
    /\ UNCHANGED <<sessionVars, ring, tuneVars, hwCenter, native, lifecycle, control, opener,
                   callerVars>>

(* The driver tunes, or throws.                                              *)
WorkerTunes(g) ==
    /\ worker[g].pc = "setFrequency" /\ ~cancelled(g)
    /\ \/ hwCenter' = [hwCenter EXCEPT ![worker[g].handle] = worker[g].center] /\ To(g, "tuned")
       \/ UNCHANGED hwCenter /\ To(g, "untuned")
    /\ UNCHANGED <<sessionVars, ring, tuneVars, native, lifecycle, control, opener, callerVars>>

(* Mutant: whatever was requested meanwhile counts as applied.               *)
WorkerReportsTune_Newest(g) ==
    /\ worker[g].pc \in {"tuned", "untuned"} /\ ~cancelled(g)
    /\ IF worker[g].pc = "tuned"
       THEN centerTuneAppliedSeq' = centerTuneRequestSeq /\ UNCHANGED centerTuneFailedSeq
       ELSE centerTuneFailedSeq' = worker[g].seq /\ UNCHANGED centerTuneAppliedSeq
    /\ To(g, "loop")
    /\ UNCHANGED <<sessionVars, ring, currentCenter, centerTuneRequestSeq, hwCenter, native,
                   lifecycle, control, opener, callerVars>>

(* The fenced verdict on the request.                                        *)
WorkerReportsTune(g) ==
    /\ worker[g].pc \in {"tuned", "untuned"} /\ ~cancelled(g)
    /\ IF worker[g].pc = "tuned"
       THEN centerTuneAppliedSeq' = worker[g].seq /\ UNCHANGED centerTuneFailedSeq
       ELSE centerTuneFailedSeq' = worker[g].seq /\ UNCHANGED centerTuneAppliedSeq
    /\ To(g, "loop")
    /\ UNCHANGED <<sessionVars, ring, currentCenter, centerTuneRequestSeq, hwCenter, native,
                   lifecycle, control, opener, callerVars>>

(* A block read from the hardware is appended behind the fence.              *)
WorkerAppends(g) ==
    /\ worker[g].pc = "loop" /\ worker[g].handle # 0
    /\ ~cancelled(g)
    /\ ring' = ring \cup {[gen |-> g, handle |-> worker[g].handle]}
    /\ UNCHANGED <<sessionVars, tuneVars, hwCenter, native, lifecycle, control, opener,
                   worker, callerVars>>

(* The driver threw in a read: the stream lets go of its handles and the     *)
(* worker goes on as a stub.                                                 *)
WorkerFaults(g) ==
    /\ worker[g].pc = "loop" /\ worker[g].handle # 0
    /\ ~cancelled(g)
    /\ handle = worker[g].handle
    /\ native' = Retired(handle)
    /\ handle' = 0
    /\ isReal' = FALSE /\ active' = TRUE
    /\ runtimeState' = "hardware failed, using stub"
    /\ To(g, "faulted")
    /\ UNCHANGED <<sessionGen, stopFlag, rxThread, ring, tuneVars, hwCenter, lifecycle,
                   control, opener, callerVars>>

(* finishSoapyRxCleanup, outside the locks.                                  *)
WorkerCleansUp(g) ==
    /\ worker[g].pc = "faulted" /\ worker[g].handle # 0
    /\ native' \in Finished(worker[g].handle)
    /\ worker' = [worker EXCEPT ![g].handle = 0]
    /\ UNCHANGED <<sessionVars, ring, tuneVars, hwCenter, lifecycle, control, opener, callerVars>>

(* The hardware's blocks are dropped before the first synthetic one.         *)
WorkerFallsBack(g) ==
    /\ worker[g].pc = "faulted" /\ worker[g].handle = 0
    /\ ~cancelled(g)
    /\ ring' = {}
    /\ To(g, "loop")
    /\ UNCHANGED <<sessionVars, tuneVars, hwCenter, native, lifecycle, control, opener, callerVars>>

(* The stub reads the centre, builds a block, and then appends it and writes *)
(* the centre it read.                                                       *)
StubReadsCenter(g) ==
    /\ worker[g].pc = "loop" /\ worker[g].handle = 0
    /\ ~cancelled(g)
    /\ worker' = [worker EXCEPT ![g].pc = "stubWrite", ![g].center = currentCenter]
    /\ UNCHANGED <<sessionVars, ring, tuneVars, hwCenter, native, lifecycle, control, opener,
                   callerVars>>

StubAppends(g) ==
    /\ worker[g].pc = "stubWrite"
    /\ ~cancelled(g)
    /\ ring' = ring \cup {[gen |-> g, handle |-> 0]}
    /\ currentCenter' = worker[g].center
    /\ overwritten' = (worker[g].center # lastRequested)
    /\ To(g, "loop")
    /\ UNCHANGED <<sessionVars, centerTuneRequestSeq, centerTuneAppliedSeq, centerTuneFailedSeq,
                   hwCenter, native, lifecycle, control, opener, tuner, lastRequested>>

-----------------------------------------------------------------------------
ControlSteps == StartLaunches \/ StopJoins \/ StopCloses
HandoffSteps == HandoffJoins \/ HandoffPublishes

OpenSteps == \/ OpenBegins \/ OpenReadsCenter \/ OpenTunes \/ HandoffBegins
             \/ StartupControl \/ PpmReadsCenter \/ PpmTunes \/ StartupReady

WorkerSteps(g) ==
    \/ WorkerExits(g) \/ WorkerSeesRequest(g) \/ WorkerReadsCenter(g) \/ WorkerTunes(g)
    \/ WorkerReportsTune(g) \/ WorkerAppends(g) \/ WorkerFaults(g) \/ WorkerCleansUp(g) \/ WorkerFallsBack(g)
    \/ StubReadsCenter(g) \/ StubAppends(g)

Next ==
    \/ \E f \in Freq : QueueCenter(f)
    \/ QueueRequest
    \/ \E attemptReal \in BOOLEAN : StartBegins(attemptReal)
    \/ StopBegins
    \/ ControlSteps
    \/ HandoffSteps
    \/ OpenSteps
    \/ \E h \in Gen : RetiredCloses(h)
    \/ \E g \in Gen : WorkerSteps(g)

(* Only the control thread and the hand-off are scheduled fairly; no call    *)
(* into the driver by an open or a worker has to return.  The one driver     *)
(* call assumed to return is the close made inside StopCloses and            *)
(* HandoffJoins themselves: they run it under lifecycleMutex (216-248).      *)
Fairness == WF_vars(ControlSteps) /\ WF_vars(HandoffSteps)

Spec == Init /\ [][Next]_vars
FairSpec == Spec /\ Fairness

-----------------------------------------------------------------------------
(* Properties *)

(* Consumers of a running stream only ever see IQ of the current session,    *)
(* and while the stream calls itself real only IQ of the published device: a *)
(* stub or a superseded reader that was late cannot append after the reset   *)
(* of a later session (launch 1226, hand-off 1526, fences 3835 and 3985).    *)
RingIsCurrent ==
    active /\ ~stopFlag =>
        \A block \in ring : /\ block.gen = sessionGen
                            /\ isReal => block.handle = handle

(* One radio is opened at most once: while a handle waits for a stuck        *)
(* reader, or failed to close, no new session gets a second one (1138-1141,  *)
(* 1178-1182, DEC-0223).                                                     *)
NativeHandlesDontOverlap ==
    \A h, k \in Gen : native[h] # "closed" /\ native[k] # "closed" => h = k

(* A thread object is only assigned when it refers to no thread: assigning   *)
(* to a joinable std::thread terminates the program (launchRxWorkers 3536).  *)
LaunchNeverOverwrites ==
    [][rxThread' # rxThread => rxThread = 0 \/ rxThread' = 0]_vars

(* When the last request counts as applied on a live stream, the hardware is *)
(* tuned to the frequency that request asked for, whoever tuned it: the open *)
(* thread, the receive worker or the correction in ppm.  Excepted is a       *)
(* request the stub wrote over: its loop puts back the centre it read before *)
(* (3973-3990), and the upgrade then tunes to that; README, section 4, has   *)
(* the trace.  The record stays wrong until the next request.                *)
AppliedMeansTuned ==
    /\ isReal /\ ~stopFlag /\ tuner = "idle"
    /\ centerTuneAppliedSeq = centerTuneRequestSeq
    /\ ~overwritten
    => hwCenter[handle] = lastRequested

(* Whoever holds lifecycleMutex lets go of it: a stop, and a hand-off, end   *)
(* although a worker never returns from the driver.                          *)
LifecycleIsFreed == lifecycle # "free" ~> lifecycle = "free"
=============================================================================
