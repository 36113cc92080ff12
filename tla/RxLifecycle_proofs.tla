-------------------------- MODULE RxLifecycle_proofs --------------------------
(***************************************************************************)
(* What the session generation protects, for any number of sessions and    *)
(* frequencies: the ring, the native handles and the thread object of a    *)
(* receive stream, although open threads and workers outlive the session   *)
(* that started them.                                                      *)
(***************************************************************************)
EXTENDS RxLifecycle, TLAPS

USE RxAssumption

-----------------------------------------------------------------------------
(* The invariant. *)

(* An open in flight: before its hand-off, and while it has a native device  *)
(* of its own.                                                               *)
PreHandoff == {"begin", "readCenter", "native", "handoff"}
Holding == {"readCenter", "native", "handoff", "join", "publish"}

LifecycleOwned ==
    /\ lifecycle = "control" <=> control.pc # "idle"
    /\ lifecycle = "opener" <=> opener.pc \in {"join", "publish"}

(* A native device is named by the session it was opened for; the worker     *)
(* that reads it belongs to the next session, that of the hand-off.          *)
GensInv ==
    /\ opener.gen <= sessionGen
    /\ opener.pc \in PreHandoff => opener.gen + 2 <= MaxGen
    /\ opener.pc \in {"readCenter", "native", "handoff"} => opener.handle = opener.gen
    /\ opener.pc \in {"join", "publish"} => /\ opener.gen = sessionGen /\ stopFlag
                                            /\ opener.gen = opener.handle + 1
    /\ control.pc = "start" => sessionGen > 0 /\ sessionGen + 2 <= MaxGen
    /\ \A g \in Gen : /\ worker[g].pc # "none" => g <= sessionGen
                      /\ worker[g].handle \in {0, g - 1}

(* A stream is real exactly while it has the handles; an inactive one has    *)
(* neither handles nor a thread.                                             *)
StreamInv ==
    /\ isReal <=> handle # 0
    /\ isReal => active
    /\ ~active \/ opener.pc = "publish" \/ control.pc = "close" => rxThread = 0
    /\ control.pc = "start" => ~active

(* An open device is the stream's or the open thread's, never both's; a real *)
(* start and an open that begins find every device closed.                   *)
DevicesInv ==
    /\ handle # 0 => native[handle] = "open" /\ opener.handle = 0
    /\ opener.pc \in Holding <=> opener.handle # 0
    /\ opener.handle # 0 => native[opener.handle] = "open"
    /\ \A h \in Gen : native[h] = "open" => h \in {handle, opener.handle}
    /\ control.pc = "start" /\ control.real => opener.pc = "none"
    /\ opener.pc = "begin" \/ (control.pc = "start" /\ control.real) =>
           \A h \in Gen : native[h] = "closed"

(* The device a faulted worker has yet to close is retired.                  *)
FaultsInv ==
    \A g \in Gen : worker[g].pc = "faulted" /\ worker[g].handle # 0 =>
        native[worker[g].handle] = "retired"

NativeInv == NativeHandlesDontOverlap /\ DevicesInv /\ FaultsInv

(* The worker that is not cancelled reads the published device, if any, and  *)
(* is a stub once the stream has let go of it; a stop cancels every worker.  *)
Fenced(w) ==
    /\ w.pc \in {"loop", "readCenter", "setFrequency", "tuned", "untuned"} => w.handle = handle
    /\ w.pc \in {"readCenter", "setFrequency", "tuned", "untuned"} => w.handle # 0
    /\ w.pc \in {"stubWrite", "faulted"} => handle = 0
    /\ w.pc = "stubWrite" => w.handle = 0

FenceInv ==
    /\ RingIsCurrent
    /\ control.pc \in {"join", "close"} => stopFlag
    /\ \A g \in Gen : ~cancelled(g) => Fenced(worker[g])

RxInv == TypeOK /\ LifecycleOwned /\ GensInv /\ StreamInv /\ NativeInv /\ FenceInv

-----------------------------------------------------------------------------
(* Types. *)

LEMMA Ranges == 0 \in Handle /\ 0 \in 0..MaxGen /\ Gen \subseteq Handle /\ Gen \subseteq 0..MaxGen
BY DEF Gen, Handle

LEMMA RuntimeStates ==
    /\ "stopped" \in Runtime /\ "simulated/stub" \in Runtime
    /\ "opening hardware (stub active)" \in Runtime
    /\ "opening hardware controls" \in Runtime /\ "live hardware" \in Runtime
    /\ "hardware failed, using stub" \in Runtime
    /\ "driver stuck, restart recommended" \in Runtime
BY DEF Runtime

USE Ranges

LEMMA AnyFreqTyped == AnyFreq \in Freq
BY DEF AnyFreq

LEMMA NoOpenerTyped == NoOpener \in Opener
BY AnyFreqTyped DEF NoOpener, Opener

LEMMA NoWorkerTyped == NoWorker \in Worker
BY AnyFreqTyped DEF NoWorker, Worker

LEMMA OpenerFields ==
    ASSUME NEW o \in Opener
    PROVE  /\ o.pc \in OpenerPc \cup {"none"}
           /\ o.gen \in 0..MaxGen /\ o.handle \in Handle /\ o.seq \in Nat /\ o.center \in Freq
           /\ o.pc # "none" => o.gen \in Gen
<1>1. CASE o \in [pc : OpenerPc, gen : Gen, handle : Handle, seq : Nat, center : Freq]
  BY <1>1
<1>2. CASE o \in [pc : {"none"}, gen : {0}, handle : {0}, seq : {0}, center : Freq]
  BY <1>2, Ranges
<1> QED
  BY <1>1, <1>2 DEF Opener

LEMMA OpenerMoves ==
    ASSUME NEW o \in Opener, o.pc # "none", NEW p \in OpenerPc
    PROVE  /\ [o EXCEPT !.pc = p] \in Opener
           /\ \A h \in Handle : [o EXCEPT !.pc = p, !.handle = h] \in Opener
           /\ \A g \in Gen : [o EXCEPT !.pc = p, !.gen = g] \in Opener
           /\ \A f \in Freq : [o EXCEPT !.pc = p, !.center = f] \in Opener
           /\ \A h \in Handle, n \in Nat : [o EXCEPT !.pc = p, !.handle = h, !.seq = n] \in Opener
BY DEF Opener

LEMMA FinishedTyped ==
    ASSUME TypeOK, NEW h \in Handle, NEW n \in Finished(h)
    PROVE  n \in [Gen -> {"closed", "open", "retired", "failed"}]
BY DEF Finished, TypeOK

LEMMA RetiredTyped ==
    ASSUME TypeOK, NEW h \in Handle
    PROVE  Retired(h) \in [Gen -> {"closed", "open", "retired", "failed"}]
BY DEF Retired, TypeOK

LEMMA LaunchedTyped ==
    ASSUME TypeOK, NEW g \in Gen, NEW h \in Handle
    PROVE  Launched(g, h) \in [Gen -> Worker]
BY NoWorkerTyped DEF Launched, TypeOK, Worker

LEMMA TypeInit == Init => TypeOK
<1> SUFFICES ASSUME Init PROVE TypeOK
  OBVIOUS
<1>1. control \in Control /\ opener \in Opener /\ worker \in [Gen -> Worker]
  BY NoOpenerTyped, NoWorkerTyped, AnyFreqTyped DEF Init, Control
<1>2. hwCenter \in [Gen -> Freq]
  BY AnyFreqTyped DEF Init
<1> QED
  BY <1>1, <1>2, RuntimeStates DEF Init, TypeOK

LEMMA CallerTyped ==
    ASSUME TypeOK, (\E f \in Freq : QueueCenter(f)) \/ QueueRequest PROVE TypeOK'
<1>1. ASSUME NEW f \in Freq, QueueCenter(f) PROVE TypeOK'
  BY <1>1 DEF QueueCenter, TypeOK, sessionVars
<1>2. CASE QueueRequest
  BY <1>2 DEF QueueRequest, TypeOK, sessionVars
<1> QED
  BY <1>1, <1>2


LEMMA ControlTyped ==
    ASSUME TypeOK, GensInv,
           \/ \E attemptReal \in BOOLEAN : StartBegins(attemptReal)
           \/ StopBegins
           \/ ControlSteps
    PROVE  TypeOK'
<1> USE DEF TypeOK
<1>1. ASSUME NEW attemptReal \in BOOLEAN, StartBegins(attemptReal) PROVE TypeOK'
  <2>1. sessionGen' \in 0..MaxGen
    <3>1. sessionGen' = sessionGen + 1 /\ sessionGen + 3 <= MaxGen
      BY <1>1 DEF StartBegins
    <3> QED
      BY <3>1
  <2>2. control' \in Control
    BY <1>1 DEF StartBegins, Control
  <2> QED
    BY <1>1, <2>1, <2>2 DEF StartBegins, tuneVars, callerVars
<1>2. CASE StopBegins
  <2>1. sessionGen' \in 0..MaxGen
    <3>1. sessionGen' = sessionGen + 1 /\ sessionGen < MaxGen
      BY <1>2 DEF StopBegins
    <3> QED
      BY <3>1
  <2>2. control' \in Control
    BY <1>2 DEF StopBegins, Control
  <2> QED
    BY <1>2, <2>1, <2>2 DEF StopBegins, tuneVars, callerVars
<1>3. CASE StartLaunches
  <2>0. sessionGen > 0
    BY <1>3 DEF StartLaunches, GensInv
  <2>1. sessionGen \in Gen
    BY <2>0 DEF Gen
  <2>4. control.center \in Freq /\ [control EXCEPT !.pc = "idle"] \in Control
    BY DEF Control
  <2>2. worker' \in [Gen -> Worker]
    BY <1>3, <2>1, LaunchedTyped DEF StartLaunches
  <2>3. opener' \in Opener
    BY <1>3, <2>1, AnyFreqTyped DEF StartLaunches, NoOpener, Opener, OpenerPc
  <2> QED
    BY <1>3, <2>1, <2>2, <2>3, <2>4, RuntimeStates DEF StartLaunches, callerVars
<1>4. CASE StopJoins
  BY <1>4 DEF StopJoins, Control, tuneVars, callerVars
<1>5. CASE StopCloses
  <2>1. native' \in [Gen -> {"closed", "open", "retired", "failed"}]
    BY <1>5, FinishedTyped, RetiredTyped DEF StopCloses
  <2> QED
    BY <1>5, <2>1, RuntimeStates DEF StopCloses, Control, tuneVars, callerVars
<1> QED
  BY <1>1, <1>2, <1>3, <1>4, <1>5 DEF ControlSteps

LEMMA OpenTyped ==
    ASSUME TypeOK, GensInv, HandoffSteps \/ OpenSteps PROVE TypeOK'
<1> USE DEF TypeOK, tuneVars, callerVars, sessionVars
<1>0. NoOpener \in Opener /\ opener.handle \in Handle
  BY NoOpenerTyped, OpenerFields
<1>1. CASE OpenBegins
  <2>1. opener.gen \in Gen /\ opener.pc # "none"
    BY <1>1, OpenerFields DEF OpenBegins
  <2>2. [opener EXCEPT !.pc = "readCenter", !.handle = opener.gen, !.seq = centerTuneRequestSeq]
        \in Opener
    BY <2>1, OpenerMoves DEF OpenerPc
  <2> QED
    BY <1>0, <1>1, <2>1, <2>2, RuntimeStates DEF OpenBegins, OpenEnds
<1>2. CASE OpenReadsCenter
  BY <1>2, OpenerMoves DEF OpenReadsCenter, OpenerPc
<1>3. CASE OpenTunes
  <2>1. native' \in [Gen -> {"closed", "open", "retired", "failed"}]
    BY <1>0, <1>3, FinishedTyped DEF OpenTunes, OpenAbandons
  <2>2. opener' \in Opener
    BY <1>0, <1>3, OpenerMoves DEF OpenTunes, OpenAbandons, OpenEnds, OpenerPc
  <2>3. hwCenter' \in [Gen -> Freq]
    BY <1>3, OpenerFields DEF OpenTunes
  <2> QED
    BY <1>3, <2>1, <2>2, <2>3, RuntimeStates DEF OpenTunes
<1>4. CASE HandoffBegins
  <2>1. native' \in [Gen -> {"closed", "open", "retired", "failed"}]
    BY <1>0, <1>4, FinishedTyped DEF HandoffBegins, OpenAbandons
  <2>2. ~cancelled(opener.gen) => sessionGen + 1 \in Gen
    <3>1. ~cancelled(opener.gen) => sessionGen + 2 <= MaxGen
      BY <1>4 DEF HandoffBegins, cancelled, GensInv, PreHandoff
    <3> QED
      BY <3>1 DEF Gen
  <2>3. opener' \in Opener
    <3>1. CASE cancelled(opener.gen)
      BY <1>0, <1>4, <3>1 DEF HandoffBegins, OpenAbandons, OpenEnds
    <3>2. CASE ~cancelled(opener.gen)
      <4>1. opener.pc # "none" /\ "join" \in OpenerPc
        BY <1>4 DEF HandoffBegins, OpenerPc
      <4>2. [opener EXCEPT !.pc = "join", !.gen = sessionGen + 1] \in Opener
        BY <2>2, <3>2, <4>1, OpenerMoves
      <4> QED
        BY <1>4, <3>2, <4>2 DEF HandoffBegins
    <3> QED
      BY <3>1, <3>2
  <2> QED
    BY <1>4, <2>1, <2>2, <2>3 DEF HandoffBegins
<1>5. CASE HandoffJoins
  <2>1. native' \in [Gen -> {"closed", "open", "retired", "failed"}]
    BY <1>0, <1>5, FinishedTyped DEF HandoffJoins, OpenAbandons
  <2>2. opener' \in Opener
    BY <1>0, <1>5, OpenerMoves DEF HandoffJoins, OpenAbandons, OpenEnds, OpenerPc
  <2> QED
    BY <1>5, <2>1, <2>2, RuntimeStates DEF HandoffJoins
<1>6. CASE HandoffPublishes
  <2>1. opener' \in Opener
    BY <1>6, OpenerMoves DEF HandoffPublishes, OpenerPc
  <2>2. opener.gen \in Gen /\ opener.seq \in Nat
    BY <1>6, OpenerFields DEF HandoffPublishes
  <2>3. worker' \in [Gen -> Worker]
    BY <1>0, <1>6, <2>2, LaunchedTyped DEF HandoffPublishes
  <2> QED
    BY <1>0, <1>6, <2>1, <2>2, <2>3, RuntimeStates DEF HandoffPublishes
<1>7. CASE StartupControl
  BY <1>0, <1>7, OpenerMoves DEF StartupControl, OpenEnds, OpenerPc
<1>8. CASE PpmReadsCenter
  BY <1>8, OpenerMoves DEF PpmReadsCenter, OpenerPc
<1>9. CASE PpmTunes
  <2>1. opener.center \in Freq
    BY OpenerFields
  <2>2. opener' \in Opener
    BY <1>9, OpenerMoves DEF PpmTunes, OpenerPc
  <2> QED
    BY <1>9, <2>1, <2>2 DEF PpmTunes
<1>10. CASE StartupReady
  BY <1>0, <1>10, RuntimeStates DEF StartupReady, OpenEnds
<1> QED
  BY <1>1, <1>2, <1>3, <1>4, <1>5, <1>6, <1>7, <1>8, <1>9, <1>10 DEF HandoffSteps, OpenSteps

LEMMA WorkerFields ==
    ASSUME NEW w \in Worker
    PROVE  w.handle \in Handle /\ w.seq \in Nat /\ w.center \in Freq
BY DEF Worker

LEMMA WorkerMoves ==
    ASSUME NEW w \in Worker,
           NEW p \in {"none", "loop", "readCenter", "setFrequency", "tuned", "untuned",
                      "stubWrite", "faulted", "done"}
    PROVE  /\ [w EXCEPT !.pc = p] \in Worker
           /\ \A f \in Freq : [w EXCEPT !.pc = p, !.center = f] \in Worker
           /\ \A n \in Nat : [w EXCEPT !.pc = p, !.seq = n] \in Worker
           /\ [w EXCEPT !.handle = 0] \in Worker
<1>1. [w EXCEPT !.pc = p] \in Worker
  BY DEF Worker
<1>2. ASSUME NEW f \in Freq PROVE [w EXCEPT !.pc = p, !.center = f] \in Worker
  BY DEF Worker
<1>3. ASSUME NEW n \in Nat PROVE [w EXCEPT !.pc = p, !.seq = n] \in Worker
  BY DEF Worker
<1>4. [w EXCEPT !.handle = 0] \in Worker
  BY DEF Worker
<1> QED
  BY <1>1, <1>2, <1>3, <1>4

LEMMA WorkerTyped ==
    ASSUME TypeOK, NEW g \in Gen, WorkerSteps(g) PROVE TypeOK'
<1> USE DEF TypeOK, tuneVars, callerVars, sessionVars, To
<1>0. /\ worker[g] \in Worker /\ worker[g].handle \in Handle
      /\ worker[g].seq \in Nat /\ worker[g].center \in Freq
  BY DEF Worker
<1>1. CASE WorkerExits(g)
  BY <1>0, <1>1, WorkerMoves DEF WorkerExits
<1>2. CASE WorkerSeesRequest(g)
  <2>1. worker' = [worker EXCEPT ![g] = [@ EXCEPT !.pc = "readCenter", !.seq = centerTuneRequestSeq]]
    BY <1>2 DEF WorkerSeesRequest
  <2> QED
    <3>1. worker' \in [Gen -> Worker]
      BY <1>0, <2>1, WorkerMoves
    <3> QED
      BY <1>2, <3>1 DEF WorkerSeesRequest
<1>3. CASE WorkerReadsCenter(g)
  <2>1. worker' = [worker EXCEPT ![g] = [@ EXCEPT !.pc = "setFrequency", !.center = currentCenter]]
    BY <1>3 DEF WorkerReadsCenter
  <2> QED
    <3>1. worker' \in [Gen -> Worker]
      BY <1>0, <2>1, WorkerMoves
    <3> QED
      BY <1>3, <3>1 DEF WorkerReadsCenter
<1>4. CASE WorkerTunes(g)
  <2>1. worker' \in [Gen -> Worker]
    BY <1>0, <1>4, WorkerMoves DEF WorkerTunes
  <2> QED
    BY <1>0, <1>4, <2>1 DEF WorkerTunes
<1>5. CASE WorkerReportsTune(g)
  <2>1. worker' \in [Gen -> Worker]
    BY <1>0, <1>5, WorkerMoves DEF WorkerReportsTune
  <2> QED
    BY <1>0, <1>5, <2>1 DEF WorkerReportsTune
<1>6. CASE WorkerAppends(g)
  <2>1. ring' \subseteq [gen : Gen, handle : Handle]
    BY <1>0, <1>6 DEF WorkerAppends
  <2> QED
    BY <1>6, <2>1 DEF WorkerAppends
<1>7. CASE WorkerFaults(g)
  <2>1. worker' \in [Gen -> Worker]
    BY <1>0, <1>7, WorkerMoves DEF WorkerFaults
  <2>2. native' \in [Gen -> {"closed", "open", "retired", "failed"}]
    BY <1>7, RetiredTyped DEF WorkerFaults
  <2> QED
    BY <1>7, <2>1, <2>2, RuntimeStates DEF WorkerFaults
<1>8. CASE WorkerCleansUp(g)
  <2>1. native' \in [Gen -> {"closed", "open", "retired", "failed"}]
    BY <1>0, <1>8, FinishedTyped DEF WorkerCleansUp
  <2>2. worker' \in [Gen -> Worker]
    BY <1>0, <1>8, WorkerMoves DEF WorkerCleansUp
  <2> QED
    BY <1>8, <2>1, <2>2 DEF WorkerCleansUp
<1>9. CASE WorkerFallsBack(g)
  BY <1>0, <1>9, WorkerMoves DEF WorkerFallsBack
<1>10. CASE StubReadsCenter(g)
  <2>1. worker' = [worker EXCEPT ![g] = [@ EXCEPT !.pc = "stubWrite", !.center = currentCenter]]
    BY <1>10 DEF StubReadsCenter
  <2> QED
    <3>1. worker' \in [Gen -> Worker]
      BY <1>0, <2>1, WorkerMoves
    <3> QED
      BY <1>10, <3>1 DEF StubReadsCenter
<1>11. CASE StubAppends(g)
  <2>1. worker' \in [Gen -> Worker]
    BY <1>0, <1>11, WorkerMoves DEF StubAppends
  <2>2. ring' \subseteq [gen : Gen, handle : Handle]
    BY <1>11 DEF StubAppends
  <2> QED
    BY <1>0, <1>11, <2>1, <2>2 DEF StubAppends
<1> QED
  BY <1>1, <1>2, <1>3, <1>4, <1>5, <1>6, <1>7, <1>8, <1>9, <1>10, <1>11 DEF WorkerSteps

LEMMA NextTyped == ASSUME TypeOK, GensInv, [Next]_vars PROVE TypeOK'
<1>1. ASSUME NEW h \in Gen, RetiredCloses(h) PROVE TypeOK'
  <2>1. native' \in [Gen -> {"closed", "open", "retired", "failed"}]
    BY <1>1, FinishedTyped DEF RetiredCloses
  <2> QED
    BY <1>1, <2>1 DEF RetiredCloses, TypeOK, sessionVars, tuneVars, callerVars
<1>2. CASE UNCHANGED vars
  BY <1>2 DEF vars, TypeOK, sessionVars, tuneVars, callerVars
<1> QED
  BY <1>1, <1>2, CallerTyped, ControlTyped, OpenTyped, WorkerTyped DEF Next

-----------------------------------------------------------------------------
(* What a step does to the record of a thread. *)

LEMMA EndedOpener ==
    ASSUME OpenEnds PROVE opener'.pc = "none" /\ opener'.gen = 0 /\ opener'.handle = 0
BY DEF OpenEnds, NoOpener

LEMMA OpenBeginsEffect ==
    ASSUME TypeOK, OpenBegins
    PROVE  \/ OpenEnds /\ native' = native
           \/ /\ ~cancelled(opener.gen)
              /\ native' = [native EXCEPT ![opener.gen] = "open"]
              /\ opener'.pc = "readCenter" /\ opener'.gen = opener.gen
              /\ opener'.handle = opener.gen /\ opener'.seq = centerTuneRequestSeq
<1>1. opener \in Opener
  BY DEF TypeOK
<1>2. CASE opener' = [opener EXCEPT !.pc = "readCenter", !.handle = opener.gen,
                                    !.seq = centerTuneRequestSeq]
  <2>1. /\ opener'.pc = "readCenter" /\ opener'.gen = opener.gen
        /\ opener'.handle = opener.gen /\ opener'.seq = centerTuneRequestSeq
    BY <1>1, <1>2 DEF Opener
  <2> QED
    BY <2>1 DEF OpenBegins, OpenEnds, NoOpener
<1> QED
  BY <1>2 DEF OpenBegins

LEMMA OpenReadsCenterEffect ==
    ASSUME TypeOK, OpenReadsCenter
    PROVE  /\ opener'.pc = "native" /\ opener'.gen = opener.gen /\ opener'.handle = opener.handle
           /\ opener'.seq = opener.seq /\ opener'.center = currentCenter
<1>1. opener \in Opener
  BY DEF TypeOK
<1> QED
  BY <1>1 DEF OpenReadsCenter, Opener

LEMMA OpenTunesEffect ==
    ASSUME TypeOK, OpenTunes
    PROVE  \/ OpenAbandons /\ hwCenter' = hwCenter
           \/ /\ hwCenter' = [hwCenter EXCEPT ![opener.handle] = opener.center]
              /\ native' = native
              /\ opener'.pc = "handoff" /\ opener'.gen = opener.gen
              /\ opener'.handle = opener.handle
              /\ opener'.seq = opener.seq /\ opener'.center = opener.center
<1>1. opener \in Opener
  BY DEF TypeOK
<1>2. CASE opener' = [opener EXCEPT !.pc = "handoff"]
  <2>1. /\ opener'.pc = "handoff" /\ opener'.gen = opener.gen
        /\ opener'.handle = opener.handle
        /\ opener'.seq = opener.seq /\ opener'.center = opener.center
    BY <1>1, <1>2 DEF Opener
  <2> QED
    BY <2>1 DEF OpenTunes
<1> QED
  BY <1>2 DEF OpenTunes

LEMMA HandoffBeginsEffect ==
    ASSUME TypeOK, HandoffBegins
    PROVE  \/ OpenAbandons /\ UNCHANGED <<sessionGen, stopFlag, lifecycle>>
           \/ /\ ~cancelled(opener.gen)
              /\ lifecycle' = "opener" /\ stopFlag' = TRUE /\ sessionGen' = sessionGen + 1
              /\ native' = native
              /\ opener'.pc = "join" /\ opener'.gen = sessionGen + 1
              /\ opener'.handle = opener.handle
              /\ opener'.seq = opener.seq /\ opener'.center = opener.center
<1>1. opener \in Opener
  BY DEF TypeOK
<1>2. CASE opener' = [opener EXCEPT !.pc = "join", !.gen = sessionGen + 1]
  <2>1. /\ opener'.pc = "join" /\ opener'.gen = sessionGen + 1
        /\ opener'.handle = opener.handle
        /\ opener'.seq = opener.seq /\ opener'.center = opener.center
    BY <1>1, <1>2 DEF Opener
  <2> QED
    BY <2>1 DEF HandoffBegins
<1> QED
  BY <1>2 DEF HandoffBegins

LEMMA HandoffJoinsEffect ==
    ASSUME TypeOK, HandoffJoins
    PROVE  \/ OpenAbandons /\ active' = FALSE /\ isReal' = FALSE /\ lifecycle' = "free"
           \/ /\ UNCHANGED <<native, active, isReal, lifecycle>>
              /\ opener'.pc = "publish" /\ opener'.gen = opener.gen
              /\ opener'.handle = opener.handle
              /\ opener'.seq = opener.seq /\ opener'.center = opener.center
<1>1. opener \in Opener
  BY DEF TypeOK
<1>2. CASE opener' = [opener EXCEPT !.pc = "publish"]
  <2>1. /\ opener'.pc = "publish" /\ opener'.gen = opener.gen
        /\ opener'.handle = opener.handle
        /\ opener'.seq = opener.seq /\ opener'.center = opener.center
    BY <1>1, <1>2 DEF Opener
  <2> QED
    BY <2>1 DEF HandoffJoins
<1> QED
  BY <1>2 DEF HandoffJoins

LEMMA HandoffPublishesEffect ==
    ASSUME TypeOK, HandoffPublishes
    PROVE  opener'.pc = "control" /\ opener'.gen = opener.gen /\ opener'.handle = 0
<1>1. opener \in Opener
  BY DEF TypeOK
<1> QED
  BY <1>1 DEF HandoffPublishes, Opener

LEMMA StartupEffect ==
    ASSUME TypeOK, StartupControl \/ PpmReadsCenter \/ PpmTunes \/ StartupReady
    PROVE  \/ OpenEnds
           \/ /\ \/ StartupControl /\ opener'.pc = "readPpmCenter"
                 \/ PpmReadsCenter /\ opener'.pc = "setPpm" /\ opener'.center = currentCenter
                 \/ PpmTunes /\ opener'.pc = "ready"
              /\ opener'.gen = opener.gen /\ opener'.handle = opener.handle
<1>0. opener \in Opener
  BY DEF TypeOK
<1>1. CASE opener' = [opener EXCEPT !.pc = "readPpmCenter"] /\ StartupControl
  BY <1>0, <1>1 DEF Opener
<1>2. CASE PpmReadsCenter
  <2>1. opener' = [opener EXCEPT !.pc = "setPpm", !.center = currentCenter]
    BY <1>2 DEF PpmReadsCenter
  <2> QED
    BY <1>0, <1>2, <2>1 DEF Opener
<1>3. CASE PpmTunes
  <2>1. opener' = [opener EXCEPT !.pc = "ready"]
    BY <1>3 DEF PpmTunes
  <2> QED
    BY <1>0, <1>3, <2>1 DEF Opener
<1>4. CASE StartupReady
  BY <1>4 DEF StartupReady
<1> QED
  BY <1>1, <1>2, <1>3, <1>4 DEF StartupControl

LEMMA WorkerExcept ==
    ASSUME TypeOK, NEW g \in Gen
    PROVE  /\ \A p : /\ [worker EXCEPT ![g].pc = p][g].pc = p
                     /\ [worker EXCEPT ![g].pc = p][g].handle = worker[g].handle
                     /\ [worker EXCEPT ![g].pc = p][g].seq = worker[g].seq
                     /\ [worker EXCEPT ![g].pc = p][g].center = worker[g].center
           /\ [worker EXCEPT ![g].handle = 0][g].pc = worker[g].pc
           /\ [worker EXCEPT ![g].handle = 0][g].handle = 0
           /\ \A p, n : /\ [worker EXCEPT ![g].pc = p, ![g].seq = n][g].pc = p
                        /\ [worker EXCEPT ![g].pc = p, ![g].seq = n][g].handle = worker[g].handle
                        /\ [worker EXCEPT ![g].pc = p, ![g].seq = n][g].seq = n
           /\ \A p, f : /\ [worker EXCEPT ![g].pc = p, ![g].center = f][g].pc = p
                        /\ [worker EXCEPT ![g].pc = p, ![g].center = f][g].handle = worker[g].handle
                        /\ [worker EXCEPT ![g].pc = p, ![g].center = f][g].seq = worker[g].seq
                        /\ [worker EXCEPT ![g].pc = p, ![g].center = f][g].center = f
<1> worker \in [Gen -> Worker] /\ worker[g] \in Worker
  BY DEF TypeOK
<1> QED
  BY DEF Worker

LEMMA WorkerStepEffect ==
    ASSUME TypeOK, NEW g \in Gen, WorkerSteps(g)
    PROVE  /\ \A x \in Gen : x # g => worker'[x] = worker[x]
           /\ worker[g].pc # "none"
           /\ worker'[g].handle \in {worker[g].handle, 0}
           /\ UNCHANGED <<sessionGen, stopFlag, rxThread, lifecycle, control, opener>>
<1> USE DEF To, sessionVars
<1>0. worker \in [Gen -> Worker]
  BY DEF TypeOK
<1>1. CASE WorkerExits(g)
  BY <1>0, <1>1, WorkerExcept DEF WorkerExits
<1>2. CASE WorkerSeesRequest(g)
  BY <1>0, <1>2, WorkerExcept DEF WorkerSeesRequest
<1>3. CASE WorkerReadsCenter(g)
  BY <1>0, <1>3, WorkerExcept DEF WorkerReadsCenter
<1>4. CASE WorkerTunes(g)
  <2>1. \E p : To(g, p)
    BY <1>4 DEF WorkerTunes
  <2> QED
    BY <1>0, <1>4, <2>1, WorkerExcept DEF WorkerTunes
<1>5. CASE WorkerReportsTune(g)
  BY <1>0, <1>5, WorkerExcept DEF WorkerReportsTune
<1>6. CASE WorkerAppends(g)
  BY <1>0, <1>6, WorkerExcept DEF WorkerAppends
<1>7. CASE WorkerFaults(g)
  BY <1>0, <1>7, WorkerExcept DEF WorkerFaults
<1>8. CASE WorkerCleansUp(g)
  BY <1>0, <1>8, WorkerExcept DEF WorkerCleansUp
<1>9. CASE WorkerFallsBack(g)
  BY <1>0, <1>9, WorkerExcept DEF WorkerFallsBack
<1>10. CASE StubReadsCenter(g)
  BY <1>0, <1>10, WorkerExcept DEF StubReadsCenter
<1>11. CASE StubAppends(g)
  BY <1>0, <1>11, WorkerExcept DEF StubAppends
<1> QED
  BY <1>1, <1>2, <1>3, <1>4, <1>5, <1>6, <1>7, <1>8, <1>9, <1>10, <1>11 DEF WorkerSteps

-----------------------------------------------------------------------------
(* The parts of the invariant, one step of Next at a time. *)

LEMMA LifecycleStep ==
    ASSUME TypeOK, LifecycleOwned, [Next]_vars PROVE LifecycleOwned'
<1> USE DEF LifecycleOwned
<1>0. opener \in Opener /\ control \in Control
  BY DEF TypeOK
<1>1. CASE (\E f \in Freq : QueueCenter(f)) \/ QueueRequest
  BY <1>1 DEF QueueCenter, QueueRequest
<1>2. ASSUME NEW attemptReal \in BOOLEAN, StartBegins(attemptReal) PROVE LifecycleOwned'
  BY <1>0, <1>2 DEF StartBegins, Control
<1>3. CASE StartLaunches
  <2>1. opener'.pc \in {"begin", opener.pc}
    BY <1>3 DEF StartLaunches, NoOpener
  <2> QED
    BY <1>0, <1>3, <2>1 DEF StartLaunches, Control
<1>4. CASE StopBegins
  BY <1>0, <1>4 DEF StopBegins, Control
<1>5. CASE StopJoins
  BY <1>0, <1>5 DEF StopJoins, Control
<1>6. CASE StopCloses
  BY <1>0, <1>6 DEF StopCloses, Control
<1>7. CASE HandoffJoins
  BY <1>7, HandoffJoinsEffect, EndedOpener DEF HandoffJoins, OpenAbandons
<1>8. CASE HandoffPublishes
  BY <1>8, HandoffPublishesEffect DEF HandoffPublishes
<1>9. CASE OpenBegins
  BY <1>9, OpenBeginsEffect, EndedOpener DEF OpenBegins
<1>10. CASE OpenReadsCenter
  BY <1>10, OpenReadsCenterEffect DEF OpenReadsCenter
<1>11. CASE OpenTunes
  BY <1>11, OpenTunesEffect, EndedOpener DEF OpenTunes, OpenAbandons
<1>12. CASE HandoffBegins
  BY <1>12, HandoffBeginsEffect, EndedOpener DEF HandoffBegins, OpenAbandons
<1>13. CASE StartupControl \/ PpmReadsCenter \/ PpmTunes \/ StartupReady
  BY <1>13, StartupEffect, EndedOpener DEF StartupControl, PpmReadsCenter, PpmTunes, StartupReady
<1>17. ASSUME NEW h \in Gen, RetiredCloses(h) PROVE LifecycleOwned'
  BY <1>17 DEF RetiredCloses
<1>18. ASSUME NEW g \in Gen, WorkerSteps(g) PROVE LifecycleOwned'
  BY <1>18, WorkerStepEffect
<1>19. CASE UNCHANGED vars
  BY <1>19 DEF vars
<1> QED
  BY <1>1, <1>2, <1>3, <1>4, <1>5, <1>6, <1>7, <1>8, <1>9, <1>10, <1>11, <1>12, <1>13,
     <1>17, <1>18, <1>19 DEF Next, ControlSteps, HandoffSteps, OpenSteps

(* A launch gives the worker of the new session a handle and no other.       *)
LEMMA LaunchEffect ==
    ASSUME TypeOK, NEW g \in Gen, NEW h
    PROVE  /\ \A x \in Gen : x # g => Launched(g, h)[x] = worker[x]
           /\ Launched(g, h)[g].pc = "loop" /\ Launched(g, h)[g].handle = h
<1>1. worker \in [Gen -> Worker]
  BY DEF TypeOK
<1>2. [NoWorker EXCEPT !.pc = "loop", !.handle = h].pc = "loop"
      /\ [NoWorker EXCEPT !.pc = "loop", !.handle = h].handle = h
  BY DEF NoWorker
<1> QED
  BY <1>1, <1>2 DEF Launched

LEMMA GensStep ==
    ASSUME TypeOK, LifecycleOwned, GensInv, [Next]_vars PROVE GensInv'
<1>0. /\ sessionGen \in Nat /\ MaxGen \in Nat /\ opener.gen \in Nat
      /\ opener \in Opener /\ control \in Control /\ worker \in [Gen -> Worker]
      /\ opener.handle \in Handle
  BY OpenerFields DEF TypeOK
<1>a. ASSUME UNCHANGED worker, sessionGen' \in {sessionGen, sessionGen + 1}
      PROVE  \A g \in Gen : /\ worker'[g].pc # "none" => g <= sessionGen'
                            /\ worker'[g].handle \in {0, g - 1}
  BY <1>0, <1>a DEF GensInv, Gen
<1>1. CASE (\E f \in Freq : QueueCenter(f)) \/ QueueRequest
  BY <1>1 DEF QueueCenter, QueueRequest, GensInv, sessionVars
<1>2. ASSUME NEW attemptReal \in BOOLEAN, StartBegins(attemptReal) PROVE GensInv'
  <2>1. /\ sessionGen' = sessionGen + 1 /\ sessionGen + 3 <= MaxGen
        /\ UNCHANGED <<worker, opener>> /\ opener.pc \notin {"join", "publish"}
    BY <1>2 DEF StartBegins, LifecycleOwned
  <2> QED
    BY <1>0, <1>a, <2>1 DEF GensInv
<1>3. CASE StartLaunches
  <2>1. /\ UNCHANGED <<sessionGen, stopFlag>> /\ control.pc = "start" /\ control'.pc = "idle"
        /\ worker' = Launched(sessionGen, 0) /\ opener.pc \notin {"join", "publish"}
    BY <1>0, <1>3 DEF StartLaunches, LifecycleOwned, Control
  <2>2. sessionGen \in Gen /\ sessionGen > 0 /\ sessionGen + 2 <= MaxGen
    BY <1>0, <2>1 DEF GensInv, Gen
  <2>3. \A g \in Gen : /\ worker'[g].pc # "none" => g <= sessionGen'
                       /\ worker'[g].handle \in {0, g - 1}
    BY <1>0, <2>1, <2>2, LaunchEffect DEF GensInv, Gen
  <2>4. opener' = opener \/ (opener'.pc = "begin" /\ opener'.gen = sessionGen)
    BY <1>3 DEF StartLaunches, NoOpener
  <2> QED
    BY <1>0, <2>1, <2>2, <2>3, <2>4 DEF GensInv
<1>4. CASE StopBegins
  <2>1. /\ sessionGen' = sessionGen + 1 /\ UNCHANGED <<worker, opener>>
        /\ opener.pc \notin {"join", "publish"} /\ control'.pc = "join"
    BY <1>0, <1>4 DEF StopBegins, LifecycleOwned, Control
  <2> QED
    BY <1>0, <1>a, <2>1 DEF GensInv
<1>5. CASE StopJoins \/ StopCloses
  <2>1. UNCHANGED <<sessionGen, stopFlag, worker, opener>> /\ control'.pc # "start"
    BY <1>0, <1>5 DEF StopJoins, StopCloses, Control
  <2> QED
    BY <2>1 DEF GensInv
<1>b. ASSUME UNCHANGED <<sessionGen, worker, control>>,
             opener'.pc = "none" /\ opener'.gen = 0 /\ opener'.handle = 0
      PROVE  GensInv'
  BY <1>0, <1>b DEF GensInv, PreHandoff
<1>6. CASE HandoffJoins
  BY <1>b, <1>6, HandoffJoinsEffect, EndedOpener
  DEF HandoffJoins, OpenAbandons, GensInv, PreHandoff
<1>7. CASE HandoffPublishes
  <2>1. /\ opener'.pc = "control" /\ opener'.gen = opener.gen
        /\ UNCHANGED <<sessionGen, control>> /\ worker' = Launched(opener.gen, opener.handle)
        /\ opener.pc = "publish"
    BY <1>7, HandoffPublishesEffect DEF HandoffPublishes
  <2>2. opener.gen = sessionGen /\ opener.gen = opener.handle + 1
    BY <2>1 DEF GensInv
  <2>3. opener.gen \in Gen /\ opener.handle = opener.gen - 1
    <3>1. opener.gen \in Gen
      BY <1>0, <2>1, OpenerFields
    <3> QED
      BY <1>0, <2>2, <3>1 DEF Handle
  <2>4. \A g \in Gen : /\ worker'[g].pc # "none" => g <= sessionGen'
                       /\ worker'[g].handle \in {0, g - 1}
    BY <1>0, <2>1, <2>2, <2>3, LaunchEffect DEF GensInv, Gen
  <2> QED
    BY <1>0, <2>1, <2>2, <2>4 DEF GensInv, PreHandoff
<1>8. CASE OpenBegins
  <2>1. UNCHANGED <<sessionGen, stopFlag, worker, control>> /\ opener.pc = "begin"
    BY <1>8 DEF OpenBegins
  <2> QED
    BY <1>b, <1>8, <2>1, OpenBeginsEffect, EndedOpener DEF GensInv, PreHandoff
<1>9. CASE OpenReadsCenter
  BY <1>9, OpenReadsCenterEffect DEF OpenReadsCenter, sessionVars, GensInv, PreHandoff
<1>10. CASE OpenTunes
  <2>1. UNCHANGED <<sessionGen, stopFlag, worker, control>> /\ opener.pc = "native"
    BY <1>10 DEF OpenTunes
  <2> QED
    BY <1>b, <1>10, <2>1, OpenTunesEffect, EndedOpener DEF GensInv, PreHandoff, OpenAbandons
<1>11. CASE HandoffBegins
  <2>1. UNCHANGED <<worker, control>> /\ opener.pc = "handoff" /\ lifecycle = "free"
    BY <1>11 DEF HandoffBegins
  <2>2. CASE OpenAbandons /\ UNCHANGED sessionGen
    BY <1>b, <2>1, <2>2, EndedOpener DEF OpenAbandons
  <2>3. CASE ~OpenAbandons \/ sessionGen' # sessionGen
    <3>1. /\ ~cancelled(opener.gen) /\ sessionGen' = sessionGen + 1 /\ stopFlag' = TRUE
          /\ opener'.pc = "join" /\ opener'.gen = sessionGen + 1 /\ opener'.handle = opener.handle
      BY <1>11, <2>3, HandoffBeginsEffect
    <3>2. opener.gen = sessionGen /\ opener.handle = opener.gen /\ control.pc = "idle"
      BY <2>1, <3>1 DEF cancelled, GensInv, LifecycleOwned
    <3> QED
      BY <1>0, <1>a, <2>1, <3>1, <3>2 DEF GensInv, PreHandoff
  <2> QED
    BY <2>2, <2>3
<1>12. CASE StartupControl \/ PpmReadsCenter \/ PpmTunes \/ StartupReady
  <2>1. UNCHANGED <<sessionGen, stopFlag, worker, control>>
    BY <1>12 DEF StartupControl, PpmReadsCenter, PpmTunes, StartupReady, sessionVars
  <2> QED
    BY <1>b, <1>12, <2>1, StartupEffect, EndedOpener DEF GensInv, PreHandoff
<1>13. ASSUME NEW h \in Gen, RetiredCloses(h) PROVE GensInv'
  BY <1>13 DEF RetiredCloses, sessionVars, GensInv
<1>14. ASSUME NEW g \in Gen, WorkerSteps(g) PROVE GensInv'
  <2>1. /\ \A x \in Gen : x # g => worker'[x] = worker[x]
        /\ worker[g].pc # "none"
        /\ worker'[g].handle \in {worker[g].handle, 0}
        /\ UNCHANGED <<sessionGen, stopFlag, rxThread, lifecycle, control, opener>>
    BY <1>14, WorkerStepEffect
  <2> QED
    BY <2>1 DEF GensInv
<1>15. CASE UNCHANGED vars
  BY <1>15 DEF vars, sessionVars, GensInv
<1> QED
  BY <1>1, <1>2, <1>3, <1>4, <1>5, <1>6, <1>7, <1>8, <1>9, <1>10, <1>11, <1>12, <1>13, <1>14,
     <1>15 DEF Next, ControlSteps, HandoffSteps, OpenSteps

LEMMA StreamStep ==
    ASSUME TypeOK, LifecycleOwned, GensInv, StreamInv, NativeInv, FenceInv, [Next]_vars
    PROVE  StreamInv'
<1> USE DEF StreamInv
<1>0. control \in Control /\ isReal \in BOOLEAN /\ active \in BOOLEAN
  BY DEF TypeOK
<1>1. CASE (\E f \in Freq : QueueCenter(f)) \/ QueueRequest
  BY <1>1 DEF QueueCenter, QueueRequest, sessionVars
<1>2. ASSUME NEW attemptReal \in BOOLEAN, StartBegins(attemptReal) PROVE StreamInv'
  BY <1>2 DEF StartBegins
<1>3. CASE StartLaunches
  <2>1. handle = 0 /\ handle' = 0 /\ control'.pc = "idle" /\ isReal' = FALSE /\ active' = TRUE
    BY <1>0, <1>3 DEF StartLaunches, Control
  <2>2. opener'.pc # "publish"
    BY <1>3 DEF StartLaunches, NoOpener, LifecycleOwned
  <2> QED
    BY <2>1, <2>2
<1>4. CASE StopBegins
  BY <1>0, <1>4 DEF StopBegins, Control
<1>5. CASE StopJoins
  BY <1>0, <1>5 DEF StopJoins, Control
<1>6. CASE StopCloses
  <2>1. control.pc = "close" /\ rxThread' = rxThread /\ handle' = 0 /\ isReal' = FALSE
    BY <1>6 DEF StopCloses
  <2> QED
    BY <1>0, <1>6, <2>1 DEF StopCloses, Control, NoOpener
<1>7. CASE HandoffJoins
  <2>1. /\ opener.pc = "join" /\ rxThread' = 0 /\ UNCHANGED <<handle, control>>
        /\ handle = 0 /\ control.pc = "idle"
    BY <1>7 DEF HandoffJoins, NativeInv, DevicesInv, Holding, LifecycleOwned
  <2>2. CASE OpenAbandons /\ active' = FALSE /\ isReal' = FALSE
    BY <2>1, <2>2, EndedOpener DEF OpenAbandons
  <2>3. CASE UNCHANGED <<active, isReal>> /\ opener'.pc = "publish"
    BY <2>1, <2>3
  <2> QED
    BY <1>7, <2>2, <2>3, HandoffJoinsEffect
<1>8. CASE HandoffPublishes
  <2>1. /\ opener.pc = "publish" /\ handle' = opener.handle /\ active' = TRUE /\ isReal' = TRUE
        /\ control' = control /\ opener.handle # 0 /\ control.pc = "idle"
    BY <1>8 DEF HandoffPublishes, NativeInv, DevicesInv, Holding, LifecycleOwned
  <2> QED
    BY <1>8, <2>1, HandoffPublishesEffect
<1>9. CASE OpenBegins
  BY <1>9, OpenBeginsEffect, EndedOpener DEF OpenBegins
<1>10. CASE OpenReadsCenter
  BY <1>10, OpenReadsCenterEffect DEF OpenReadsCenter, sessionVars
<1>11. CASE OpenTunes
  BY <1>11, OpenTunesEffect, EndedOpener DEF OpenTunes, OpenAbandons
<1>12. CASE HandoffBegins
  BY <1>12, HandoffBeginsEffect, EndedOpener DEF HandoffBegins, OpenAbandons
<1>13. CASE StartupControl \/ PpmReadsCenter \/ PpmTunes \/ StartupReady
  <2>1. UNCHANGED <<isReal, active, handle, rxThread, control>>
    BY <1>13 DEF StartupControl, PpmReadsCenter, PpmTunes, StartupReady, sessionVars
  <2>2. opener'.pc # "publish"
    BY <1>13, StartupEffect, EndedOpener
  <2> QED
    BY <2>1, <2>2
<1>14. ASSUME NEW h \in Gen, RetiredCloses(h) PROVE StreamInv'
  BY <1>14 DEF RetiredCloses, sessionVars
<1>15. ASSUME NEW g \in Gen, WorkerSteps(g) PROVE StreamInv'
  <2>1. UNCHANGED <<rxThread, control, opener>>
    BY <1>15, WorkerStepEffect
  <2>2. CASE WorkerFaults(g)
    BY <1>0, <2>1, <2>2 DEF WorkerFaults
  <2>3. CASE ~WorkerFaults(g)
    <3>1. UNCHANGED <<isReal, active, handle>>
      BY <1>15, <2>3
      DEF WorkerSteps, WorkerExits, WorkerSeesRequest, WorkerReadsCenter, WorkerTunes,
          WorkerReportsTune, WorkerAppends, WorkerCleansUp, WorkerFallsBack,
          StubReadsCenter, StubAppends, sessionVars
    <3> QED
      BY <2>1, <3>1
  <2> QED
    BY <2>2, <2>3
<1>16. CASE UNCHANGED vars
  BY <1>16 DEF vars, sessionVars
<1> QED
  BY <1>1, <1>2, <1>3, <1>4, <1>5, <1>6, <1>7, <1>8, <1>9, <1>10, <1>11, <1>12, <1>13, <1>14,
     <1>15, <1>16 DEF Next, ControlSteps, HandoffSteps, OpenSteps

(* Closing or giving up a handle touches no other.                           *)
LEMMA NativeEffect ==
    ASSUME TypeOK, NEW h \in Handle, native' = Retired(h) \/ native' \in Finished(h)
    PROVE  /\ \A k \in Gen : k # h => native'[k] = native[k]
           /\ h # 0 => native'[h] \in {"closed", "retired", "failed"}
<1>1. native \in [Gen -> {"closed", "open", "retired", "failed"}]
  BY DEF TypeOK
<1>2. h # 0 => h \in Gen
  BY DEF Gen, Handle
<1>3. CASE h = 0
  BY <1>3 DEF Retired, Finished
<1>4. CASE h # 0
  <2>1. PICK s \in {"closed", "retired", "failed"} : native' = [native EXCEPT ![h] = s]
    BY <1>4 DEF Retired, Finished
  <2> QED
    BY <1>1, <1>2, <1>4, <2>1
<1> QED
  BY <1>3, <1>4

(* A handle that is closed, retired or given up leaves no new one open.      *)
LEMMA ClosingEffect ==
    ASSUME TypeOK, NativeInv, NEW h \in Handle,
           native' = Retired(h) \/ native' \in Finished(h),
           h # 0 => native[h] # "closed"
    PROVE  /\ NativeHandlesDontOverlap'
           /\ \A k \in Gen : native[k] = "closed" => native'[k] = "closed"
           /\ \A k \in Gen : native'[k] = "open" => native[k] = "open" /\ k # h
           /\ \A k \in Gen : k # h => native'[k] = native[k]
<1>1. /\ \A k \in Gen : k # h => native'[k] = native[k]
      /\ h # 0 => native'[h] \in {"closed", "retired", "failed"}
  BY NativeEffect
<1>2. 0 \notin Gen
  BY DEF Gen
<1>3. h # 0 => h \in Gen
  BY DEF Gen, Handle
<1> QED
  BY <1>1, <1>2, <1>3 DEF NativeInv, NativeHandlesDontOverlap

LEMMA NativeStep ==
    ASSUME TypeOK, LifecycleOwned, GensInv, StreamInv, NativeInv, [Next]_vars
    PROVE  NativeInv'
<1> USE DEF NativeInv
<1>0. /\ control \in Control /\ handle \in Handle /\ opener.handle \in Handle
      /\ opener \in Opener
      /\ native \in [Gen -> {"closed", "open", "retired", "failed"}]
      /\ worker \in [Gen -> Worker] /\ \A g \in Gen : worker[g].handle \in Handle
  BY OpenerFields, WorkerFields DEF TypeOK
<1>x. 0 \notin Gen /\ \A h \in Handle : h # 0 => h \in Gen
  BY DEF Gen, Handle
<1>1. CASE (\E f \in Freq : QueueCenter(f)) \/ QueueRequest
  BY <1>1 DEF QueueCenter, QueueRequest, sessionVars, DevicesInv, FaultsInv, NativeHandlesDontOverlap
<1>2. ASSUME NEW attemptReal \in BOOLEAN, StartBegins(attemptReal) PROVE NativeInv'
  <2>1. /\ UNCHANGED <<native, handle, opener, worker>> /\ ~active
        /\ attemptReal => ~rxCleanupPending /\ opener.pc = "none"
        /\ control'.real = attemptReal
    BY <1>0, <1>2 DEF StartBegins, Control
  <2>2. attemptReal => \A h \in Gen : native[h] = "closed"
    <3>1. attemptReal => handle = 0 /\ opener.handle = 0
      BY <2>1 DEF DevicesInv, StreamInv, Holding
    <3> QED
      BY <1>0, <1>x, <2>1, <3>1 DEF DevicesInv, rxCleanupPending
  <2>3. DevicesInv'
    BY <2>1, <2>2 DEF DevicesInv
  <2> QED
    BY <2>1, <2>3 DEF FaultsInv, NativeHandlesDontOverlap
<1>3. CASE StartLaunches
  <2>1. /\ UNCHANGED <<native, handle>> /\ control.pc = "start" /\ control'.pc = "idle"
        /\ worker' = Launched(sessionGen, 0)
    BY <1>0, <1>3 DEF StartLaunches, Control
  <2>a. sessionGen \in Gen
    BY <2>1 DEF GensInv, Gen, TypeOK
  <2>2. \A g \in Gen : worker'[g].pc = "faulted" => worker'[g] = worker[g]
    <3>1. /\ \A x \in Gen : x # sessionGen => worker'[x] = worker[x]
          /\ worker'[sessionGen].pc = "loop"
      <4>1. /\ \A x \in Gen : x # sessionGen => Launched(sessionGen, 0)[x] = worker[x]
            /\ Launched(sessionGen, 0)[sessionGen].pc = "loop"
        BY ONLY TypeOK, <2>a, LaunchEffect
      <4> QED
        BY <2>1, <4>1
    <3> QED
      BY <3>1
  <2>3. \/ opener' = opener /\ ~control.real
        \/ opener'.pc = "begin" /\ opener'.handle = 0 /\ control.real
    BY <1>0, <1>3 DEF StartLaunches, NoOpener, Control
  <2>4. CASE opener' = opener /\ ~control.real
    BY <2>1, <2>2, <2>4 DEF DevicesInv, FaultsInv, NativeHandlesDontOverlap
  <2>5. CASE opener'.pc = "begin" /\ opener'.handle = 0 /\ control.real
    BY <2>1, <2>2, <2>5 DEF DevicesInv, FaultsInv, NativeHandlesDontOverlap, Holding
  <2> QED
    BY <2>3, <2>4, <2>5
<1>4. CASE StopBegins \/ StopJoins
  <2>1. UNCHANGED <<native, handle, opener, worker>> /\ control'.pc # "start"
    BY <1>0, <1>4 DEF StopBegins, StopJoins, Control
  <2> QED
    BY <2>1 DEF DevicesInv, FaultsInv, NativeHandlesDontOverlap
<1>5. CASE StopCloses
  <2>1. /\ UNCHANGED <<opener, worker>> /\ handle' = 0 /\ control'.pc = "idle"
        /\ native' = Retired(handle) \/ native' \in Finished(handle)
    BY <1>0, <1>5 DEF StopCloses, Control
  <2>2. /\ NativeHandlesDontOverlap'
        /\ \A k \in Gen : native[k] = "closed" => native'[k] = "closed"
        /\ \A k \in Gen : native'[k] = "open" => native[k] = "open" /\ k # handle
        /\ \A k \in Gen : k # handle => native'[k] = native[k]
    BY <1>0, <2>1, ClosingEffect DEF DevicesInv
  <2>3. DevicesInv'
    BY <1>0, <1>x, <2>1, <2>2 DEF DevicesInv
  <2>4. FaultsInv'
    <3> SUFFICES ASSUME NEW x \in Gen, worker'[x].pc = "faulted", worker'[x].handle # 0
                 PROVE  native'[worker'[x].handle] = "retired"
      BY DEF FaultsInv
    <3>1. worker'[x] = worker[x] /\ native[worker[x].handle] = "retired"
      BY <2>1 DEF FaultsInv
    <3>2. worker[x].handle # handle /\ worker[x].handle \in Gen
      BY <1>0, <1>x, <2>1, <3>1 DEF DevicesInv
    <3> QED
      BY <2>2, <3>1, <3>2
  <2> QED
    BY <2>2, <2>3, <2>4
<1>6. ASSUME NEW h \in Gen, RetiredCloses(h) PROVE NativeInv'
  <2>1. /\ UNCHANGED <<opener, worker, handle, control>> /\ native[h] = "retired"
        /\ native' \in Finished(h)
        /\ \A g \in Gen : worker[g].handle = h => worker[g].pc = "done"
    BY <1>6 DEF RetiredCloses, sessionVars
  <2>2. /\ NativeHandlesDontOverlap'
        /\ \A k \in Gen : native[k] = "closed" => native'[k] = "closed"
        /\ \A k \in Gen : native'[k] = "open" => native[k] = "open" /\ k # h
        /\ \A k \in Gen : k # h => native'[k] = native[k]
    BY <1>0, <2>1, ClosingEffect
  <2>3. DevicesInv'
    BY <1>0, <1>x, <2>1, <2>2 DEF DevicesInv
  <2>4. FaultsInv'
    BY <1>0, <1>x, <2>1, <2>2 DEF FaultsInv
  <2> QED
    BY <2>2, <2>3, <2>4
(* The open thread gives its device back: nobody else has one.               *)
<1>7. ASSUME UNCHANGED <<handle, worker, control>>, OpenAbandons, opener.handle # 0
      PROVE  NativeInv'
  <2>1. /\ NativeHandlesDontOverlap'
        /\ \A k \in Gen : native[k] = "closed" => native'[k] = "closed"
        /\ \A k \in Gen : native'[k] = "open" => native[k] = "open" /\ k # opener.handle
        /\ \A k \in Gen : k # opener.handle => native'[k] = native[k]
    BY <1>0, <1>7, ClosingEffect DEF OpenAbandons, DevicesInv
  <2>2. opener'.pc = "none" /\ opener'.handle = 0 /\ handle = 0
    BY <1>7, EndedOpener DEF OpenAbandons, DevicesInv
  <2>3. DevicesInv'
    BY <1>0, <1>x, <1>7, <2>1, <2>2 DEF DevicesInv, Holding
  <2>4. FaultsInv'
    <3> SUFFICES ASSUME NEW x \in Gen, worker'[x].pc = "faulted", worker'[x].handle # 0
                 PROVE  native'[worker'[x].handle] = "retired"
      BY DEF FaultsInv
    <3>1. worker'[x] = worker[x] /\ native[worker[x].handle] = "retired"
      BY <1>7 DEF FaultsInv
    <3>2. worker[x].handle # opener.handle /\ worker[x].handle \in Gen
      BY <1>0, <1>x, <1>7, <3>1 DEF DevicesInv
    <3> QED
      BY <2>1, <3>1, <3>2
  <2> QED
    BY <2>1, <2>3, <2>4
(* A step of the open thread that keeps its device.                          *)
<1>8. ASSUME UNCHANGED <<handle, worker, control, native>>,
             opener.pc # "none", opener'.pc # "begin",
             opener'.handle = opener.handle, opener'.pc \in Holding <=> opener.pc \in Holding
      PROVE  NativeInv'
  BY <1>8 DEF DevicesInv, FaultsInv, NativeHandlesDontOverlap
<1>9. CASE HandoffJoins
  <2>1. UNCHANGED <<handle, worker, control>> /\ opener.pc = "join"
    BY <1>9 DEF HandoffJoins
  <2>2. opener.handle # 0
    BY <2>1 DEF DevicesInv, Holding
  <2>3. OpenAbandons \/ (native' = native /\ opener'.pc = "publish" /\ opener'.handle = opener.handle)
    BY <1>9, HandoffJoinsEffect
  <2> QED
    BY <1>7, <1>8, <2>1, <2>2, <2>3 DEF Holding
<1>10. CASE HandoffPublishes
  <2>1. /\ opener.pc = "publish" /\ handle' = opener.handle /\ opener'.handle = 0
        /\ opener'.pc = "control" /\ UNCHANGED <<native, control>>
        /\ worker' = Launched(opener.gen, opener.handle) /\ opener.gen \in Gen
    BY <1>0, <1>10, HandoffPublishesEffect, OpenerFields DEF HandoffPublishes
  <2>2. \A g \in Gen : worker'[g].pc = "faulted" => worker'[g] = worker[g]
    <3>1. /\ \A x \in Gen : x # opener.gen => worker'[x] = worker[x]
          /\ worker'[opener.gen].pc = "loop"
      <4>1. /\ \A x \in Gen : x # opener.gen => Launched(opener.gen, opener.handle)[x] = worker[x]
            /\ Launched(opener.gen, opener.handle)[opener.gen].pc = "loop"
        <5>1. opener.gen \in Gen
          BY <2>1
        <5> QED
          BY ONLY TypeOK, <5>1, LaunchEffect
      <4> QED
        BY <2>1, <4>1
    <3> QED
      BY <3>1
  <2>3. opener.handle # 0 /\ handle = 0
    BY <2>1 DEF DevicesInv, Holding
  <2> QED
    BY <2>1, <2>2, <2>3 DEF DevicesInv, FaultsInv, NativeHandlesDontOverlap, Holding
<1>11. CASE OpenBegins
  <2>1. /\ UNCHANGED <<handle, worker, control>> /\ opener.pc = "begin"
    BY <1>11 DEF OpenBegins
  <2>2. opener.gen \in Gen /\ \A h \in Gen : native[h] = "closed"
    BY <1>0, <2>1, OpenerFields DEF DevicesInv
  <2>3. handle = 0 /\ opener.handle = 0 /\ ~(control.pc = "start" /\ control.real)
    BY <1>0, <1>x, <2>1, <2>2 DEF DevicesInv, Holding
  <2>4. CASE OpenEnds /\ native' = native
    BY <2>1, <2>2, <2>3, <2>4, EndedOpener DEF DevicesInv, FaultsInv, NativeHandlesDontOverlap, Holding
  <2>5. CASE /\ native' = [native EXCEPT ![opener.gen] = "open"]
             /\ opener'.pc = "readCenter" /\ opener'.handle = opener.gen
    <3>1. \A k \in Gen : native'[k] = IF k = opener.gen THEN "open" ELSE "closed"
      BY <1>0, <2>2, <2>5
    <3>2. DevicesInv'
      BY <1>x, <2>1, <2>2, <2>3, <2>5, <3>1 DEF DevicesInv, Holding
    <3>3. FaultsInv'
      BY <1>0, <1>x, <2>1, <2>2 DEF FaultsInv
    <3> QED
      BY <3>1, <3>2, <3>3 DEF NativeHandlesDontOverlap
  <2> QED
    BY <1>11, <2>4, <2>5, OpenBeginsEffect
<1>12. CASE OpenReadsCenter
  <2>1. UNCHANGED <<handle, worker, control, native>> /\ opener.pc = "readCenter"
    BY <1>12 DEF OpenReadsCenter, sessionVars
  <2> QED
    BY <1>8, <1>12, <2>1, OpenReadsCenterEffect DEF Holding
<1>13. CASE OpenTunes
  <2>1. UNCHANGED <<handle, worker, control>> /\ opener.pc = "native"
    BY <1>13 DEF OpenTunes
  <2>2. opener.handle # 0
    BY <2>1 DEF DevicesInv, Holding
  <2>3. OpenAbandons \/ (native' = native /\ opener'.pc = "handoff" /\ opener'.handle = opener.handle)
    BY <1>13, OpenTunesEffect
  <2> QED
    BY <1>7, <1>8, <2>1, <2>2, <2>3 DEF Holding
<1>14. CASE HandoffBegins
  <2>1. UNCHANGED <<handle, worker, control>> /\ opener.pc = "handoff"
    BY <1>14 DEF HandoffBegins
  <2>2. opener.handle # 0
    BY <2>1 DEF DevicesInv, Holding
  <2>3. OpenAbandons \/ (native' = native /\ opener'.pc = "join" /\ opener'.handle = opener.handle)
    BY <1>14, HandoffBeginsEffect
  <2> QED
    BY <1>7, <1>8, <2>1, <2>2, <2>3 DEF Holding
<1>15. CASE StartupControl \/ PpmReadsCenter \/ PpmTunes \/ StartupReady
  <2>1. /\ UNCHANGED <<handle, worker, control, native>>
        /\ opener.pc \in {"control", "readPpmCenter", "setPpm", "ready"}
    BY <1>15 DEF StartupControl, PpmReadsCenter, PpmTunes, StartupReady, sessionVars
  <2>2. opener.handle = 0
    BY <2>1 DEF DevicesInv, Holding
  <2>3. opener'.handle = 0 /\ opener'.pc \in {"none", "readPpmCenter", "setPpm", "ready"}
    BY <1>15, <2>2, StartupEffect, EndedOpener
  <2> QED
    BY <1>8, <2>1, <2>2, <2>3 DEF Holding
<1>16. ASSUME NEW g \in Gen, WorkerSteps(g) PROVE NativeInv'
  <2>1. /\ \A x \in Gen : x # g => worker'[x] = worker[x]
        /\ UNCHANGED <<control, opener>>
    BY <1>16, WorkerStepEffect
  <2>2. CASE WorkerFaults(g)
    <3>1. /\ handle = worker[g].handle /\ handle # 0 /\ handle' = 0 /\ native' = Retired(handle)
          /\ worker'[g].handle = handle
      BY <1>0, <2>2, WorkerExcept DEF WorkerFaults, To
    <3>2. /\ NativeHandlesDontOverlap'
          /\ \A k \in Gen : native[k] = "closed" => native'[k] = "closed"
          /\ \A k \in Gen : native'[k] = "open" => native[k] = "open" /\ k # handle
          /\ \A k \in Gen : k # handle => native'[k] = native[k]
      <4>1. native[handle] # "closed"
        BY <3>1 DEF DevicesInv
      <4> QED
        BY <1>0, <3>1, <4>1, ClosingEffect
    <3>3. native'[handle] = "retired"
      BY <1>0, <1>x, <3>1 DEF Retired
    <3>4. DevicesInv'
      BY <1>0, <1>x, <2>1, <3>1, <3>2 DEF DevicesInv
    <3>5. FaultsInv'
      <4> SUFFICES ASSUME NEW x \in Gen, worker'[x].pc = "faulted", worker'[x].handle # 0
                   PROVE  native'[worker'[x].handle] = "retired"
        BY DEF FaultsInv
      <4>1. CASE x = g
        BY <3>1, <3>3, <4>1
      <4>2. CASE x # g
        <5>1. worker'[x] = worker[x] /\ native[worker[x].handle] = "retired"
          BY <2>1, <4>2 DEF FaultsInv
        <5>2. worker[x].handle \in Gen /\ worker[x].handle # handle
          BY <1>0, <1>x, <3>1, <5>1 DEF DevicesInv
        <5>3. native'[worker[x].handle] = native[worker[x].handle]
          BY <3>2, <5>2
        <5> QED
          BY <5>1, <5>3
      <4> QED
        BY <4>1, <4>2
    <3> QED
      BY <3>2, <3>4, <3>5
  <2>3. CASE WorkerCleansUp(g)
    <3>1. /\ worker[g].pc = "faulted" /\ worker[g].handle # 0 /\ handle' = handle
          /\ native' \in Finished(worker[g].handle) /\ worker'[g].handle = 0
      BY <1>0, <2>3, WorkerExcept DEF WorkerCleansUp, sessionVars
    <3>2. native[worker[g].handle] = "retired" /\ worker[g].handle \in Gen
      BY <1>0, <1>x, <3>1 DEF FaultsInv
    <3>3. /\ NativeHandlesDontOverlap'
          /\ \A k \in Gen : native[k] = "closed" => native'[k] = "closed"
          /\ \A k \in Gen : native'[k] = "open" => native[k] = "open" /\ k # worker[g].handle
          /\ \A k \in Gen : k # worker[g].handle => native'[k] = native[k]
      <4>1. native[worker[g].handle] # "closed" /\ worker[g].handle \in Handle
        BY <1>0, <3>2
      <4> QED
        BY <3>1, <4>1, ClosingEffect
    <3>4. \A x \in Gen : x # g /\ worker[x].handle # 0 => worker[x].handle # worker[g].handle
      BY <3>1 DEF GensInv, Gen
    <3>5. DevicesInv'
      BY <1>0, <1>x, <2>1, <3>1, <3>2, <3>3 DEF DevicesInv
    <3>6. FaultsInv'
      <4> SUFFICES ASSUME NEW x \in Gen, worker'[x].pc = "faulted", worker'[x].handle # 0
                   PROVE  native'[worker'[x].handle] = "retired"
        BY DEF FaultsInv
      <4>1. x # g
        BY <3>1
      <4>2. worker'[x] = worker[x] /\ native[worker[x].handle] = "retired"
        BY <2>1, <4>1 DEF FaultsInv
      <4>3. worker[x].handle \in Gen /\ worker[x].handle # worker[g].handle
        BY <1>0, <1>x, <3>4, <4>1, <4>2
      <4>4. native'[worker[x].handle] = native[worker[x].handle]
        BY <3>3, <4>3
      <4> QED
        BY <4>2, <4>4
    <3> QED
      BY <3>3, <3>5, <3>6
  <2>4. CASE ~WorkerFaults(g) /\ ~WorkerCleansUp(g)
    <3>1. UNCHANGED <<handle, native>>
      BY <1>16, <2>4
      DEF WorkerSteps, WorkerExits, WorkerSeesRequest, WorkerReadsCenter, WorkerTunes,
          WorkerReportsTune, WorkerAppends, WorkerFallsBack,
          StubReadsCenter, StubAppends, sessionVars
    <3>2. worker'[g].pc = "faulted" => worker'[g] = worker[g]
      <4>1. \/ worker' = worker
            \/ \E p, q, r : /\ p # "faulted"
                            /\ worker' \in {[worker EXCEPT ![g].pc = p],
                                            [worker EXCEPT ![g].pc = p, ![g].seq = q],
                                            [worker EXCEPT ![g].pc = p, ![g].center = r]}
        BY <1>16, <2>4
        DEF WorkerSteps, WorkerExits, WorkerSeesRequest, WorkerReadsCenter, WorkerTunes,
            WorkerReportsTune, WorkerAppends, WorkerFallsBack,
            StubReadsCenter, StubAppends, To
      <4>2. CASE worker' = worker
        BY <4>2
      <4>3. ASSUME NEW p, NEW q, NEW r, p # "faulted",
                   worker' \in {[worker EXCEPT ![g].pc = p],
                               [worker EXCEPT ![g].pc = p, ![g].seq = q],
                               [worker EXCEPT ![g].pc = p, ![g].center = r]}
            PROVE  worker'[g].pc # "faulted"
        <5>1. CASE worker' = [worker EXCEPT ![g].pc = p]
          BY <4>3, <5>1, WorkerExcept
        <5>2. CASE worker' = [worker EXCEPT ![g].pc = p, ![g].seq = q]
          BY <4>3, <5>2, WorkerExcept
        <5>3. CASE worker' = [worker EXCEPT ![g].pc = p, ![g].center = r]
          BY <4>3, <5>3, WorkerExcept
        <5> QED
          BY <4>3, <5>1, <5>2, <5>3
      <4> QED
        BY <4>1, <4>2, <4>3
    <3> QED
      BY <2>1, <3>1, <3>2 DEF DevicesInv, FaultsInv, NativeHandlesDontOverlap
  <2> QED
    BY <2>2, <2>3, <2>4
<1>17. CASE UNCHANGED vars
  BY <1>17 DEF vars, sessionVars, DevicesInv, FaultsInv, NativeHandlesDontOverlap
<1> QED
  BY <1>1, <1>2, <1>3, <1>4, <1>5, <1>6, <1>9, <1>10, <1>11, <1>12, <1>13, <1>14,
     <1>15, <1>16, <1>17 DEF Next, ControlSteps, HandoffSteps, OpenSteps

LEMMA FenceStep ==
    ASSUME TypeOK, LifecycleOwned, GensInv, StreamInv, DevicesInv, FenceInv, [Next]_vars
    PROVE  FenceInv'
<1>0. /\ control \in Control /\ opener \in Opener /\ worker \in [Gen -> Worker]
      /\ sessionGen \in Nat /\ isReal \in BOOLEAN /\ active \in BOOLEAN /\ stopFlag \in BOOLEAN
  BY DEF TypeOK
<1>a. ASSUME UNCHANGED <<sessionGen, stopFlag, active, isReal, handle, ring, worker>>,
             control'.pc \in {"join", "close"} => stopFlag'
      PROVE  FenceInv'
  BY <1>a DEF FenceInv, RingIsCurrent, cancelled, Fenced
<1>b. ASSUME stopFlag' PROVE FenceInv'
  BY <1>b DEF FenceInv, RingIsCurrent, cancelled, Fenced
(* A launch after the buffers were reset.                                    *)
<1>c. ASSUME ring' = {}, sessionGen \in Gen, sessionGen' = sessionGen,
             worker' = Launched(sessionGen, handle'), control'.pc = "idle"
      PROVE  FenceInv'
  <2>1. worker'[sessionGen].pc = "loop" /\ worker'[sessionGen].handle = handle'
    BY <1>c, LaunchEffect
  <2> QED
    BY <1>c, <2>1 DEF FenceInv, RingIsCurrent, cancelled, Fenced
<1>1. CASE (\E f \in Freq : QueueCenter(f)) \/ QueueRequest
  BY <1>a, <1>1 DEF QueueCenter, QueueRequest, sessionVars, FenceInv
<1>2. ASSUME NEW attemptReal \in BOOLEAN, StartBegins(attemptReal) PROVE FenceInv'
  <2>1. /\ sessionGen' = sessionGen + 1 /\ ~active' /\ worker' = worker
        /\ control'.pc = "start"
    BY <1>0, <1>2 DEF StartBegins, Control
  <2>2. \A g \in Gen : g = sessionGen' => worker[g].pc = "none"
    BY <1>0, <2>1 DEF GensInv, Gen
  <2> QED
    BY <2>1, <2>2 DEF FenceInv, RingIsCurrent, cancelled, Fenced
<1>3. CASE StartLaunches
  <2>1. /\ ring' = {} /\ sessionGen' = sessionGen /\ handle' = handle
        /\ worker' = Launched(sessionGen, 0) /\ control'.pc = "idle" /\ control.pc = "start"
    BY <1>0, <1>3 DEF StartLaunches, Control
  <2>2. handle = 0
    BY <2>1 DEF StreamInv
  <2>3. sessionGen \in Gen
    BY <1>0, <2>1 DEF GensInv, Gen
  <2> QED
    BY <1>c, <2>1, <2>2, <2>3
<1>4. CASE StopBegins
  BY <1>b, <1>4 DEF StopBegins
<1>5. CASE StopJoins \/ StopCloses
  <2>1. stopFlag /\ stopFlag' = stopFlag
    BY <1>5 DEF StopJoins, StopCloses, FenceInv
  <2> QED
    BY <1>b, <2>1
<1>6. CASE HandoffJoins
  <2>1. stopFlag /\ stopFlag' = stopFlag
    BY <1>6 DEF HandoffJoins, GensInv
  <2> QED
    BY <1>b, <2>1
<1>7. CASE HandoffPublishes
  <2>1. /\ ring' = {} /\ sessionGen' = sessionGen /\ handle' = opener.handle
        /\ worker' = Launched(opener.gen, opener.handle) /\ control'.pc = "idle"
    BY <1>7 DEF HandoffPublishes, LifecycleOwned
  <2>2. opener.gen = sessionGen /\ opener.gen \in Gen
    BY <1>0, <1>7, OpenerFields DEF HandoffPublishes, GensInv
  <2> QED
    BY <1>c, <2>1, <2>2
<1>8. CASE OpenBegins \/ OpenReadsCenter \/ OpenTunes
  BY <1>a, <1>8 DEF OpenBegins, OpenReadsCenter, OpenTunes, sessionVars, FenceInv
<1>9. CASE HandoffBegins
  <2>1. CASE UNCHANGED <<sessionGen, stopFlag>>
    BY <1>a, <1>9, <2>1 DEF HandoffBegins, FenceInv
  <2> QED
    BY <1>b, <1>9, <2>1 DEF HandoffBegins
<1>10. CASE StartupControl \/ PpmReadsCenter \/ PpmTunes \/ StartupReady
  BY <1>a, <1>10 DEF StartupControl, PpmReadsCenter, PpmTunes, StartupReady, sessionVars, FenceInv
<1>11. ASSUME NEW h \in Gen, RetiredCloses(h) PROVE FenceInv'
  BY <1>a, <1>11 DEF RetiredCloses, sessionVars, FenceInv
<1>12. ASSUME NEW g \in Gen, WorkerSteps(g) PROVE FenceInv'
  <2>1. /\ \A x \in Gen : x # g => worker'[x] = worker[x]
        /\ UNCHANGED <<sessionGen, stopFlag, control>>
    BY <1>12, WorkerStepEffect
  <2> DEFINE Kept == UNCHANGED <<active, isReal, handle, ring>>
(* A step of the worker that appends nothing and keeps the device.           *)
  <2>2. ASSUME Kept, ~cancelled(g) => Fenced(worker'[g]) PROVE FenceInv'
    BY <2>1, <2>2 DEF FenceInv, RingIsCurrent, cancelled, Fenced
  <2>3. ~cancelled(g) => Fenced(worker[g])
    BY DEF FenceInv, Fenced
  <2>4. CASE WorkerExits(g)
    <3>1. worker'[g].pc = "done" /\ Kept
      BY <1>0, <2>4, WorkerExcept DEF WorkerExits, To, sessionVars
    <3> QED
      BY <2>2, <3>1 DEF Fenced
  <2>5. CASE WorkerSeesRequest(g)
    <3>1. /\ worker'[g].pc = "readCenter" /\ worker'[g].handle = worker[g].handle
          /\ worker[g].pc = "loop" /\ worker[g].handle # 0 /\ Kept
      BY <1>0, <2>5, WorkerExcept DEF WorkerSeesRequest, sessionVars
    <3> QED
      BY <2>2, <2>3, <3>1 DEF Fenced
  <2>6. CASE WorkerReadsCenter(g)
    <3>1. /\ worker'[g].pc = "setFrequency" /\ worker'[g].handle = worker[g].handle
          /\ worker[g].pc = "readCenter" /\ Kept
      BY <1>0, <2>6, WorkerExcept DEF WorkerReadsCenter, sessionVars
    <3> QED
      BY <2>2, <2>3, <3>1 DEF Fenced
  <2>7. CASE WorkerTunes(g)
    <3>1. \E p \in {"tuned", "untuned"} : To(g, p)
      BY <2>7 DEF WorkerTunes
    <3>2. /\ worker'[g].pc \in {"tuned", "untuned"} /\ worker'[g].handle = worker[g].handle
          /\ worker[g].pc = "setFrequency" /\ Kept
      BY <1>0, <2>7, <3>1, WorkerExcept DEF WorkerTunes, To, sessionVars
    <3> QED
      BY <2>2, <2>3, <3>2 DEF Fenced
  <2>8. CASE WorkerReportsTune(g)
    <3>1. /\ worker'[g].pc = "loop" /\ worker'[g].handle = worker[g].handle
          /\ worker[g].pc \in {"tuned", "untuned"} /\ Kept
      BY <1>0, <2>8, WorkerExcept DEF WorkerReportsTune, To, sessionVars
    <3> QED
      BY <2>2, <2>3, <3>1 DEF Fenced
  <2>9. CASE WorkerAppends(g)
    <3>1. /\ worker' = worker /\ UNCHANGED <<active, isReal, handle>>
          /\ ring' = ring \cup {[gen |-> g, handle |-> worker[g].handle]}
          /\ worker[g].pc = "loop" /\ ~cancelled(g)
      BY <2>9 DEF WorkerAppends, sessionVars
    <3>2. worker[g].handle = handle /\ g = sessionGen
      BY <2>3, <3>1 DEF Fenced, cancelled
    <3> QED
      BY <2>1, <3>1, <3>2 DEF FenceInv, RingIsCurrent, cancelled, Fenced
  <2>10. CASE WorkerFaults(g)
    <3>1. /\ worker'[g].pc = "faulted" /\ ring' = ring /\ handle' = 0 /\ ~isReal'
          /\ ~cancelled(g) /\ handle # 0
      BY <1>0, <2>10, WorkerExcept DEF WorkerFaults, To
    <3>2. active /\ \A x \in Gen : x # g => cancelled(x)
      BY <3>1 DEF StreamInv, cancelled
    <3> QED
      BY <2>1, <3>1, <3>2 DEF FenceInv, RingIsCurrent, cancelled, Fenced
  <2>11. CASE WorkerCleansUp(g)
    <3>1. worker'[g].pc = "faulted" /\ worker[g].pc = "faulted" /\ Kept
      BY <1>0, <2>11, WorkerExcept DEF WorkerCleansUp, sessionVars
    <3> QED
      BY <2>2, <2>3, <3>1 DEF Fenced
  <2>12. CASE WorkerFallsBack(g)
    <3>1. /\ worker'[g].pc = "loop" /\ worker'[g].handle = 0 /\ worker[g].pc = "faulted"
          /\ ring' = {} /\ handle' = handle
      BY <1>0, <2>12, WorkerExcept DEF WorkerFallsBack, To, sessionVars
    <3> QED
      BY <2>1, <2>3, <3>1 DEF Fenced, FenceInv, RingIsCurrent, cancelled
  <2>13. CASE StubReadsCenter(g)
    <3>1. /\ worker'[g].pc = "stubWrite" /\ worker'[g].handle = 0
          /\ worker[g].pc = "loop" /\ worker[g].handle = 0 /\ Kept
      BY <1>0, <2>13, WorkerExcept DEF StubReadsCenter, sessionVars
    <3> QED
      BY <2>2, <2>3, <3>1 DEF Fenced
  <2>14. CASE StubAppends(g)
    <3>1. /\ worker'[g].pc = "loop" /\ worker'[g].handle = worker[g].handle
          /\ UNCHANGED <<active, isReal, handle>>
          /\ ring' = ring \cup {[gen |-> g, handle |-> 0]}
          /\ worker[g].pc = "stubWrite" /\ ~cancelled(g)
      BY <1>0, <2>14, WorkerExcept DEF StubAppends, To, sessionVars
    <3>2. worker[g].handle = 0 /\ handle = 0 /\ g = sessionGen
      BY <2>3, <3>1 DEF Fenced, cancelled
    <3> QED
      BY <2>1, <3>1, <3>2 DEF FenceInv, RingIsCurrent, cancelled, Fenced
  <2> QED
    BY <1>12, <2>4, <2>5, <2>6, <2>7, <2>8, <2>9, <2>10, <2>11, <2>12, <2>13, <2>14
    DEF WorkerSteps
<1>13. CASE UNCHANGED vars
  BY <1>a, <1>13 DEF vars, sessionVars, FenceInv
<1> QED
  BY <1>1, <1>2, <1>3, <1>4, <1>5, <1>6, <1>7, <1>8, <1>9, <1>10, <1>11, <1>12, <1>13
  DEF Next, ControlSteps, HandoffSteps, OpenSteps

-----------------------------------------------------------------------------
(* The tune requests. *)

(* An open that has not been superseded.                                     *)
Opening == \/ opener.pc \in PreHandoff /\ ~cancelled(opener.gen)
           \/ opener.pc \in {"join", "publish"}

(* The stub has not written an older centre over the last request.           *)
OnRecord == currentCenter = lastRequested

CenterInv ==
    /\ centerTuneAppliedSeq <= centerTuneRequestSeq
    /\ control.pc = "start" => control.center = currentCenter /\ tuner = "idle"
    /\ StartupPermit => tuner = "idle"
    /\ opener.pc = "setPpm" /\ OnRecord => opener.center = lastRequested

(* What an open read is what was asked for, unless more was asked since.     *)
OpeningInv ==
    Opening =>
        /\ active /\ ~isReal
        /\ opener.pc # "begin" => opener.seq <= centerTuneRequestSeq
        /\ tuner = "idle" /\ OnRecord /\ opener.seq = centerTuneRequestSeq =>
               /\ opener.pc \in {"native", "handoff", "join", "publish"} =>
                      opener.center = lastRequested
               /\ opener.pc \in {"handoff", "join", "publish"} =>
                      hwCenter[opener.handle] = lastRequested

(* The request a worker is serving is the last one, or another is pending.   *)
(* A stub that holds the centre last asked for has not written over it.      *)
Serves(w) ==
    /\ w.pc # "none" => active
    /\ w.pc = "stubWrite" /\ w.center = lastRequested => OnRecord
    /\ w.pc \in {"readCenter", "setFrequency", "tuned", "untuned"} =>
           centerTuneAppliedSeq < w.seq /\ w.seq <= centerTuneRequestSeq
    /\ tuner = "idle" /\ OnRecord /\ w.seq = centerTuneRequestSeq =>
           /\ w.pc \in {"setFrequency", "tuned", "untuned"} => w.center = lastRequested
           /\ w.pc = "tuned" => hwCenter[handle] = lastRequested

ServingInv == \A g \in Gen : ~cancelled(g) => Serves(worker[g])

TunedOnRecord ==
    /\ isReal /\ ~stopFlag /\ tuner = "idle" /\ centerTuneAppliedSeq = centerTuneRequestSeq
    /\ OnRecord
    => hwCenter[handle] = lastRequested

TuneInv == CenterInv /\ OpeningInv /\ ServingInv /\ TunedOnRecord

LEMMA LaunchedServes ==
    ASSUME TypeOK, NEW g \in Gen, NEW h \in Handle, worker' = Launched(g, h), active'
    PROVE  Serves(worker[g])'
<1>1. Launched(g, h)[g].pc = "loop"
  BY LaunchEffect
<1> QED
  BY <1>1 DEF Serves

LEMMA TuneStep ==
    ASSUME TypeOK, LifecycleOwned, GensInv, StreamInv, DevicesInv, FenceInv, TuneInv,
           [Next]_vars
    PROVE  TuneInv'
<1>0. /\ control \in Control /\ opener \in Opener /\ worker \in [Gen -> Worker]
      /\ sessionGen \in Nat /\ isReal \in BOOLEAN /\ active \in BOOLEAN /\ stopFlag \in BOOLEAN
      /\ hwCenter \in [Gen -> Freq] /\ handle \in Handle /\ opener.handle \in Handle
      /\ centerTuneRequestSeq \in Nat /\ centerTuneAppliedSeq \in Nat
      /\ opener.gen \in Nat
  BY OpenerFields DEF TypeOK
<1>x. 0 \notin Gen /\ \A h \in Handle : h # 0 => h \in Gen
  BY DEF Gen, Handle
<1>t. CenterInv /\ OpeningInv /\ ServingInv /\ TunedOnRecord
  BY DEF TuneInv
(* What the parts need to be left alone.                                     *)
<1>s. ASSUME stopFlag' PROVE ServingInv' /\ TunedOnRecord'
  BY <1>s DEF ServingInv, TunedOnRecord, cancelled
<1>o. ASSUME UNCHANGED <<opener, sessionGen, stopFlag, tuner, active, isReal,
                         centerTuneRequestSeq, lastRequested, hwCenter>>,
             OnRecord' => OnRecord
      PROVE  OpeningInv'
  BY <1>t, <1>o DEF OpeningInv, Opening, cancelled
<1>w. ASSUME UNCHANGED <<worker, sessionGen, stopFlag, tuner, active, isReal, handle, tuneVars,
                         lastRequested>>,
             handle # 0 => hwCenter'[handle] = hwCenter[handle]
      PROVE  ServingInv' /\ TunedOnRecord'
  <2>1. TunedOnRecord'
    BY <1>t, <1>w DEF TunedOnRecord, StreamInv, OnRecord, tuneVars
  <2>2. ASSUME NEW g \in Gen, ~cancelled(g)' PROVE Serves(worker[g])'
    <3>1. Fenced(worker[g]) /\ Serves(worker[g])
      BY <1>t, <1>w, <2>2 DEF ServingInv, FenceInv, cancelled
    <3> QED
      BY <1>w, <3>1 DEF Serves, Fenced, OnRecord, tuneVars
  <2> QED
    BY <2>1, <2>2, <1>w DEF ServingInv, cancelled
<1>c. ASSUME UNCHANGED <<tuneVars, lastRequested, tuner>>,
             control'.pc # "start", opener'.pc \in {"readPpmCenter", "setPpm"} => opener' = opener
      PROVE  CenterInv'
  BY <1>t, <1>c DEF CenterInv, StartupPermit, OnRecord, tuneVars
<1>1. ASSUME NEW f \in Freq, QueueCenter(f) PROVE TuneInv'
  <2>1. /\ control.pc = "idle" /\ ~StartupPermit
        /\ currentCenter' = f /\ lastRequested' = f /\ tuner' = "queueing"
        /\ UNCHANGED <<sessionVars, centerTuneRequestSeq, centerTuneAppliedSeq, hwCenter,
                       control, opener, worker>>
    BY <1>1 DEF QueueCenter
  <2>2. CenterInv'
    BY <1>t, <2>1 DEF CenterInv, StartupPermit
  <2>3. OpeningInv'
    BY <1>t, <2>1 DEF OpeningInv, Opening, cancelled, sessionVars
  <2>4. TunedOnRecord'
    BY <2>1 DEF TunedOnRecord
  <2>5. ASSUME NEW g \in Gen, ~cancelled(g) PROVE Serves(worker[g])'
    <3>1. Serves(worker[g])
      BY <1>t, <2>5 DEF ServingInv
    <3> QED
      BY <2>1, <3>1 DEF Serves, OnRecord, sessionVars
  <2>6. ServingInv'
    BY <2>1, <2>5 DEF ServingInv, cancelled, sessionVars
  <2> QED
    BY <2>2, <2>3, <2>4, <2>6 DEF TuneInv
<1>2. CASE QueueRequest
  <2>1. /\ tuner = "queueing" /\ tuner' = "idle"
        /\ centerTuneRequestSeq' = centerTuneRequestSeq + 1
        /\ UNCHANGED <<sessionVars, currentCenter, lastRequested, centerTuneAppliedSeq, hwCenter,
                       control, opener, worker>>
    BY <1>2 DEF QueueRequest
  <2>2. CenterInv'
    BY <1>0, <1>t, <2>1 DEF CenterInv, StartupPermit, OnRecord
  <2>3. OpeningInv'
    BY <1>0, <1>t, <2>1, OpenerFields DEF OpeningInv, Opening, cancelled, PreHandoff, sessionVars
  <2>4. TunedOnRecord'
    BY <1>0, <1>t, <2>1 DEF TunedOnRecord, CenterInv
  <2>5. ASSUME NEW g \in Gen, ~cancelled(g) PROVE Serves(worker[g])'
    <3>1. Serves(worker[g]) /\ worker[g].seq \in Nat
      BY <1>0, <1>t, <2>5, WorkerFields DEF ServingInv
    <3> QED
      BY <1>0, <2>1, <3>1 DEF Serves, OnRecord, sessionVars
  <2>6. ServingInv'
    BY <2>1, <2>5 DEF ServingInv, cancelled, sessionVars
  <2> QED
    BY <2>2, <2>3, <2>4, <2>6 DEF TuneInv
<1>3. ASSUME NEW attemptReal \in BOOLEAN, StartBegins(attemptReal) PROVE TuneInv'
  <2>1. /\ sessionGen' = sessionGen + 1 /\ tuner = "idle" /\ ~isReal' /\ lifecycle = "free"
        /\ UNCHANGED <<worker, opener, tuneVars, callerVars>>
        /\ control'.pc = "start" /\ control'.center = currentCenter
    BY <1>0, <1>3 DEF StartBegins, Control, StreamInv
  <2>2. CenterInv'
    BY <1>t, <2>1 DEF CenterInv, StartupPermit, OnRecord, tuneVars, callerVars
  <2>3. ~Opening'
    BY <1>0, <2>1 DEF Opening, cancelled, GensInv, LifecycleOwned
  <2>4. \A g \in Gen : g = sessionGen' => worker[g].pc = "none"
    BY <1>0, <2>1 DEF GensInv, Gen
  <2>5. ServingInv'
    BY <2>1, <2>4 DEF ServingInv, Serves, cancelled
  <2> QED
    BY <2>1, <2>2, <2>3, <2>5 DEF TuneInv, OpeningInv, TunedOnRecord
<1>4. CASE StartLaunches
  <2>1. /\ currentCenter' = control.center
        /\ centerTuneAppliedSeq' \in {centerTuneAppliedSeq, centerTuneRequestSeq}
        /\ active' = TRUE /\ isReal' = FALSE /\ worker' = Launched(sessionGen, 0)
        /\ control.pc = "start" /\ control'.pc = "idle"
        /\ UNCHANGED <<sessionGen, stopFlag, centerTuneRequestSeq, hwCenter, callerVars>>
    BY <1>0, <1>4 DEF StartLaunches, Control
  <2>r. currentCenter' = currentCenter
    BY <1>t, <2>1 DEF CenterInv
  <2>2. opener' = opener \/ opener'.pc = "begin"
    BY <1>4 DEF StartLaunches, NoOpener
  <2>3. CenterInv'
    BY <1>0, <1>t, <2>1, <2>r, <2>2 DEF CenterInv, StartupPermit, OnRecord, callerVars
  <2>4. OpeningInv'
    <3>1. CASE opener' = opener
      BY <1>t, <2>1, <2>r, <3>1 DEF OpeningInv, Opening, OnRecord, cancelled, callerVars
    <3>2. CASE opener'.pc = "begin"
      BY <2>1, <3>2 DEF OpeningInv
    <3> QED
      BY <2>2, <3>1, <3>2
  <2>5. sessionGen \in Gen
    BY <1>0, <2>1 DEF GensInv, Gen
  <2>6. Serves(worker[sessionGen])'
    BY <2>1, <2>5, LaunchedServes
  <2>7. ServingInv'
    BY <2>1, <2>6 DEF ServingInv, cancelled
  <2> QED
    BY <2>1, <2>3, <2>4, <2>7 DEF TuneInv, TunedOnRecord
<1>5. CASE StopBegins
  <2>1. /\ stopFlag' /\ lifecycle = "free" /\ control'.pc = "join"
        /\ UNCHANGED <<opener, tuneVars, callerVars>>
    BY <1>0, <1>5 DEF StopBegins, Control
  <2>2. ~Opening'
    BY <2>1 DEF Opening, cancelled, LifecycleOwned
  <2> QED
    BY <1>s, <1>c, <2>1, <2>2 DEF TuneInv, OpeningInv, callerVars
<1>6. CASE StopJoins
  <2>1. /\ UNCHANGED <<opener, sessionGen, stopFlag, tuneVars, callerVars, active, isReal,
                       handle, worker, hwCenter>>
        /\ control'.pc = "close"
    BY <1>0, <1>6 DEF StopJoins, Control
  <2> QED
    BY <1>o, <1>w, <1>c, <2>1 DEF TuneInv, OnRecord, callerVars, tuneVars
<1>7. CASE StopCloses
  <2>1. /\ stopFlag' = stopFlag /\ stopFlag /\ control.pc = "close" /\ control'.pc = "idle"
        /\ UNCHANGED <<opener, sessionGen, tuneVars, callerVars>>
    BY <1>0, <1>7 DEF StopCloses, Control, FenceInv
  <2>2. ~Opening'
    BY <2>1 DEF Opening, cancelled, LifecycleOwned
  <2> QED
    BY <1>s, <1>c, <2>1, <2>2 DEF TuneInv, OpeningInv, callerVars
<1>8. CASE HandoffJoins
  <2>1. /\ stopFlag' = stopFlag /\ stopFlag /\ opener.pc = "join"
        /\ UNCHANGED <<sessionGen, hwCenter, tuneVars, callerVars, control>>
    BY <1>8 DEF HandoffJoins, GensInv
  <2>2. control.pc = "idle"
    BY <2>1 DEF LifecycleOwned
  <2>3. CASE OpenAbandons
    BY <1>s, <1>c, <2>1, <2>2, <2>3, EndedOpener
    DEF TuneInv, OpeningInv, Opening, OpenAbandons, callerVars, PreHandoff
  <2>4. CASE ~OpenAbandons
    <3>1. /\ UNCHANGED <<active, isReal>> /\ opener'.pc = "publish"
          /\ opener'.handle = opener.handle
          /\ opener'.seq = opener.seq /\ opener'.center = opener.center
      BY <1>8, <2>4, HandoffJoinsEffect
    <3>2. OpeningInv'
      BY <1>t, <2>1, <3>1 DEF OpeningInv, Opening, OnRecord, callerVars, tuneVars
    <3> QED
      BY <1>s, <1>c, <2>1, <2>2, <3>1, <3>2 DEF TuneInv, callerVars
  <2> QED
    BY <2>3, <2>4
<1>9. CASE HandoffPublishes
  <2>1. /\ opener.pc = "publish" /\ centerTuneAppliedSeq' = opener.seq
        /\ handle' = opener.handle /\ active' = TRUE
        /\ worker' = Launched(opener.gen, opener.handle)
        /\ opener'.pc = "control"
        /\ UNCHANGED <<sessionGen, currentCenter, centerTuneRequestSeq, hwCenter, control,
                       callerVars>>
    BY <1>9, HandoffPublishesEffect DEF HandoffPublishes
  <2>2. /\ opener.seq <= centerTuneRequestSeq
        /\ tuner = "idle" /\ OnRecord /\ opener.seq = centerTuneRequestSeq =>
               hwCenter[opener.handle] = lastRequested
        /\ control.pc = "idle" /\ opener.gen = sessionGen
    BY <1>t, <2>1 DEF OpeningInv, Opening, LifecycleOwned, GensInv
  <2>3. CenterInv'
    BY <1>0, <1>t, <2>1, <2>2 DEF CenterInv, StartupPermit, OnRecord, callerVars
  <2>4. opener.gen \in Gen
    BY <1>0, <2>1, OpenerFields
  <2>a. worker' = Launched(sessionGen, opener.handle) /\ sessionGen \in Gen
    BY <2>1, <2>2, <2>4
  <2>5. Serves(worker[sessionGen])'
    BY <1>0, <2>1, <2>a, LaunchedServes
  <2>6. ServingInv'
    BY <2>1, <2>2, <2>5 DEF ServingInv, cancelled
  <2>7. TunedOnRecord'
    BY <2>1, <2>2 DEF TunedOnRecord, OnRecord, callerVars
  <2> QED
    BY <2>1, <2>3, <2>6, <2>7 DEF TuneInv, OpeningInv, Opening, PreHandoff
<1>10. CASE OpenBegins
  <2>1. /\ UNCHANGED <<sessionGen, stopFlag, active, isReal, handle, tuneVars, hwCenter,
                       control, worker, callerVars>>
        /\ opener.pc = "begin"
    BY <1>10 DEF OpenBegins
  <2>2. ServingInv' /\ TunedOnRecord'
    BY <1>w, <2>1 DEF tuneVars, callerVars
  <2>3. opener'.pc \notin {"readPpmCenter", "setPpm"}
    BY <1>10, OpenBeginsEffect, EndedOpener
  <2>4. CenterInv'
    BY <1>t, <2>1, <2>3 DEF CenterInv, StartupPermit, OnRecord, callerVars, tuneVars
  <2>5. CASE OpenEnds
    BY <2>2, <2>4, <2>5, EndedOpener DEF TuneInv, OpeningInv, Opening, PreHandoff
  <2>6. CASE ~OpenEnds
    <3>1. /\ ~cancelled(opener.gen) /\ opener'.pc = "readCenter"
          /\ opener'.gen = opener.gen /\ opener'.seq = centerTuneRequestSeq
      BY <1>10, <2>6, OpenBeginsEffect
    <3>2. OpeningInv'
      BY <1>0, <1>t, <2>1, <3>1 DEF OpeningInv, Opening, PreHandoff, OnRecord, callerVars, tuneVars
    <3> QED
      BY <2>2, <2>4, <3>2 DEF TuneInv
  <2> QED
    BY <2>5, <2>6
<1>11. CASE OpenReadsCenter
  <2>1. /\ UNCHANGED <<sessionVars, tuneVars, hwCenter, control, worker, callerVars>>
        /\ opener.pc = "readCenter"
        /\ opener'.pc = "native" /\ opener'.gen = opener.gen /\ opener'.seq = opener.seq
        /\ opener'.center = currentCenter
    BY <1>11, OpenReadsCenterEffect DEF OpenReadsCenter
  <2>2. ServingInv' /\ TunedOnRecord'
    BY <1>w, <2>1 DEF sessionVars, tuneVars, callerVars
  <2>3. CenterInv'
    BY <1>t, <2>1 DEF CenterInv, StartupPermit, OnRecord, callerVars, tuneVars
  <2>4. OpeningInv'
    BY <1>t, <2>1 DEF OpeningInv, Opening, OnRecord, PreHandoff, cancelled, sessionVars,
                      tuneVars, callerVars
  <2> QED
    BY <2>2, <2>3, <2>4 DEF TuneInv
<1>12. CASE OpenTunes
  <2>1. /\ UNCHANGED <<sessionGen, stopFlag, active, isReal, handle, tuneVars, control, worker,
                       callerVars>>
        /\ opener.pc = "native"
    BY <1>12 DEF OpenTunes
  <2>2. opener.handle # 0 /\ handle = 0
    BY <2>1 DEF DevicesInv, Holding
  <2>3. ServingInv' /\ TunedOnRecord'
    BY <1>w, <2>1, <2>2 DEF tuneVars, callerVars
  <2>4. opener'.pc \notin {"readPpmCenter", "setPpm"}
    BY <1>12, OpenTunesEffect, EndedOpener DEF OpenAbandons
  <2>5. CenterInv'
    BY <1>t, <2>1, <2>4 DEF CenterInv, StartupPermit, OnRecord, callerVars, tuneVars
  <2>6. CASE OpenAbandons
    BY <2>3, <2>5, <2>6, EndedOpener DEF TuneInv, OpeningInv, Opening, PreHandoff, OpenAbandons
  <2>7. CASE ~OpenAbandons
    <3>1. /\ hwCenter' = [hwCenter EXCEPT ![opener.handle] = opener.center]
          /\ opener'.pc = "handoff" /\ opener'.gen = opener.gen /\ opener'.handle = opener.handle
          /\ opener'.seq = opener.seq /\ opener'.center = opener.center
      BY <1>12, <2>7, OpenTunesEffect
    <3>2. hwCenter'[opener'.handle] = opener.center
      BY <1>0, <1>x, <2>2, <3>1
    <3>3. OpeningInv'
      BY <1>t, <2>1, <3>1, <3>2
      DEF OpeningInv, Opening, PreHandoff, OnRecord, cancelled, callerVars, tuneVars
    <3> QED
      BY <2>3, <2>5, <3>3 DEF TuneInv
  <2> QED
    BY <2>6, <2>7
<1>13. CASE HandoffBegins
  <2>1. /\ UNCHANGED <<active, isReal, handle, tuneVars, hwCenter, control, worker, callerVars>>
        /\ opener.pc = "handoff" /\ lifecycle = "free"
    BY <1>13 DEF HandoffBegins
  <2>2. opener'.pc \notin {"readPpmCenter", "setPpm"}
    BY <1>13, HandoffBeginsEffect, EndedOpener DEF OpenAbandons
  <2>3. CenterInv'
    BY <1>t, <2>1, <2>2 DEF CenterInv, StartupPermit, OnRecord, callerVars, tuneVars
  <2>4. CASE OpenAbandons /\ UNCHANGED <<sessionGen, stopFlag>>
    <3>1. ServingInv' /\ TunedOnRecord'
      BY <1>w, <2>1, <2>4 DEF tuneVars, callerVars
    <3> QED
      BY <2>3, <2>4, <3>1, EndedOpener DEF TuneInv, OpeningInv, Opening, PreHandoff, OpenAbandons
  <2>5. CASE ~(OpenAbandons /\ UNCHANGED <<sessionGen, stopFlag>>)
    <3>1. /\ ~cancelled(opener.gen) /\ stopFlag' = TRUE
          /\ opener'.pc = "join" /\ opener'.handle = opener.handle
          /\ opener'.seq = opener.seq /\ opener'.center = opener.center
      BY <1>13, <2>5, HandoffBeginsEffect
    <3>2. OpeningInv'
      BY <1>0, <1>t, <2>1, <3>1 DEF OpeningInv, Opening, PreHandoff, OnRecord, callerVars, tuneVars
    <3> QED
      BY <1>s, <2>3, <3>1, <3>2 DEF TuneInv
  <2> QED
    BY <2>4, <2>5
<1>14. CASE StartupControl \/ PpmReadsCenter \/ StartupReady
  <2>1. /\ UNCHANGED <<sessionGen, stopFlag, active, isReal, handle, tuneVars, hwCenter, control,
                       worker, callerVars>>
        /\ StartupControl => tuner = "idle"
        /\ opener.pc \notin PreHandoff
    BY <1>14 DEF StartupControl, PpmReadsCenter, StartupReady, sessionVars, PreHandoff
  <2>2. ServingInv' /\ TunedOnRecord'
    BY <1>w, <2>1 DEF tuneVars, callerVars
  <2>3. \/ opener'.pc = "none"
        \/ StartupControl /\ opener'.pc = "readPpmCenter"
        \/ PpmReadsCenter /\ opener'.pc = "setPpm" /\ opener'.center = currentCenter
        \/ PpmTunes /\ opener'.pc = "ready"
    BY <1>14, StartupEffect, EndedOpener
  <2>4. CenterInv'
    BY <1>t, <2>1, <2>3 DEF CenterInv, StartupPermit, OnRecord, callerVars, tuneVars, PpmReadsCenter
  <2> QED
    BY <2>2, <2>3, <2>4 DEF TuneInv, OpeningInv, Opening, PreHandoff
<1>15. CASE PpmTunes
  <2>1. /\ UNCHANGED <<sessionVars, tuneVars, control, worker, callerVars>>
        /\ opener.pc = "setPpm" /\ opener'.pc \in {"none", "ready"}
        /\ \/ handle # 0 /\ hwCenter' = [hwCenter EXCEPT ![handle] = opener.center]
           \/ hwCenter' = hwCenter
    BY <1>15, StartupEffect, EndedOpener DEF PpmTunes, StartupControl, PpmReadsCenter
  <2>2. CenterInv'
    BY <1>t, <2>1 DEF CenterInv, StartupPermit, OnRecord, callerVars, tuneVars
  <2>3. CASE hwCenter' = hwCenter
    <3>1. ServingInv' /\ TunedOnRecord'
      BY <1>w, <2>1, <2>3 DEF sessionVars, tuneVars, callerVars
    <3> QED
      BY <2>1, <2>2, <3>1 DEF TuneInv, OpeningInv, Opening, PreHandoff
  <2>4. CASE handle # 0 /\ hwCenter' = [hwCenter EXCEPT ![handle] = opener.center]
    <3>1. OnRecord' => hwCenter'[handle'] = lastRequested'
      BY <1>0, <1>x, <1>t, <2>1, <2>4 DEF CenterInv, OnRecord, sessionVars, tuneVars, callerVars
    <3>2. TunedOnRecord'
      BY <3>1 DEF TunedOnRecord, OnRecord
    <3>3. ASSUME NEW g \in Gen, ~cancelled(g) PROVE Serves(worker[g])'
      <4>1. Serves(worker[g])
        BY <1>t, <3>3 DEF ServingInv
      <4> QED
        BY <2>1, <3>1, <4>1 DEF Serves, OnRecord, sessionVars, tuneVars, callerVars
    <3>4. ServingInv'
      BY <2>1, <3>3 DEF ServingInv, cancelled, sessionVars
    <3> QED
      BY <2>1, <2>2, <3>2, <3>4 DEF TuneInv, OpeningInv, Opening, PreHandoff
  <2> QED
    BY <2>1, <2>3, <2>4
<1>16. ASSUME NEW h \in Gen, RetiredCloses(h) PROVE TuneInv'
  <2>1. UNCHANGED <<sessionVars, tuneVars, hwCenter, control, opener, worker, callerVars>>
    BY <1>16 DEF RetiredCloses
  <2> QED
    BY <1>o, <1>w, <1>t, <2>1
    DEF TuneInv, CenterInv, StartupPermit, OnRecord, sessionVars, tuneVars, callerVars
<1>17. ASSUME NEW g \in Gen, WorkerSteps(g) PROVE TuneInv'
  <2>1. /\ \A x \in Gen : x # g => worker'[x] = worker[x]
        /\ UNCHANGED <<sessionGen, stopFlag, control, opener>>
    BY <1>17, WorkerStepEffect
  <2>2. UNCHANGED <<centerTuneRequestSeq, tuner, lastRequested>>
    BY <1>17
    DEF WorkerSteps, WorkerExits, WorkerSeesRequest, WorkerReadsCenter, WorkerTunes,
        WorkerReportsTune, WorkerAppends, WorkerFaults, WorkerCleansUp, WorkerFallsBack,
        StubReadsCenter, StubAppends, tuneVars, callerVars
  <2>3. ~cancelled(g) => Fenced(worker[g]) /\ Serves(worker[g])
    BY <1>t DEF ServingInv, FenceInv
  <2>c. currentCenter' = currentCenter /\ centerTuneAppliedSeq' <= centerTuneRequestSeq
        => CenterInv'
    BY <1>t, <2>1, <2>2 DEF CenterInv, StartupPermit, OnRecord, callerVars
  <2>o. UNCHANGED <<active, isReal, hwCenter>> /\ (OnRecord' => OnRecord) => OpeningInv'
    BY <1>o, <2>1, <2>2 DEF callerVars
  <2>r. currentCenter' = currentCenter => OnRecord' = OnRecord
    BY <2>2 DEF OnRecord, callerVars
  <2>s. (~cancelled(g) => Serves(worker[g])') /\ (\A x \in Gen : x # g /\ ~cancelled(x) => Serves(worker[x])')
        => ServingInv'
    BY <2>1 DEF ServingInv, cancelled
(* Only one worker is not cancelled.                                         *)
  <2>u. ~cancelled(g) => \A x \in Gen : x # g => cancelled(x)
    BY DEF cancelled
  <2>k. ASSUME UNCHANGED <<active, handle, tuneVars, hwCenter>>
        PROVE  \A x \in Gen : x # g /\ ~cancelled(x) => Serves(worker[x])'
    BY <1>t, <2>1, <2>2, <2>k DEF ServingInv, Serves, OnRecord, tuneVars, callerVars
  <2>a. UNCHANGED <<isReal, handle, tuneVars, hwCenter>> => TunedOnRecord'
    BY <1>t, <2>1, <2>2 DEF TunedOnRecord, OnRecord, tuneVars, callerVars
  <2> DEFINE Kept == UNCHANGED <<active, isReal, handle, tuneVars, hwCenter>>
(* A step that serves the request without touching the hardware.             *)
  <2>4. ASSUME Kept, ~cancelled(g) => Serves(worker[g])' PROVE TuneInv'
    <3>1. currentCenter' = currentCenter /\ centerTuneAppliedSeq' <= centerTuneRequestSeq
      BY <1>t, <2>4 DEF CenterInv, tuneVars
    <3> QED
      BY <2>a, <2>c, <2>k, <2>o, <2>r, <2>s, <2>4, <3>1 DEF TuneInv
  <2>5. CASE WorkerExits(g)
    BY <2>4, <2>5 DEF WorkerExits, sessionVars
  <2>6. CASE WorkerSeesRequest(g)
    <3>1. /\ worker[g].pc = "loop" /\ worker'[g].pc = "readCenter"
          /\ worker'[g].seq = centerTuneRequestSeq /\ centerTuneRequestSeq > centerTuneAppliedSeq
          /\ Kept
      BY <1>0, <2>6, WorkerExcept DEF WorkerSeesRequest, sessionVars
    <3> QED
      BY <1>0, <2>2, <2>3, <2>4, <3>1 DEF Serves, tuneVars
  <2>7. CASE WorkerReadsCenter(g)
    <3>1. /\ worker[g].pc = "readCenter" /\ worker'[g].pc = "setFrequency"
          /\ worker'[g].seq = worker[g].seq /\ worker'[g].center = currentCenter /\ Kept
      BY <1>0, <2>7, WorkerExcept DEF WorkerReadsCenter, sessionVars
    <3> QED
      BY <2>2, <2>3, <2>4, <3>1 DEF Serves, OnRecord, tuneVars, callerVars
  <2>8. CASE WorkerTunes(g)
    <3>1. \E p \in {"tuned", "untuned"} : To(g, p) /\ (p = "tuned" \/ hwCenter' = hwCenter)
      BY <2>8 DEF WorkerTunes
    <3>2. /\ worker[g].pc = "setFrequency" /\ worker'[g].pc \in {"tuned", "untuned"}
          /\ worker'[g].seq = worker[g].seq /\ worker'[g].center = worker[g].center
          /\ UNCHANGED <<active, isReal, handle, tuneVars>> /\ ~cancelled(g)
          /\ worker'[g].pc = "tuned" =>
                 hwCenter' = [hwCenter EXCEPT ![worker[g].handle] = worker[g].center]
          /\ worker'[g].pc = "untuned" => hwCenter' = hwCenter
      <4>1. /\ worker[g].pc = "setFrequency"
            /\ UNCHANGED <<active, isReal, handle, tuneVars>> /\ ~cancelled(g)
            /\ \/ /\ hwCenter' = [hwCenter EXCEPT ![worker[g].handle] = worker[g].center]
                  /\ worker' = [worker EXCEPT ![g].pc = "tuned"]
               \/ hwCenter' = hwCenter /\ worker' = [worker EXCEPT ![g].pc = "untuned"]
        BY <2>8 DEF WorkerTunes, To, sessionVars
      <4>2. /\ worker'[g].pc \in {"tuned", "untuned"}
            /\ worker'[g].seq = worker[g].seq /\ worker'[g].center = worker[g].center
        <5>1. PICK p \in {"tuned", "untuned"} : worker' = [worker EXCEPT ![g].pc = p]
          BY <4>1
        <5> QED
          BY <5>1, WorkerExcept
      <4>3. CASE worker' = [worker EXCEPT ![g].pc = "tuned"]
                 /\ hwCenter' = [hwCenter EXCEPT ![worker[g].handle] = worker[g].center]
        <5>1. worker'[g].pc = "tuned"
          BY <4>3, WorkerExcept
        <5> QED
          BY <4>1, <4>2, <4>3, <5>1
      <4>4. CASE worker' = [worker EXCEPT ![g].pc = "untuned"] /\ hwCenter' = hwCenter
        <5>1. worker'[g].pc = "untuned"
          BY <4>4, WorkerExcept
        <5> QED
          BY <4>1, <4>2, <4>4, <5>1
      <4> QED
        BY <4>1, <4>3, <4>4
    <3>3. handle # 0 /\ worker[g].handle = handle /\ handle \in Gen
      BY <1>0, <1>x, <2>3, <3>2 DEF Fenced
    <3>4. worker'[g].pc = "tuned" => hwCenter'[handle] = worker[g].center
      BY <1>0, <3>2, <3>3
    <3>5. Serves(worker[g])'
      BY <2>2, <2>3, <3>2, <3>4 DEF Serves, OnRecord, tuneVars, callerVars
    <3>6. OpeningInv'
      <4>1. ~isReal => handle = 0
        BY <1>0 DEF StreamInv
      <4> QED
        BY <1>t, <2>1, <3>2, <3>3, <4>1 DEF OpeningInv, Opening, cancelled
    <3>7. TunedOnRecord'
      <4>1. worker[g].seq \in Nat
        BY <1>0, WorkerFields
      <4>2. centerTuneAppliedSeq' # centerTuneRequestSeq'
        BY <1>0, <2>2, <2>3, <3>2, <4>1 DEF Serves, tuneVars
      <4> QED
        BY <4>2 DEF TunedOnRecord
    <3>8. CenterInv'
      BY <1>t, <2>c, <3>2 DEF CenterInv, tuneVars
    <3> QED
      BY <2>s, <2>u, <3>2, <3>5, <3>6, <3>7, <3>8 DEF TuneInv
  <2>9. CASE WorkerReportsTune(g)
    <3>1. /\ worker[g].pc \in {"tuned", "untuned"} /\ ~cancelled(g)
          /\ UNCHANGED <<active, isReal, handle, hwCenter, currentCenter>>
          /\ worker'[g].pc = "loop"
          /\ \/ worker[g].pc = "tuned" /\ centerTuneAppliedSeq' = worker[g].seq
             \/ centerTuneAppliedSeq' = centerTuneAppliedSeq
      BY <1>0, <2>9, WorkerExcept DEF WorkerReportsTune, To, sessionVars
    <3>2. centerTuneAppliedSeq' <= centerTuneRequestSeq
      BY <1>t, <2>3, <3>1 DEF Serves, CenterInv
    <3>3. Serves(worker[g])'
      BY <2>3, <3>1 DEF Serves
    <3>4. TunedOnRecord'
      <4>1. CASE centerTuneAppliedSeq' = centerTuneAppliedSeq
        BY <1>t, <2>1, <2>2, <3>1, <4>1 DEF TunedOnRecord, OnRecord, callerVars
      <4>2. CASE worker[g].pc = "tuned" /\ centerTuneAppliedSeq' = worker[g].seq
        BY <2>2, <2>3, <3>1, <4>2 DEF TunedOnRecord, Serves, OnRecord, callerVars
      <4> QED
        BY <3>1, <4>1, <4>2
    <3> QED
      BY <2>c, <2>o, <2>r, <2>s, <2>u, <3>1, <3>2, <3>3, <3>4 DEF TuneInv
  <2>10. CASE WorkerAppends(g)
    <3>1. worker' = worker /\ Kept
      BY <2>10 DEF WorkerAppends, sessionVars
    <3> QED
      BY <2>2, <2>3, <2>4, <3>1 DEF Serves, OnRecord, tuneVars, callerVars
  <2>11. CASE WorkerFaults(g)
    <3>1. /\ worker'[g].pc = "faulted" /\ ~isReal' /\ active' /\ handle # 0 /\ ~cancelled(g)
          /\ UNCHANGED <<tuneVars, hwCenter>>
      BY <1>0, <2>11, WorkerExcept DEF WorkerFaults, To
    <3>2. Serves(worker[g])'
      BY <3>1 DEF Serves
    <3>3. OpeningInv'
      BY <1>0, <1>t, <2>1, <3>1 DEF OpeningInv, Opening, cancelled, StreamInv
    <3>4. CenterInv'
      BY <1>t, <2>c, <3>1 DEF CenterInv, tuneVars
    <3> QED
      BY <2>s, <2>u, <3>1, <3>2, <3>3, <3>4 DEF TuneInv, TunedOnRecord
  <2>12. CASE WorkerCleansUp(g)
    <3>1. worker[g].pc = "faulted" /\ worker'[g].pc = "faulted" /\ Kept
      BY <1>0, <2>12, WorkerExcept DEF WorkerCleansUp, sessionVars
    <3> QED
      BY <2>3, <2>4, <3>1 DEF Serves
  <2>13. CASE WorkerFallsBack(g)
    <3>1. worker[g].pc = "faulted" /\ worker'[g].pc = "loop" /\ Kept
      BY <1>0, <2>13, WorkerExcept DEF WorkerFallsBack, To, sessionVars
    <3> QED
      BY <2>3, <2>4, <3>1 DEF Serves
  <2>14. CASE StubReadsCenter(g)
    <3>1. /\ worker[g].pc = "loop" /\ worker'[g].pc = "stubWrite"
          /\ worker'[g].center = currentCenter /\ Kept
      BY <1>0, <2>14, WorkerExcept DEF StubReadsCenter, sessionVars
    <3> QED
      BY <2>2, <2>3, <2>4, <3>1 DEF Serves, OnRecord, tuneVars, callerVars
  <2>15. CASE StubAppends(g)
    <3>1. /\ worker[g].pc = "stubWrite" /\ ~cancelled(g) /\ worker'[g].pc = "loop"
          /\ currentCenter' = worker[g].center
          /\ UNCHANGED <<active, isReal, handle, hwCenter, centerTuneRequestSeq,
                         centerTuneAppliedSeq, centerTuneFailedSeq>>
      BY <1>0, <2>15, WorkerExcept DEF StubAppends, To, sessionVars
    <3>2. OnRecord' => OnRecord
      BY <2>2, <2>3, <3>1 DEF Serves, OnRecord, callerVars
    <3>3. control.pc # "start"
      BY <2>3, <3>1 DEF Serves, StreamInv
    <3>4. CenterInv'
      BY <1>t, <2>1, <2>2, <3>1, <3>2, <3>3 DEF CenterInv, StartupPermit, callerVars
    <3>5. Serves(worker[g])'
      BY <2>3, <3>1 DEF Serves
    <3>6. TunedOnRecord'
      BY <1>0, <2>3, <3>1 DEF TunedOnRecord, Fenced, StreamInv
    <3> QED
      BY <2>o, <2>s, <2>u, <3>1, <3>2, <3>4, <3>5, <3>6 DEF TuneInv
  <2> QED
    BY <1>17, <2>5, <2>6, <2>7, <2>8, <2>9, <2>10, <2>11, <2>12, <2>13, <2>14, <2>15
    DEF WorkerSteps
<1>18. CASE UNCHANGED vars
  BY <1>o, <1>w, <1>t, <1>18
  DEF vars, TuneInv, CenterInv, StartupPermit, OnRecord, sessionVars, tuneVars, callerVars
<1> QED
  BY <1>1, <1>2, <1>3, <1>4, <1>5, <1>6, <1>7, <1>8, <1>9, <1>10, <1>11, <1>12, <1>13, <1>14,
     <1>15, <1>16, <1>17, <1>18 DEF Next, ControlSteps, HandoffSteps, OpenSteps

-----------------------------------------------------------------------------
(* The theorems. *)

LEMMA InvInit == Init => RxInv
<1> SUFFICES ASSUME Init PROVE RxInv
  OBVIOUS
<1>1. TypeOK
  BY TypeInit
<1>2. /\ opener.pc = "none" /\ opener.gen = 0 /\ opener.handle = 0
      /\ control.pc = "idle" /\ lifecycle = "free"
      /\ \A g \in Gen : worker[g].pc = "none" /\ worker[g].handle = 0
      /\ \A h \in Gen : native[h] = "closed"
      /\ handle = 0 /\ rxThread = 0 /\ ~active /\ ~isReal /\ sessionGen = 0 /\ ring = {}
  BY DEF Init, NoOpener, NoWorker
<1>3. LifecycleOwned /\ StreamInv /\ NativeInv
  BY <1>2 DEF LifecycleOwned, StreamInv, NativeInv, NativeHandlesDontOverlap, DevicesInv,
              FaultsInv, Holding
<1>4. GensInv
  BY <1>2 DEF GensInv, PreHandoff
<1>5. FenceInv
  BY <1>2 DEF FenceInv, Fenced, RingIsCurrent
<1> QED
  BY <1>1, <1>3, <1>4, <1>5 DEF RxInv

LEMMA InvStep == RxInv /\ [Next]_vars => RxInv'
BY NextTyped, LifecycleStep, GensStep, StreamStep, NativeStep, FenceStep DEF RxInv, NativeInv

LEMMA Inductive == Spec => []RxInv
BY InvInit, InvStep, PTL DEF Spec

(* Type correctness.                                                         *)
THEOREM TypesHold == Spec => []TypeOK
<1>1. RxInv => TypeOK
  BY DEF RxInv
<1> QED
  BY <1>1, Inductive, PTL

(* Consumers of a running stream only ever see IQ of the current session,    *)
(* and of the published device: appends are fenced by the generation under   *)
(* publicationMutex (3835, 3985), and whoever begins a session resets the    *)
(* buffers first (1226, 1526).                                               *)
THEOREM ConsumersSeeOneSession == Spec => []RingIsCurrent
<1>1. RxInv => RingIsCurrent
  BY DEF RxInv, FenceInv
<1> QED
  BY <1>1, Inductive, PTL

(* No two native handles of a radio are ever not closed, whatever the open   *)
(* threads, the stuck readers and the failed closes do (1138-1141).          *)
THEOREM OneNativeHandle == Spec => []NativeHandlesDontOverlap
<1>1. RxInv => NativeHandlesDontOverlap
  BY DEF RxInv, NativeInv
<1> QED
  BY <1>1, Inductive, PTL

(* launchRxWorkers never assigns to a joinable thread object (3536).         *)
THEOREM ThreadsAreLaunchedOnce == Spec => LaunchNeverOverwrites
<1>1. RxInv /\ [Next]_vars => [rxThread' # rxThread => rxThread = 0 \/ rxThread' = 0]_vars
  <2> SUFFICES ASSUME RxInv, Next, rxThread' # rxThread PROVE rxThread = 0 \/ rxThread' = 0
    BY DEF vars
  <2>1. CASE StartLaunches \/ HandoffPublishes
    BY <2>1 DEF StartLaunches, HandoffPublishes, RxInv, StreamInv
  <2>2. CASE StopJoins \/ HandoffJoins
    BY <2>2 DEF StopJoins, HandoffJoins
  <2>3. ASSUME NEW g \in Gen, WorkerSteps(g) PROVE rxThread' = rxThread
    BY <2>3, WorkerStepEffect DEF RxInv
  <2>4. CASE StopCloses \/ OpenSteps
    BY <2>4
    DEF StopCloses, OpenSteps, OpenBegins, OpenReadsCenter, OpenTunes, HandoffBegins,
        StartupControl, PpmReadsCenter, PpmTunes, StartupReady, sessionVars
  <2>5. CASE \/ \E f \in Freq : QueueCenter(f)
             \/ QueueRequest
             \/ \E attemptReal \in BOOLEAN : StartBegins(attemptReal)
             \/ StopBegins
             \/ \E h \in Gen : RetiredCloses(h)
    BY <2>5 DEF QueueCenter, QueueRequest, StartBegins, StopBegins, RetiredCloses, sessionVars
  <2> QED
    BY <2>1, <2>2, <2>3, <2>4, <2>5 DEF Next, ControlSteps, HandoffSteps
<1> QED
  BY <1>1, Inductive, PTL DEF LaunchNeverOverwrites, Spec

LEMMA TuneInit == Init => TuneInv
<1> SUFFICES ASSUME Init PROVE TuneInv
  OBVIOUS
<1>1. /\ opener.pc = "none" /\ control.pc = "idle" /\ ~isReal
      /\ \A g \in Gen : worker[g].pc = "none"
      /\ centerTuneAppliedSeq = 0 /\ centerTuneRequestSeq = 0
  BY DEF Init, NoOpener, NoWorker
<1>2. CenterInv
  BY <1>1 DEF CenterInv, StartupPermit
<1>3. OpeningInv
  BY <1>1 DEF OpeningInv, Opening, PreHandoff
<1>4. ServingInv /\ TunedOnRecord
  BY <1>1 DEF ServingInv, Serves, TunedOnRecord
<1> QED
  BY <1>2, <1>3, <1>4 DEF TuneInv

(* Nothing but the stub changes the centre without a request.                *)
LEMMA RecordStep ==
    ASSUME TypeOK, CenterInv, overwritten \/ OnRecord, [Next]_vars
    PROVE  (overwritten \/ OnRecord)'
<1>0. ASSUME NEW f \in Freq, QueueCenter(f) PROVE OnRecord'
  BY <1>0 DEF QueueCenter, OnRecord
<1>1. ASSUME NEW g \in Gen, StubAppends(g) PROVE (overwritten \/ OnRecord)'
  <2>1. /\ currentCenter' = worker[g].center /\ lastRequested' = lastRequested
        /\ overwritten' = (worker[g].center # lastRequested)
    BY <1>1 DEF StubAppends
  <2>2. CASE worker[g].center = lastRequested
    BY <2>1, <2>2 DEF OnRecord
  <2>3. CASE worker[g].center # lastRequested
    BY <2>1, <2>3
  <2> QED
    BY <2>2, <2>3
<1>2. CASE StartLaunches
  BY <1>2 DEF StartLaunches, CenterInv, OnRecord, callerVars
<1>3. CASE UNCHANGED <<currentCenter, callerVars>>
  BY <1>3 DEF OnRecord, callerVars
<1>4. CASE QueueRequest
  BY <1>4 DEF QueueRequest, OnRecord
<1>5. CASE \/ \E attemptReal \in BOOLEAN : StartBegins(attemptReal)
           \/ StopBegins \/ StopJoins \/ StopCloses \/ HandoffSteps \/ OpenSteps
           \/ \E h \in Gen : RetiredCloses(h)
  BY <1>3, <1>5
  DEF StartBegins, StopBegins, StopJoins, StopCloses, HandoffSteps, HandoffJoins,
      HandoffPublishes, OpenSteps, OpenBegins, OpenReadsCenter, OpenTunes, HandoffBegins,
      StartupControl, PpmReadsCenter, PpmTunes, StartupReady, RetiredCloses, tuneVars
<1>6. ASSUME NEW g \in Gen, WorkerSteps(g), ~StubAppends(g)
      PROVE  UNCHANGED <<currentCenter, callerVars>>
  BY <1>6
  DEF WorkerSteps, WorkerExits, WorkerSeesRequest, WorkerReadsCenter, WorkerTunes,
      WorkerReportsTune, WorkerAppends, WorkerFaults, WorkerCleansUp, WorkerFallsBack,
      StubReadsCenter, tuneVars
<1>7. CASE UNCHANGED vars
  BY <1>3, <1>7 DEF vars, tuneVars
<1> QED
  BY <1>0, <1>1, <1>2, <1>3, <1>4, <1>5, <1>6, <1>7 DEF Next, ControlSteps

(* The last request counts as applied on a live stream only once the         *)
(* hardware is tuned to what it asked for, whether callers tune while the    *)
(* device is opened or later, unless the stub session wrote the centre it    *)
(* had read before over the request (3973-3990).                             *)
THEOREM AppliedIsTuned == Spec => []AppliedMeansTuned
<1>1. RxInv /\ TuneInv /\ [Next]_vars => TuneInv'
  BY TuneStep DEF RxInv, NativeInv
<1>2. Spec => []TuneInv
  BY <1>1, TuneInit, Inductive, PTL DEF Spec
<1>3. Init => overwritten \/ OnRecord
  BY DEF Init, OnRecord
<1>4. RxInv /\ TuneInv /\ (overwritten \/ OnRecord) /\ [Next]_vars => (overwritten \/ OnRecord)'
  BY RecordStep DEF RxInv, TuneInv
<1>5. TuneInv /\ (overwritten \/ OnRecord) => AppliedMeansTuned
  BY DEF TuneInv, TunedOnRecord, AppliedMeansTuned
<1> QED
  BY <1>2, <1>3, <1>4, <1>5, Inductive, PTL DEF Spec
=============================================================================
