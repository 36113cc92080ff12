----------------------------- MODULE DeviceLeases -----------------------------
(***************************************************************************)
(* The control plane of DeviceManager (src/DeviceManager.cpp): workers and *)
(* the GUI thread claim, command, stop, restore and rescan radios through  *)
(* the lease book.  leaseMutex_ protects the book; it is never held across *)
(* a driver call or a condition wait, so a call is a sequence of steps and *)
(* the steps of different threads interleave.                              *)
(*                                                                         *)
(* Abstracted: the stream behind an index is its phase and the device it   *)
(* was opened on (RxLifecycle has the threads inside); a centre frequency  *)
(* is the number of the request that set it.                               *)
(***************************************************************************)
EXTENDS DeviceOwnership

CONSTANTS
    Worker,        \* workflow worker threads
    Gui,           \* the GUI thread: the only one that rescans and assigns
    DeviceLists,   \* what discovery may return: a set of endpoint sequences
    Plans,         \* the assignment maps the operator may try to save
    NoDevice,
    Yielding,      \* workflows that need force over an unmanaged live stream
    MaxLeases,     \* bound on the tokens issued
    MaxCommands,   \* bound on the commands begun by callers
    MaxTunes,      \* bound on the tunes queued outside restoration
    MaxRescans     \* bound on rescans

Thread == Worker \cup {Gui}

ASSUME LeasesAssumption ==
    /\ Gui \notin Worker
    /\ DeviceLists \subseteq Seq(Endpoint)
    /\ \A list \in DeviceLists : Len(list) <= MaxDevices
    /\ Plans \subseteq Assignments
    /\ NoDevice \notin Endpoint
    /\ {MaxLeases, MaxCommands, MaxTunes, MaxRescans} \subseteq Nat

VARIABLES
    devices,       \* the discovered devices; endpoints is their copy in the book
    phase,         \* runtime state of the stream of an index
    streamDevice,  \* the device that stream was started on
    opener,        \* per identity, the detached native-open thread
    tuneReq, tuneApplied,   \* centerTuneRequestSeq, centerTuneAppliedSeq
    file, fileOK,  \* workflow_devices.json and whether it can be parsed
    loaded, loadError,      \* assignmentsLoaded_, assignmentLoadError_
    rescans,
    pc, call       \* per thread: where it is, and its locals

bookVars == ownershipVars
streamVars == <<phase, streamDevice, opener>>
tuneVars == <<tuneReq, tuneApplied>>
fileVars == <<file, fileOK, loaded, loadError>>
vars == <<ownershipVars, devices, streamVars, tuneVars, fileVars, rescans, pc, call>>

Phase == {"idle", "opening", "controls", "live", "stub"}
Pc == {"idle", "command", "commandEnd", "stopWait", "teardown", "stopEnd",
       "restoreWait", "restoreTune", "restorePoll", "restoreEnd", "restoreStop",
       "retune", "rescan", "discover", "rebind"}

(* The locals of a call: its index, the lease it works under, the permit it  *)
(* holds, the tune request it waits for, the streams a rescan must stop.     *)
Call == [op : {"none", "start", "legacyStart", "rate", "stop", "restore", "retune", "rescan"},
         index : Index \cup {0}, token : Token \cup {NoToken},
         owner : Owner \cup {None}, id : Nat, wasLive : BOOLEAN, request : Nat,
         todo : SUBSET Index]
NoCall == [op |-> "none", index |-> 0, token |-> NoToken, owner |-> None, id |-> 0,
           wasLive |-> FALSE, request |-> 0, todo |-> {}]

(* An open in flight: its step, the index it opens for, whether that stream  *)
(* session is still current, its startup permit and the lease it is under.   *)
Opener == [step : {"none", "open", "wait", "command", "ready"},
           index : Index \cup {0}, current : BOOLEAN, id : Nat,
           token : Token \cup {NoToken}]
NoOpener == [step |-> "none", index |-> 0, current |-> FALSE, id |-> 0,
             token |-> NoToken]

TypeOK ==
    /\ OwnershipTypeOK
    /\ devices \in Seq(Endpoint) /\ Len(devices) <= MaxDevices
    /\ phase \in [Index -> Phase]
    /\ streamDevice \in [Index -> Endpoint \cup {NoDevice}]
    /\ opener \in [Key -> Opener]
    /\ tuneReq \in [Index -> Nat] /\ tuneApplied \in [Index -> Nat]
    /\ file \in Assignments /\ fileOK \in BOOLEAN
    /\ loaded \in BOOLEAN /\ loadError \in BOOLEAN
    /\ rescans \in Nat
    /\ pc \in [Thread -> Pc]
    /\ call \in [Thread -> Call]

-----------------------------------------------------------------------------
isStreaming(i) == phase[i] # "idle"
isHardwareStreaming(i) == phase[i] = "live"
Discovered(i) == i \in 1..Len(devices)

Goto(th, l) == pc' = [pc EXCEPT ![th] = l]
Return(th) == /\ pc' = [pc EXCEPT ![th] = "idle"]
              /\ call' = [call EXCEPT ![th] = NoCall]
Call1(th, l, c) == /\ pc[th] = "idle"
                   /\ pc' = [pc EXCEPT ![th] = l]
                   /\ call' = [call EXCEPT ![th] = c]

Init ==
    /\ OwnershipInit
    /\ devices = <<>>
    /\ phase = [i \in Index |-> "idle"]
    /\ streamDevice = [i \in Index |-> NoDevice]
    /\ opener = [k \in Key |-> NoOpener]
    /\ tuneReq = [i \in Index |-> 0] /\ tuneApplied = [i \in Index |-> 0]
    /\ file \in Plans /\ fileOK \in BOOLEAN
    /\ loaded = FALSE /\ loadError = FALSE
    /\ rescans = 0
    /\ pc = [th \in Thread |-> "idle"]
    /\ call = [th \in Thread |-> NoCall]

-----------------------------------------------------------------------------
(* Claiming and releasing: one critical section each. *)

(* claimDevice (attach: attachUnmanagedLive).  The key check uses the list   *)
(* the caller selected from, which is stale when it differs from devices.    *)
claimDevice(th, i, o, c, attach) ==
    /\ pc[th] = "idle"
    /\ Discovered(i)
    /\ ~loadError
    /\ i \in Leased \/ ~isStreaming(i) \/ attach
    /\ i \in Leased \/ nextId < MaxLeases
    /\ claim(i, o, c)
    /\ UNCHANGED <<devices, streamVars, tuneVars, fileVars, rescans, pc, call>>

(* acquireDeviceLease: the same for the legacy client of a workflow; Satcom, *)
(* Inmarsat, Aircraft and SSTV need force over an unmanaged live stream.     *)
AcquireOK(i, o, force) ==
    /\ Discovered(i)
    /\ ~loadError
    /\ i \in Leased \/ nextId < MaxLeases
    /\ i \in Leased \/ force \/ o \notin Yielding \/ ~isStreaming(i)

acquireDeviceLease(th, i, o, force) ==
    /\ pc[th] = "idle"
    /\ AcquireOK(i, o, force)
    /\ claim(i, o, LegacyClient(o))
    /\ UNCHANGED <<devices, streamVars, tuneVars, fileVars, rescans, pc, call>>

releaseDevice(th, t) ==
    /\ pc[th] = "idle"
    /\ release(t)
    /\ UNCHANGED <<devices, streamVars, tuneVars, fileVars, rescans, pc, call>>

(* releaseDeviceLease: every legacy lease of the workflow, or one of them. *)
LegacyLeases(o) == {i \in Leased : /\ Discovered(i)
                                   /\ leases[i].owner = o
                                   /\ leases[i].client = LegacyClient(o)}

releaseDeviceLease(th, o, set) ==
    /\ pc[th] = "idle"
    /\ LegacyLeases(o) \cap set # {}
    /\ Retire(LegacyLeases(o) \cap set)
    /\ UNCHANGED <<devices, streamVars, tuneVars, fileVars, rescans, pc, call>>

-----------------------------------------------------------------------------
(* Tuning: queueCenterFreq records a request, the receive thread applies it. *)

queueCenterFreq(i) == /\ Discovered(i)
                      /\ tuneReq' = [tuneReq EXCEPT ![i] = @ + 1]
                      /\ UNCHANGED tuneApplied

tuneDevice(th, t) ==
    /\ pc[th] = "idle"
    /\ valid(t) /\ allowed(t.index, t.owner, t.client)
    /\ tuneReq[t.index] < MaxTunes
    /\ queueCenterFreq(t.index)
    /\ UNCHANGED <<bookVars, devices, streamVars, fileVars, rescans, pc, call>>

setCenterFreq(th, i, o) ==
    /\ pc[th] = "idle"
    /\ ~loadError
    /\ allowed(i, o, LegacyClient(o))
    /\ tuneReq[i] < MaxTunes
    /\ queueCenterFreq(i)
    /\ UNCHANGED <<bookVars, devices, streamVars, fileVars, rescans, pc, call>>

(* retuneWithLease: acquire, unlock, lock again, check the holder, queue. *)
RetuneAcquire(th, i, o, force) ==
    /\ AcquireOK(i, o, force)
    /\ tuneReq[i] < MaxTunes
    /\ claim(i, o, LegacyClient(o))
    /\ Call1(th, "retune", [NoCall EXCEPT !.op = "retune", !.index = i, !.owner = o])
    /\ UNCHANGED <<devices, streamVars, tuneVars, fileVars, rescans>>

RetuneQueue(th) ==
    LET i == call[th].index
    IN  /\ pc[th] = "retune"
        /\ IF leases[i].owner = call[th].owner
              /\ leases[i].client = LegacyClient(call[th].owner)
              /\ Discovered(i)
           THEN queueCenterFreq(i)
           ELSE UNCHANGED tuneVars
        /\ Return(th)
        /\ UNCHANGED <<bookVars, devices, streamVars, fileVars, rescans>>

(* The receive thread's tune step; a failed driver call leaves it unapplied. *)
ApplyTune(i) ==
    /\ phase[i] \in {"controls", "live"}
    /\ tuneApplied[i] # tuneReq[i]
    /\ tuneApplied' = [tuneApplied EXCEPT ![i] = tuneReq[i]]
    /\ UNCHANGED <<bookVars, devices, streamVars, tuneReq, fileVars, rescans, pc, call>>

-----------------------------------------------------------------------------
(* Commands: a ControlScope is taken, the driver call is made without the    *)
(* lock, the destructor ends the permit.                                     *)

(* With the caller's token: startDevice, configureDeviceCapture, a setter.   *)
(* With NoToken: the operator's settings, sample rate among them.            *)
BeginCommand(th, op, i, t) ==
    /\ ~loadError
    /\ nextControlId < MaxCommands
    /\ beginControl(i, t)
    /\ Call1(th, "command", [NoCall EXCEPT !.op = op, !.index = i, !.token = leases[i],
                                           !.id = nextControlId + 1])
    /\ UNCHANGED <<devices, streamVars, tuneVars, fileVars, rescans>>

(* startStreaming and correctWorkflowFrequency: allowed as the legacy client,*)
(* then under whatever lease the index carries.                              *)
BeginLegacyCommand(th, i, o) ==
    /\ ~loadError
    /\ nextControlId < MaxCommands
    /\ allowed(i, o, LegacyClient(o))
    /\ beginControl(i, leases[i])
    /\ Call1(th, "command", [NoCall EXCEPT !.op = "legacyStart", !.index = i, !.token = leases[i],
                                           !.id = nextControlId + 1])
    /\ UNCHANGED <<devices, streamVars, tuneVars, fileVars, rescans>>

(* A stream session ends: native opens started for it are no longer current. *)
Supersede(i) == [k \in Key |-> IF opener[k].index = i
                               THEN [opener[k] EXCEPT !.current = FALSE] ELSE opener[k]]

stopStreamingImpl(i) ==
    /\ phase' = [phase EXCEPT ![i] = "idle"]
    /\ streamDevice' = [streamDevice EXCEPT ![i] = NoDevice]
    /\ opener' = Supersede(i)

(* startStreamingImpl: publish a stub stream and detach the native open;     *)
(* refused while an open of the same identity is still in flight.            *)
StartStream(i) ==
    /\ Discovered(i)
    /\ devices[i].key \in Key
    /\ opener[devices[i].key].step = "none"
    /\ phase' = [phase EXCEPT ![i] = "opening"]
    /\ streamDevice' = [streamDevice EXCEPT ![i] = devices[i]]
    /\ opener' = [Supersede(i) EXCEPT ![devices[i].key] =
                      [NoOpener EXCEPT !.step = "open", !.index = i, !.current = TRUE]]

(* The body of the command.  startDevice never touches a running stream; the *)
(* legacy start replaces a stub and applyLiveSampleRate any running stream   *)
(* (stop, then start or be refused).  The stream is left alone by a setter   *)
(* and by a start that is refused: dry run, quarantined hardware.            *)
RunCommand(th) ==
    LET i == call[th].index
        Starts == phase[i] = "idle" /\ call[th].op \in {"start", "legacyStart"}
        Restarts == \/ phase[i] = "stub" /\ call[th].op = "legacyStart"
                    \/ phase[i] # "idle" /\ call[th].op = "rate"
    IN  /\ pc[th] = "command"
        /\ \/ (Starts \/ Restarts) /\ StartStream(i)
           \/ Restarts /\ stopStreamingImpl(i)
           \/ UNCHANGED streamVars
        /\ Goto(th, "commandEnd")
        /\ UNCHANGED <<bookVars, devices, tuneVars, fileVars, rescans, call>>

(* Mutant: an early return path forgets to end the permit. *)
EndCommand_Leaks(th) ==
    /\ pc[th] = "commandEnd"
    /\ Return(th)
    /\ UNCHANGED <<bookVars, devices, streamVars, tuneVars, fileVars, rescans>>

EndCommand(th) ==
    /\ pc[th] = "commandEnd"
    /\ endControl(call[th].index, call[th].id)
    /\ Return(th)
    /\ UNCHANGED <<devices, streamVars, tuneVars, fileVars, rescans>>

-----------------------------------------------------------------------------
(* The detached native open of startStreamingImpl, per identity k. *)

SetOpener(k, step) == opener' = [opener EXCEPT ![k].step = step]
CloseOpener(k) == opener' = [opener EXCEPT ![k] = NoOpener]

(* Device::make or activation fails: the stream stays on its stub. *)
OpenFails(k) ==
    /\ opener[k].step = "open"
    /\ phase' = IF opener[k].current
                THEN [phase EXCEPT ![opener[k].index] = "stub"] ELSE phase
    /\ CloseOpener(k)
    /\ UNCHANGED <<bookVars, devices, streamDevice, tuneVars, fileVars, rescans, pc, call>>

(* Hardware opened: publish the handles unless the session has moved on. *)
OpenPublishes(k) ==
    /\ opener[k].step = "open"
    /\ IF opener[k].current
       THEN /\ phase' = [phase EXCEPT ![opener[k].index] = "controls"]
            /\ SetOpener(k, "wait")
       ELSE UNCHANGED phase /\ CloseOpener(k)
    /\ UNCHANGED <<bookVars, devices, streamDevice, tuneVars, fileVars, rescans, pc, call>>

(* Startup control: wait for the radio's command to end, then take a permit  *)
(* under the current lease.  Refused or superseded, the thread just ends.    *)
StartupControl(k) ==
    LET i == opener[k].index
    IN  /\ opener[k].step = "wait"
        /\ ~controlBusy(i)
        /\ IF opener[k].current /\ ControlOK(i, leases[i])
           THEN /\ beginControl(i, leases[i])
                /\ opener' = [opener EXCEPT ![k] = [@ EXCEPT !.step = "command",
                                                            !.id = nextControlId + 1,
                                                            !.token = leases[i]]]
           ELSE UNCHANGED bookVars /\ CloseOpener(k)
        /\ UNCHANGED <<devices, phase, streamDevice, tuneVars, fileVars, rescans, pc, call>>

StartupControlEnds(k) ==
    /\ opener[k].step = "command"
    /\ endControl(opener[k].index, opener[k].id)
    /\ SetOpener(k, "ready")
    /\ UNCHANGED <<devices, phase, streamDevice, tuneVars, fileVars, rescans, pc, call>>

(* Readiness is published after the permit is gone, if still current. *)
StartupReady(k) ==
    LET i == opener[k].index
    IN  /\ opener[k].step = "ready"
        /\ phase' = IF opener[k].current /\ phase[i] = "controls"
                    THEN [phase EXCEPT ![i] = "live"] ELSE phase
        /\ CloseOpener(k)
        /\ UNCHANGED <<bookVars, devices, streamDevice, tuneVars, fileVars, rescans, pc, call>>

(* The receive thread loses the hardware and falls back to the stub. *)
ReceiverFault(i) ==
    /\ phase[i] \in {"controls", "live"}
    /\ phase' = [phase EXCEPT ![i] = "stub"]
    /\ UNCHANGED <<bookVars, devices, streamDevice, opener, tuneVars, fileVars, rescans, pc, call>>

-----------------------------------------------------------------------------
(* Stopping: announce and retire under the lock, drain admitted commands,    *)
(* tear down without the lock, then reopen the radio to claims.              *)

stopDevice(th, t) ==
    /\ valid(t)
    /\ beginStop(t.index)
    /\ Call1(th, "stopWait", [NoCall EXCEPT !.op = "stop", !.index = t.index])
    /\ UNCHANGED <<devices, streamVars, tuneVars, fileVars, rescans>>

stopStreaming(th, i) ==
    /\ beginStop(i)
    /\ Call1(th, "stopWait", [NoCall EXCEPT !.op = "stop", !.index = i])
    /\ UNCHANGED <<devices, streamVars, tuneVars, fileVars, rescans>>

(* Mutant: teardown does not wait for admitted commands. *)
StopDrained_NoWait(th) ==
    /\ pc[th] = "stopWait"
    /\ Goto(th, "teardown")
    /\ UNCHANGED <<bookVars, devices, streamVars, tuneVars, fileVars, rescans, call>>

StopDrained(th) ==
    /\ pc[th] = "stopWait"
    /\ ~controlBusy(call[th].index)
    /\ Goto(th, "teardown")
    /\ UNCHANGED <<bookVars, devices, streamVars, tuneVars, fileVars, rescans, call>>

Teardown(th) ==
    /\ pc[th] = "teardown"
    /\ stopStreamingImpl(call[th].index)
    /\ Goto(th, "stopEnd")
    /\ UNCHANGED <<bookVars, devices, tuneVars, fileVars, rescans, call>>

StopEnds(th) ==
    LET c == call[th]
    IN  /\ pc[th] = "stopEnd"
        /\ endStop(c.index)
        /\ IF c.op = "rescan"
           THEN /\ Goto(th, "rescan")
                /\ call' = [call EXCEPT ![th] = [c EXCEPT !.todo = c.todo \ {c.index},
                                                         !.index = 0]]
           ELSE Return(th)
        /\ UNCHANGED <<devices, streamVars, tuneVars, fileVars, rescans>>

-----------------------------------------------------------------------------
(* restoreDevice: put a borrowed radio back under the old lease, or stop it. *)
(* Called with a token that is already dead it waits, is refused a permit    *)
(* and returns: no step.  The token may die during the wait.                 *)

restoreDevice(th, t, wasLive) ==
    /\ valid(t)
    /\ Call1(th, "restoreWait", [NoCall EXCEPT !.op = "restore", !.index = t.index,
                                               !.token = t, !.wasLive = wasLive])
    /\ UNCHANGED <<bookVars, devices, streamVars, tuneVars, fileVars, rescans>>

RestoreControl(th) ==
    LET i == call[th].index
        t == call[th].token
    IN  /\ pc[th] = "restoreWait"
        /\ ~controlBusy(i)
        /\ IF ControlOK(i, t)
           THEN /\ beginControl(i, t)
                /\ Goto(th, "restoreTune")
                /\ call' = [call EXCEPT ![th].id = nextControlId + 1]
           ELSE UNCHANGED bookVars /\ Return(th)
        /\ UNCHANGED <<devices, streamVars, tuneVars, fileVars, rescans>>

(* Queue the old centre if the hardware still runs. *)
RestoreTune(th) ==
    LET i == call[th].index
    IN  /\ pc[th] = "restoreTune"
        /\ \/ /\ ~valid(call[th].token)
              /\ Goto(th, "commandEnd")
              /\ UNCHANGED <<tuneVars, call>>
           \/ /\ valid(call[th].token)
              /\ call[th].wasLive /\ isHardwareStreaming(i)
              /\ queueCenterFreq(i)
              /\ Goto(th, "restorePoll")
              /\ call' = [call EXCEPT ![th].request = tuneReq[i] + 1]
           \/ /\ valid(call[th].token)
              /\ ~(call[th].wasLive /\ isHardwareStreaming(i))
              /\ Goto(th, "restoreEnd")
              /\ UNCHANGED <<tuneVars, call>>
        /\ UNCHANGED <<bookVars, devices, streamVars, fileVars, rescans>>

(* One look of the four-second poll: ownership lost, tune confirmed (release *)
(* and succeed), or hardware gone / deadline passed (fall through to stop).  *)
RestorePoll(th) ==
    LET i == call[th].index
    IN  /\ pc[th] = "restorePoll"
        /\ \/ /\ ~valid(call[th].token)
              /\ Goto(th, "commandEnd")
              /\ UNCHANGED bookVars
           \/ /\ valid(call[th].token) /\ isHardwareStreaming(i)
              /\ tuneApplied[i] >= call[th].request
              /\ tuneReq[i] = call[th].request
              /\ release(call[th].token)
              /\ Goto(th, "commandEnd")
           \/ /\ Goto(th, "restoreEnd")
              /\ UNCHANGED bookVars
        /\ UNCHANGED <<devices, streamVars, tuneVars, fileVars, rescans, call>>

RestoreControlEnds(th) ==
    /\ pc[th] = "restoreEnd"
    /\ endControl(call[th].index, call[th].id)
    /\ Goto(th, "restoreStop")
    /\ call' = [call EXCEPT ![th].id = 0]
    /\ UNCHANGED <<devices, streamVars, tuneVars, fileVars, rescans>>

RestoreStop(th) ==
    LET i == call[th].index
    IN  /\ pc[th] = "restoreStop"
        /\ IF valid(call[th].token) /\ i \notin stopping
           THEN beginStop(i) /\ Goto(th, "stopWait") /\ UNCHANGED call
           ELSE UNCHANGED bookVars /\ Return(th)
        /\ UNCHANGED <<devices, streamVars, tuneVars, fileVars, rescans>>

-----------------------------------------------------------------------------
(* enumerateDevices on the GUI thread. *)

enumerateDevices ==
    /\ rescans < MaxRescans
    /\ rescans' = rescans + 1
    /\ Call1(Gui, "rescan", [NoCall EXCEPT !.op = "rescan",
                                           !.todo = {i \in Index : isStreaming(i)}])
    /\ UNCHANGED <<bookVars, devices, streamVars, tuneVars, fileVars>>

(* stopStreaming of the next snapshotted stream; a stop already announced or *)
(* an index the book does not know makes it return at once.                  *)
RescanStops ==
    /\ pc[Gui] = "rescan"
    /\ \E i \in call[Gui].todo :
          /\ \A j \in call[Gui].todo : i <= j
          /\ IF Known(i) /\ i \notin stopping
             THEN /\ beginStop(i)
                  /\ Goto(Gui, "stopWait")
                  /\ call' = [call EXCEPT ![Gui].index = i]
             ELSE /\ UNCHANGED <<bookVars, pc>>
                  /\ call' = [call EXCEPT ![Gui].todo = call[Gui].todo \ {i}]
    /\ UNCHANGED <<devices, streamVars, tuneVars, fileVars, rescans>>

(* Deferred while any radio operation is in progress; otherwise the book is  *)
(* emptied so that no token survives into the new list.                      *)
RescanUnbinds ==
    /\ pc[Gui] = "rescan" /\ call[Gui].todo = {}
    /\ IF stopping # {} \/ Controlled # {}
       THEN UNCHANGED bookVars /\ Return(Gui)
       ELSE bind(<<>>) /\ UNCHANGED <<assignments, call>> /\ Goto(Gui, "discover")
    /\ UNCHANGED <<devices, streamVars, tuneVars, fileVars, rescans>>

Discover ==
    /\ pc[Gui] = "discover"
    /\ devices' \in DeviceLists
    /\ Goto(Gui, "rebind")
    /\ UNCHANGED <<bookVars, streamVars, tuneVars, fileVars, rescans, call>>

(* Mutant: the loaded map is installed without validation. *)
bindWorkflowDevices_Unchecked ==
    /\ pc[Gui] = "rebind"
    /\ bind(devices)
    /\ IF loaded \/ ~fileOK
       THEN UNCHANGED <<assignments, loaded, loadError>>
       ELSE assignments' = file /\ loaded' = TRUE /\ loadError' = FALSE
    /\ Return(Gui)
    /\ UNCHANGED <<devices, streamVars, tuneVars, file, fileOK, rescans>>

(* bindWorkflowDevices: bind, and until it has succeeded once, load the file. *)
bindWorkflowDevices ==
    /\ pc[Gui] = "rebind"
    /\ bind(devices)
    /\ IF loaded
       THEN UNCHANGED <<assignments, loaded, loadError>>
       ELSE IF fileOK /\ AssignmentsFit(devices, file)
            THEN assignments' = file /\ loaded' = TRUE /\ loadError' = FALSE
            ELSE UNCHANGED <<assignments, loaded>> /\ loadError' = TRUE
    /\ Return(Gui)
    /\ UNCHANGED <<devices, streamVars, tuneVars, file, fileOK, rescans>>

(* setWorkflowAssignments: refused while a re-reserved radio is receiving;   *)
(* a failed save rolls the book back, unless the old map no longer fits.     *)
setWorkflowAssignments(values, saved) ==
    /\ pc[Gui] = "idle"
    /\ AssignmentsOK(values)
    /\ \A i \in 1..Len(devices) :
           isStreaming(i) => assignment(i) = Reserved(devices, values, i)
    /\ IF saved
       THEN /\ setAssignments(values)
            /\ file' = values /\ fileOK' = TRUE
            /\ loaded' = TRUE /\ loadError' = FALSE
       ELSE /\ ~AssignmentsFit(endpoints, assignments)
            /\ setAssignments(values)
            /\ UNCHANGED fileVars
    /\ UNCHANGED <<devices, streamVars, tuneVars, rescans, pc, call>>

-----------------------------------------------------------------------------
CallSteps(th) ==
    \/ RetuneQueue(th) \/ RunCommand(th) \/ EndCommand(th)
    \/ StopDrained(th) \/ Teardown(th) \/ StopEnds(th)
    \/ RestoreControl(th) \/ RestoreTune(th) \/ RestorePoll(th)
    \/ RestoreControlEnds(th) \/ RestoreStop(th)

RescanSteps == RescanStops \/ RescanUnbinds \/ Discover \/ bindWorkflowDevices

OpenerSteps(k) ==
    \/ OpenFails(k) \/ OpenPublishes(k)
    \/ StartupControl(k) \/ StartupControlEnds(k) \/ StartupReady(k)

TokenCalls(th, t) ==
    \/ releaseDevice(th, t)
    \/ tuneDevice(th, t)
    \/ stopDevice(th, t)
    \/ \E wasLive \in BOOLEAN : restoreDevice(th, t, wasLive)
    \/ BeginCommand(th, "start", t.index, t)

IndexCalls(th, i) ==
    \/ stopStreaming(th, i)
    \/ BeginCommand(th, "rate", i, NoToken)
    \/ \E o \in Owner :
          \/ setCenterFreq(th, i, o)
          \/ BeginLegacyCommand(th, i, o)
          \/ releaseDeviceLease(th, o, {i})
          \/ \E force \in BOOLEAN : \/ acquireDeviceLease(th, i, o, force)
                                   \/ RetuneAcquire(th, i, o, force)
          \/ \E c \in Scoped, attach \in BOOLEAN : claimDevice(th, i, o, c, attach)

Next ==
    \/ \E th \in Thread : CallSteps(th)
    \/ RescanSteps
    \/ \E k \in Key : OpenerSteps(k)
    \/ \E i \in Index : ApplyTune(i) \/ ReceiverFault(i)
    \/ \E th \in Thread, t \in issued : TokenCalls(th, t)
    \/ \E th \in Thread, i \in Index : IndexCalls(th, i)
    \/ \E th \in Thread, o \in Owner : releaseDeviceLease(th, o, Index)
    \/ enumerateDevices
    \/ \E values \in Plans, saved \in BOOLEAN : setWorkflowAssignments(values, saved)

(* Threads inside a call keep running and driver calls return; nobody is     *)
(* obliged to make a new call.                                               *)
Fairness == /\ \A th \in Thread : WF_vars(CallSteps(th))
            /\ WF_vars(RescanSteps)
            /\ \A k \in Key : WF_vars(OpenerSteps(k))

Spec == Init /\ [][Next]_vars
FairSpec == Spec /\ Fairness

-----------------------------------------------------------------------------
(* Threads whose ControlScope is alive, and opens in their startup control. *)
Commanding == {th \in Thread : pc[th] \in {"command", "commandEnd", "restoreTune",
                                          "restorePoll", "restoreEnd"}}
Starting == {k \in Key : opener[k].step = "command"}

(* A command in flight: the radio, the permit and the lease it was admitted  *)
(* under.                                                                    *)
InFlight == {call[th] : th \in Commanding} \cup {opener[k] : k \in Starting}

(* DEC-0184: "no replacement can enter until the old command actually        *)
(* finishes".  While a command is in flight its permit stays in the book and *)
(* the radio carries the lease the command was admitted under, or none.      *)
NoReplacementDuringCommand ==
    \A c \in InFlight :
        /\ controls[c.index] = c.id
        /\ \A j \in Leased : SameRadio(c.index, j) => leases[j] = c.token

(* WORKFLOW_DEVICES.md: stop "drains already-admitted commands before        *)
(* hardware teardown".  While a thread is in stopStreamingImpl the radio has *)
(* no command in flight, its index no lease, and the stop is announced.      *)
TeardownIsAlone ==
    \A th \in Thread : pc[th] \in {"teardown", "stopEnd"} =>
        LET i == call[th].index
        IN  /\ i \in stopping
            /\ i \notin Leased
            /\ ~controlBusy(i)
            /\ \A c \in InFlight : ~SameRadio(i, c.index)

(* DEC-0181: "old tokens cannot target reordered indices".  A radio that is  *)
(* leased, commanded or stopping is still the discovered device it was when  *)
(* the book admitted that.                                                   *)
PinnedRadiosKeepIdentity ==
    \A i \in Leased \cup Controlled \cup stopping :
        Known(i) /\ Discovered(i) /\ devices[i] = endpoints[i]

(* A stop that was announced drains and finishes: no new command enters the  *)
(* radio, so the wait in stopDevice, stopStreaming and restoreDevice ends.   *)
StopsFinish ==
    \A th \in Thread :
        pc[th] = "stopWait" ~> pc[th] \notin {"stopWait", "teardown", "stopEnd"}
=============================================================================
