----------------------------- MODULE RadioTakeover -----------------------------
(* How the satellite engines borrow a radio that Listen may be receiving on,   *)
(* and give it back: SatcomScannerEngine and InmarsatEngine with their         *)
(* workers, the GUI host that parks and restores the main receiver, the user's *)
(* Listen operations, and a WorkflowRadioSession on a thread of its own.       *)
(* Engine calls and queued completions run one at a time on the GUI thread.    *)
(* The radios are those of DeviceLeases and RxLifecycle, reduced to what a     *)
(* borrower can see.  A centre frequency is named by who asked for it; such    *)
(* frequencies are further apart than a capture is wide.                       *)
EXTENDS Naturals, Sequences

CONSTANTS
    Radio, Satcom, Inmarsat, Listen, Air, None,
    Use   \* the instances: whose radio is whose, and budgets for what may happen

Engine == {Satcom, Inmarsat}
Budgets == {"calls", "faults", "edits", "rescans", "flows"}

Found == [on : BOOLEAN, centre : {Listen, Air} \cup Engine]   \* a radio, as an engine found it
Reception == [active : BOOLEAN, setting : 0..1]
ParkedSession == [token : Nat, saved : Reception \cup {None}]

ASSUME NamesAssumption ==
    /\ Satcom # Inmarsat /\ Engine \cap {Listen, Air} = {}
    /\ None \notin Nat \cup Engine \cup Found \cup Reception \cup ParkedSession
ASSUME TakeoverAssumption ==
    \A u \in Use :
       /\ u.radio \in [Engine -> Radio] /\ u.flow \in Radio /\ u.at \in Radio
       /\ u.engines \subseteq Engine
       /\ u.edits \subseteq {"tune", "mode", "apply", "off"}
       /\ \A b \in Budgets : u.budget[b] \in Nat

VARIABLES
    use, left,   \* left: what is left of the budgets
    radio,       \* stream, centre, the centre asked for, lease, whether it is stopping
    issued,      \* the last lease id given out
    engine,      \* the fields of each engine and where its worker is
    gui,         \* the engine call the GUI thread is in
    posted,      \* cleanups queued for the GUI thread, oldest first
    sessions,    \* ReceiverTakeoverSessions: what was parked, by radio
    rx,          \* the main receiver: active, frequency and mode, radio
    flow,        \* the WorkflowRadioSession
    listen,      \* not in the code: what the user last asked of Listen
    excuses      \* not in the code: known exceptions that have occurred

devices == <<radio, issued>>
host == <<sessions, rx>>
history == <<listen, excuses>>
vars == <<use, left, radio, issued, engine, gui, posted, sessions, rx, flow, listen, excuses>>

NoCall == [at |-> "idle", op |-> None, e |-> None, force |-> FALSE,
           saved |-> None, token |-> None, host |-> None, ok |-> FALSE, tried |-> FALSE]
NoSession == [run |-> FALSE, worker |-> "none", lost |-> FALSE, lease |-> None,
              prev |-> None, host |-> None, pass |-> FALSE]

Init ==
    /\ use \in Use /\ left = use.budget
    /\ \E on \in BOOLEAN :   \* Listen may be receiving
          /\ radio = [r \in Radio |->
                 [stream |-> IF on /\ r = use.at THEN "live" ELSE "off",
                  centre |-> Listen, want |-> Listen, lease |-> None, stopping |-> FALSE]]
          /\ rx = [active |-> on, setting |-> 0, at |-> use.at]
          /\ listen = [active |-> on, on |-> {r \in {use.at} : on}]
    /\ issued = 0
    /\ engine = [e \in Engine |-> NoSession]
    /\ gui = NoCall /\ posted = <<>>
    /\ sessions = [r \in Radio |-> None]
    /\ flow = [pc |-> "idle", token |-> None]
    /\ excuses = {}

Live(r) == radio[r].stream = "live"
Streaming(r) == radio[r].stream # "off"
CanUse(r) == radio[r].lease = None /\ ~radio[r].stopping
R(e) == use.radio[e]
Owns(e) == engine[e].lease # None /\ radio[R(e)].lease = engine[e].lease
Idle == gui.at = "idle"
Spend(b) == left[b] > 0 /\ left' = [left EXCEPT ![b] = @ - 1]
-----------------------------------------------------------------------------
(* The calls.  "op" says what follows the cleanup: a start, an armed pass or   *)
(* nothing.  What a call that changes nothing would do is left out.            *)

Call(at, op, e, force) == [NoCall EXCEPT !.at = at, !.op = op, !.e = e, !.force = force]

(* Mutant: start does not finish a failed predecessor first.                   *)
Start_Unjoined(e, force) ==
    /\ Idle /\ e \in use.engines /\ ~engine[e].run /\ Spend("calls")
    /\ gui' = Call("prepare", "start", e, force)
    /\ UNCHANGED <<use, devices, engine, posted, host, flow, history>>

(* start: a failed predecessor is joined and cleaned up first.                 *)
Start(e, force) ==
    /\ Idle /\ e \in use.engines /\ ~engine[e].run /\ Spend("calls")
    /\ gui' = Call(IF engine[e].worker = "none" THEN "prepare" ELSE "join", "start", e, force)
    /\ UNCHANGED <<use, devices, engine, posted, host, flow, history>>

Stop(e) ==
    /\ Idle /\ Spend("calls")
    /\ engine[e].run \/ engine[e].worker # "none" \/ engine[e].lease # None
    /\ engine' = [engine EXCEPT ![e].run = FALSE]
    /\ gui' = Call("join", "stop", e, FALSE)
    /\ UNCHANGED <<use, devices, posted, host, flow, history>>

(* armPass: a scan is stopped first; a predecessor that failed or whose pass   *)
(* ended and is still to be cleaned up is not.                                 *)
Arm(force) ==
    LET s == engine[Satcom] IN
    /\ Idle /\ Satcom \in use.engines /\ ~s.pass /\ Spend("calls")
    /\ engine' = [engine EXCEPT ![Satcom].run = FALSE]
    /\ gui' = Call(IF s.run THEN "join" ELSE "prepare", "arm", Satcom, force)
    /\ excuses' = excuses \cup {x \in {"overtaken"} : ~s.run /\ s.lease # None}
    /\ UNCHANGED <<use, devices, posted, host, flow, listen>>

Disarm ==
    LET s == engine[Satcom] IN
    /\ Idle /\ Spend("calls")
    /\ s.pass \/ (~s.run /\ s.lease # None)
    /\ engine' = [engine EXCEPT ![Satcom].pass = FALSE, ![Satcom].run = FALSE]
    /\ gui' = Call(IF s.pass THEN "join" ELSE "restore", "stop", Satcom, FALSE)
    /\ UNCHANGED <<use, devices, posted, host, flow, history>>

(* A queued cleanup: Inmarsat's asks only whether a session runs, Satcom's     *)
(* also whether the lease is still the one it was queued for.                  *)
Dispatch ==
    /\ Idle /\ posted # <<>>
    /\ LET p == Head(posted)
           s == engine[p.e]
       IN  gui' = IF s.run \/ (p.e = Satcom /\ s.lease # p.lease) THEN gui
                  ELSE Call(IF p.e = Satcom THEN "join" ELSE "restore", "stop", p.e, FALSE)
    /\ posted' = Tail(posted)
    /\ UNCHANGED <<use, left, devices, engine, host, flow, history>>
-----------------------------------------------------------------------------
(* Cleanup: join the worker, give the radio back, then the receiver.           *)

Join ==
    LET e == gui.e IN
    /\ gui.at = "join" /\ engine[e].worker \in {"none", "done"}
    /\ engine' = [engine EXCEPT ![e].worker = "none", ![e].pass = FALSE]
    /\ gui' = [gui EXCEPT !.at = "restore"]
    /\ UNCHANGED <<use, left, devices, posted, host, flow, history>>

BeginStop(r) == [radio EXCEPT ![r].stopping = TRUE, ![r].lease = None]

(* restorePreviousDeviceState and the first part of restoreDevice.             *)
Restore ==
    LET e == gui.e
        r == R(e)
        s == engine[e]
        tried == s.prev # None /\ s.lease # None
        retune == tried /\ Owns(e) /\ s.prev.on /\ Live(r)
    IN
    /\ gui.at = "restore"
    /\ engine' = [engine EXCEPT ![e].prev = None, ![e].lease = None, ![e].host = None]
    /\ radio' = IF retune THEN [radio EXCEPT ![r].want = s.prev.centre]
                ELSE IF tried /\ Owns(e) THEN BeginStop(r) ELSE radio
    /\ gui' = [gui EXCEPT !.at = IF retune THEN "poll" ELSE IF tried /\ Owns(e) THEN "halt" ELSE "end",
                          !.saved = s.prev, !.token = s.lease, !.host = s.host,
                          !.ok = FALSE, !.tried = tried]
    /\ UNCHANGED <<use, left, issued, posted, host, flow, history>>

(* Mutant: the radio counts as restored once the old centre is asked for.      *)
Restored_Unconfirmed ==
    /\ gui.at = "poll" /\ Live(R(gui.e))
    /\ radio' = [radio EXCEPT ![R(gui.e)].lease = None]
    /\ gui' = [gui EXCEPT !.at = "end", !.ok = TRUE]
    /\ UNCHANGED <<use, left, issued, engine, posted, host, flow, history>>

(* The hardware confirms the old centre: the lease is released.                *)
Restored ==
    LET r == R(gui.e) IN
    /\ gui.at = "poll" /\ Live(r) /\ radio[r].centre = radio[r].want
    /\ radio' = [radio EXCEPT ![r].lease = None]
    /\ gui' = [gui EXCEPT !.at = "end", !.ok = TRUE]
    /\ UNCHANGED <<use, left, issued, engine, posted, host, flow, history>>

(* It does not in four seconds, or is lost: the radio is stopped instead.      *)
RestoreGivesUp ==
    /\ gui.at = "poll"
    /\ radio' = BeginStop(R(gui.e))
    /\ gui' = [gui EXCEPT !.at = "halt"]
    /\ UNCHANGED <<use, left, issued, engine, posted, host, flow, history>>

Halted ==
    LET r == R(gui.e) IN
    /\ gui.at = "halt"
    /\ radio' = [radio EXCEPT ![r].stream = "off", ![r].stopping = FALSE]
    /\ listen' = [listen EXCEPT !.on = @ \ {r}]
    /\ gui' = [gui EXCEPT !.at = "end", !.ok = ~gui.saved.on]
    /\ UNCHANGED <<use, left, issued, engine, posted, host, flow, excuses>>

(* endReceiverTakeover: the receiver is as it was found, unless the user has   *)
(* retuned it or moved it to another radio, or the radio was not restored.     *)
End ==
    LET e == gui.e
        r == R(e)
        s == sessions[r]
        mine == gui.host # None /\ s # None /\ s.token = gui.host
        restore == /\ gui.ok /\ gui.host = gui.token /\ s.saved # None
                   /\ rx.at = r /\ rx.setting = s.saved.setting
    IN
    /\ gui.at = "end"
    /\ IF mine
       THEN /\ sessions' = [sessions EXCEPT ![r] = None]
            /\ rx' = [rx EXCEPT !.active = IF restore THEN s.saved.active ELSE @]
            \* a radio that was not restored leaves reception as it is
            /\ listen' = [listen EXCEPT !.active =
                             IF gui.tried /\ ~gui.ok /\ rx.at = r THEN rx.active ELSE @]
       ELSE UNCHANGED <<sessions, rx, listen>>
    /\ gui' = IF gui.op = "stop" THEN NoCall
              ELSE Call("prepare", gui.op, e, gui.force)
    /\ UNCHANGED <<use, left, devices, engine, posted, flow, excuses>>
-----------------------------------------------------------------------------
(* Taking the radio.                                                           *)

(* capturePreviousDeviceState: before the claim.                               *)
Capture ==
    LET e == gui.e IN
    /\ gui.at = "prepare"
    /\ engine' = [engine EXCEPT ![e].prev =
          IF @ # None THEN @ ELSE [on |-> Streaming(R(e)), centre |-> radio[R(e)].want]]
    /\ gui' = [gui EXCEPT !.at = "claim"]
    /\ UNCHANGED <<use, left, devices, posted, host, flow, history>>

(* The lease or the receiver is refused: nothing has changed yet.              *)
Refused ==
    LET e == gui.e
        r == R(e)
        taken == ~CanUse(r) \/ (Streaming(r) /\ ~gui.force)
    IN
    /\ gui.at = "claim"
    /\ taken \/ engine[e].host = None   \* another's session, P25, or a receiver that is busy
    /\ engine' = [engine EXCEPT ![e].prev = None, ![e].lease = IF taken THEN @ ELSE None]
    /\ gui' = NoCall
    /\ UNCHANGED <<use, left, devices, posted, host, flow, history>>

(* The receiver on the radio is parked, once.                                  *)
Park(e, r, t) ==
    IF engine[e].host # None THEN UNCHANGED host
    ELSE /\ sessions[r] = None
         /\ sessions' = [sessions EXCEPT ![r] =
               [token |-> t,
                saved |-> IF rx.at = r THEN [active |-> rx.active, setting |-> rx.setting] ELSE None]]
         /\ rx' = [rx EXCEPT !.active = @ /\ rx.at # r]

(* The lease is granted, the receiver parked, and the radio reused if live or  *)
(* opened if off; one that is opening or simulated is refused.                 *)
Claim ==
    LET e == gui.e
        r == R(e)
        t == issued + 1
    IN
    /\ gui.at = "claim" /\ CanUse(r) /\ (Streaming(r) => gui.force)
    /\ issued' = t
    /\ engine' = [engine EXCEPT ![e].lease = t, ![e].host = IF @ = None THEN t ELSE @]
    /\ Park(e, r, t)
    /\ \E opened \in {Live(r)} \cup {b \in BOOLEAN : ~Streaming(r)} :
          /\ radio' = [radio EXCEPT ![r].lease = t,
                          ![r].stream = IF @ = "off" /\ opened THEN "opening" ELSE @]
          /\ gui' = IF opened THEN [gui EXCEPT !.at = "wait"]
                    ELSE Call("restore", "stop", e, FALSE)
    /\ excuses' = excuses \cup {x \in {"torn"} : engine[e].prev.on /\ r \notin listen.on}
    /\ UNCHANGED <<use, left, posted, flow, listen>>

(* waitForOperationalStream, then the tune; a pass is marked just before it.   *)
Tune ==
    LET e == gui.e IN
    /\ gui.at = "wait" /\ Owns(e) /\ Live(R(e))
    /\ radio' = [radio EXCEPT ![R(e)].want = e]
    /\ engine' = [engine EXCEPT ![e].pass = gui.op = "arm"]
    /\ gui' = [gui EXCEPT !.at = "confirm"]
    /\ UNCHANGED <<use, left, issued, posted, host, flow, history>>

Confirmed ==
    LET r == R(gui.e) IN
    /\ gui.at = "confirm" /\ Live(r) /\ radio[r].centre = gui.e
    /\ gui' = [gui EXCEPT !.at = "go"]
    /\ UNCHANGED <<use, left, devices, engine, posted, host, flow, history>>

(* No live stream, no samples or no confirmation in time.                      *)
TakeoverFails ==
    LET e == gui.e IN
    /\ gui.at \in {"wait", "confirm"}
    /\ engine' = [engine EXCEPT ![e].pass = @ /\ gui.at # "confirm"]
    /\ gui' = Call("restore", "stop", e, FALSE)
    /\ UNCHANGED <<use, left, devices, posted, host, flow, history>>

(* The worker starts.  A smart scan queues a cleanup however it ends.          *)
Go ==
    LET e == gui.e IN
    /\ gui.at = "go" /\ engine[e].worker \in {"none", "done"}
    /\ \E smart \in {FALSE, e = Satcom /\ gui.op = "start"} :
          engine' = [engine EXCEPT ![e].run = TRUE, ![e].worker = "running", ![e].lost = smart]
    /\ gui' = NoCall
    /\ UNCHANGED <<use, left, devices, posted, host, flow, history>>
-----------------------------------------------------------------------------
(* The workers.                                                                *)

Posted(e) == Append(posted, [e |-> e, lease |-> engine[e].lease])

(* The lease or the live stream is gone.                                       *)
Loses(e) ==
    /\ engine[e].worker = "running" /\ engine[e].run
    /\ ~Owns(e) \/ ~Live(R(e))
    /\ engine' = [engine EXCEPT ![e].run = FALSE, ![e].lost = TRUE]
    /\ UNCHANGED <<use, left, devices, gui, posted, host, flow, history>>

(* Processing throws, in Inmarsat or in a smart scan.                          *)
Throws(e) ==
    /\ engine[e].worker = "running" /\ engine[e].run /\ Spend("faults")
    /\ e = Inmarsat \/ engine[e].lost
    /\ engine' = [engine EXCEPT ![e].run = FALSE, ![e].lost = TRUE]
    /\ UNCHANGED <<use, devices, gui, posted, host, flow, history>>

(* tickPassTrack: the planner says the armed pass is over.                     *)
PassEnds ==
    /\ engine[Satcom].worker = "running" /\ engine[Satcom].run /\ engine[Satcom].pass
    /\ engine' = [engine EXCEPT ![Satcom].run = FALSE, ![Satcom].pass = FALSE]
    /\ posted' = Posted(Satcom)
    /\ UNCHANGED <<use, left, devices, gui, host, flow, history>>

(* Mutant: a worker that lost its radio queues no cleanup.                     *)
Leaves_Silently(e) ==
    /\ engine[e].worker = "running" /\ ~engine[e].run
    /\ engine' = [engine EXCEPT ![e].pass = FALSE, ![e].worker = "done"]
    /\ UNCHANGED <<use, left, devices, gui, posted, host, flow, history>>

(* The loop is left.  Satcom clears the pass and then queues its cleanup.  An  *)
(* Inmarsat worker whose receiver is back already has nothing left to restore. *)
Leaves(e) ==
    /\ engine[e].worker = "running" /\ ~engine[e].run
    /\ IF e = Satcom
       THEN /\ engine' = [engine EXCEPT ![e].pass = FALSE,
                             ![e].worker = IF engine[e].lost THEN "posting" ELSE "done"]
            /\ UNCHANGED posted
       ELSE /\ engine' = [engine EXCEPT ![e].worker = "done"]
            /\ posted' = IF engine[e].lost /\ engine[e].host # None THEN Posted(e) ELSE posted
    /\ UNCHANGED <<use, left, devices, gui, host, flow, history>>

Posts ==
    /\ engine[Satcom].worker = "posting"
    /\ engine' = [engine EXCEPT ![Satcom].worker = "done"]
    /\ posted' = Posted(Satcom)
    /\ UNCHANGED <<use, left, devices, gui, host, flow, history>>
-----------------------------------------------------------------------------
(* The radios.                                                                 *)

(* The native open ends: live at the centre last asked for, or simulated.      *)
Opens(r) ==
    /\ radio[r].stream = "opening"
    /\ \E s \in {"live", "stub"} :
          radio' = [radio EXCEPT ![r].stream = s, ![r].centre = radio[r].want]
    /\ UNCHANGED <<use, left, issued, engine, gui, posted, host, flow, history>>

Applies(r) ==
    /\ Live(r) /\ radio[r].centre # radio[r].want
    /\ radio' = [radio EXCEPT ![r].centre = radio[r].want]
    /\ UNCHANGED <<use, left, issued, engine, gui, posted, host, flow, history>>

Fault(r) ==
    /\ Live(r) /\ Spend("faults")
    /\ radio' = [radio EXCEPT ![r].stream = "stub"]
    /\ UNCHANGED <<use, issued, engine, gui, posted, host, flow, history>>
-----------------------------------------------------------------------------
(* The user's Listen operations, while no engine call runs.                    *)

Edit(kind) == Idle /\ kind \in use.edits /\ Spend("edits")

(* stopUnusedListenDevices, and a start that may fail, of the radio listened   *)
(* to.  A simulated one is restarted where the code asks for it.               *)
Unused(r) == {q \in Radio \ {r} : CanUse(q)}
Receive(r, again, started, want) ==
    [q \in Radio |->
        IF q \in Unused(r) THEN [radio[q] EXCEPT !.stream = "off"]
        ELSE IF q # r THEN radio[q]
        ELSE [radio[q] EXCEPT !.want = want,
                 !.stream = IF @ = "off" \/ (again /\ @ = "stub")
                            THEN IF started THEN "opening" ELSE "off" ELSE @]]
Starts(r, again) ==
    IF ~Streaming(r) \/ (again /\ radio[r].stream = "stub") THEN BOOLEAN ELSE {TRUE}

(* Tune and Receive, or a click on the spectrum.                               *)
ListenTune ==
    LET r == rx.at IN
    /\ Edit("tune") /\ CanUse(r)
    /\ \E started \in Starts(r, FALSE) :
          /\ radio' = Receive(r, FALSE, started, IF started THEN Listen ELSE radio[r].want)
          /\ rx' = [rx EXCEPT !.active = started]
          /\ listen' = [active |-> started, on |-> (listen.on \ Unused(r)) \cup {q \in {r} : started}]
    /\ UNCHANGED <<use, issued, engine, gui, posted, sessions, flow, excuses>>

(* The mode box: any radio that streams makes the receiver active.             *)
ListenMode ==
    LET active == rx.active \/ \E r \in Radio : Streaming(r) IN
    /\ Edit("mode")
    /\ rx' = [rx EXCEPT !.setting = 1 - @, !.active = active]
    /\ listen' = [listen EXCEPT !.active = active]
    /\ excuses' = excuses \cup {x \in {"mode"} : sessions[rx.at] # None}
    /\ UNCHANGED <<use, devices, engine, gui, posted, sessions, flow>>

(* Apply in the Device Manager, with one radio chosen and enabled; it starts   *)
(* where it was last tuned.                                                    *)
ListenApply(r) ==
    /\ Edit("apply") /\ CanUse(r)
    /\ \E started \in Starts(r, TRUE) :
          /\ radio' = Receive(r, TRUE, started, radio[r].want)
          /\ rx' = [rx EXCEPT !.at = r, !.active = started]
          /\ listen' = [active |-> started, on |-> (listen.on \ (Unused(r) \cup {r})) \cup {q \in {r} : started}]
    /\ excuses' = excuses \cup {x \in {"cold"} : radio[r].want \in Engine}
    /\ UNCHANGED <<use, issued, engine, gui, posted, sessions, flow>>

(* Apply with no radio enabled.                                                *)
ListenOff ==
    /\ Edit("off") /\ CanUse(rx.at)
    /\ radio' = [q \in Radio |-> IF CanUse(q) THEN [radio[q] EXCEPT !.stream = "off"] ELSE radio[q]]
    /\ rx' = [rx EXCEPT !.active = FALSE]
    /\ listen' = [active |-> FALSE, on |-> {q \in listen.on : ~CanUse(q)}]
    /\ UNCHANGED <<use, issued, engine, gui, posted, sessions, flow, excuses>>

(* enumerateDevices: every stream is stopped, and no lease outlives it unless  *)
(* a radio is being stopped elsewhere and the list is left alone.              *)
Rescan ==
    LET deferred == \E r \in Radio : radio[r].stopping IN
    /\ Idle /\ Spend("rescans")
    /\ radio' = [r \in Radio |->
          IF radio[r].stopping THEN radio[r]
          ELSE [radio[r] EXCEPT !.stream = "off",
                                !.lease = IF deferred /\ ~Streaming(r) THEN @ ELSE None]]
    /\ listen' = [listen EXCEPT !.on = {r \in @ : radio[r].stopping}]
    /\ UNCHANGED <<use, issued, engine, gui, posted, host, flow, excuses>>
-----------------------------------------------------------------------------
(* WorkflowRadioSession, on its owner's thread.                                *)

Flow(pc) == flow' = [flow EXCEPT !.pc = pc]
FlowHolds == flow.token # None /\ radio[use.flow].lease = flow.token

FlowClaims ==
    LET r == use.flow IN
    /\ flow.pc = "idle" /\ Spend("flows") /\ CanUse(r) /\ ~Streaming(r)
    /\ issued' = issued + 1
    /\ \E opened \in BOOLEAN :
          /\ radio' = [radio EXCEPT ![r].lease = issued + 1, ![r].want = Air,
                          ![r].stream = IF opened THEN "opening" ELSE @]
          /\ flow' = [pc |-> IF opened THEN "wait" ELSE "stop", token |-> issued + 1]
    /\ UNCHANGED <<use, engine, gui, posted, host, history>>

(* Ownership is asked first, then the label, then the tune numbers.            *)
FlowLooks ==
    /\ \/ flow.pc = "wait" /\ FlowHolds /\ Flow("owner")
       \/ flow.pc = "owner" /\ Flow(IF Live(use.flow) THEN "label" ELSE "wait")
       \/ flow.pc = "label" /\ Flow(IF radio[use.flow].centre = radio[use.flow].want THEN "ready" ELSE "wait")
    /\ UNCHANGED <<use, left, devices, engine, gui, posted, host, history>>

(* Mutant: the constructor throws without stopping its radio.                  *)
FlowFails_Holding ==
    /\ flow.pc = "wait" /\ flow' = [pc |-> "idle", token |-> None]
    /\ UNCHANGED <<use, left, devices, engine, gui, posted, host, history>>

(* Cancelled, timed out, failed, or the lease is gone.                         *)
FlowFails ==
    /\ flow.pc = "wait" /\ Flow("stop")
    /\ UNCHANGED <<use, left, devices, engine, gui, posted, host, history>>

(* stopDevice, by a constructor that failed or by the destructor.              *)
FlowStops ==
    /\ flow.pc \in {"ready", "stop"}
    /\ IF FlowHolds THEN radio' = BeginStop(use.flow) /\ Flow("halt")
       ELSE UNCHANGED radio /\ Flow("idle")
    /\ UNCHANGED <<use, left, issued, engine, gui, posted, host, history>>

FlowHalted ==
    /\ flow.pc = "halt"
    /\ radio' = [radio EXCEPT ![use.flow].stream = "off", ![use.flow].stopping = FALSE]
    /\ flow' = [pc |-> "idle", token |-> None]
    /\ UNCHANGED <<use, left, issued, engine, gui, posted, host, history>>
-----------------------------------------------------------------------------
Cleanup == Join \/ Restore \/ Restored \/ RestoreGivesUp \/ Halted \/ End
Takeover == Capture \/ Refused \/ Claim \/ Tune \/ Confirmed \/ TakeoverFails \/ Go
Works(e) == Loses(e) \/ Leaves(e)
Flows == FlowClaims \/ FlowLooks \/ FlowFails \/ FlowStops \/ FlowHalted

Next ==
    \/ \E e \in Engine :
          \/ Stop(e) \/ Works(e) \/ Throws(e)
          \/ \E force \in BOOLEAN : Start(e, force)
    \/ \E force \in BOOLEAN : Arm(force)
    \/ Disarm \/ Dispatch \/ Cleanup \/ Takeover \/ PassEnds \/ Posts
    \/ \E r \in Radio : Opens(r) \/ Applies(r) \/ Fault(r) \/ ListenApply(r)
    \/ ListenTune \/ ListenMode \/ ListenOff \/ Rescan \/ Flows

(* The GUI thread goes on with its calls and its queue: every wait in a call   *)
(* has a deadline except the join, and a worker looks at its radio and at the  *)
(* run flag on every turn.                                                     *)
Fairness ==
    /\ WF_vars(Cleanup) /\ WF_vars(Takeover) /\ WF_vars(Dispatch)
    /\ \A e \in Engine : WF_vars(Works(e))
    /\ WF_vars(Posts)

Spec == Init /\ [][Next]_vars /\ Fairness
-----------------------------------------------------------------------------
(* Nobody takes another's carrier for its own.  Listen is never active on a    *)
(* live radio that is on a satellite (endReceiverTakeover comes after the      *)
(* retune is confirmed), except after the mode box was used during a takeover, *)
(* a pass was armed over an unfinished session, or Apply started a radio where *)
(* a satellite session left it; a session that runs under its lease is on its  *)
(* own frequency, and so is a workflow that was told the radio is ready.       *)
ListenHearsItself ==
    rx.active /\ Live(rx.at) /\ excuses \cap {"mode", "cold", "overtaken"} = {}
        => radio[rx.at].centre \notin Engine
EnginesHearThemselves ==
    \A e \in Engine : engine[e].run /\ Owns(e) /\ Live(R(e)) => radio[R(e)].centre = e
FlowHearsItself ==
    flow.pc = "ready" /\ FlowHolds /\ Live(use.flow) => radio[use.flow].centre = Air
EachHearsItsOwn == ListenHearsItself /\ EnginesHearThemselves /\ FlowHearsItself

(* When no call runs and nothing is parked on its radio, the receiver is       *)
(* active exactly if the user last wanted it and the radio could be given back *)
(* (restorePreviousDeviceState, endReceiverTakeover), except after the mode    *)
(* box was used during a takeover or a pass was armed over an unfinished one.  *)
ListenComesBack ==
    Idle /\ sessions[rx.at] = None /\ excuses \cap {"mode", "overtaken"} = {}
        => rx.active = listen.active

(* Nothing is left behind: every lease is known to an engine or a workflow, a  *)
(* parked receiver to the engine that parked it, and a radio that streams      *)
(* without a lease was started by Listen, except after a pass was armed over   *)
(* an unfinished one or a stream ended between a capture and its claim.        *)
LeasesAreKnown ==
    \A r \in Radio : LET t == radio[r].lease IN
        t # None => flow.token = t \/ gui.token = t \/ \E e \in Engine : engine[e].lease = t
SessionsAreKnown ==
    \A r \in Radio : sessions[r] # None =>
        \E e \in Engine : sessions[r].token \in {engine[e].host, gui.host}
StreamsAreWanted ==
    Idle => \A r \in Radio : Streaming(r) /\ CanUse(r) => r \in listen.on
NothingIsLeftBehind ==
    excuses \cap {"overtaken", "torn"} = {} => LeasesAreKnown /\ SessionsAreKnown /\ StreamsAreWanted

(* A session that has failed or ended by itself does not keep the radio: the   *)
(* queued cleanup, a stop or a new start gives it back.                        *)
Unfinished(e) == ~engine[e].run /\ engine[e].worker # "none" /\ engine[e].lease # None
FailedSessionsLetGo ==
    \A e \in Engine : Unfinished(e) ~> (~Unfinished(e) \/ "overtaken" \in excuses)

=============================================================================
