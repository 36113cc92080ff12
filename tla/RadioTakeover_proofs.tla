-------------------------- MODULE RadioTakeover_proofs --------------------------
(***************************************************************************)
(* Nobody takes another's carrier for its own, the receiver comes back as  *)
(* the user last wanted it and nothing is left leased, parked or streaming *)
(* without a holder, for any radios and any number of takeovers, faults,   *)
(* edits and rescans.                                                      *)
(***************************************************************************)
EXTENDS RadioTakeover, SequenceTheorems, TLAPS

(* The values each variable can take; the type invariant is their           *)
(* conjunction.                                                             *)
Centre == {Listen, Air} \cup Engine
Token == Nat \cup {None}
RadioState ==
    [stream : {"off", "opening", "live", "stub"}, centre : Centre, want : Centre,
     lease : Token, stopping : BOOLEAN]
EngineState ==
    [run : BOOLEAN, worker : {"none", "running", "posting", "done"}, lost : BOOLEAN,
     lease : Token, prev : Found \cup {None}, host : Token, pass : BOOLEAN]
CallState ==
    [at : {"idle", "join", "restore", "poll", "halt", "end",
           "prepare", "claim", "wait", "confirm", "go"},
     op : {"start", "arm", "stop", None}, e : Engine \cup {None}, force : BOOLEAN,
     saved : Found \cup {None}, token : Token, host : Token, ok : BOOLEAN, tried : BOOLEAN]
FlowState ==
    [pc : {"idle", "wait", "owner", "label", "ready", "stop", "halt"}, token : Token]

RadiosTyped == radio \in [Radio -> RadioState]
EnginesTyped == engine \in [Engine -> EngineState]
CallTyped == gui \in CallState
HostTyped ==
    /\ sessions \in [Radio -> ParkedSession \cup {None}]
    /\ rx \in [active : BOOLEAN, setting : 0..1, at : Radio]
    /\ listen \in [active : BOOLEAN, on : SUBSET Radio]
RestTyped ==
    /\ use \in Use /\ issued \in Nat
    /\ posted \in Seq([e : Engine, lease : Token])
    /\ flow \in FlowState
Typed == RadiosTyped /\ EnginesTyped /\ CallTyped /\ HostTyped /\ RestTyped

(* Every lease id in use anywhere has been given out, so the next one is    *)
(* new.                                                                     *)
TokensIssued ==
    /\ \A r \in Radio :
          /\ radio[r].lease # None => radio[r].lease <= issued
          /\ sessions[r] # None => sessions[r].token <= issued
    /\ \A e \in Engine :
          /\ engine[e].lease # None => engine[e].lease <= issued
          /\ engine[e].host # None => engine[e].host <= issued
    /\ flow.token # None => flow.token <= issued
    /\ gui.token # None => gui.token <= issued
    /\ gui.host # None => gui.host <= issued

(* One holder for one id: two engines, the call in progress and the         *)
(* workflow never hold the same one.                                        *)
TokensApart ==
    /\ \A d, e \in Engine : d # e =>
          /\ engine[d].lease # None => engine[d].lease # engine[e].lease
          /\ engine[d].host # None => engine[d].host # engine[e].host
    /\ \A e \in Engine :
          /\ engine[e].lease # None => engine[e].lease \notin {flow.token, gui.token}
          /\ engine[e].host # None => engine[e].host # gui.host
    /\ gui.token # None => gui.token # flow.token

(* An id that is found on a radio, or on a parked receiver, and that an     *)
(* engine, the call in progress or the workflow also holds, is found on the *)
(* radio of that holder: what the holder gives back is its own.             *)
TokensInPlace ==
    /\ \A e \in Engine, r \in Radio :
          /\ radio[r].lease # None /\ radio[r].lease = engine[e].lease => r = R(e)
          /\ radio[r].lease # None /\ radio[r].lease = gui.token /\ gui.e = e => r = R(e)
          /\ sessions[r] # None /\ sessions[r].token = engine[e].host => r = R(e)
          /\ sessions[r] # None /\ sessions[r].token = gui.host /\ gui.e = e => r = R(e)
    /\ \A r \in Radio : radio[r].lease # None /\ radio[r].lease = flow.token => r = use.flow

(* A radio that is being stopped has no lease, and the thread that stops it *)
(* still finds it stopping; the GUI thread and the workflow never stop the  *)
(* same one.                                                                *)
StopsExclude ==
    /\ \A r \in Radio : radio[r].stopping => radio[r].lease = None
    /\ flow.pc = "halt" => radio[use.flow].stopping
    /\ \A e \in Engine : gui.at = "halt" /\ gui.e = e =>
          radio[R(e)].stopping /\ (flow.pc = "halt" => R(e) # use.flow)

(* What the steps of the engine call in progress may rely on: the session   *)
(* is not running, a cleanup has taken the fields it needs out of the       *)
(* engine, a radio being retuned is still leased and was found streaming,   *)
(* and a takeover that has tuned the radio has it asked, and then           *)
(* confirmed, at its own frequency.                                         *)
CallShape ==
    /\ gui.at # "idle" => gui.e \in Engine
    /\ gui.at \notin {"poll", "halt", "end"} => gui.token = None /\ gui.host = None /\ ~gui.ok
    /\ gui.at \in {"poll", "halt"} => gui.tried /\ gui.saved # None
    /\ \A e \in Engine : gui.e = e =>
          /\ gui.at # "idle" => ~engine[e].run
          /\ gui.at \in {"poll", "halt", "end"} =>
                engine[e].lease = None /\ engine[e].prev = None /\ engine[e].host = None
          /\ gui.at = "claim" => engine[e].prev # None
          /\ gui.at = "poll" =>
                /\ gui.token # None /\ radio[R(e)].lease = gui.token
                /\ gui.saved.on /\ radio[R(e)].want = gui.saved.centre
          /\ gui.at \in {"wait", "confirm", "go"} => Owns(e)
          /\ gui.at \in {"confirm", "go"} =>
                radio[R(e)].want = e /\ radio[R(e)].stream \in {"live", "stub"}
          /\ gui.at = "go" /\ radio[R(e)].stream = "live" => radio[R(e)].centre = e

(* A leased radio streams, except while a takeover that could not open it   *)
(* is on its way back.                                                      *)
OwnedStreams ==
    \A e \in Engine : Owns(e) /\ radio[R(e)].stream = "off" => gui.at = "restore" /\ gui.e = e

(* None of the exceptions S has occurred.                                   *)
Without(S) == excuses \cap S = {}

(* Unless a pass was armed over an unfinished session: the lease an engine  *)
(* has is also its token at the host, a leased engine knows how it found    *)
(* the radio, an engine without a lease remembers nothing and is what a     *)
(* takeover starts from, and a lease outlives its worker only inside a      *)
(* call.                                                                    *)
Settled == Without({"overtaken"}) =>
    /\ \A e \in Engine :
          /\ engine[e].lease = engine[e].host
          /\ engine[e].lease # None => engine[e].prev # None
          /\ gui.at \in {"prepare", "claim"} /\ gui.e = e => engine[e].lease = None
          /\ engine[e].lease = None /\ ~(gui.at = "claim" /\ gui.e = e) => engine[e].prev = None
          /\ engine[e].worker = "none" /\ engine[e].lease # None =>
                gui.e = e /\ gui.at \in {"restore", "wait", "confirm", "go"}
    /\ gui.token = gui.host /\ (gui.host # None => gui.tried)

(* Every lease has a holder that will release it; in a call, only while a   *)
(* retune is awaited.                                                       *)
LeasesHeld == Without({"overtaken"}) =>
    \A r \in Radio : radio[r].lease # None =>
        \/ radio[r].lease = flow.token
        \/ radio[r].lease = gui.token /\ gui.at = "poll"
        \/ \E e \in Engine : radio[r].lease = engine[e].lease

(* Every parked receiver has a holder that will restore it.                 *)
SessionsHeld ==
    \A r \in Radio : sessions[r] # None =>
        sessions[r].token = gui.host \/ \E e \in Engine : sessions[r].token = engine[e].host

(* While an engine owns its radio, the receiver on it is parked under its   *)
(* token.                                                                   *)
ParkedHere(e) == sessions[R(e)] # None /\ sessions[R(e)].token = engine[e].host
ReceiversParked == Without({"overtaken"}) => \A e \in Engine : Owns(e) => ParkedHere(e)

(* A radio is in the hands of an engine from its claim until it is          *)
(* confirmed restored or has been stopped; a receiver on it is silent for   *)
(* as long.                                                                 *)
Handed(e) == Owns(e) \/ (gui.at \in {"poll", "halt"} /\ gui.e = e)
InHands(r) == \E e \in Engine : r = R(e) /\ Handed(e)
ParkedQuiet == Without({"mode", "overtaken"}) =>
    \A e \in Engine : Handed(e) /\ rx.at = R(e) => ~rx.active

(* A parked receiver is remembered as it is set now and as the user last    *)
(* wanted it, as long as it may still be restored from what was saved.      *)
GivingBack(e) ==
    /\ gui.e = e /\ gui.host # None
    /\ gui.at \in {"poll", "halt"} \/ (gui.at = "end" /\ gui.ok)
    /\ sessions[R(e)] # None /\ sessions[R(e)].token = gui.host
ParkedIntact == Without({"mode", "overtaken"}) =>
    \A e \in Engine : (Owns(e) \/ GivingBack(e)) /\ rx.at = R(e) =>
        /\ sessions[R(e)].saved # None
        /\ sessions[R(e)].saved.setting = rx.setting
        /\ sessions[R(e)].saved.active = listen.active

(* With nothing parked on its radio, the receiver is what the user asked    *)
(* for.                                                                     *)
ReceiverInStep == Without({"mode", "overtaken"}) =>
    \A r \in Radio : rx.at = r /\ sessions[r] = None => rx.active = listen.active

(* A radio that streams without a lease is one the user listens to; so is a *)
(* leased one that an engine found on, and will leave on.                   *)
StreamsWanted == Without({"overtaken", "torn"}) =>
    /\ \A r \in Radio : Streaming(r) /\ CanUse(r) => r \in listen.on
    /\ \A e \in Engine :
          /\ Owns(e) /\ engine[e].prev # None /\ engine[e].prev.on => R(e) \in listen.on
          /\ gui.at = "poll" /\ gui.e = e => R(e) \in listen.on

(* A radio that streams and is in no engine's hands is asked for, and if    *)
(* live is on, a centre that is not an engine's, and so is the centre an    *)
(* engine will go back to. The second clause is why the first survives: a   *)
(* capture that is claimed was taken while nobody owned the radio.          *)
Clean(r) == radio[r].want \notin Engine /\ (Live(r) => radio[r].centre \notin Engine)
StreamsClean == Without({"cold", "overtaken"}) =>
    /\ \A r \in Radio : Streaming(r) /\ ~InHands(r) => Clean(r)
    /\ \A e \in Engine :
          /\ engine[e].prev # None /\ engine[e].prev.on =>
                /\ Owns(e) => engine[e].prev.centre \notin Engine
                /\ gui.at = "claim" /\ gui.e = e /\ (\A d \in Engine : R(d) = R(e) => ~Owns(d)) =>
                      engine[e].prev.centre \notin Engine
          /\ gui.at = "poll" /\ gui.e = e => gui.saved.centre \notin Engine

(* A running session that owns its radio has it on its own frequency.       *)
EnginesTuned ==
    \A e \in Engine : engine[e].run /\ Owns(e) =>
        /\ radio[R(e)].want = e /\ radio[R(e)].stream # "opening"
        /\ radio[R(e)].stream = "live" => radio[R(e)].centre = e

(* A workflow's radio is asked for the workflow's centre for as long as it  *)
(* is leased, and is on it once the workflow has been told so.              *)
FlowTuned ==
    \A r \in Radio : radio[r].lease # None /\ radio[r].lease = flow.token =>
        /\ flow.pc \notin {"idle", "halt"}
        /\ radio[r].want = Air
        /\ flow.pc = "ready" => radio[r].centre = Air

(* The inductive invariant.                                                 *)
TakeoverInv ==
    /\ Typed /\ TokensIssued /\ TokensApart /\ TokensInPlace /\ StopsExclude
    /\ CallShape /\ OwnedStreams /\ Settled /\ LeasesHeld /\ SessionsHeld
    /\ ReceiversParked /\ ParkedQuiet /\ ParkedIntact /\ ReceiverInStep
    /\ StreamsWanted /\ StreamsClean /\ EnginesTuned /\ FlowTuned
-----------------------------------------------------------------------------
(* The assumptions on the constants, at the radios of the instance that     *)
(* runs.                                                                    *)
LEMMA Names ==
    ASSUME Typed
    PROVE  /\ use.radio \in [Engine -> Radio] /\ use.flow \in Radio /\ use.at \in Radio
           /\ \A e \in Engine : R(e) \in Radio
           /\ None \notin Nat /\ None \notin Engine /\ None \notin Found
           /\ None \notin Reception /\ None \notin ParkedSession
           /\ Satcom # Inmarsat /\ Listen \notin Engine /\ Air \notin Engine
BY NamesAssumption, TakeoverAssumption DEF Typed, RestTyped, R

(* A parked receiver has a proper lease id.                                 *)
LEMMA SessionTokens ==
    ASSUME Typed
    PROVE  \A r \in Radio : sessions[r] # None => sessions[r].token \in Nat /\ sessions[r].token # None
BY Names DEF Typed, HostTyped, ParkedSession

(* Everything that is compared with a lease id is one, or None.             *)
LEMMA TokenTypes ==
    ASSUME Typed
    PROVE  /\ \A r \in Radio : radio[r].lease \in Token /\ (sessions[r] # None => sessions[r].token \in Nat)
           /\ \A e \in Engine : engine[e].lease \in Token /\ engine[e].host \in Token
           /\ flow.token \in Token /\ gui.token \in Token /\ gui.host \in Token /\ issued \in Nat
BY SessionTokens
   DEF Typed, RadiosTyped, EnginesTyped, CallTyped, RestTyped, RadioState, EngineState, CallState, FlowState

(* The next lease id is nobody's: not a radio's, a parked receiver's, an    *)
(* engine's, the workflow's or the call's.                                  *)
LEMMA Fresh ==
    ASSUME TakeoverInv
    PROVE  /\ \A r \in Radio :
                 /\ radio[r].lease # issued + 1
                 /\ radio[r].lease # None => radio[r].lease <= issued + 1
                 /\ sessions[r] # None => sessions[r].token # issued + 1 /\ sessions[r].token <= issued + 1
           /\ \A e \in Engine :
                 /\ engine[e].lease # issued + 1 /\ engine[e].host # issued + 1
                 /\ engine[e].lease # None => engine[e].lease <= issued + 1
                 /\ engine[e].host # None => engine[e].host <= issued + 1
           /\ flow.token # issued + 1 /\ gui.token # issued + 1 /\ gui.host # issued + 1
           /\ flow.token # None => flow.token <= issued + 1
           /\ gui.token # None => gui.token <= issued + 1
           /\ gui.host # None => gui.host <= issued + 1
           /\ issued + 1 \in Nat /\ issued + 1 # None /\ issued + 1 <= issued + 1
<1>1. Typed
  BY DEF TakeoverInv
<1>2. issued \in Nat /\ None \notin Nat
  BY <1>1, Names, TokenTypes
<1>3. issued + 1 \in Nat /\ issued + 1 # None /\ issued + 1 <= issued + 1
  BY <1>2
<1>4. ASSUME NEW t \in Token, t # None => t <= issued
      PROVE  t # issued + 1 /\ (t # None => t <= issued + 1)
  BY <1>2, <1>4 DEF Token
<1> QED
  BY <1>1, <1>3, <1>4, TokenTypes DEF TakeoverInv, TokensIssued, Token

(* What beginning a stop does to the radio it stops, and to no other.       *)
LEMMA StopBegins ==
    ASSUME radio \in [Radio -> RadioState], NEW r \in Radio, radio' = BeginStop(r)
    PROVE  /\ radio' \in [Radio -> RadioState]
           /\ \A q \in Radio :
                 /\ q # r => radio'[q] = radio[q]
                 /\ radio'[q].stream = radio[q].stream /\ radio'[q].want = radio[q].want
                 /\ radio'[q].centre = radio[q].centre
           /\ radio'[r].lease = None /\ radio'[r].stopping
<1>1. PICK x \in RadioState : x = [radio[r] EXCEPT !.stopping = TRUE, !.lease = None]
  BY DEF RadioState, Token
<1>2. radio' = [radio EXCEPT ![r] = x]
  BY <1>1 DEF BeginStop
<1>3. /\ x.stream = radio[r].stream /\ x.want = radio[r].want /\ x.centre = radio[r].centre
      /\ x.lease = None /\ x.stopping
  BY <1>1 DEF RadioState
<1> QED
  BY <1>2, <1>3
-----------------------------------------------------------------------------
(* What the steps of the engine workers have in common: they clear a run    *)
(* flag, go on with their own work and queue cleanups; leases, receivers    *)
(* and radios are left alone.                                               *)
WorkerStep ==
    /\ UNCHANGED <<use, radio, issued, gui, sessions, rx, flow, listen, excuses>>
    /\ engine' \in [Engine -> EngineState] /\ posted' \in Seq([e : Engine, lease : Token])
    /\ \A e \in Engine :
          /\ engine'[e].lease = engine[e].lease
          /\ engine'[e].prev = engine[e].prev
          /\ engine'[e].host = engine[e].host
          /\ engine'[e].run => engine[e].run
          /\ engine'[e].worker = "none" => engine[e].worker = "none"

(* Such steps keep the invariant ...                                        *)
LEMMA WorkersKeep ==
    ASSUME TakeoverInv, WorkerStep
    PROVE  TakeoverInv'
<1> USE DEF WorkerStep
<1>1. Typed'
  BY DEF TakeoverInv, Typed, RadiosTyped, EnginesTyped, CallTyped, HostTyped, RestTyped
<1>2. TokensIssued' /\ TokensApart' /\ TokensInPlace' /\ StopsExclude'
  BY DEF TakeoverInv, TokensIssued, TokensApart, TokensInPlace, StopsExclude, R
<1>3. CallShape' /\ OwnedStreams'
  BY DEF TakeoverInv, CallShape, OwnedStreams, Owns, R
<1>4. Settled' /\ LeasesHeld' /\ SessionsHeld'
  BY DEF TakeoverInv, Settled, LeasesHeld, SessionsHeld, Without
<1>5. ReceiversParked' /\ ParkedQuiet' /\ ParkedIntact' /\ ReceiverInStep'
  BY DEF TakeoverInv, ReceiversParked, ParkedHere, ParkedQuiet, Handed, ParkedIntact,
         GivingBack, ReceiverInStep, Without, Owns, R
<1>6. StreamsWanted' /\ EnginesTuned' /\ FlowTuned'
  BY DEF TakeoverInv, StreamsWanted, EnginesTuned, FlowTuned, Streaming, CanUse, Without, Owns, R
<1>7. StreamsClean'
  BY DEF TakeoverInv, StreamsClean, Clean, InHands, Handed, Streaming, Live, Without, Owns, R
<1> QED
  BY <1>1, <1>2, <1>3, <1>4, <1>5, <1>6, <1>7 DEF TakeoverInv

(* ... and the steps of the workers are such steps.                         *)
LEMMA WorkersStep ==
    ASSUME TakeoverInv,
           \/ \E e \in Engine : Works(e) \/ Throws(e)
           \/ PassEnds \/ Posts
    PROVE  WorkerStep
<1> USE DEF TakeoverInv, Typed, EnginesTyped, RestTyped, EngineState
<1>1. ASSUME NEW e \in Engine, Loses(e) PROVE WorkerStep
  BY ZenonT(60), <1>1 DEF Loses, WorkerStep, devices, host, history
<1>2. ASSUME NEW e \in Engine, Throws(e) PROVE WorkerStep
  BY ZenonT(60), <1>2 DEF Throws, WorkerStep, devices, host, history
<1>3. ASSUME NEW e \in Engine PROVE [e |-> e, lease |-> engine[e].lease] \in [e : Engine, lease : Token]
  OBVIOUS
<1>4. ASSUME NEW e \in Engine PROVE Posted(e) \in Seq([e : Engine, lease : Token])
  BY <1>3 DEF Posted
<1>5. Satcom \in Engine
  BY DEF Engine
<1>6. ASSUME PassEnds PROVE WorkerStep
  BY ZenonT(60), <1>4, <1>5, <1>6 DEF PassEnds, WorkerStep, devices, host, history
<1>7. ASSUME Posts PROVE WorkerStep
  BY <1>4, <1>5, <1>7 DEF Posts, WorkerStep, devices, host, history
<1>8. ASSUME NEW e \in Engine, Leaves(e) PROVE WorkerStep
  <2>0. UNCHANGED <<use, radio, issued, gui, sessions, rx, flow, listen, excuses>>
    BY <1>8 DEF Leaves, devices, host, history
  <2>1. CASE e = Satcom
    <3> DEFINE w == IF engine[e].lost THEN "posting" ELSE "done"
    <3>0. w \in {"posting", "done"}
      OBVIOUS
    <3>1. engine' = [engine EXCEPT ![e].pass = FALSE, ![e].worker = w] /\ posted' = posted
      BY <1>8, <2>1 DEF Leaves
    <3> HIDE DEF w
    <3> QED
      BY ZenonT(60), <2>0, <3>0, <3>1 DEF WorkerStep
  <2>2. CASE e # Satcom
    <3>1. posted' \in Seq([e : Engine, lease : Token])
      BY <1>4, <1>8, <2>2 DEF Leaves
    <3>2. engine' = [engine EXCEPT ![e].worker = "done"]
      BY <1>8, <2>2 DEF Leaves
    <3> QED
      BY SMTT(30), <2>0, <3>1, <3>2 DEF WorkerStep
  <2> QED
    BY <2>1, <2>2
<1> QED
  BY <1>1, <1>2, <1>6, <1>7, <1>8 DEF Works
-----------------------------------------------------------------------------
(* What the steps of the radios themselves have in common: an open ends, a  *)
(* tune is applied or a stream is lost; a stream that is live afterwards is *)
(* on the centre that was asked for, or was live before where it is now.    *)
StreamStep ==
    /\ UNCHANGED <<use, issued, engine, gui, posted, sessions, rx, flow, listen, excuses>>
    /\ radio' \in [Radio -> RadioState]
    /\ \A r \in Radio :
          /\ radio'[r].lease = radio[r].lease
          /\ radio'[r].want = radio[r].want
          /\ radio'[r].stopping = radio[r].stopping
          /\ radio'[r].stream = "off" <=> radio[r].stream = "off"
          /\ radio'[r].stream = "opening" => radio[r].stream = "opening"
          /\ radio'[r].centre \in {radio[r].centre, radio[r].want}
          /\ radio'[r].stream = "live" =>
                \/ radio'[r].centre = radio[r].want
                \/ radio[r].stream = "live" /\ radio'[r].centre = radio[r].centre

(* Such steps keep the invariant ...                                        *)
LEMMA StreamsKeep ==
    ASSUME TakeoverInv, StreamStep
    PROVE  TakeoverInv'
<1> USE DEF StreamStep
<1>1. Typed'
  BY DEF TakeoverInv, Typed, RadiosTyped, EnginesTyped, CallTyped, HostTyped, RestTyped
<1>r. \A e \in Engine : R(e) \in Radio
  BY Names DEF TakeoverInv
<1>2. TokensIssued' /\ TokensApart' /\ TokensInPlace'
  BY DEF TakeoverInv, TokensIssued, TokensApart, TokensInPlace, R
<1>s. StopsExclude'
  BY <1>r, Names DEF TakeoverInv, StopsExclude, R
<1>3. CallShape'
  BY <1>r DEF TakeoverInv, Typed, RadiosTyped, RadioState, CallShape, Owns, R
<1>4. OwnedStreams'
  BY <1>r DEF TakeoverInv, OwnedStreams, Owns, R
<1>5. Settled' /\ LeasesHeld' /\ SessionsHeld'
  BY DEF TakeoverInv, Settled, LeasesHeld, SessionsHeld, Without
<1>6. ReceiversParked' /\ ParkedQuiet' /\ ParkedIntact' /\ ReceiverInStep'
  BY <1>r DEF TakeoverInv, ReceiversParked, ParkedHere, ParkedQuiet, Handed, ParkedIntact,
         GivingBack, ReceiverInStep, Without, Owns, R
<1>7. StreamsWanted'
  BY <1>r DEF TakeoverInv, StreamsWanted, Streaming, CanUse, Without, Owns, R
<1>8. EnginesTuned'
  BY <1>r DEF TakeoverInv, EnginesTuned, Owns, R
<1>9. FlowTuned'
  BY <1>r DEF TakeoverInv, FlowTuned
<1>10. StreamsClean'
  BY <1>r DEF TakeoverInv, StreamsClean, Clean, InHands, Handed, Streaming, Live, Without, Owns, R
<1> QED
  BY <1>1, <1>2, <1>s, <1>3, <1>4, <1>5, <1>6, <1>7, <1>8, <1>9, <1>10 DEF TakeoverInv

(* ... and an open, a tune and a fault are such steps.                      *)
LEMMA StreamsStep ==
    ASSUME TakeoverInv, \E r \in Radio : Opens(r) \/ Applies(r) \/ Fault(r)
    PROVE  StreamStep
<1> USE DEF TakeoverInv, Typed, RadiosTyped, RadioState
<1>1. ASSUME NEW r \in Radio, Opens(r) PROVE StreamStep
  BY <1>1 DEF Opens, StreamStep, host, history
<1>2. ASSUME NEW r \in Radio, Applies(r) PROVE StreamStep
  BY <1>2 DEF Applies, Live, StreamStep, host, history
<1>3. ASSUME NEW r \in Radio, Fault(r) PROVE StreamStep
  BY <1>3 DEF Fault, Live, StreamStep, host, history
<1> QED
  BY <1>1, <1>2, <1>3
-----------------------------------------------------------------------------
(* What the beginnings of the engine calls have in common: a run flag may   *)
(* be cleared and a call begins for an engine that does not run; one that   *)
(* begins with a capture does so without a lease unless an unfinished       *)
(* session is overtaken.                                                    *)
CallStep ==
    /\ gui.at = "idle" /\ UNCHANGED <<use, radio, issued, sessions, rx, flow, listen>>
    /\ engine' \in [Engine -> EngineState] /\ posted' \in Seq([e : Engine, lease : Token])
    /\ excuses \subseteq excuses'
    /\ \A e \in Engine :
          /\ engine'[e].lease = engine[e].lease
          /\ engine'[e].prev = engine[e].prev
          /\ engine'[e].host = engine[e].host
          /\ engine'[e].run => engine[e].run
          /\ engine'[e].worker = engine[e].worker
    /\ \/ gui' = gui
       \/ \E at \in {"join", "restore", "prepare"}, op \in {"start", "arm", "stop"},
             e \in Engine, force \in BOOLEAN :
          /\ gui' = Call(at, op, e, force) /\ ~engine'[e].run
          /\ at = "prepare" /\ "overtaken" \notin excuses' => engine[e].lease = None

(* A new call carries nothing of an earlier one.                            *)
LEMMA NewCall ==
    ASSUME NEW at \in {"join", "restore", "prepare"}, NEW op \in {"start", "arm", "stop"},
           NEW e \in Engine, NEW force \in BOOLEAN
    PROVE  /\ Call(at, op, e, force) \in CallState
           /\ Call(at, op, e, force).at = at /\ Call(at, op, e, force).e = e
           /\ Call(at, op, e, force).token = None /\ Call(at, op, e, force).host = None
           /\ ~Call(at, op, e, force).ok
BY DEF CallState, Call, NoCall, Token

(* Such steps keep the invariant ...                                        *)
LEMMA CallsKeep ==
    ASSUME TakeoverInv, CallStep
    PROVE  TakeoverInv'
<1>u. /\ gui.at = "idle" /\ UNCHANGED <<use, radio, issued, sessions, rx, flow, listen>>
      /\ engine' \in [Engine -> EngineState] /\ posted' \in Seq([e : Engine, lease : Token])
      /\ excuses \subseteq excuses'
      /\ \A e \in Engine :
            /\ engine'[e].lease = engine[e].lease
            /\ engine'[e].prev = engine[e].prev
            /\ engine'[e].host = engine[e].host
            /\ engine'[e].run => engine[e].run
            /\ engine'[e].worker = engine[e].worker
  BY DEF CallStep
<1>t. gui.token = None /\ gui.host = None /\ ~gui.ok
  BY <1>u DEF TakeoverInv, CallShape
<1>c. /\ gui' \in CallState
      /\ gui'.token = None /\ gui'.host = None /\ ~gui'.ok
      /\ gui'.at \in {"idle", "join", "restore", "prepare"}
      /\ gui'.at # "idle" => gui'.e \in Engine
      /\ \A e \in Engine : gui'.e = e /\ gui'.at # "idle" =>
            /\ ~engine'[e].run
            /\ gui'.at = "prepare" /\ "overtaken" \notin excuses' => engine[e].lease = None
  <2>1. CASE gui' = gui
    BY <1>u, <1>t, <2>1 DEF TakeoverInv, Typed, CallTyped
  <2>2. ASSUME NEW at \in {"join", "restore", "prepare"}, NEW op \in {"start", "arm", "stop"},
               NEW e \in Engine, NEW force \in BOOLEAN,
               gui' = Call(at, op, e, force), ~engine'[e].run,
               at = "prepare" /\ "overtaken" \notin excuses' => engine[e].lease = None
        PROVE  <1>c!1 /\ <1>c!2 /\ <1>c!3 /\ <1>c!4 /\ <1>c!5
    BY <2>2, NewCall
  <2> QED
    BY <2>1, <2>2 DEF CallStep
<1>n. \A r \in Radio : sessions[r] # None => sessions[r].token # None
  BY SessionTokens DEF TakeoverInv
<1>1. Typed'
  BY <1>u, <1>c DEF TakeoverInv, Typed, RadiosTyped, EnginesTyped, CallTyped, HostTyped, RestTyped
<1>i. TokensIssued'
  BY <1>u, <1>c DEF TakeoverInv, TokensIssued
<1>a. TokensApart'
  BY <1>u, <1>c DEF TakeoverInv, TokensApart
<1>p. TokensInPlace'
  BY <1>u, <1>c, <1>n DEF TakeoverInv, TokensInPlace, R
<1>s. StopsExclude'
  BY <1>u, <1>c DEF TakeoverInv, StopsExclude, R
<1>3. CallShape' /\ OwnedStreams'
  BY <1>u, <1>t, <1>c DEF TakeoverInv, CallShape, OwnedStreams, Owns, R
<1>4. Settled' /\ LeasesHeld' /\ SessionsHeld'
  BY <1>u, <1>t, <1>c DEF TakeoverInv, Settled, LeasesHeld, SessionsHeld, Without
<1>5. ReceiversParked' /\ ParkedQuiet' /\ ParkedIntact' /\ ReceiverInStep'
  BY <1>u, <1>c DEF TakeoverInv, ReceiversParked, ParkedHere, ParkedQuiet, Handed, ParkedIntact,
         GivingBack, ReceiverInStep, Without, Owns, R
<1>6. StreamsWanted' /\ EnginesTuned' /\ FlowTuned'
  BY <1>u, <1>c DEF TakeoverInv, StreamsWanted, EnginesTuned, FlowTuned, Streaming, CanUse, Without, Owns, R
<1>7. StreamsClean'
  BY <1>u, <1>c DEF TakeoverInv, StreamsClean, Clean, InHands, Handed, Streaming, Live, Without, Owns, R
<1> QED
  BY <1>1, <1>i, <1>a, <1>p, <1>s, <1>3, <1>4, <1>5, <1>6, <1>7 DEF TakeoverInv

(* ... and start, stop, armPass, disarmPass and a queued cleanup begin so.  *)
LEMMA CallsStep ==
    ASSUME TakeoverInv,
           \/ \E e \in Engine : Stop(e) \/ \E force \in BOOLEAN : Start(e, force)
           \/ \E force \in BOOLEAN : Arm(force)
           \/ Disarm \/ Dispatch
    PROVE  CallStep
<1>1. Satcom \in Engine
  BY DEF Engine
<1>2. engine \in [Engine -> EngineState] /\ posted \in Seq([e : Engine, lease : Token])
  BY DEF TakeoverInv, Typed, EnginesTyped, RestTyped
<1>3. ASSUME NEW e \in Engine, NEW force \in BOOLEAN, Start(e, force) PROVE CallStep
  <2>1. gui.at = "idle" /\ UNCHANGED <<use, radio, issued, engine, posted, sessions, rx, flow, listen, excuses>>
    BY <1>3 DEF Start, Idle, devices, host, history
  <2>2. engine[e].worker = "none" /\ "overtaken" \notin excuses => engine[e].lease = None
    BY <2>1 DEF TakeoverInv, Settled, Without
  <2>3. \E at \in {"join", "restore", "prepare"} :
           /\ gui' = Call(at, "start", e, force)
           /\ at = "prepare" => engine[e].worker = "none"
    BY <1>3 DEF Start
  <2>4. ~engine[e].run
    BY <1>3 DEF Start
  <2> QED
    BY <1>2, <2>1, <2>2, <2>3, <2>4 DEF CallStep
<1>4. ASSUME NEW e \in Engine, Stop(e) PROVE CallStep
  <2>1. gui.at = "idle" /\ UNCHANGED <<use, radio, issued, posted, sessions, rx, flow, listen, excuses>>
    BY <1>4 DEF Stop, Idle, devices, host, history
  <2>2. engine' = [engine EXCEPT ![e].run = FALSE] /\ gui' = Call("join", "stop", e, FALSE)
    BY <1>4 DEF Stop
  <2>3. engine' \in [Engine -> EngineState] /\ ~engine'[e].run
    BY ZenonT(60), <1>2, <2>2 DEF EngineState
  <2> QED
    BY ZenonT(60), <1>2, <2>1, <2>2, <2>3 DEF CallStep, EngineState
<1>5. ASSUME NEW force \in BOOLEAN, Arm(force) PROVE CallStep
  <2>1. gui.at = "idle" /\ UNCHANGED <<use, radio, issued, posted, sessions, rx, flow, listen>>
    BY <1>5 DEF Arm, Idle, devices, host
  <2>2. engine' = [engine EXCEPT ![Satcom].run = FALSE]
    BY <1>5 DEF Arm
  <2>3. engine' \in [Engine -> EngineState] /\ ~engine'[Satcom].run
    BY ZenonT(60), <1>1, <1>2, <2>2 DEF EngineState
  <2>4. \E at \in {"join", "restore", "prepare"} :
           /\ gui' = Call(at, "arm", Satcom, force)
           /\ at = "prepare" => ~engine[Satcom].run
    BY <1>5 DEF Arm
  <2>5. /\ ~engine[Satcom].run /\ "overtaken" \notin excuses' => engine[Satcom].lease = None
        /\ excuses \subseteq excuses'
    BY <1>5 DEF Arm
  <2> QED
    BY <1>1, <1>2, <2>1, <2>2, <2>3, <2>4, <2>5 DEF CallStep, EngineState
<1>6. ASSUME Disarm PROVE CallStep
  <2>1. gui.at = "idle" /\ UNCHANGED <<use, radio, issued, posted, sessions, rx, flow, listen, excuses>>
    BY <1>6 DEF Disarm, Idle, devices, host, history
  <2>2. engine' = [engine EXCEPT ![Satcom].pass = FALSE, ![Satcom].run = FALSE]
    BY <1>6 DEF Disarm
  <2>3. engine' \in [Engine -> EngineState] /\ ~engine'[Satcom].run
    BY ZenonT(60), <1>1, <1>2, <2>2 DEF EngineState
  <2>4. \E at \in {"join", "restore", "prepare"} :
           gui' = Call(at, "stop", Satcom, FALSE) /\ at # "prepare"
    BY <1>6 DEF Disarm
  <2> QED
    BY <1>1, <1>2, <2>1, <2>2, <2>3, <2>4 DEF CallStep, EngineState
<1>7. ASSUME Dispatch PROVE CallStep
  <2>1. /\ gui.at = "idle" /\ posted # <<>> /\ posted' = Tail(posted)
        /\ UNCHANGED <<use, radio, issued, engine, sessions, rx, flow, listen, excuses>>
    BY <1>7 DEF Dispatch, Idle, devices, host, history
  <2>2. PICK p : p = Head(posted)
    OBVIOUS
  <2>3. p.e \in Engine /\ posted' \in Seq([e : Engine, lease : Token])
    <3>1. p \in [e : Engine, lease : Token] /\ Tail(posted) \in Seq([e : Engine, lease : Token])
      BY <1>2, <2>1, <2>2, HeadTailProperties
    <3> QED
      BY <2>1, <3>1
  <2>4. \/ gui' = gui
        \/ ~engine[p.e].run /\ \E at \in {"join", "restore", "prepare"} :
              gui' = Call(at, "stop", p.e, FALSE) /\ at # "prepare"
    BY <1>7, <2>2 DEF Dispatch
  <2> QED
    BY <1>2, <2>1, <2>3, <2>4 DEF CallStep
<1> QED
  BY <1>3, <1>4, <1>5, <1>6, <1>7
-----------------------------------------------------------------------------
(* What the user's Listen operations have in common: they touch radios that *)
(* can be used and nothing else, and a radio that streams afterwards is one *)
(* the user now listens to.                                                 *)
EditStep ==
    /\ gui.at = "idle" /\ UNCHANGED <<use, issued, engine, gui, posted, sessions, flow>>
    /\ radio' \in [Radio -> RadioState]
    /\ rx' \in [active : BOOLEAN, setting : 0..1, at : Radio]
    /\ listen' \in [active : BOOLEAN, on : SUBSET Radio]
    /\ excuses \subseteq excuses'
    /\ rx'.active = listen'.active /\ CanUse(rx'.at)
    /\ \A r \in Radio :
          /\ radio'[r].lease = radio[r].lease
          /\ radio'[r].stopping = radio[r].stopping
          /\ ~CanUse(r) => radio'[r] = radio[r] /\ (r \in listen.on => r \in listen'.on)
          /\ CanUse(r) /\ radio'[r].stream # "off" =>
                /\ r \in listen'.on
                /\ "cold" \notin excuses' => radio'[r].want \notin Engine
                /\ radio'[r].stream = "live" =>
                      radio[r].stream = "live" /\ radio'[r].centre = radio[r].centre

(* Such steps keep the invariant ...                                        *)
LEMMA EditsKeep ==
    ASSUME TakeoverInv, EditStep
    PROVE  TakeoverInv'
<1>u. /\ gui.at = "idle" /\ UNCHANGED <<use, issued, engine, gui, posted, sessions, flow>>
      /\ radio' \in [Radio -> RadioState]
      /\ rx' \in [active : BOOLEAN, setting : 0..1, at : Radio]
      /\ listen' \in [active : BOOLEAN, on : SUBSET Radio]
      /\ excuses \subseteq excuses'
      /\ rx'.active = listen'.active /\ radio[rx'.at].lease = None
  BY DEF EditStep, CanUse
<1>l. \A r \in Radio :
         /\ radio'[r].lease = radio[r].lease
         /\ radio'[r].stopping = radio[r].stopping
         /\ radio[r].lease # None => radio'[r] = radio[r]
         /\ radio[r].lease # None /\ r \in listen.on => r \in listen'.on
  BY DEF EditStep, CanUse
<1>r. \A e \in Engine : R(e) \in Radio
  BY Names DEF TakeoverInv
<1>z. use.flow \in Radio
  BY Names DEF TakeoverInv
<1>1. Typed'
  BY <1>u, <1>l, <1>r DEF TakeoverInv, Typed, RadiosTyped, EnginesTyped, CallTyped, HostTyped, RestTyped
<1>2. TokensIssued'
  BY <1>u, <1>l, <1>r DEF TakeoverInv, TokensIssued
<1>3. TokensApart'
  BY <1>u, <1>l, <1>r DEF TakeoverInv, TokensApart
<1>4. TokensInPlace'
  BY <1>u, <1>l, <1>r DEF TakeoverInv, TokensInPlace, R
<1>5. StopsExclude'
  BY <1>u, <1>l, <1>r, <1>z DEF TakeoverInv, StopsExclude, R
<1>6. CallShape'
  BY <1>u, <1>l, <1>r DEF TakeoverInv, CallShape, Owns, R
<1>7. OwnedStreams'
  BY <1>u, <1>l, <1>r DEF TakeoverInv, OwnedStreams, Owns, R
<1>8. Settled'
  BY <1>u, <1>l, <1>r DEF TakeoverInv, Settled, Without
<1>9. LeasesHeld'
  BY <1>u, <1>l, <1>r DEF TakeoverInv, LeasesHeld, Without
<1>10. SessionsHeld'
  BY <1>u, <1>l, <1>r DEF TakeoverInv, SessionsHeld
<1>11. ReceiversParked'
  BY <1>u, <1>l, <1>r DEF TakeoverInv, ReceiversParked, ParkedHere, Without, Owns, R
<1>12. ParkedQuiet'
  BY <1>u, <1>l, <1>r DEF TakeoverInv, ParkedQuiet, Handed, Without, Owns, R
<1>13. ParkedIntact'
  BY <1>u, <1>l, <1>r DEF TakeoverInv, ParkedIntact, GivingBack, Without, Owns, R
<1>14. ReceiverInStep'
  BY <1>u, <1>l, <1>r DEF TakeoverInv, ReceiverInStep, Without
<1>15. StreamsWanted'
  BY <1>u, <1>l, <1>r DEF TakeoverInv, StreamsWanted, Streaming, CanUse, Without, Owns, R, EditStep
<1>16. StreamsClean'
  BY <1>u, <1>l, <1>r DEF TakeoverInv, StreamsClean, Clean, InHands, Handed, Streaming, Live, Without, Owns, R, EditStep, CanUse
<1>17. EnginesTuned'
  BY <1>u, <1>l, <1>r DEF TakeoverInv, EnginesTuned, Owns, R
<1>18. FlowTuned'
  BY <1>u, <1>l, <1>r DEF TakeoverInv, FlowTuned
<1> QED
  BY <1>1, <1>2, <1>3, <1>4, <1>5, <1>6, <1>7, <1>8, <1>9, <1>10, <1>11, <1>12, <1>13, <1>14, <1>15, <1>16, <1>17, <1>18 DEF TakeoverInv

(* ... and a tune, an Apply and an Apply with nothing enabled are such      *)
(* steps.                                                                   *)
LEMMA EditsStep ==
    ASSUME TakeoverInv, ListenTune \/ ListenOff \/ \E r \in Radio : ListenApply(r)
    PROVE  EditStep
<1>1. /\ radio \in [Radio -> RadioState]
      /\ rx \in [active : BOOLEAN, setting : 0..1, at : Radio]
      /\ listen \in [active : BOOLEAN, on : SUBSET Radio]
  BY DEF TakeoverInv, Typed, RadiosTyped, HostTyped
<1>2. Listen \in Centre /\ Listen \notin Engine
  BY Names DEF TakeoverInv, Centre
<1>3. ASSUME NEW r \in Radio, NEW again \in BOOLEAN, NEW started \in Starts(r, again),
             NEW want \in Centre, CanUse(r), radio' = Receive(r, again, started, want)
      PROVE  /\ radio' \in [Radio -> RadioState]
             /\ \A q \in Radio :
                  /\ radio'[q].lease = radio[q].lease
                  /\ radio'[q].stopping = radio[q].stopping
                  /\ radio'[q].centre = radio[q].centre
                  /\ ~CanUse(q) => radio'[q] = radio[q]
                  /\ q \in Unused(r) => radio'[q].stream = "off"
                  /\ radio'[q].stream = "live" => radio[q].stream = "live"
             /\ radio'[r].want = want
             /\ ~started => radio'[r].stream = "off"
  <2>0. Starts(r, again) \subseteq BOOLEAN
    BY DEF Starts
  <2>1. ASSUME NEW q \in Radio
        PROVE  /\ radio'[q] \in RadioState
               /\ radio'[q].lease = radio[q].lease
               /\ radio'[q].stopping = radio[q].stopping
               /\ radio'[q].centre = radio[q].centre
               /\ ~CanUse(q) => radio'[q] = radio[q]
               /\ q \in Unused(r) => radio'[q].stream = "off"
               /\ radio'[q].stream = "live" => radio[q].stream = "live"
               /\ q = r => radio'[q].want = want
               /\ q = r /\ ~started => radio'[q].stream = "off"
    <3>0. radio[q] \in RadioState
      BY <1>1
    <3>1. CASE q \in Unused(r)
      <4>1. radio'[q] = [radio[q] EXCEPT !.stream = "off"] /\ q # r /\ CanUse(q)
        BY <1>3, <3>1 DEF Receive, Unused
      <4> QED
        BY <3>0, <3>1, <4>1 DEF RadioState
    <3>2. CASE q \notin Unused(r) /\ q # r
      BY <1>3, <3>0, <3>2 DEF Receive
    <3>3. CASE q = r
      <4>1. PICK st \in {"off", "opening", "live", "stub"} :
               /\ radio'[q] = [radio[q] EXCEPT !.want = want, !.stream = st]
               /\ st = "live" => radio[q].stream = "live"
               /\ ~started => st = "off"
        <5> DEFINE st == IF radio[q].stream = "off" \/ (again /\ radio[q].stream = "stub")
                            THEN IF started THEN "opening" ELSE "off" ELSE radio[q].stream
        <5>1. radio'[q] = [radio[q] EXCEPT !.want = want, !.stream = st]
          BY <1>3, <3>3 DEF Receive, Unused
        <5>2. st \in {"off", "opening", "live", "stub"} /\ (st = "live" => radio[q].stream = "live")
          BY <3>0 DEF RadioState
        <5>3. ~started => st = "off"
          BY <3>3 DEF Starts, Streaming
        <5> QED
          BY <5>1, <5>2, <5>3
      <4>2. q \notin Unused(r)
        BY <3>3 DEF Unused
      <4> QED
        BY <3>0, <3>3, <4>1, <4>2, <1>3 DEF RadioState
    <3> QED
      BY <3>1, <3>2, <3>3
  <2>2. DOMAIN radio' = Radio /\ radio' = [q \in Radio |-> radio'[q]]
    BY <1>3 DEF Receive
  <2> QED
    BY <2>1, <2>2
<1>4. ASSUME ListenTune PROVE EditStep
  <2>1. PICK r \in Radio : r = rx.at /\ CanUse(r)
    BY <1>1, <1>4 DEF ListenTune
  <2>2. PICK started \in Starts(r, FALSE) :
          /\ radio' = Receive(r, FALSE, started, IF started THEN Listen ELSE radio[r].want)
          /\ rx' = [rx EXCEPT !.active = started]
          /\ listen' = [active |-> started, on |-> (listen.on \ Unused(r)) \cup {q \in {r} : started}]
    BY <1>4, <2>1 DEF ListenTune
  <2>3. PICK want \in Centre : want = IF started THEN Listen ELSE radio[r].want
    BY <1>1, <1>2 DEF RadioState
  <2>4. started \in BOOLEAN
    BY DEF Starts
  <2>5. gui.at = "idle" /\ UNCHANGED <<use, issued, engine, gui, posted, sessions, flow, excuses>>
    BY <1>4 DEF ListenTune, Edit, Idle
  <2>6. /\ rx' \in [active : BOOLEAN, setting : 0..1, at : Radio] /\ rx'.at = r /\ rx'.active = started
        /\ listen' \in [active : BOOLEAN, on : SUBSET Radio] /\ listen'.active = started
        /\ listen'.on = (listen.on \ Unused(r)) \cup {q \in {r} : started}
    BY <1>1, <2>1, <2>2, <2>4
  <2>7. /\ radio' \in [Radio -> RadioState]
        /\ \A q \in Radio :
             /\ radio'[q].lease = radio[q].lease
             /\ radio'[q].stopping = radio[q].stopping
             /\ radio'[q].centre = radio[q].centre
             /\ ~CanUse(q) => radio'[q] = radio[q]
             /\ q \in Unused(r) => radio'[q].stream = "off"
             /\ radio'[q].stream = "live" => radio[q].stream = "live"
        /\ radio'[r].want = want
        /\ ~started => radio'[r].stream = "off"
    <3>0. PICK again \in BOOLEAN : again = FALSE
      OBVIOUS
    <3>1. radio' = Receive(r, again, started, want) /\ started \in Starts(r, again)
      BY <2>2, <2>3, <3>0
    <3> QED
      BY <1>3, <2>1, <3>1
  <2>8. ASSUME NEW q \in Radio
        PROVE  /\ ~CanUse(q) /\ q \in listen.on => q \in listen'.on
               /\ CanUse(q) /\ radio'[q].stream # "off" =>
                     q \in listen'.on /\ ("cold" \notin excuses' => radio'[q].want \notin Engine)
    <3>1. CASE q = r
      <4>1. q \notin Unused(r)
        BY <3>1 DEF Unused
      <4>2. started => q \in listen'.on
        BY <2>6, <3>1
      <4>3. "cold" \notin excuses' /\ started => want \notin Engine
        BY <1>2, <2>3, <2>5
      <4> QED
        BY <2>1, <2>4, <2>7, <3>1, <4>2, <4>3
    <3>2. CASE q # r
      <4>1. CanUse(q) <=> q \in Unused(r)
        BY <3>2 DEF Unused
      <4>2. q \in listen.on /\ q \notin Unused(r) => q \in listen'.on
        BY <2>6, <3>2
      <4> QED
        BY <2>7, <4>1, <4>2
    <3> QED
      BY <3>1, <3>2
  <2> QED
    BY <2>1, <2>5, <2>6, <2>7, <2>8 DEF EditStep
<1>5. ASSUME NEW r \in Radio, ListenApply(r) PROVE EditStep
  <2>1. CanUse(r)
    BY <1>5 DEF ListenApply
  <2>2. PICK started \in Starts(r, TRUE) :
          /\ radio' = Receive(r, TRUE, started, radio[r].want)
          /\ rx' = [rx EXCEPT !.at = r, !.active = started]
          /\ listen' = [active |-> started,
                         on |-> (listen.on \ (Unused(r) \cup {r})) \cup {q \in {r} : started}]
    BY <1>5 DEF ListenApply
  <2>3. PICK want \in Centre : want = radio[r].want
    BY <1>1 DEF RadioState
  <2>4. started \in BOOLEAN
    BY DEF Starts
  <2>5. /\ gui.at = "idle" /\ UNCHANGED <<use, issued, engine, gui, posted, sessions, flow>>
        /\ excuses \subseteq excuses' /\ ("cold" \notin excuses' => want \notin Engine)
    BY <1>5, <2>3 DEF ListenApply, Edit, Idle
  <2>6. /\ rx' \in [active : BOOLEAN, setting : 0..1, at : Radio] /\ rx'.at = r /\ rx'.active = started
        /\ listen' \in [active : BOOLEAN, on : SUBSET Radio] /\ listen'.active = started
        /\ listen'.on = (listen.on \ (Unused(r) \cup {r})) \cup {q \in {r} : started}
    BY <1>1, <2>1, <2>2, <2>4
  <2>7. /\ radio' \in [Radio -> RadioState]
        /\ \A q \in Radio :
             /\ radio'[q].lease = radio[q].lease
             /\ radio'[q].stopping = radio[q].stopping
             /\ radio'[q].centre = radio[q].centre
             /\ ~CanUse(q) => radio'[q] = radio[q]
             /\ q \in Unused(r) => radio'[q].stream = "off"
             /\ radio'[q].stream = "live" => radio[q].stream = "live"
        /\ radio'[r].want = want
        /\ ~started => radio'[r].stream = "off"
    <3>0. PICK again \in BOOLEAN : again = TRUE
      OBVIOUS
    <3>1. radio' = Receive(r, again, started, want) /\ started \in Starts(r, again)
      BY <2>2, <2>3, <3>0
    <3> QED
      BY <1>3, <2>1, <3>1
  <2>8. ASSUME NEW q \in Radio
        PROVE  /\ ~CanUse(q) /\ q \in listen.on => q \in listen'.on
               /\ CanUse(q) /\ radio'[q].stream # "off" =>
                     q \in listen'.on /\ ("cold" \notin excuses' => radio'[q].want \notin Engine)
    <3>1. CASE q = r
      <4>1. q \notin Unused(r)
        BY <3>1 DEF Unused
      <4>2. started => q \in listen'.on
        BY <2>6, <3>1
      <4>3. "cold" \notin excuses' /\ started => want \notin Engine
        BY <1>2, <2>3, <2>5
      <4> QED
        BY <2>1, <2>4, <2>7, <3>1, <4>2, <4>3
    <3>2. CASE q # r
      <4>1. CanUse(q) <=> q \in Unused(r)
        BY <3>2 DEF Unused
      <4>2. q \in listen.on /\ q \notin Unused(r) => q \in listen'.on
        BY <2>6, <3>2
      <4> QED
        BY <2>7, <4>1, <4>2
    <3> QED
      BY <3>1, <3>2
  <2> QED
    BY <2>1, <2>5, <2>6, <2>7, <2>8 DEF EditStep
<1>6. ASSUME ListenOff PROVE EditStep
  <2>1. /\ gui.at = "idle" /\ UNCHANGED <<use, issued, engine, gui, posted, sessions, flow, excuses>>
        /\ CanUse(rx.at)
        /\ radio' = [q \in Radio |-> IF CanUse(q) THEN [radio[q] EXCEPT !.stream = "off"] ELSE radio[q]]
        /\ rx' = [rx EXCEPT !.active = FALSE]
        /\ listen' = [active |-> FALSE, on |-> {q \in listen.on : ~CanUse(q)}]
    BY <1>6 DEF ListenOff, Edit, Idle
  <2>2. ASSUME NEW q \in Radio
        PROVE  /\ radio'[q] \in RadioState
               /\ radio'[q].lease = radio[q].lease
               /\ radio'[q].stopping = radio[q].stopping
               /\ ~CanUse(q) => radio'[q] = radio[q]
               /\ CanUse(q) => radio'[q].stream = "off"
    <3>1. radio[q] \in RadioState
      BY <1>1
    <3>2. CASE CanUse(q)
      <4>1. radio'[q] = [radio[q] EXCEPT !.stream = "off"]
        BY <2>1, <3>2
      <4> QED
        BY <3>1, <3>2, <4>1 DEF RadioState
    <3>3. CASE ~CanUse(q)
      BY <2>1, <3>1, <3>3
    <3> QED
      BY <3>2, <3>3
  <2>3. radio' \in [Radio -> RadioState]
    BY <2>1, <2>2
  <2>4. /\ rx' \in [active : BOOLEAN, setting : 0..1, at : Radio] /\ rx'.at = rx.at /\ ~rx'.active
        /\ listen' \in [active : BOOLEAN, on : SUBSET Radio] /\ ~listen'.active
        /\ listen'.on = {q \in listen.on : ~CanUse(q)}
    BY <1>1, <2>1
  <2>5. rx'.active = listen'.active
    BY <1>1, <2>1
  <2> QED
    BY <2>1, <2>2, <2>3, <2>4, <2>5 DEF EditStep
<1> QED
  BY <1>4, <1>5, <1>6
-----------------------------------------------------------------------------
(* The mode box keeps the invariant: used during a takeover it is excused,  *)
(* and otherwise the receiver it activates has nothing parked.              *)
LEMMA ModeKeeps ==
    ASSUME TakeoverInv, ListenMode
    PROVE  TakeoverInv'
<1>u. /\ UNCHANGED <<use, radio, issued, engine, gui, posted, sessions, flow>>
      /\ excuses \subseteq excuses' /\ gui.at = "idle"
      /\ sessions[rx.at] # None => "mode" \in excuses'
  BY DEF ListenMode, Edit, Idle, devices
<1>l. PICK active \in BOOLEAN :
         /\ rx' = [rx EXCEPT !.setting = 1 - @, !.active = active]
         /\ listen' = [listen EXCEPT !.active = active]
  BY DEF TakeoverInv, Typed, HostTyped, ListenMode
<1>h. /\ rx' \in [active : BOOLEAN, setting : 0..1, at : Radio] /\ rx'.at = rx.at
      /\ listen' \in [active : BOOLEAN, on : SUBSET Radio] /\ listen'.on = listen.on
      /\ rx'.active = active /\ listen'.active = active /\ rx.at \in Radio
  <2>1. /\ rx \in [active : BOOLEAN, setting : 0..1, at : Radio]
        /\ listen \in [active : BOOLEAN, on : SUBSET Radio]
    BY DEF TakeoverInv, Typed, HostTyped
  <2>2. 1 - rx.setting \in 0..1
    BY <2>1
  <2> QED
    BY <1>l, <2>1, <2>2
<1>1. Typed'
  BY <1>u, <1>h DEF TakeoverInv, Typed, RadiosTyped, EnginesTyped, CallTyped, HostTyped, RestTyped
<1>2. TokensIssued'
  BY <1>u, <1>h DEF TakeoverInv, TokensIssued
<1>3. TokensApart'
  BY <1>u, <1>h DEF TakeoverInv, TokensApart
<1>4. TokensInPlace'
  BY <1>u, <1>h DEF TakeoverInv, TokensInPlace, R
<1>5. StopsExclude'
  BY <1>u, <1>h DEF TakeoverInv, StopsExclude, R
<1>6. CallShape'
  BY <1>u, <1>h DEF TakeoverInv, CallShape, Owns, R
<1>7. OwnedStreams'
  BY <1>u, <1>h DEF TakeoverInv, OwnedStreams, Owns, R
<1>8. Settled'
  BY <1>u, <1>h DEF TakeoverInv, Settled, Without
<1>9. LeasesHeld'
  BY <1>u, <1>h DEF TakeoverInv, LeasesHeld, Without
<1>10. SessionsHeld'
  BY <1>u, <1>h DEF TakeoverInv, SessionsHeld
<1>11. ReceiversParked'
  BY <1>u, <1>h DEF TakeoverInv, ReceiversParked, ParkedHere, Without, Owns, R
<1>12. ParkedQuiet'
  BY <1>u, <1>h DEF TakeoverInv, ParkedQuiet, Handed, Without, Owns, R, ReceiversParked, ParkedHere
<1>13. ParkedIntact'
  BY <1>u, <1>h DEF TakeoverInv, ParkedIntact, GivingBack, Without, Owns, R, ReceiversParked, ParkedHere, CallShape
<1>14. ReceiverInStep'
  BY <1>u, <1>h DEF TakeoverInv, ReceiverInStep, Without
<1>15. StreamsWanted'
  BY <1>u, <1>h DEF TakeoverInv, StreamsWanted, Streaming, CanUse, Without, Owns, R
<1>16. StreamsClean'
  BY <1>u, <1>h DEF TakeoverInv, StreamsClean, Clean, InHands, Handed, Streaming, Live, Without, Owns, R
<1>17. EnginesTuned'
  BY <1>u, <1>h DEF TakeoverInv, EnginesTuned, Owns, R
<1>18. FlowTuned'
  BY <1>u, <1>h DEF TakeoverInv, FlowTuned
<1> QED
  BY <1>1, <1>2, <1>3, <1>4, <1>5, <1>6, <1>7, <1>8, <1>9, <1>10, <1>11, <1>12, <1>13, <1>14, <1>15, <1>16, <1>17, <1>18 DEF TakeoverInv

(* A rescan keeps the invariant: it takes away streams and leases, never    *)
(* the lease of a radio that goes on streaming.                             *)
LEMMA RescanKeeps ==
    ASSUME TakeoverInv, Rescan
    PROVE  TakeoverInv'
<1>u. /\ UNCHANGED <<use, issued, engine, gui, posted, sessions, rx, flow, excuses>>
      /\ gui.at = "idle"
  BY DEF Rescan, Idle, host
<1>g. gui.token = None /\ gui.host = None /\ ~gui.ok
  BY <1>u DEF TakeoverInv, CallShape
<1>j. radio \in [Radio -> RadioState]
  BY DEF TakeoverInv, Typed, RadiosTyped
<1>l. \A r \in Radio :
         /\ radio'[r] \in RadioState
         /\ radio[r].stopping => radio'[r] = radio[r]
         /\ ~radio[r].stopping => radio'[r].stream = "off"
         /\ radio'[r].stopping = radio[r].stopping
         /\ radio'[r].want = radio[r].want /\ radio'[r].centre = radio[r].centre
         /\ radio'[r].lease # None =>
               /\ radio'[r].lease = radio[r].lease
               /\ radio[r].stopping \/ radio[r].stream = "off"
  <2> TAKE r \in Radio
  <2> DEFINE deferred == \E q \in Radio : radio[q].stopping
  <2>1. CASE radio[r].stopping
    <3>1. radio'[r] = radio[r]
      BY <2>1 DEF Rescan
    <3> QED
      BY <1>j, <2>1, <3>1
  <2>2. CASE ~radio[r].stopping
    <3>1. radio'[r] = [radio[r] EXCEPT !.stream = "off",
                          !.lease = IF deferred /\ ~Streaming(r) THEN @ ELSE None]
      BY <2>2 DEF Rescan
    <3> HIDE DEF deferred
    <3>2. radio[r] \in RadioState
      BY <1>j
    <3> QED
      BY <2>2, <3>1, <3>2 DEF RadioState, Token, Streaming
  <2> QED
    BY <2>1, <2>2
<1>d. radio' \in [Radio -> RadioState]
  <2>1. radio' = [r \in Radio |-> radio'[r]]
    BY DEF Rescan
  <2> QED
    BY <1>l, <2>1
<1>h. /\ listen' \in [active : BOOLEAN, on : SUBSET Radio] /\ listen'.active = listen.active
      /\ listen'.on = {r \in listen.on : radio[r].stopping}
  BY DEF Rescan, TakeoverInv, Typed, HostTyped
<1>r. use.flow \in Radio /\ \A e \in Engine : R(e) \in Radio
  BY Names DEF TakeoverInv
<1>o. \A e \in Engine : Owns(e)' => Owns(e) /\ radio[R(e)].stopping /\ radio'[R(e)] = radio[R(e)]
  <2> TAKE e \in Engine
  <2>1. Owns(e)' => Owns(e) /\ (radio[R(e)].stopping \/ radio[R(e)].stream = "off")
    BY <1>u, <1>l, <1>r DEF Owns, R
  <2>2. Owns(e) => radio[R(e)].stream # "off"
    BY <1>u DEF TakeoverInv, OwnedStreams
  <2> QED
    BY <2>1, <2>2, <1>l, <1>r
<1>1. Typed'
  BY <1>u, <1>g, <1>l, <1>r, <1>d, <1>h DEF TakeoverInv, Typed, RadiosTyped, EnginesTyped, CallTyped, HostTyped, RestTyped
<1>2. TokensIssued'
  BY <1>u, <1>g, <1>l, <1>r, <1>d, <1>h DEF TakeoverInv, TokensIssued
<1>3. TokensApart'
  BY <1>u, <1>g, <1>l, <1>r, <1>d, <1>h DEF TakeoverInv, TokensApart
<1>4. TokensInPlace'
  BY <1>u, <1>g, <1>l, <1>r, <1>d, <1>h DEF TakeoverInv, TokensInPlace, R
<1>5. StopsExclude'
  BY <1>u, <1>g, <1>l, <1>r, <1>d, <1>h DEF TakeoverInv, StopsExclude, R
<1>6. CallShape'
  BY <1>u, <1>g, <1>l, <1>r, <1>d, <1>h DEF TakeoverInv, CallShape, Owns, R
<1>7. OwnedStreams'
  BY <1>u, <1>g, <1>l, <1>r, <1>d, <1>h, <1>o DEF TakeoverInv, OwnedStreams, Owns, R
<1>8. Settled'
  BY <1>u, <1>g, <1>l, <1>r, <1>d, <1>h DEF TakeoverInv, Settled, Without
<1>9. LeasesHeld'
  BY <1>u, <1>g, <1>l, <1>r, <1>d, <1>h DEF TakeoverInv, LeasesHeld, Without
<1>10. SessionsHeld'
  BY <1>u, <1>g, <1>l, <1>r, <1>d, <1>h DEF TakeoverInv, SessionsHeld
<1>11. ReceiversParked'
  BY <1>u, <1>g, <1>l, <1>r, <1>d, <1>h, <1>o DEF TakeoverInv, ReceiversParked, ParkedHere, Without, Owns, R
<1>12. ParkedQuiet'
  BY <1>u, <1>g, <1>l, <1>r, <1>d, <1>h, <1>o DEF TakeoverInv, ParkedQuiet, Handed, Without, Owns, R
<1>13. ParkedIntact'
  BY <1>u, <1>g, <1>l, <1>r, <1>d, <1>h, <1>o DEF TakeoverInv, ParkedIntact, GivingBack, Without, Owns, R
<1>14. ReceiverInStep'
  BY <1>u, <1>g, <1>l, <1>r, <1>d, <1>h DEF TakeoverInv, ReceiverInStep, Without
<1>15. StreamsWanted'
  <2>2. \A e \in Engine : ~Owns(e)'
    BY <1>o, <1>r DEF TakeoverInv, StopsExclude, Owns
  <2> QED
    BY <1>u, <1>l, <1>h, <2>2 DEF TakeoverInv, StreamsWanted, Streaming, CanUse, Without, R
<1>16. StreamsClean'
  <2>1. \A r \in Radio : radio'[r].stream # "off" =>
           radio'[r] = radio[r] /\ ~InHands(r)
    BY <1>u, <1>l, <1>r DEF TakeoverInv, StopsExclude, InHands, Handed, Owns, R
  <2>2. \A e \in Engine : ~Owns(e)'
    BY <1>o, <1>r DEF TakeoverInv, StopsExclude, Owns
  <2> QED
    BY <1>u, <2>1, <2>2 DEF TakeoverInv, StreamsClean, Clean, Live, Streaming, Without, R
<1>17. EnginesTuned'
  BY <1>u, <1>g, <1>l, <1>r, <1>d, <1>h, <1>o DEF TakeoverInv, EnginesTuned, Owns, R
<1>18. FlowTuned'
  BY <1>u, <1>g, <1>l, <1>r, <1>d, <1>h DEF TakeoverInv, FlowTuned
<1> QED
  BY <1>1, <1>2, <1>3, <1>4, <1>5, <1>6, <1>7, <1>8, <1>9, <1>10, <1>11, <1>12, <1>13, <1>14, <1>15, <1>16, <1>17, <1>18 DEF TakeoverInv

(* A workflow that looks at its radio keeps the invariant.                  *)
LEMMA LooksKeep ==
    ASSUME TakeoverInv, FlowLooks \/ FlowFails
    PROVE  TakeoverInv'
<1>u. UNCHANGED <<use, radio, issued, engine, gui, posted, sessions, rx, listen, excuses>>
  BY DEF FlowLooks, FlowFails, devices, host, history
<1>l. PICK pc \in {"wait", "owner", "label", "ready", "stop"} :
         /\ flow.pc \in {"wait", "owner", "label"}
         /\ flow' = [flow EXCEPT !.pc = pc]
         /\ pc = "ready" => radio[use.flow].centre = radio[use.flow].want
  BY DEF FlowLooks, FlowFails, Flow
<1>h. flow' \in FlowState /\ flow'.pc = pc /\ flow'.token = flow.token
  BY <1>l DEF TakeoverInv, Typed, RestTyped, FlowState
<1>r. use.flow \in Radio /\ \A e \in Engine : R(e) \in Radio
  BY Names DEF TakeoverInv
<1>1. Typed'
  BY <1>u, <1>h DEF TakeoverInv, Typed, RadiosTyped, EnginesTyped, CallTyped, HostTyped, RestTyped
<1>2. TokensIssued'
  BY <1>u, <1>h DEF TakeoverInv, TokensIssued
<1>3. TokensApart'
  BY <1>u, <1>h DEF TakeoverInv, TokensApart
<1>4. TokensInPlace'
  BY <1>u, <1>h DEF TakeoverInv, TokensInPlace, R
<1>5. StopsExclude'
  BY <1>u, <1>h DEF TakeoverInv, StopsExclude, R
<1>6. CallShape'
  BY <1>u, <1>h DEF TakeoverInv, CallShape, Owns, R
<1>7. OwnedStreams'
  BY <1>u, <1>h DEF TakeoverInv, OwnedStreams, Owns, R
<1>8. Settled'
  BY <1>u, <1>h DEF TakeoverInv, Settled, Without
<1>9. LeasesHeld'
  BY <1>u, <1>h DEF TakeoverInv, LeasesHeld, Without
<1>10. SessionsHeld'
  BY <1>u, <1>h DEF TakeoverInv, SessionsHeld
<1>11. ReceiversParked'
  BY <1>u, <1>h DEF TakeoverInv, ReceiversParked, ParkedHere, Without, Owns, R
<1>12. ParkedQuiet'
  BY <1>u, <1>h DEF TakeoverInv, ParkedQuiet, Handed, Without, Owns, R
<1>13. ParkedIntact'
  BY <1>u, <1>h DEF TakeoverInv, ParkedIntact, GivingBack, Without, Owns, R
<1>14. ReceiverInStep'
  BY <1>u, <1>h DEF TakeoverInv, ReceiverInStep, Without
<1>15. StreamsWanted'
  BY <1>u, <1>h DEF TakeoverInv, StreamsWanted, Streaming, CanUse, Without, Owns, R
<1>16. StreamsClean'
  BY <1>u, <1>h DEF TakeoverInv, StreamsClean, Clean, InHands, Handed, Streaming, Live, Without, Owns, R
<1>17. EnginesTuned'
  BY <1>u, <1>h DEF TakeoverInv, EnginesTuned, Owns, R
<1>18. FlowTuned'
  BY <1>u, <1>h, <1>l, <1>r DEF TakeoverInv, FlowTuned, TokensInPlace
<1> QED
  BY <1>1, <1>2, <1>3, <1>4, <1>5, <1>6, <1>7, <1>8, <1>9, <1>10, <1>11, <1>12, <1>13, <1>14, <1>15, <1>16, <1>17, <1>18 DEF TakeoverInv
-----------------------------------------------------------------------------
(* A workflow's claim keeps the invariant: the radio was off and unleased,  *)
(* and the id is new.                                                       *)
LEMMA FlowClaimKeeps ==
    ASSUME TakeoverInv, FlowClaims
    PROVE  TakeoverInv'
<1>j. /\ radio \in [Radio -> RadioState] /\ flow \in FlowState /\ issued \in Nat
      /\ use.flow \in Radio /\ \A e \in Engine : R(e) \in Radio
  BY Names DEF TakeoverInv, Typed, RadiosTyped, RestTyped
<1>u. /\ UNCHANGED <<use, engine, gui, posted, sessions, rx, listen, excuses>>
      /\ flow.pc = "idle" /\ issued' = issued + 1
      /\ radio[use.flow].lease = None /\ ~radio[use.flow].stopping /\ radio[use.flow].stream = "off"
  BY DEF FlowClaims, CanUse, Streaming, host, history
<1>q. Air \in Centre /\ Air \notin Engine
  BY Names DEF TakeoverInv, Centre
<1>h. PICK st \in {"off", "opening"}, pc \in {"wait", "stop"} :
         /\ radio' = [radio EXCEPT ![use.flow].lease = issued + 1, ![use.flow].want = Air,
                          ![use.flow].stream = st]
         /\ flow' = [pc |-> pc, token |-> issued + 1]
  <2>1. PICK opened \in BOOLEAN :
          /\ radio' = [radio EXCEPT ![use.flow].lease = issued + 1, ![use.flow].want = Air,
                          ![use.flow].stream = IF opened THEN "opening" ELSE @]
          /\ flow' = [pc |-> IF opened THEN "wait" ELSE "stop", token |-> issued + 1]
    BY DEF FlowClaims
  <2>2. CASE opened
    BY <2>1, <2>2
  <2>3. CASE ~opened
    BY <1>j, <1>u, <2>1, <2>3
  <2> QED
    BY <2>2, <2>3
<1>l. /\ radio' \in [Radio -> RadioState]
      /\ \A r \in Radio :
            /\ r # use.flow => radio'[r] = radio[r]
            /\ radio'[r].stopping = radio[r].stopping
      /\ radio'[use.flow].lease = issued + 1 /\ radio'[use.flow].want = Air
      /\ radio'[use.flow].stream = st
  BY <1>j, <1>q, <1>h DEF RadioState, Token
<1>g. flow' \in FlowState /\ flow'.pc = pc /\ flow'.token = issued + 1 /\ issued' \in Nat
  BY <1>h, <1>u, <1>j DEF FlowState, Token
<1>o. \A e \in Engine : Owns(e)' => Owns(e) /\ R(e) # use.flow
  BY <1>u, Fresh, <1>l, <1>j DEF Owns, R
<1>1. Typed'
  BY <1>u, <1>j, <1>l, <1>g, Fresh DEF TakeoverInv, Typed, RadiosTyped, EnginesTyped, CallTyped, HostTyped, RestTyped
<1>2. TokensIssued'
  BY <1>u, <1>j, <1>l, <1>g, Fresh DEF TakeoverInv, TokensIssued
<1>3. TokensApart'
  BY <1>u, <1>j, <1>l, <1>g, Fresh DEF TakeoverInv, TokensApart
<1>4. TokensInPlace'
  BY <1>u, <1>j, <1>l, <1>g, Fresh DEF TakeoverInv, TokensInPlace, R
<1>5. StopsExclude'
  BY <1>u, <1>j, <1>l, <1>g, Fresh DEF TakeoverInv, StopsExclude, R
<1>6. CallShape'
  BY <1>u, <1>j, <1>l, <1>g, Fresh, <1>o DEF TakeoverInv, CallShape, Owns, R
<1>7. OwnedStreams'
  BY <1>u, <1>j, <1>l, <1>g, Fresh, <1>o DEF TakeoverInv, OwnedStreams, Owns, R
<1>8. Settled'
  BY <1>u, <1>j, <1>l, <1>g, Fresh DEF TakeoverInv, Settled, Without
<1>9. LeasesHeld'
  BY <1>u, <1>j, <1>l, <1>g, Fresh DEF TakeoverInv, LeasesHeld, Without, FlowTuned
<1>10. SessionsHeld'
  BY <1>u, <1>j, <1>l, <1>g, Fresh DEF TakeoverInv, SessionsHeld
<1>11. ReceiversParked'
  BY <1>u, <1>j, <1>l, <1>g, Fresh, <1>o DEF TakeoverInv, ReceiversParked, ParkedHere, Without, Owns, R
<1>12. ParkedQuiet'
  BY <1>u, <1>j, <1>l, <1>g, Fresh, <1>o DEF TakeoverInv, ParkedQuiet, Handed, Without, Owns, R
<1>13. ParkedIntact'
  BY SMTT(30), <1>u, <1>j, <1>l, <1>g, Fresh, <1>o DEF TakeoverInv, ParkedIntact, GivingBack, Without, Owns, R
<1>14. ReceiverInStep'
  BY <1>u, <1>j, <1>l, <1>g, Fresh DEF TakeoverInv, ReceiverInStep, Without
<1>15. StreamsWanted'
  BY <1>u, <1>j, <1>l, <1>g, Fresh, <1>o DEF TakeoverInv, StreamsWanted, Streaming, CanUse, Without, Owns, R
<1>16. StreamsClean'
  BY SMTT(30), <1>u, <1>j, <1>l, <1>g, Fresh, <1>o, <1>q DEF TakeoverInv, StreamsClean, Clean, InHands, Handed, Streaming, Live, Without, Owns, R
<1>17. EnginesTuned'
  BY <1>u, <1>j, <1>l, <1>g, Fresh, <1>o DEF TakeoverInv, EnginesTuned, Owns, R
<1>18. FlowTuned'
  BY <1>u, <1>j, <1>l, <1>g, Fresh DEF TakeoverInv, FlowTuned
<1> QED
  BY <1>1, <1>2, <1>3, <1>4, <1>5, <1>6, <1>7, <1>8, <1>9, <1>10, <1>11, <1>12, <1>13, <1>14, <1>15, <1>16, <1>17, <1>18 DEF TakeoverInv

(* A workflow that begins to stop its radio keeps the invariant; it does so *)
(* only under its own lease.                                                *)
LEMMA FlowStopKeeps ==
    ASSUME TakeoverInv, FlowStops
    PROVE  TakeoverInv'
<1>j. /\ radio \in [Radio -> RadioState] /\ flow \in FlowState /\ issued \in Nat
      /\ use.flow \in Radio /\ \A e \in Engine : R(e) \in Radio
  BY Names DEF TakeoverInv, Typed, RadiosTyped, RestTyped
<1>u. /\ UNCHANGED <<use, issued, engine, gui, posted, sessions, rx, listen, excuses>>
      /\ flow.pc \in {"ready", "stop"}
  BY DEF FlowStops, host, history
<1>h. PICK pc \in {"idle", "halt"} :
         /\ flow' = [flow EXCEPT !.pc = pc]
         /\ pc = "idle" => ~FlowHolds /\ radio' = radio
         /\ pc = "halt" => /\ FlowHolds
                           /\ radio' = BeginStop(use.flow)
  BY DEF FlowStops, Flow
<1>l. /\ radio' \in [Radio -> RadioState]
      /\ \A r \in Radio :
            /\ r # use.flow \/ pc = "idle" => radio'[r] = radio[r]
            /\ radio'[r].stream = radio[r].stream /\ radio'[r].want = radio[r].want
            /\ radio'[r].centre = radio[r].centre
      /\ pc = "halt" => radio'[use.flow].lease = None /\ radio'[use.flow].stopping
  <2>1. CASE pc = "idle"
    BY <1>j, <1>h, <2>1
  <2>2. CASE pc = "halt"
    BY <1>j, <1>h, <2>2, StopBegins
  <2> QED
    BY <2>1, <2>2
<1>g. flow' \in FlowState /\ flow'.pc = pc /\ flow'.token = flow.token
  BY <1>h, <1>j DEF FlowState
<1>k. /\ pc = "idle" => \A r \in Radio : radio[r].lease = None \/ radio[r].lease # flow.token
      /\ pc = "halt" => flow.token # None /\ radio[use.flow].lease = flow.token
  BY <1>j, <1>h DEF TakeoverInv, TokensInPlace, FlowHolds
<1>o. \A e \in Engine : R(e) = use.flow /\ Owns(e) => pc = "idle"
  BY <1>k, <1>h, <1>j DEF TakeoverInv, TokensApart, Owns
<1>w. \A e \in Engine : Owns(e)' <=> Owns(e)
  BY <1>u, <1>o, <1>l, <1>j DEF Owns, R
<1>1. Typed'
  BY <1>u, <1>j, <1>l, <1>g, <1>k DEF TakeoverInv, Typed, RadiosTyped, EnginesTyped, CallTyped, HostTyped, RestTyped
<1>2. TokensIssued'
  BY <1>u, <1>j, <1>l, <1>g, <1>k DEF TakeoverInv, TokensIssued
<1>3. TokensApart'
  BY <1>u, <1>j, <1>l, <1>g, <1>k DEF TakeoverInv, TokensApart
<1>4. TokensInPlace'
  BY <1>u, <1>j, <1>l, <1>g, <1>k DEF TakeoverInv, TokensInPlace, R
<1>5. StopsExclude'
  BY <1>u, <1>j, <1>l, <1>g, <1>k DEF TakeoverInv, StopsExclude, R
<1>6. CallShape'
  BY <1>u, <1>w, <1>l, <1>k, <1>j DEF TakeoverInv, CallShape, TokensApart, R
<1>7. OwnedStreams'
  BY <1>u, <1>j, <1>l, <1>g, <1>k, <1>w DEF TakeoverInv, OwnedStreams, Owns, R
<1>8. Settled'
  BY <1>u, <1>j, <1>l, <1>g, <1>k DEF TakeoverInv, Settled, Without
<1>9. LeasesHeld'
  BY <1>u, <1>j, <1>l, <1>g, <1>k DEF TakeoverInv, LeasesHeld, Without
<1>10. SessionsHeld'
  BY <1>u, <1>j, <1>l, <1>g, <1>k DEF TakeoverInv, SessionsHeld
<1>11. ReceiversParked'
  BY <1>u, <1>j, <1>l, <1>g, <1>k, <1>w DEF TakeoverInv, ReceiversParked, ParkedHere, Without, Owns, R
<1>12. ParkedQuiet'
  BY <1>u, <1>j, <1>l, <1>g, <1>k, <1>w DEF TakeoverInv, ParkedQuiet, Handed, Without, Owns, R
<1>13. ParkedIntact'
  BY <1>u, <1>j, <1>l, <1>g, <1>k, <1>w DEF TakeoverInv, ParkedIntact, GivingBack, Without, Owns, R
<1>14. ReceiverInStep'
  BY <1>u, <1>j, <1>l, <1>g, <1>k DEF TakeoverInv, ReceiverInStep, Without
<1>15. StreamsWanted'
  BY <1>u, <1>j, <1>l, <1>g, <1>k, <1>w DEF TakeoverInv, StreamsWanted, Streaming, CanUse, Without, Owns, R
<1>16. StreamsClean'
  BY <1>u, <1>w, <1>l, <1>j DEF TakeoverInv, StreamsClean, Clean, InHands, Handed, Streaming, Live, Without, R
<1>17. EnginesTuned'
  BY <1>u, <1>j, <1>l, <1>g, <1>k, <1>w DEF TakeoverInv, EnginesTuned, Owns, R
<1>18. FlowTuned'
  BY <1>u, <1>j, <1>l, <1>g, <1>k DEF TakeoverInv, FlowTuned, TokensInPlace
<1> QED
  BY <1>1, <1>2, <1>3, <1>4, <1>5, <1>6, <1>7, <1>8, <1>9, <1>10, <1>11, <1>12, <1>13, <1>14, <1>15, <1>16, <1>17, <1>18 DEF TakeoverInv

(* The radio a workflow stopped keeps the invariant: nobody can have leased *)
(* it in between.                                                           *)
LEMMA FlowHaltKeeps ==
    ASSUME TakeoverInv, FlowHalted
    PROVE  TakeoverInv'
<1>j. /\ radio \in [Radio -> RadioState] /\ flow \in FlowState /\ issued \in Nat
      /\ use.flow \in Radio /\ \A e \in Engine : R(e) \in Radio
  BY Names DEF TakeoverInv, Typed, RadiosTyped, RestTyped
<1>u. /\ UNCHANGED <<use, issued, engine, gui, posted, sessions, rx, listen, excuses>>
      /\ flow.pc = "halt" /\ flow' = [pc |-> "idle", token |-> None]
      /\ radio' = [radio EXCEPT ![use.flow].stream = "off", ![use.flow].stopping = FALSE]
  BY DEF FlowHalted, host, history
<1>l. /\ radio' \in [Radio -> RadioState]
      /\ \A r \in Radio :
            /\ r # use.flow => radio'[r] = radio[r]
            /\ radio'[r].lease = radio[r].lease
            /\ radio'[r].want = radio[r].want /\ radio'[r].centre = radio[r].centre
      /\ radio'[use.flow].stream = "off" /\ ~radio'[use.flow].stopping
  BY <1>j, <1>u DEF RadioState
<1>g. flow' \in FlowState /\ flow'.pc = "idle" /\ flow'.token = None
  BY <1>u DEF FlowState, Token
<1>k. radio[use.flow].lease = None /\ \A r \in Radio : radio[r].lease = None \/ radio[r].lease # flow.token
  BY <1>j, <1>u DEF TakeoverInv, StopsExclude, FlowTuned
<1>o. \A e \in Engine : Owns(e) => R(e) # use.flow
  BY <1>k DEF Owns
<1>w. \A e \in Engine : Owns(e)' <=> Owns(e)
  BY <1>u, <1>l, <1>j DEF Owns, R
<1>b. \A e \in Engine : gui.at = "poll" /\ gui.e = e => R(e) # use.flow
  BY <1>k DEF TakeoverInv, CallShape
<1>1. Typed'
  BY <1>u, <1>j, <1>l, <1>g, <1>k DEF TakeoverInv, Typed, RadiosTyped, EnginesTyped, CallTyped, HostTyped, RestTyped
<1>2. TokensIssued'
  BY <1>u, <1>j, <1>l, <1>g, <1>k DEF TakeoverInv, TokensIssued
<1>3. TokensApart'
  BY <1>u, <1>j, <1>l, <1>g, <1>k DEF TakeoverInv, TokensApart
<1>4. TokensInPlace'
  BY SMTT(30), <1>u, <1>j, <1>l, <1>g, <1>k DEF TakeoverInv, TokensInPlace, R
<1>5. StopsExclude'
  BY <1>u, <1>j, <1>l, <1>g, <1>k DEF TakeoverInv, StopsExclude, R
<1>6. CallShape'
  BY ZenonT(60), <1>u, <1>w, <1>o, <1>b, <1>l, <1>j DEF TakeoverInv, CallShape, R
<1>7. OwnedStreams'
  BY <1>u, <1>j, <1>l, <1>g, <1>k, <1>w, <1>o DEF TakeoverInv, OwnedStreams, R
<1>8. Settled'
  BY <1>u, <1>j, <1>l, <1>g, <1>k DEF TakeoverInv, Settled, Without
<1>9. LeasesHeld'
  BY <1>u, <1>j, <1>l, <1>g, <1>k DEF TakeoverInv, LeasesHeld, Without
<1>10. SessionsHeld'
  BY <1>u, <1>j, <1>l, <1>g, <1>k DEF TakeoverInv, SessionsHeld
<1>11. ReceiversParked'
  BY <1>u, <1>j, <1>l, <1>g, <1>k, <1>w DEF TakeoverInv, ReceiversParked, ParkedHere, Without, Owns, R
<1>12. ParkedQuiet'
  BY <1>u, <1>j, <1>l, <1>g, <1>k, <1>w DEF TakeoverInv, ParkedQuiet, Handed, Without, Owns, R
<1>13. ParkedIntact'
  BY <1>u, <1>w, <1>j DEF TakeoverInv, ParkedIntact, GivingBack, Without, R
<1>14. ReceiverInStep'
  BY <1>u, <1>j, <1>l, <1>g, <1>k DEF TakeoverInv, ReceiverInStep, Without
<1>15. StreamsWanted'
  BY <1>u, <1>j, <1>l, <1>g, <1>k, <1>w, <1>o DEF TakeoverInv, StreamsWanted, Streaming, CanUse, Without, Owns, R
<1>16. StreamsClean'
  BY <1>u, <1>w, <1>l, <1>j DEF TakeoverInv, StreamsClean, Clean, InHands, Handed, Streaming, Live, Without, R
<1>17. EnginesTuned'
  BY ZenonT(60), <1>u, <1>j, <1>l, <1>g, <1>k, <1>w, <1>o DEF TakeoverInv, EnginesTuned, Owns, R
<1>18. FlowTuned'
  BY <1>u, <1>j, <1>l, <1>g, <1>k DEF TakeoverInv, FlowTuned
<1> QED
  BY <1>1, <1>2, <1>3, <1>4, <1>5, <1>6, <1>7, <1>8, <1>9, <1>10, <1>11, <1>12, <1>13, <1>14, <1>15, <1>16, <1>17, <1>18 DEF TakeoverInv
-----------------------------------------------------------------------------
(* The join of a worker keeps the invariant.                                *)
LEMMA JoinKeeps ==
    ASSUME TakeoverInv, Join
    PROVE  TakeoverInv'
<1>j. /\ radio \in [Radio -> RadioState] /\ engine \in [Engine -> EngineState] /\ gui \in CallState
      /\ use.flow \in Radio /\ \A d \in Engine : R(d) \in Radio
  BY Names DEF TakeoverInv, Typed, RadiosTyped, EnginesTyped, CallTyped, RestTyped
<1>v. PICK e \in Engine : gui.e = e
  BY DEF TakeoverInv, CallShape, Join
<1>u. /\ UNCHANGED <<use, radio, issued, posted, sessions, rx, flow, listen, excuses>>
      /\ gui.at = "join" /\ gui' = [gui EXCEPT !.at = "restore"]
      /\ engine' = [engine EXCEPT ![e].worker = "none", ![e].pass = FALSE]
  BY <1>v DEF Join, devices, host, history
<1>l. /\ engine' \in [Engine -> EngineState]
      /\ \A d \in Engine :
            /\ engine'[d].lease = engine[d].lease /\ engine'[d].prev = engine[d].prev
            /\ engine'[d].host = engine[d].host /\ engine'[d].run = engine[d].run
            /\ d # e => engine'[d].worker = engine[d].worker
  BY ZenonT(60), <1>j, <1>u DEF EngineState
<1>g. /\ gui' \in CallState /\ gui'.at = "restore" /\ gui'.e = e
      /\ gui'.token = gui.token /\ gui'.host = gui.host /\ gui'.ok = gui.ok /\ gui'.tried = gui.tried
      /\ gui'.saved = gui.saved
  BY <1>j, <1>u, <1>v DEF CallState
<1>1. Typed'
  BY <1>u, <1>v, <1>l, <1>g DEF TakeoverInv, Typed, RadiosTyped, EnginesTyped, CallTyped, HostTyped, RestTyped
<1>2. TokensIssued'
  BY <1>u, <1>v, <1>l, <1>g DEF TakeoverInv, TokensIssued
<1>3. TokensApart'
  BY <1>u, <1>v, <1>l, <1>g DEF TakeoverInv, TokensApart
<1>4. TokensInPlace'
  BY <1>u, <1>v, <1>l, <1>g DEF TakeoverInv, TokensInPlace, R
<1>5. StopsExclude'
  BY <1>u, <1>v, <1>l, <1>g DEF TakeoverInv, StopsExclude, R
<1>6. CallShape'
  BY <1>u, <1>v, <1>l, <1>g DEF TakeoverInv, CallShape, Owns, R
<1>7. OwnedStreams'
  BY <1>u, <1>v, <1>l, <1>g DEF TakeoverInv, OwnedStreams, Owns, R
<1>8. Settled'
  BY <1>u, <1>v, <1>l, <1>g DEF TakeoverInv, Settled, Without
<1>9. LeasesHeld'
  BY <1>u, <1>v, <1>l, <1>g DEF TakeoverInv, LeasesHeld, Without
<1>10. SessionsHeld'
  BY <1>u, <1>v, <1>l, <1>g DEF TakeoverInv, SessionsHeld
<1>11. ReceiversParked'
  BY <1>u, <1>v, <1>l, <1>g DEF TakeoverInv, ReceiversParked, ParkedHere, Without, Owns, R
<1>12. ParkedQuiet'
  BY <1>u, <1>v, <1>l, <1>g DEF TakeoverInv, ParkedQuiet, Handed, Without, Owns, R
<1>13. ParkedIntact'
  BY <1>u, <1>v, <1>l, <1>g DEF TakeoverInv, ParkedIntact, GivingBack, Without, Owns, R
<1>14. ReceiverInStep'
  BY <1>u, <1>v, <1>l, <1>g DEF TakeoverInv, ReceiverInStep, Without
<1>15. StreamsWanted'
  BY <1>u, <1>v, <1>l, <1>g DEF TakeoverInv, StreamsWanted, Streaming, CanUse, Without, Owns, R
<1>16. StreamsClean'
  BY <1>u, <1>v, <1>l, <1>g DEF TakeoverInv, StreamsClean, Clean, InHands, Handed, Streaming, Live, Without, Owns, R
<1>17. EnginesTuned'
  BY <1>u, <1>v, <1>l, <1>g DEF TakeoverInv, EnginesTuned, Owns, R
<1>18. FlowTuned'
  BY <1>u, <1>v, <1>l, <1>g DEF TakeoverInv, FlowTuned
<1> QED
  BY <1>1, <1>2, <1>3, <1>4, <1>5, <1>6, <1>7, <1>8, <1>9, <1>10, <1>11, <1>12, <1>13, <1>14, <1>15, <1>16, <1>17, <1>18 DEF TakeoverInv

(* What giving a radio back does, by how it was found: retuned if it was    *)
(* streaming and is still live, stopped if not, left alone if the lease is  *)
(* gone.                                                                    *)
RestoreStep(e) ==
    /\ UNCHANGED <<use, issued, posted, sessions, rx, flow, listen, excuses>>
    /\ gui.at = "restore" /\ gui.e = e
    /\ radio' \in [Radio -> RadioState] /\ engine' \in [Engine -> EngineState] /\ gui' \in CallState
    /\ engine'[e].lease = None /\ engine'[e].prev = None /\ engine'[e].host = None
    /\ engine'[e].run = engine[e].run
    /\ \A d \in Engine : d # e => engine'[d] = engine[d]
    /\ gui'.e = e /\ gui'.saved = engine[e].prev /\ gui'.token = engine[e].lease
    /\ gui'.host = engine[e].host /\ ~gui'.ok
    /\ gui'.tried <=> (engine[e].prev # None /\ engine[e].lease # None)
    /\ \A r \in Radio :
          /\ radio'[r].stream = radio[r].stream /\ radio'[r].centre = radio[r].centre
          /\ r # R(e) => radio'[r] = radio[r]
    /\ \/ /\ gui'.at = "poll" /\ gui'.tried /\ Owns(e) /\ engine[e].prev.on
          /\ radio'[R(e)].want = engine[e].prev.centre /\ radio[R(e)].stream = "live"
          /\ radio'[R(e)].lease = radio[R(e)].lease /\ radio'[R(e)].stopping = radio[R(e)].stopping
       \/ /\ gui'.at = "halt" /\ gui'.tried /\ Owns(e)
          /\ radio'[R(e)].want = radio[R(e)].want
          /\ radio'[R(e)].lease = None /\ radio'[R(e)].stopping
       \/ /\ gui'.at = "end" /\ (gui'.tried => ~Owns(e)) /\ radio' = radio

(* The restore is such a step ...                                           *)
LEMMA RestoreSteps ==
    ASSUME TakeoverInv, Restore
    PROVE  \E e \in Engine : RestoreStep(e)
<1>j. /\ radio \in [Radio -> RadioState] /\ engine \in [Engine -> EngineState] /\ gui \in CallState
      /\ use.flow \in Radio /\ \A d \in Engine : R(d) \in Radio
  BY Names DEF TakeoverInv, Typed, RadiosTyped, EnginesTyped, CallTyped, RestTyped
<1>v. PICK e \in Engine : gui.e = e
  BY DEF TakeoverInv, CallShape, Restore
<1>p. PICK s \in EngineState : s = engine[e]
  BY <1>j
<1>t. PICK tried \in BOOLEAN : tried = (s.prev # None /\ s.lease # None)
  OBVIOUS
<1>m. PICK retune \in BOOLEAN : retune = (tried /\ Owns(e) /\ s.prev.on /\ Live(R(e)))
  OBVIOUS
<1>k. PICK at \in {"poll", "halt", "end"} :
         at = IF retune THEN "poll" ELSE IF tried /\ Owns(e) THEN "halt" ELSE "end"
  OBVIOUS
<1>u. /\ gui.at = "restore" /\ UNCHANGED <<use, issued, posted, sessions, rx, flow, listen, excuses>>
      /\ engine' = [engine EXCEPT ![e].prev = None, ![e].lease = None, ![e].host = None]
      /\ radio' = IF retune THEN [radio EXCEPT ![R(e)].want = s.prev.centre]
                  ELSE IF tried /\ Owns(e) THEN BeginStop(R(e)) ELSE radio
      /\ gui' = [gui EXCEPT !.at = at, !.saved = s.prev, !.token = s.lease, !.host = s.host,
                            !.ok = FALSE, !.tried = tried]
  BY <1>v, <1>p, <1>t, <1>m, <1>k DEF Restore, host, history
<1>1. /\ engine' \in [Engine -> EngineState]
      /\ engine'[e].lease = None /\ engine'[e].prev = None /\ engine'[e].host = None
      /\ engine'[e].run = engine[e].run
      /\ \A d \in Engine : d # e => engine'[d] = engine[d]
  <2>1. PICK x \in EngineState : x = [s EXCEPT !.prev = None, !.lease = None, !.host = None]
    BY DEF EngineState, Token
  <2>2. engine' = [engine EXCEPT ![e] = x]
    BY <1>u, <1>p, <2>1
  <2>3. x.lease = None /\ x.prev = None /\ x.host = None /\ x.run = s.run
    BY <2>1 DEF EngineState
  <2> QED
    BY <1>j, <1>p, <2>2, <2>3
<1>2. /\ gui' \in CallState /\ gui'.e = e /\ gui'.at = at /\ gui'.saved = engine[e].prev
      /\ gui'.token = engine[e].lease /\ gui'.host = engine[e].host /\ ~gui'.ok /\ (gui'.tried <=> tried)
  <2>1. gui' = [gui EXCEPT !.at = at, !.saved = s.prev, !.token = s.lease, !.host = s.host,
                            !.ok = FALSE, !.tried = tried]
    BY <1>u
  <2>2. s.prev \in Found \cup {None} /\ s.lease \in Token /\ s.host \in Token
    BY DEF EngineState
  <2>3. gui' \in CallState
    BY <1>j, <2>1, <2>2 DEF CallState
  <2>4. /\ gui'.e = gui.e /\ gui'.at = at /\ gui'.saved = s.prev
        /\ gui'.token = s.lease /\ gui'.host = s.host /\ gui'.ok = FALSE /\ gui'.tried = tried
    BY <1>j, <2>1 DEF CallState
  <2> QED
    BY <1>p, <1>v, <2>3, <2>4
<1>3. CASE retune
  <2>1. s.prev \in Found /\ s.prev.centre \in Centre /\ at = "poll" /\ tried
    BY <1>3, <1>m, <1>t, <1>k DEF EngineState, Found, Centre
  <2>2. radio' = [radio EXCEPT ![R(e)].want = s.prev.centre]
    BY <1>3, <1>u
  <2>3. /\ radio' \in [Radio -> RadioState]
        /\ \A r \in Radio :
              /\ radio'[r].stream = radio[r].stream /\ radio'[r].centre = radio[r].centre
              /\ r # R(e) => radio'[r] = radio[r]
        /\ radio'[R(e)].want = s.prev.centre
        /\ radio'[R(e)].lease = radio[R(e)].lease /\ radio'[R(e)].stopping = radio[R(e)].stopping
    BY <1>j, <2>1, <2>2 DEF RadioState
  <2>4. radio[R(e)].stream = "live" /\ Owns(e) /\ engine[e].prev.on
    BY <1>3, <1>m, <1>p DEF Live
  <2>5. RestoreStep(e)
    BY <1>u, <1>v, <1>p, <1>t, <1>1, <1>2, <2>1, <2>3, <2>4 DEF RestoreStep
  <2> QED
    BY <2>5
<1>4. CASE ~retune /\ tried /\ Owns(e)
  <2>1. radio' = BeginStop(R(e)) /\ at = "halt"
    BY <1>4, <1>u, <1>k
  <2>2. /\ radio' \in [Radio -> RadioState]
        /\ \A q \in Radio :
              /\ q # R(e) => radio'[q] = radio[q]
              /\ radio'[q].stream = radio[q].stream /\ radio'[q].want = radio[q].want
              /\ radio'[q].centre = radio[q].centre
        /\ radio'[R(e)].lease = None /\ radio'[R(e)].stopping
    BY <1>j, <2>1, StopBegins
  <2>5. RestoreStep(e)
    BY <1>j, <1>4, <1>u, <1>v, <1>p, <1>t, <1>1, <1>2, <2>1, <2>2 DEF RestoreStep
  <2> QED
    BY <2>5
<1>5. CASE ~retune /\ ~(tried /\ Owns(e))
  <2>1. radio' = radio /\ at = "end"
    BY <1>5, <1>u, <1>k
  <2>5. RestoreStep(e)
    BY <1>j, <1>5, <1>u, <1>v, <1>p, <1>t, <1>1, <1>2, <2>1 DEF RestoreStep
  <2> QED
    BY <2>5
<1> QED
  BY <1>3, <1>4, <1>5

(* ... and such a step keeps the invariant: what it takes out of the engine *)
(* goes on in the call.                                                     *)
LEMMA RestoreKeeps ==
    ASSUME TakeoverInv, NEW e \in Engine, RestoreStep(e)
    PROVE  TakeoverInv'
<1>j. /\ radio \in [Radio -> RadioState] /\ engine \in [Engine -> EngineState] /\ gui \in CallState
      /\ use.flow \in Radio /\ \A d \in Engine : R(d) \in Radio
  BY Names DEF TakeoverInv, Typed, RadiosTyped, EnginesTyped, CallTyped, RestTyped
<1>u. /\ UNCHANGED <<use, issued, posted, sessions, rx, flow, listen, excuses>>
      /\ gui.at = "restore" /\ gui.e = e
      /\ radio' \in [Radio -> RadioState] /\ engine' \in [Engine -> EngineState] /\ gui' \in CallState
      /\ gui'.e = e /\ gui'.at \in {"poll", "halt", "end"}
  BY DEF RestoreStep
<1>l. /\ engine'[e].lease = None /\ engine'[e].prev = None /\ engine'[e].host = None
      /\ ~engine'[e].run
      /\ \A d \in Engine : d # e => engine'[d] = engine[d]
  BY <1>u DEF RestoreStep, TakeoverInv, CallShape
<1>g. /\ gui'.saved = engine[e].prev /\ gui'.token = engine[e].lease
      /\ gui'.host = engine[e].host /\ ~gui'.ok
      /\ gui'.tried <=> (engine[e].prev # None /\ engine[e].lease # None)
      /\ gui.token = None /\ gui.host = None
  BY <1>u DEF RestoreStep, TakeoverInv, CallShape
<1>k. \A r \in Radio :
          /\ radio'[r].stream = radio[r].stream /\ radio'[r].centre = radio[r].centre
          /\ r # R(e) => radio'[r] = radio[r]
          /\ radio'[r].lease \in {radio[r].lease, None}
          /\ radio'[r].stopping => radio[r].stopping \/ radio'[r].lease = None
          /\ radio[r].stopping => radio'[r].stopping
  BY <1>u DEF RestoreStep
<1>m. /\ gui'.at = "poll" =>
            /\ gui'.tried /\ Owns(e) /\ engine[e].prev.on
            /\ radio'[R(e)].want = engine[e].prev.centre /\ radio[R(e)].stream = "live"
            /\ radio'[R(e)].lease = radio[R(e)].lease /\ radio'[R(e)].stopping = radio[R(e)].stopping
      /\ gui'.at = "halt" =>
            /\ gui'.tried /\ Owns(e) /\ radio'[R(e)].want = radio[R(e)].want
            /\ radio'[R(e)].lease = None /\ radio'[R(e)].stopping
      /\ gui'.at = "end" => (gui'.tried => ~Owns(e)) /\ radio' = radio
  BY DEF RestoreStep
<1>o. \A d \in Engine : Owns(d)' => /\ Owns(d) /\ d # e /\ radio'[R(d)] = radio[R(d)]
                                    /\ (gui'.at # "end" => R(d) # R(e))
  <2>1. \A d \in Engine : d # e /\ Owns(d) /\ Owns(e) => R(d) # R(e)
    BY DEF TakeoverInv, TokensApart, Owns
  <2>2. \A d \in Engine : Owns(d)' => d # e /\ Owns(d)
    BY <1>u, <1>l, <1>j, <1>k DEF Owns, R
  <2> QED
    BY <1>u, <1>j, <1>k, <1>m, <2>1, <2>2
<1>1. Typed'
  BY <1>u, <1>j, <1>l, <1>g, <1>k DEF TakeoverInv, Typed, RadiosTyped, EnginesTyped, CallTyped, HostTyped, RestTyped
<1>2. TokensIssued'
  BY <1>u, <1>j, <1>l, <1>g, <1>k, Names DEF TakeoverInv, TokensIssued
<1>3. TokensApart'
  BY <1>u, <1>j, <1>l, <1>g, <1>k DEF TakeoverInv, TokensApart
<1>4. TokensInPlace'
  BY <1>u, <1>j, <1>l, <1>g, <1>k, <1>m DEF TakeoverInv, TokensInPlace, R
<1>5. StopsExclude'
  BY <1>u, <1>j, <1>l, <1>g, <1>k, <1>m DEF TakeoverInv, StopsExclude, R, Owns
<1>6. CallShape'
  BY <1>u, <1>j, <1>l, <1>g, <1>k, <1>m DEF TakeoverInv, CallShape, Owns, R, Owns
<1>7. OwnedStreams'
  BY <1>u, <1>j, <1>l, <1>g, <1>k, <1>o DEF TakeoverInv, OwnedStreams, Owns, R
<1>8. Settled'
  BY <1>u, <1>j, <1>l, <1>g, <1>k, <1>m DEF TakeoverInv, Settled, Without
<1>9. LeasesHeld'
  BY <1>u, <1>j, <1>l, <1>g, <1>k, <1>m DEF TakeoverInv, LeasesHeld, Without, TokensInPlace, Settled, Owns, R
<1>10. SessionsHeld'
  BY <1>u, <1>j, <1>l, <1>g, <1>k DEF TakeoverInv, SessionsHeld
<1>11. ReceiversParked'
  BY <1>u, <1>j, <1>l, <1>g, <1>k, <1>o DEF TakeoverInv, ReceiversParked, ParkedHere, Without, Owns, R
<1>12. ParkedQuiet'
  BY <1>u, <1>j, <1>l, <1>g, <1>k, <1>o, <1>m DEF TakeoverInv, ParkedQuiet, Handed, Without, Owns, R
<1>13. ParkedIntact'
  BY SMTT(30), <1>u, <1>j, <1>l, <1>g, <1>k, <1>o, <1>m DEF TakeoverInv, ParkedIntact, GivingBack, Without, Owns, R
<1>14. ReceiverInStep'
  BY <1>u, <1>j, <1>l, <1>g, <1>k DEF TakeoverInv, ReceiverInStep, Without
<1>15. StreamsWanted'
  BY <1>u, <1>j, <1>l, <1>g, <1>k, <1>o, <1>m DEF TakeoverInv, StreamsWanted, Streaming, CanUse, Without, Owns, R
<1>16. StreamsClean'
  <2> SUFFICES ASSUME Without({"cold", "overtaken"}) PROVE StreamsClean'
    BY <1>u DEF StreamsClean, Without
  <2>1. /\ Owns(e) => gui'.at \in {"poll", "halt"}
        /\ \A d \in Engine : d # e /\ Owns(d) => Owns(d)'
    <3>1. Owns(e) => gui'.tried
      BY <1>g DEF TakeoverInv, Settled, Without, Owns
    <3>2. \A d \in Engine : d # e /\ Owns(d) /\ Owns(e) => R(d) # R(e)
      BY DEF TakeoverInv, TokensApart, Owns
    <3> QED
      BY <1>u, <1>j, <1>l, <1>k, <1>m, <3>1, <3>2 DEF Owns, R
  <2>2. \A r \in Radio : InHands(r) => InHands(r)'
    BY <1>u, <2>1 DEF InHands, Handed, R
  <2>3. \A r \in Radio : ~InHands(r)' => radio'[r] = radio[r]
    <3>1. \A r \in Radio : ~InHands(r)' => r # R(e) \/ gui'.at = "end"
      BY <1>u DEF InHands, Handed, R
    <3> QED
      BY <1>k, <1>m, <3>1
  <2>4. \A r \in Radio : Streaming(r)' /\ ~InHands(r)' => Clean(r)'
    BY <2>2, <2>3 DEF TakeoverInv, StreamsClean, Clean, Streaming, Live, Without
  <2>5. ASSUME NEW d \in Engine
        PROVE  /\ engine'[d].prev # None /\ engine'[d].prev.on =>
                     (Owns(d)' => engine'[d].prev.centre \notin Engine)
               /\ gui'.at = "poll" /\ gui'.e = d => gui'.saved.centre \notin Engine
    BY <1>u, <1>l, <1>g, <1>m, <1>o DEF TakeoverInv, StreamsClean, Without
  <2> QED
    BY <1>u, <2>4, <2>5 DEF StreamsClean
<1>17. EnginesTuned'
  BY <1>u, <1>j, <1>l, <1>g, <1>k, <1>o DEF TakeoverInv, EnginesTuned, Owns, R
<1>18. FlowTuned'
  BY <1>u, <1>j, <1>l, <1>g, <1>k, <1>m DEF TakeoverInv, FlowTuned, TokensApart, Owns
<1> QED
  BY <1>1, <1>2, <1>3, <1>4, <1>5, <1>6, <1>7, <1>8, <1>9, <1>10, <1>11, <1>12, <1>13, <1>14, <1>15, <1>16, <1>17, <1>18 DEF TakeoverInv

(* The release of a radio whose old centre is confirmed keeps the           *)
(* invariant: it is on a centre that is not an engine's and on the user's   *)
(* list.                                                                    *)
LEMMA RestoredKeeps ==
    ASSUME TakeoverInv, Restored
    PROVE  TakeoverInv'
<1>j. /\ radio \in [Radio -> RadioState] /\ engine \in [Engine -> EngineState] /\ gui \in CallState
      /\ use.flow \in Radio /\ \A d \in Engine : R(d) \in Radio
  BY Names DEF TakeoverInv, Typed, RadiosTyped, EnginesTyped, CallTyped, RestTyped
<1>v. PICK e \in Engine : gui.e = e
  BY DEF TakeoverInv, CallShape, Restored
<1>u. /\ UNCHANGED <<use, issued, engine, posted, sessions, rx, flow, listen, excuses>>
      /\ gui.at = "poll" /\ radio[R(e)].stream = "live" /\ radio[R(e)].centre = radio[R(e)].want
  BY <1>v DEF Restored, Live, host, history
<1>x. /\ radio' = [radio EXCEPT ![R(e)].lease = None]
      /\ gui' = [gui EXCEPT !.at = "end", !.ok = TRUE]
  BY <1>v DEF Restored, Live, host, history
<1>l. /\ radio' \in [Radio -> RadioState]
      /\ \A r \in Radio :
            /\ r # R(e) => radio'[r] = radio[r]
            /\ radio'[r].stream = radio[r].stream /\ radio'[r].want = radio[r].want
            /\ radio'[r].centre = radio[r].centre /\ radio'[r].stopping = radio[r].stopping
      /\ radio'[R(e)].lease = None
  BY <1>j, <1>x DEF RadioState, Token
<1>g. /\ gui' \in CallState /\ gui'.at = "end" /\ gui'.e = e /\ gui'.ok
      /\ gui'.token = gui.token /\ gui'.host = gui.host /\ gui'.tried = gui.tried /\ gui'.saved = gui.saved
  BY <1>j, <1>x, <1>v DEF CallState
<1>k. /\ gui.token # None /\ radio[R(e)].lease = gui.token
      /\ radio[R(e)].want = gui.saved.centre
      /\ engine[e].lease = None /\ engine[e].prev = None /\ engine[e].host = None /\ ~engine[e].run
  BY <1>u, <1>v DEF TakeoverInv, CallShape
<1>o. \A d \in Engine : Owns(d) => R(d) # R(e)
  BY <1>k DEF TakeoverInv, TokensApart, Owns
<1>w. \A d \in Engine : Owns(d)' <=> Owns(d)
  BY <1>u, <1>o, <1>l, <1>j DEF Owns, R
<1>1. Typed'
  BY <1>u, <1>v, <1>j, <1>l, <1>g, <1>k DEF TakeoverInv, Typed, RadiosTyped, EnginesTyped, CallTyped, HostTyped, RestTyped
<1>2. TokensIssued'
  BY <1>u, <1>v, <1>j, <1>l, <1>g, <1>k DEF TakeoverInv, TokensIssued
<1>3. TokensApart'
  BY <1>u, <1>v, <1>j, <1>l, <1>g, <1>k DEF TakeoverInv, TokensApart
<1>4. TokensInPlace'
  BY <1>u, <1>v, <1>j, <1>l, <1>g, <1>k DEF TakeoverInv, TokensInPlace, R
<1>5. StopsExclude'
  BY <1>u, <1>v, <1>j, <1>l, <1>g, <1>k DEF TakeoverInv, StopsExclude, R
<1>6. CallShape'
  BY <1>u, <1>v, <1>g, <1>k DEF TakeoverInv, CallShape, Owns, R
<1>7. OwnedStreams'
  BY <1>u, <1>v, <1>j, <1>l, <1>g, <1>k, <1>w DEF TakeoverInv, OwnedStreams, Owns, R
<1>8. Settled'
  BY <1>u, <1>v, <1>j, <1>l, <1>g, <1>k DEF TakeoverInv, Settled, Without
<1>9. LeasesHeld'
  BY <1>u, <1>v, <1>j, <1>l, <1>g, <1>k DEF TakeoverInv, LeasesHeld, Without, TokensInPlace
<1>10. SessionsHeld'
  BY <1>u, <1>v, <1>j, <1>l, <1>g, <1>k DEF TakeoverInv, SessionsHeld
<1>11. ReceiversParked'
  BY <1>u, <1>v, <1>j, <1>l, <1>g, <1>k, <1>w DEF TakeoverInv, ReceiversParked, ParkedHere, Without, Owns, R
<1>12. ParkedQuiet'
  BY <1>u, <1>v, <1>j, <1>l, <1>g, <1>k, <1>w DEF TakeoverInv, ParkedQuiet, Handed, Without, Owns, R
<1>13. ParkedIntact'
  BY <1>u, <1>v, <1>j, <1>l, <1>g, <1>k, <1>w DEF TakeoverInv, ParkedIntact, GivingBack, Without, R
<1>14. ReceiverInStep'
  BY <1>u, <1>v, <1>j, <1>l, <1>g, <1>k DEF TakeoverInv, ReceiverInStep, Without
<1>15. StreamsWanted'
  BY <1>u, <1>v, <1>j, <1>l, <1>g, <1>k, <1>w, <1>o DEF TakeoverInv, StreamsWanted, Streaming, CanUse, Without, R
<1>16. StreamsClean'
  <2> SUFFICES ASSUME Without({"cold", "overtaken"}) PROVE StreamsClean'
    BY <1>u DEF StreamsClean, Without
  <2>1. \A r \in Radio : InHands(r) /\ r # R(e) => InHands(r)'
    BY <1>u, <1>v, <1>w DEF InHands, Handed, R
  <2>2. gui.saved.centre \notin Engine
    BY <1>u, <1>v DEF TakeoverInv, StreamsClean
  <2>3. \A r \in Radio : Streaming(r)' /\ ~InHands(r)' => Clean(r)'
    BY <1>u, <1>l, <1>k, <2>1, <2>2 DEF TakeoverInv, StreamsClean, Clean, Streaming, Live
  <2> QED
    BY <1>u, <1>g, <1>w, <2>3 DEF TakeoverInv, StreamsClean
<1>17. EnginesTuned'
  BY <1>u, <1>v, <1>j, <1>l, <1>g, <1>k, <1>w DEF TakeoverInv, EnginesTuned, Owns, R
<1>18. FlowTuned'
  BY <1>u, <1>v, <1>j, <1>l, <1>g, <1>k DEF TakeoverInv, FlowTuned
<1> QED
  BY <1>1, <1>2, <1>3, <1>4, <1>5, <1>6, <1>7, <1>8, <1>9, <1>10, <1>11, <1>12, <1>13, <1>14, <1>15, <1>16, <1>17, <1>18 DEF TakeoverInv

(* A retune given up for a stop keeps the invariant.                        *)
LEMMA RestoreGivesUpKeeps ==
    ASSUME TakeoverInv, RestoreGivesUp
    PROVE  TakeoverInv'
<1>j. /\ radio \in [Radio -> RadioState] /\ engine \in [Engine -> EngineState] /\ gui \in CallState
      /\ use.flow \in Radio /\ \A d \in Engine : R(d) \in Radio
  BY Names DEF TakeoverInv, Typed, RadiosTyped, EnginesTyped, CallTyped, RestTyped
<1>v. PICK e \in Engine : gui.e = e
  BY DEF TakeoverInv, CallShape, RestoreGivesUp
<1>u. /\ UNCHANGED <<use, issued, engine, posted, sessions, rx, flow, listen, excuses>>
      /\ gui.at = "poll"
  BY <1>v DEF RestoreGivesUp, host, history
<1>x. radio' = BeginStop(R(e)) /\ gui' = [gui EXCEPT !.at = "halt"]
  BY <1>v DEF RestoreGivesUp, host, history
<1>l. /\ radio' \in [Radio -> RadioState]
      /\ \A r \in Radio :
            /\ r # R(e) => radio'[r] = radio[r]
            /\ radio'[r].stream = radio[r].stream /\ radio'[r].want = radio[r].want
            /\ radio'[r].centre = radio[r].centre
      /\ radio'[R(e)].lease = None /\ radio'[R(e)].stopping
  BY <1>j, <1>x, StopBegins
<1>g. /\ gui' \in CallState /\ gui'.at = "halt" /\ gui'.e = e /\ gui'.ok = gui.ok
      /\ gui'.token = gui.token /\ gui'.host = gui.host /\ gui'.tried = gui.tried /\ gui'.saved = gui.saved
  BY <1>j, <1>x, <1>v DEF CallState
<1>k. /\ gui.token # None /\ radio[R(e)].lease = gui.token
      /\ engine[e].lease = None /\ engine[e].prev = None /\ engine[e].host = None /\ ~engine[e].run
  BY <1>u, <1>v DEF TakeoverInv, CallShape
<1>o. \A d \in Engine : Owns(d) => R(d) # R(e)
  BY <1>k DEF TakeoverInv, TokensApart, Owns
<1>w. \A d \in Engine : Owns(d)' <=> Owns(d)
  BY <1>u, <1>o, <1>l, <1>j DEF Owns, R
<1>1. Typed'
  BY <1>u, <1>v, <1>j, <1>l, <1>g, <1>k DEF TakeoverInv, Typed, RadiosTyped, EnginesTyped, CallTyped, HostTyped, RestTyped
<1>2. TokensIssued'
  BY <1>u, <1>v, <1>j, <1>l, <1>g, <1>k DEF TakeoverInv, TokensIssued
<1>3. TokensApart'
  BY <1>u, <1>v, <1>j, <1>l, <1>g, <1>k DEF TakeoverInv, TokensApart
<1>4. TokensInPlace'
  BY <1>u, <1>v, <1>j, <1>l, <1>g, <1>k DEF TakeoverInv, TokensInPlace, R
<1>5. StopsExclude'
  <2>1. flow.pc = "halt" => use.flow # R(e)
    BY <1>j, <1>k DEF TakeoverInv, StopsExclude
  <2> QED
    BY <1>u, <1>v, <1>j, <1>l, <1>g, <2>1 DEF TakeoverInv, StopsExclude, R
<1>6. CallShape'
  BY <1>u, <1>v, <1>g, <1>k DEF TakeoverInv, CallShape, Owns, R
<1>7. OwnedStreams'
  BY <1>u, <1>v, <1>j, <1>l, <1>g, <1>k, <1>w DEF TakeoverInv, OwnedStreams, Owns, R
<1>8. Settled'
  BY <1>u, <1>v, <1>j, <1>l, <1>g, <1>k DEF TakeoverInv, Settled, Without
<1>9. LeasesHeld'
  BY <1>u, <1>v, <1>j, <1>l, <1>g, <1>k DEF TakeoverInv, LeasesHeld, Without, TokensInPlace
<1>10. SessionsHeld'
  BY <1>u, <1>v, <1>j, <1>l, <1>g, <1>k DEF TakeoverInv, SessionsHeld
<1>11. ReceiversParked'
  BY <1>u, <1>v, <1>j, <1>l, <1>g, <1>k, <1>w DEF TakeoverInv, ReceiversParked, ParkedHere, Without, Owns, R
<1>12. ParkedQuiet'
  BY <1>u, <1>v, <1>j, <1>l, <1>g, <1>k, <1>w DEF TakeoverInv, ParkedQuiet, Handed, Without, Owns, R
<1>13. ParkedIntact'
  BY <1>u, <1>v, <1>j, <1>l, <1>g, <1>k, <1>w DEF TakeoverInv, ParkedIntact, GivingBack, Without, R
<1>14. ReceiverInStep'
  BY <1>u, <1>v, <1>j, <1>l, <1>g, <1>k DEF TakeoverInv, ReceiverInStep, Without
<1>15. StreamsWanted'
  BY <1>u, <1>v, <1>j, <1>l, <1>g, <1>k, <1>w, <1>o DEF TakeoverInv, StreamsWanted, Streaming, CanUse, Without, Owns, R
<1>16. StreamsClean'
  <2>1. \A r \in Radio : InHands(r)' <=> InHands(r)
    BY <1>u, <1>v, <1>g, <1>w DEF InHands, Handed, R
  <2> QED
    BY <1>u, <1>l, <1>g, <1>w, <2>1 DEF TakeoverInv, StreamsClean, Clean, Streaming, Live, Without
<1>17. EnginesTuned'
  BY <1>u, <1>v, <1>j, <1>l, <1>g, <1>k, <1>w DEF TakeoverInv, EnginesTuned, Owns, R
<1>18. FlowTuned'
  BY <1>u, <1>v, <1>j, <1>l, <1>g, <1>k DEF TakeoverInv, FlowTuned
<1> QED
  BY <1>1, <1>2, <1>3, <1>4, <1>5, <1>6, <1>7, <1>8, <1>9, <1>10, <1>11, <1>12, <1>13, <1>14, <1>15, <1>16, <1>17, <1>18 DEF TakeoverInv

(* A radio that has been stopped keeps the invariant.                       *)
LEMMA HaltedKeeps ==
    ASSUME TakeoverInv, Halted
    PROVE  TakeoverInv'
<1>j. /\ radio \in [Radio -> RadioState] /\ engine \in [Engine -> EngineState] /\ gui \in CallState
      /\ use.flow \in Radio /\ \A d \in Engine : R(d) \in Radio
  BY Names DEF TakeoverInv, Typed, RadiosTyped, EnginesTyped, CallTyped, RestTyped
<1>v. PICK e \in Engine : gui.e = e
  BY DEF TakeoverInv, CallShape, Halted
<1>i. listen \in [active : BOOLEAN, on : SUBSET Radio]
  BY DEF TakeoverInv, Typed, HostTyped
<1>u. /\ UNCHANGED <<use, issued, engine, posted, sessions, rx, flow, excuses>>
      /\ gui.at = "halt"
  BY <1>v DEF Halted, host
<1>x. /\ radio' = [radio EXCEPT ![R(e)].stream = "off", ![R(e)].stopping = FALSE]
      /\ listen' = [listen EXCEPT !.on = @ \ {R(e)}]
      /\ gui' = [gui EXCEPT !.at = "end", !.ok = ~gui.saved.on]
  BY <1>v DEF Halted, host
<1>l. /\ radio' \in [Radio -> RadioState]
      /\ \A r \in Radio :
            /\ r # R(e) => radio'[r] = radio[r]
            /\ radio'[r].lease = radio[r].lease /\ radio'[r].want = radio[r].want
            /\ radio'[r].centre = radio[r].centre
      /\ radio'[R(e)].stream = "off" /\ ~radio'[R(e)].stopping
  BY ZenonT(60), <1>j, <1>x DEF RadioState
<1>g. /\ gui' \in CallState /\ gui'.at = "end" /\ gui'.e = e
      /\ gui'.token = gui.token /\ gui'.host = gui.host /\ gui'.tried = gui.tried /\ gui'.saved = gui.saved
  BY <1>j, <1>x, <1>v DEF CallState
<1>h. /\ listen' \in [active : BOOLEAN, on : SUBSET Radio]
      /\ listen'.active = listen.active /\ listen'.on = listen.on \ {R(e)}
  BY <1>i, <1>x
<1>k. /\ radio[R(e)].stopping /\ radio[R(e)].lease = None /\ (flow.pc = "halt" => R(e) # use.flow)
      /\ engine[e].lease = None /\ engine[e].prev = None /\ engine[e].host = None /\ ~engine[e].run
  BY <1>u, <1>v, <1>j DEF TakeoverInv, CallShape, StopsExclude
<1>o. \A d \in Engine : Owns(d) => R(d) # R(e)
  BY <1>k DEF Owns
<1>w. \A d \in Engine : Owns(d)' <=> Owns(d)
  BY <1>u, <1>l, <1>j DEF Owns, R
<1>1. Typed'
  BY <1>u, <1>v, <1>j, <1>l, <1>g, <1>h, <1>k DEF TakeoverInv, Typed, RadiosTyped, EnginesTyped, CallTyped, HostTyped, RestTyped
<1>2. TokensIssued'
  BY <1>u, <1>v, <1>j, <1>l, <1>g, <1>h, <1>k DEF TakeoverInv, TokensIssued
<1>3. TokensApart'
  BY <1>u, <1>v, <1>j, <1>l, <1>g, <1>h, <1>k DEF TakeoverInv, TokensApart
<1>4. TokensInPlace'
  BY <1>u, <1>v, <1>j, <1>l, <1>g, <1>h, <1>k DEF TakeoverInv, TokensInPlace, R
<1>5. StopsExclude'
  BY <1>u, <1>v, <1>j, <1>l, <1>g, <1>h, <1>k DEF TakeoverInv, StopsExclude, R
<1>6. CallShape'
  BY <1>u, <1>v, <1>g, <1>k DEF TakeoverInv, CallShape, Owns, R
<1>7. OwnedStreams'
  BY <1>u, <1>v, <1>j, <1>l, <1>g, <1>h, <1>k, <1>w, <1>o DEF TakeoverInv, OwnedStreams, Owns, R
<1>8. Settled'
  BY <1>u, <1>v, <1>j, <1>l, <1>g, <1>h, <1>k DEF TakeoverInv, Settled, Without
<1>9. LeasesHeld'
  BY <1>u, <1>v, <1>j, <1>l, <1>g, <1>h, <1>k DEF TakeoverInv, LeasesHeld, Without
<1>10. SessionsHeld'
  BY <1>u, <1>v, <1>j, <1>l, <1>g, <1>h, <1>k DEF TakeoverInv, SessionsHeld
<1>11. ReceiversParked'
  BY <1>u, <1>v, <1>j, <1>l, <1>g, <1>h, <1>k, <1>w DEF TakeoverInv, ReceiversParked, ParkedHere, Without, Owns, R
<1>12. ParkedQuiet'
  BY <1>u, <1>v, <1>j, <1>l, <1>g, <1>h, <1>k, <1>w DEF TakeoverInv, ParkedQuiet, Handed, Without, Owns, R
<1>13. ParkedIntact'
  BY <1>u, <1>v, <1>j, <1>l, <1>g, <1>h, <1>k, <1>w DEF TakeoverInv, ParkedIntact, GivingBack, Without, R
<1>14. ReceiverInStep'
  BY <1>u, <1>v, <1>j, <1>l, <1>g, <1>h, <1>k DEF TakeoverInv, ReceiverInStep, Without
<1>15. StreamsWanted'
  BY <1>u, <1>v, <1>j, <1>l, <1>g, <1>h, <1>k, <1>w, <1>o DEF TakeoverInv, StreamsWanted, Streaming, CanUse, Without, Owns, R
<1>16. StreamsClean'
  <2> SUFFICES ASSUME Without({"cold", "overtaken"}) PROVE StreamsClean'
    BY <1>u DEF StreamsClean, Without
  <2>1. \A r \in Radio : InHands(r) /\ r # R(e) => InHands(r)'
    BY <1>u, <1>v, <1>w DEF InHands, Handed, R
  <2>3. \A r \in Radio : Streaming(r)' /\ ~InHands(r)' => Clean(r)'
    BY <1>u, <1>l, <1>k, <2>1 DEF TakeoverInv, StreamsClean, Clean, Streaming, Live
  <2> QED
    BY <1>u, <1>g, <1>w, <2>3 DEF TakeoverInv, StreamsClean
<1>17. EnginesTuned'
  BY <1>u, <1>v, <1>j, <1>l, <1>g, <1>h, <1>k, <1>w, <1>o DEF TakeoverInv, EnginesTuned, Owns, R
<1>18. FlowTuned'
  BY <1>u, <1>v, <1>j, <1>l, <1>g, <1>h, <1>k DEF TakeoverInv, FlowTuned
<1> QED
  BY <1>1, <1>2, <1>3, <1>4, <1>5, <1>6, <1>7, <1>8, <1>9, <1>10, <1>11, <1>12, <1>13, <1>14, <1>15, <1>16, <1>17, <1>18 DEF TakeoverInv

(* The end of a takeover keeps the invariant: the receiver is restored from *)
(* what was saved only when that is what the user last asked for.           *)
LEMMA EndKeeps ==
    ASSUME TakeoverInv, End
    PROVE  TakeoverInv'
<1>j. /\ radio \in [Radio -> RadioState] /\ engine \in [Engine -> EngineState] /\ gui \in CallState
      /\ use.flow \in Radio /\ \A d \in Engine : R(d) \in Radio
  BY Names DEF TakeoverInv, Typed, RadiosTyped, EnginesTyped, CallTyped, RestTyped
<1>v. PICK e \in Engine : gui.e = e
  BY DEF TakeoverInv, CallShape, End
<1>i. /\ sessions \in [Radio -> ParkedSession \cup {None}]
      /\ rx \in [active : BOOLEAN, setting : 0..1, at : Radio]
      /\ listen \in [active : BOOLEAN, on : SUBSET Radio]
  BY DEF TakeoverInv, Typed, HostTyped
<1>u. /\ UNCHANGED <<use, radio, issued, engine, posted, flow, excuses>> /\ gui.at = "end"
  BY DEF End, devices
<1>k. /\ engine[e].lease = None /\ engine[e].prev = None /\ engine[e].host = None /\ ~engine[e].run
  BY <1>u, <1>v DEF TakeoverInv, CallShape
<1>g. /\ gui' \in CallState /\ gui'.at \in {"idle", "prepare"} /\ gui'.token = None /\ gui'.host = None
      /\ ~gui'.ok /\ (gui'.at = "prepare" => gui'.e = e)
  <2>1. gui' = NoCall \/ (gui.op # "stop" /\ gui' = Call("prepare", gui.op, e, gui.force))
    BY <1>v DEF End
  <2>2. gui.op \in {"start", "arm", "stop", None} /\ gui.force \in BOOLEAN
    BY <1>j DEF CallState
  <2>3. ASSUME NEW op \in {"start", "arm", "stop", None}, NEW force \in BOOLEAN,
               gui' = Call("prepare", op, e, force)
        PROVE  /\ gui' \in CallState /\ gui'.at = "prepare" /\ gui'.token = None /\ gui'.host = None
               /\ ~gui'.ok /\ gui'.e = e
    BY <2>3 DEF Call, NoCall, CallState, Token
  <2>4. /\ NoCall \in CallState /\ NoCall.at = "idle" /\ NoCall.token = None /\ NoCall.host = None
        /\ ~NoCall.ok
    BY DEF NoCall, CallState, Token
  <2> QED
    BY <2>1, <2>2, <2>3, <2>4
<1>p. PICK mine \in BOOLEAN :
         mine <=> gui.host # None /\ sessions[R(e)] # None /\ sessions[R(e)].token = gui.host
  <2> DEFINE mine == gui.host # None /\ sessions[R(e)] # None /\ sessions[R(e)].token = gui.host
  <2>1. mine \in BOOLEAN
    OBVIOUS
  <2> QED
    BY <2>1
<1>q. PICK restore \in BOOLEAN :
         restore <=> /\ gui.ok /\ gui.host = gui.token /\ sessions[R(e)].saved # None
                     /\ rx.at = R(e) /\ rx.setting = sessions[R(e)].saved.setting
  <2> DEFINE restore == /\ gui.ok /\ gui.host = gui.token /\ sessions[R(e)].saved # None
                        /\ rx.at = R(e) /\ rx.setting = sessions[R(e)].saved.setting
  <2>1. restore \in BOOLEAN
    OBVIOUS
  <2> QED
    BY <2>1
<1>l. ~mine => UNCHANGED <<sessions, rx, listen>>
  BY <1>v, <1>p DEF End
<1>m. mine =>
         /\ sessions' = [sessions EXCEPT ![R(e)] = None]
         /\ rx' = [rx EXCEPT !.active = IF restore THEN sessions[R(e)].saved.active ELSE @]
         /\ listen' = [listen EXCEPT !.active =
                          IF gui.tried /\ ~gui.ok /\ rx.at = R(e) THEN rx.active ELSE @]
  BY <1>v, <1>p, <1>q DEF End
<1>h. /\ \A r \in Radio : sessions'[r] = IF mine /\ r = R(e) THEN None ELSE sessions[r]
      /\ sessions' \in [Radio -> ParkedSession \cup {None}]
      /\ rx' \in [active : BOOLEAN, setting : 0..1, at : Radio]
      /\ rx'.at = rx.at /\ rx'.setting = rx.setting
      /\ rx'.active = IF mine /\ restore THEN sessions[R(e)].saved.active ELSE rx.active
      /\ listen' \in [active : BOOLEAN, on : SUBSET Radio]
      /\ listen'.on = listen.on
      /\ listen'.active = IF mine /\ gui.tried /\ ~gui.ok /\ rx.at = R(e) THEN rx.active ELSE listen.active
  <2>1. CASE ~mine
    BY <1>i, <1>l, <2>1
  <2>2. CASE mine
    <3>1. restore => sessions[R(e)].saved.active \in BOOLEAN
      BY <1>i, <1>j, <1>p, <1>q, <2>2 DEF ParkedSession, Reception
    <3>2. PICK a \in BOOLEAN : a = IF restore THEN sessions[R(e)].saved.active ELSE rx.active
      BY <1>i, <3>1
    <3>3. PICK b \in BOOLEAN :
             b = IF gui.tried /\ ~gui.ok /\ rx.at = R(e) THEN rx.active ELSE listen.active
      BY <1>i
    <3>4. rx' = [rx EXCEPT !.active = a] /\ listen' = [listen EXCEPT !.active = b]
      BY <1>m, <2>2, <3>2, <3>3
    <3> QED
      BY <1>i, <1>j, <1>m, <2>2, <3>2, <3>3, <3>4
  <2> QED
    BY <2>1, <2>2
<1>o. \A d \in Engine : mine /\ sessions[R(d)] # None /\ sessions[R(d)].token = engine[d].host
         => R(d) # R(e)
  BY <1>p DEF TakeoverInv, TokensApart
<1>1. Typed'
  BY <1>u, <1>v, <1>j, <1>g, <1>k, <1>h DEF TakeoverInv, Typed, RadiosTyped, EnginesTyped, CallTyped, HostTyped, RestTyped
<1>2. TokensIssued'
  BY <1>u, <1>v, <1>j, <1>g, <1>k, <1>h DEF TakeoverInv, TokensIssued
<1>3. TokensApart'
  BY <1>u, <1>v, <1>j, <1>g, <1>k, <1>h DEF TakeoverInv, TokensApart
<1>4. TokensInPlace'
  BY <1>u, <1>v, <1>j, <1>g, <1>k, <1>h, SessionTokens DEF TakeoverInv, TokensInPlace, R
<1>5. StopsExclude'
  BY <1>u, <1>v, <1>j, <1>g, <1>k, <1>h DEF TakeoverInv, StopsExclude, R
<1>6. CallShape'
  BY <1>u, <1>g, <1>k DEF TakeoverInv, CallShape, Owns, R
<1>7. OwnedStreams'
  BY <1>u, <1>v, <1>j, <1>g, <1>k, <1>h DEF TakeoverInv, OwnedStreams, Owns, R
<1>8. Settled'
  BY <1>u, <1>v, <1>j, <1>g, <1>k, <1>h DEF TakeoverInv, Settled, Without
<1>9. LeasesHeld'
  BY <1>u, <1>v, <1>j, <1>g, <1>k, <1>h DEF TakeoverInv, LeasesHeld, Without
<1>10. SessionsHeld'
  BY <1>u, <1>v, <1>j, <1>g, <1>k, <1>h, <1>p, SessionTokens DEF TakeoverInv, SessionsHeld, TokensInPlace
<1>11. ReceiversParked'
  BY <1>u, <1>v, <1>j, <1>g, <1>k, <1>h, <1>o DEF TakeoverInv, ReceiversParked, ParkedHere, Without, Owns, R
<1>12. ParkedQuiet'
  <2> SUFFICES ASSUME Without({"mode", "overtaken"}), NEW d \in Engine, Owns(d), rx.at = R(d),
                      rx'.active
               PROVE  FALSE
    BY <1>u, <1>g, <1>h DEF ParkedQuiet, Handed, Without, Owns, R
  <2>1. ~rx.active /\ sessions[R(d)] # None /\ sessions[R(d)].token = engine[d].host
    BY DEF TakeoverInv, ParkedQuiet, Handed, ReceiversParked, ParkedHere, Without
  <2> QED
    BY <1>h, <1>o, <1>q, <2>1
<1>13. ParkedIntact'
  <2> SUFFICES ASSUME Without({"mode", "overtaken"}), NEW d \in Engine, Owns(d), rx.at = R(d)
               PROVE  /\ sessions'[R(d)].saved # None
                      /\ sessions'[R(d)].saved.setting = rx.setting
                      /\ sessions'[R(d)].saved.active = listen'.active
    BY <1>u, <1>g, <1>h DEF ParkedIntact, GivingBack, Without, Owns, R
  <2>1. sessions[R(d)] # None /\ sessions[R(d)].token = engine[d].host
    BY DEF TakeoverInv, ReceiversParked, ParkedHere, Without
  <2>2. /\ sessions[R(d)].saved # None
        /\ sessions[R(d)].saved.setting = rx.setting
        /\ sessions[R(d)].saved.active = listen.active
    BY DEF TakeoverInv, ParkedIntact
  <2>3. sessions'[R(d)] = sessions[R(d)] /\ listen'.active = listen.active
    BY <1>h, <1>j, <1>o, <2>1
  <2> QED
    BY <2>2, <2>3
<1>14. ReceiverInStep'
  <2> SUFFICES ASSUME Without({"mode", "overtaken"}), sessions'[rx.at] = None
               PROVE  rx'.active = listen'.active
    BY <1>u, <1>h DEF ReceiverInStep, Without
  <2>1. sessions[rx.at] = None => rx.active = listen.active
    BY <1>i DEF TakeoverInv, ReceiverInStep
  <2>2. CASE ~(mine /\ rx.at = R(e))
    BY <1>h, <1>i, <1>q, <2>1, <2>2
  <2>3. CASE mine /\ rx.at = R(e)
    <3>1. gui.tried /\ gui.token = gui.host
      BY <1>p, <2>3 DEF TakeoverInv, Settled, Without
    <3>2. CASE gui.ok
      <4>1. /\ sessions[R(e)].saved # None
            /\ sessions[R(e)].saved.setting = rx.setting
            /\ sessions[R(e)].saved.active = listen.active
        BY <1>p, <1>u, <1>v, <2>3, <3>2 DEF TakeoverInv, ParkedIntact, GivingBack
      <4> QED
        BY <1>h, <1>q, <2>3, <3>1, <3>2, <4>1
    <3>3. CASE ~gui.ok
      BY <1>h, <1>q, <2>3, <3>1, <3>3
    <3> QED
      BY <3>2, <3>3
  <2> QED
    BY <2>2, <2>3
<1>15. StreamsWanted'
  BY <1>u, <1>v, <1>j, <1>g, <1>k, <1>h DEF TakeoverInv, StreamsWanted, Streaming, CanUse, Without, Owns, R
<1>16. StreamsClean'
  BY <1>u, <1>v, <1>j, <1>g, <1>k, <1>h DEF TakeoverInv, StreamsClean, Clean, InHands, Handed, Streaming, Live, Without, Owns, R
<1>17. EnginesTuned'
  BY <1>u, <1>v, <1>j, <1>g, <1>k, <1>h DEF TakeoverInv, EnginesTuned, Owns, R
<1>18. FlowTuned'
  BY <1>u, <1>v, <1>j, <1>g, <1>k, <1>h DEF TakeoverInv, FlowTuned
<1> QED
  BY <1>1, <1>2, <1>3, <1>4, <1>5, <1>6, <1>7, <1>8, <1>9, <1>10, <1>11, <1>12, <1>13, <1>14, <1>15, <1>16, <1>17, <1>18 DEF TakeoverInv
-----------------------------------------------------------------------------
(* The capture keeps the invariant: what is remembered of a radio nobody    *)
(* owns is not an engine's centre.                                          *)
LEMMA CaptureKeeps ==
    ASSUME TakeoverInv, Capture
    PROVE  TakeoverInv'
<1>j. /\ radio \in [Radio -> RadioState] /\ engine \in [Engine -> EngineState] /\ gui \in CallState
      /\ use.flow \in Radio /\ \A d \in Engine : R(d) \in Radio
  BY Names DEF TakeoverInv, Typed, RadiosTyped, EnginesTyped, CallTyped, RestTyped
<1>v. PICK e \in Engine : gui.e = e
  BY DEF TakeoverInv, CallShape, Capture
<1>u. /\ UNCHANGED <<use, radio, issued, posted, sessions, rx, flow, listen, excuses>> /\ gui.at = "prepare"
  BY DEF Capture, devices, host, history
<1>x. PICK p \in Found :
         /\ engine[e].prev = None => p = [on |-> Streaming(R(e)), centre |-> radio[R(e)].want]
         /\ engine[e].prev # None => p = engine[e].prev
  <2>1. radio[R(e)].want \in {Listen, Air} \cup Engine
    BY <1>j DEF RadioState, Centre
  <2>2. [on |-> Streaming(R(e)), centre |-> radio[R(e)].want] \in Found
    BY <2>1 DEF Found, Streaming
  <2>3. engine[e].prev \in Found \cup {None}
    BY <1>j DEF EngineState
  <2> QED
    BY <2>2, <2>3
<1>y. engine' = [engine EXCEPT ![e].prev = p] /\ gui' = [gui EXCEPT !.at = "claim"]
  BY <1>v, <1>x DEF Capture
<1>l. /\ engine' \in [Engine -> EngineState]
      /\ \A d \in Engine :
            /\ d # e => engine'[d] = engine[d]
            /\ engine'[d].lease = engine[d].lease /\ engine'[d].host = engine[d].host
            /\ engine'[d].run = engine[d].run /\ engine'[d].worker = engine[d].worker
      /\ engine'[e].prev = p /\ p # None
  BY <1>j, <1>y, Names DEF EngineState, TakeoverInv
<1>g. /\ gui' \in CallState /\ gui'.at = "claim" /\ gui'.e = e /\ gui'.token = gui.token
      /\ gui'.host = gui.host /\ gui'.ok = gui.ok /\ gui'.tried = gui.tried /\ gui'.saved = gui.saved
  BY <1>j, <1>y, <1>v DEF CallState
<1>w. \A d \in Engine : Owns(d)' <=> Owns(d)
  BY <1>u, <1>l, <1>j DEF Owns, R
<1>o. Without({"overtaken"}) => engine[e].lease = None /\ engine[e].prev = None
  BY <1>u, <1>v DEF TakeoverInv, Settled
<1>1. Typed'
  BY <1>u, <1>v, <1>j, <1>l, <1>g DEF TakeoverInv, Typed, RadiosTyped, EnginesTyped, CallTyped, HostTyped, RestTyped
<1>2. TokensIssued'
  BY <1>u, <1>v, <1>j, <1>l, <1>g DEF TakeoverInv, TokensIssued
<1>3. TokensApart'
  BY <1>u, <1>v, <1>j, <1>l, <1>g DEF TakeoverInv, TokensApart
<1>4. TokensInPlace'
  BY <1>u, <1>v, <1>j, <1>l, <1>g DEF TakeoverInv, TokensInPlace, R
<1>5. StopsExclude'
  BY <1>u, <1>v, <1>j, <1>l, <1>g DEF TakeoverInv, StopsExclude, R
<1>6. CallShape'
  BY <1>u, <1>v, <1>j, <1>l, <1>g DEF TakeoverInv, CallShape, Owns, R
<1>7. OwnedStreams'
  BY <1>u, <1>v, <1>j, <1>l, <1>g DEF TakeoverInv, OwnedStreams, Owns, R
<1>8. Settled'
  BY <1>u, <1>v, <1>j, <1>l, <1>g DEF TakeoverInv, Settled, Without
<1>9. LeasesHeld'
  BY <1>u, <1>v, <1>j, <1>l, <1>g DEF TakeoverInv, LeasesHeld, Without
<1>10. SessionsHeld'
  BY <1>u, <1>v, <1>j, <1>l, <1>g DEF TakeoverInv, SessionsHeld
<1>11. ReceiversParked'
  BY <1>u, <1>v, <1>j, <1>l, <1>g DEF TakeoverInv, ReceiversParked, ParkedHere, Without, Owns, R
<1>12. ParkedQuiet'
  BY <1>u, <1>v, <1>j, <1>l, <1>g DEF TakeoverInv, ParkedQuiet, Handed, Without, Owns, R
<1>13. ParkedIntact'
  BY <1>u, <1>v, <1>j, <1>l, <1>g DEF TakeoverInv, ParkedIntact, GivingBack, Without, Owns, R
<1>14. ReceiverInStep'
  BY <1>u, <1>v, <1>j, <1>l, <1>g DEF TakeoverInv, ReceiverInStep, Without
<1>15. StreamsWanted'
  BY <1>u, <1>v, <1>j, <1>l, <1>g, <1>o DEF TakeoverInv, StreamsWanted, Streaming, CanUse, Without, Owns, R
<1>16. StreamsClean'
  <2> SUFFICES ASSUME Without({"cold", "overtaken"}) PROVE StreamsClean'
    BY <1>u DEF StreamsClean, Without
  <2>1. \A r \in Radio : InHands(r)' <=> InHands(r)
    BY <1>u, <1>v, <1>g, <1>w DEF InHands, Handed, R
  <2>2. engine[e].lease = None /\ p = [on |-> Streaming(R(e)), centre |-> radio[R(e)].want]
    BY <1>o, <1>x DEF Without
  <2>3. (\A d \in Engine : R(d) = R(e) => ~Owns(d)) => ~InHands(R(e))
    BY <1>u DEF InHands, Handed
  <2>4. p.on /\ (\A d \in Engine : R(d) = R(e) => ~Owns(d)) => p.centre \notin Engine
    BY <1>j, <2>2, <2>3 DEF TakeoverInv, StreamsClean, Clean
  <2>5. ~Owns(e)
    BY <2>2 DEF Owns
  <2>6. \A d \in Engine : d # e => engine'[d].prev = engine[d].prev
    BY <1>l
  <2>7. \A r \in Radio : Streaming(r)' /\ ~InHands(r)' => Clean(r)'
    BY <1>u, <2>1 DEF TakeoverInv, StreamsClean, Clean, Streaming, Live
  <2>8. ASSUME NEW d \in Engine, engine'[d].prev # None, engine'[d].prev.on
        PROVE  /\ Owns(d)' => engine'[d].prev.centre \notin Engine
               /\ gui'.at = "claim" /\ gui'.e = d /\ (\A b \in Engine : R(b) = R(d) => ~Owns(b)) =>
                      engine'[d].prev.centre \notin Engine
    BY <1>g, <1>l, <1>w, <2>4, <2>5, <2>6, <2>8 DEF TakeoverInv, StreamsClean
  <2>9. \A d \in Engine : R(d)' = R(d)
    BY <1>u DEF R
  <2> QED
    BY <1>g, <1>w, <2>7, <2>8, <2>9 DEF StreamsClean
<1>17. EnginesTuned'
  BY <1>u, <1>v, <1>j, <1>l, <1>g DEF TakeoverInv, EnginesTuned, Owns, R
<1>18. FlowTuned'
  BY <1>u, <1>v, <1>j, <1>l, <1>g DEF TakeoverInv, FlowTuned
<1> QED
  BY <1>1, <1>2, <1>3, <1>4, <1>5, <1>6, <1>7, <1>8, <1>9, <1>10, <1>11, <1>12, <1>13, <1>14, <1>15, <1>16, <1>17, <1>18 DEF TakeoverInv

(* A takeover that is refused keeps the invariant.                          *)
LEMMA RefusedKeeps ==
    ASSUME TakeoverInv, Refused
    PROVE  TakeoverInv'
<1>j. /\ radio \in [Radio -> RadioState] /\ engine \in [Engine -> EngineState] /\ gui \in CallState
      /\ use.flow \in Radio /\ \A d \in Engine : R(d) \in Radio
  BY Names DEF TakeoverInv, Typed, RadiosTyped, EnginesTyped, CallTyped, RestTyped
<1>v. PICK e \in Engine : gui.e = e
  BY DEF TakeoverInv, CallShape, Refused
<1>c. /\ NoCall \in CallState /\ NoCall.at = "idle" /\ NoCall.token = None /\ NoCall.host = None
      /\ ~NoCall.ok
  BY DEF NoCall, CallState, Token
<1>u. /\ UNCHANGED <<use, radio, issued, posted, sessions, rx, flow, listen, excuses>> /\ gui.at = "claim"
  BY DEF Refused, devices, host, history
<1>x. PICK t \in Token :
         /\ t = engine[e].lease \/ (t = None /\ radio[R(e)].lease = None)
         /\ engine' = [engine EXCEPT ![e].prev = None, ![e].lease = t]
         /\ gui' = NoCall
  <2> DEFINE taken == ~CanUse(R(e)) \/ (Streaming(R(e)) /\ ~gui.force)
             t == IF taken THEN engine[e].lease ELSE None
  <2>1. t \in Token
    BY <1>j DEF EngineState, Token
  <2>2. engine' = [engine EXCEPT ![e].prev = None, ![e].lease = t] /\ gui' = NoCall
    BY <1>v DEF Refused
  <2>3. t = engine[e].lease \/ (t = None /\ radio[R(e)].lease = None)
    BY DEF CanUse
  <2> HIDE DEF t
  <2> QED
    BY <2>1, <2>2, <2>3
<1>l. /\ engine' \in [Engine -> EngineState]
      /\ \A d \in Engine :
            /\ d # e => engine'[d] = engine[d]
            /\ engine'[d].host = engine[d].host
            /\ engine'[d].run = engine[d].run /\ engine'[d].worker = engine[d].worker
      /\ engine'[e].prev = None /\ engine'[e].lease = t
  BY ZenonT(60), <1>j, <1>x DEF EngineState
<1>g. /\ gui' \in CallState /\ gui'.at = "idle" /\ gui'.token = None /\ gui'.host = None /\ ~gui'.ok
  BY <1>x, <1>c
<1>k. /\ gui.token = None /\ gui.host = None
      /\ Without({"overtaken"}) => engine[e].lease = None /\ engine[e].host = None /\ t = None
  BY <1>u, <1>v, <1>x DEF TakeoverInv, CallShape, Settled
<1>o. \A r \in Radio : radio[r].lease # None /\ radio[r].lease = engine[e].lease => t = engine[e].lease
  BY <1>x DEF TakeoverInv, TokensInPlace
<1>w. \A d \in Engine : Owns(d)' <=> Owns(d)
  BY <1>u, <1>l, <1>j, <1>x DEF Owns, R
<1>z. \A d \in Engine : engine'[d].prev # None => engine'[d].prev = engine[d].prev
  BY <1>l
<1>1. Typed'
  BY <1>u, <1>v, <1>j, <1>l, <1>g, <1>k DEF TakeoverInv, Typed, RadiosTyped, EnginesTyped, CallTyped, HostTyped, RestTyped
<1>2. TokensIssued'
  BY <1>u, <1>v, <1>j, <1>l, <1>g, <1>k, <1>x DEF TakeoverInv, TokensIssued
<1>3. TokensApart'
  BY <1>u, <1>v, <1>j, <1>l, <1>g, <1>k, <1>x DEF TakeoverInv, TokensApart
<1>4. TokensInPlace'
  BY <1>u, <1>v, <1>j, <1>l, <1>g, <1>k, <1>x, SessionTokens DEF TakeoverInv, TokensInPlace, R
<1>5. StopsExclude'
  BY <1>u, <1>v, <1>j, <1>l, <1>g, <1>k DEF TakeoverInv, StopsExclude, R
<1>6. CallShape'
  BY <1>u, <1>v, <1>j, <1>l, <1>g, <1>k DEF TakeoverInv, CallShape, Owns, R
<1>7. OwnedStreams'
  BY <1>u, <1>v, <1>j, <1>l, <1>g, <1>k, <1>w DEF TakeoverInv, OwnedStreams, Owns, R
<1>8. Settled'
  BY <1>u, <1>v, <1>j, <1>l, <1>g, <1>k DEF TakeoverInv, Settled, Without
<1>9. LeasesHeld'
  BY <1>u, <1>v, <1>j, <1>l, <1>g, <1>k, <1>o DEF TakeoverInv, LeasesHeld, Without
<1>10. SessionsHeld'
  BY <1>u, <1>v, <1>j, <1>l, <1>g, <1>k DEF TakeoverInv, SessionsHeld
<1>11. ReceiversParked'
  BY <1>u, <1>v, <1>j, <1>l, <1>g, <1>k, <1>w DEF TakeoverInv, ReceiversParked, ParkedHere, Without, Owns, R
<1>12. ParkedQuiet'
  BY <1>u, <1>v, <1>j, <1>l, <1>g, <1>k, <1>w DEF TakeoverInv, ParkedQuiet, Handed, Without, Owns, R
<1>13. ParkedIntact'
  BY <1>u, <1>v, <1>j, <1>l, <1>g, <1>k, <1>w DEF TakeoverInv, ParkedIntact, GivingBack, Without, Owns, R
<1>14. ReceiverInStep'
  BY <1>u, <1>v, <1>j, <1>l, <1>g, <1>k DEF TakeoverInv, ReceiverInStep, Without
<1>15. StreamsWanted'
  BY <1>u, <1>v, <1>j, <1>l, <1>g, <1>k, <1>w, <1>z DEF TakeoverInv, StreamsWanted, Streaming, CanUse, Without, Owns, R
<1>16. StreamsClean'
  <2>1. \A r \in Radio : InHands(r)' <=> InHands(r)
    BY <1>u, <1>v, <1>g, <1>w DEF InHands, Handed, R
  <2> QED
    BY <1>u, <1>g, <1>w, <1>z, <2>1 DEF TakeoverInv, StreamsClean, Clean, Streaming, Live, Without
<1>17. EnginesTuned'
  BY <1>u, <1>v, <1>j, <1>l, <1>g, <1>k, <1>w DEF TakeoverInv, EnginesTuned, Owns, R
<1>18. FlowTuned'
  BY <1>u, <1>v, <1>j, <1>l, <1>g, <1>k DEF TakeoverInv, FlowTuned
<1> QED
  BY <1>1, <1>2, <1>3, <1>4, <1>5, <1>6, <1>7, <1>8, <1>9, <1>10, <1>11, <1>12, <1>13, <1>14, <1>15, <1>16, <1>17, <1>18 DEF TakeoverInv

(* The tune keeps the invariant: the radio is the engine's own.             *)
LEMMA TuneKeeps ==
    ASSUME TakeoverInv, Tune
    PROVE  TakeoverInv'
<1>j. /\ radio \in [Radio -> RadioState] /\ engine \in [Engine -> EngineState] /\ gui \in CallState
      /\ use.flow \in Radio /\ \A d \in Engine : R(d) \in Radio
  BY Names DEF TakeoverInv, Typed, RadiosTyped, EnginesTyped, CallTyped, RestTyped
<1>v. PICK e \in Engine : gui.e = e
  BY DEF TakeoverInv, CallShape, Tune
<1>u. /\ UNCHANGED <<use, issued, posted, sessions, rx, flow, listen, excuses>> /\ gui.at = "wait"
      /\ Owns(e) /\ radio[R(e)].stream = "live"
  BY <1>v DEF Tune, Live, host, history
<1>x. /\ radio' = [radio EXCEPT ![R(e)].want = e]
      /\ engine' = [engine EXCEPT ![e].pass = (gui.op = "arm")]
      /\ gui' = [gui EXCEPT !.at = "confirm"]
  BY <1>v DEF Tune
<1>l. /\ engine' \in [Engine -> EngineState]
      /\ \A d \in Engine :
            /\ engine'[d].lease = engine[d].lease /\ engine'[d].host = engine[d].host
            /\ engine'[d].prev = engine[d].prev
            /\ engine'[d].run = engine[d].run /\ engine'[d].worker = engine[d].worker
      /\ radio' \in [Radio -> RadioState]
      /\ \A r \in Radio :
            /\ r # R(e) => radio'[r] = radio[r]
            /\ radio'[r].stream = radio[r].stream /\ radio'[r].centre = radio[r].centre
            /\ radio'[r].lease = radio[r].lease /\ radio'[r].stopping = radio[r].stopping
      /\ radio'[R(e)].want = e
  <2>1. PICK p \in BOOLEAN : p = (gui.op = "arm")
    OBVIOUS
  <2>2. engine' = [engine EXCEPT ![e].pass = p]
    BY <1>x, <2>1
  <2> QED
    BY SMTT(30), <1>j, <1>x, <2>2 DEF EngineState, RadioState, Centre
<1>g. /\ gui' \in CallState /\ gui'.at = "confirm" /\ gui'.e = e /\ gui'.token = gui.token
      /\ gui'.host = gui.host /\ gui'.ok = gui.ok /\ gui'.tried = gui.tried /\ gui'.saved = gui.saved
  BY <1>j, <1>x, <1>v DEF CallState
<1>w. \A d \in Engine : Owns(d)' <=> Owns(d)
  BY <1>u, <1>l, <1>j DEF Owns, R
<1>k. ~engine[e].run
  BY <1>u, <1>v DEF TakeoverInv, CallShape
<1>o. \A d \in Engine : Owns(d) /\ d # e => R(d) # R(e)
  BY <1>u DEF TakeoverInv, TokensApart, Owns
<1>1. Typed'
  BY <1>u, <1>v, <1>j, <1>l, <1>g DEF TakeoverInv, Typed, RadiosTyped, EnginesTyped, CallTyped, HostTyped, RestTyped
<1>2. TokensIssued'
  BY <1>u, <1>v, <1>j, <1>l, <1>g DEF TakeoverInv, TokensIssued
<1>3. TokensApart'
  BY <1>u, <1>v, <1>j, <1>l, <1>g DEF TakeoverInv, TokensApart
<1>4. TokensInPlace'
  BY <1>u, <1>v, <1>j, <1>l, <1>g DEF TakeoverInv, TokensInPlace, R
<1>5. StopsExclude'
  BY <1>u, <1>v, <1>j, <1>l, <1>g DEF TakeoverInv, StopsExclude, R
<1>6. CallShape'
  <2>1. gui.token = None /\ gui.host = None /\ ~gui.ok
    BY <1>u DEF TakeoverInv, CallShape
  <2>2. Owns(e)' /\ R(e)' = R(e)
    BY <1>u, <1>w DEF R
  <2>3. engine'[e].run = engine[e].run /\ radio'[R(e)].stream = "live" /\ radio'[R(e)].want = e
    BY <1>u, <1>l, <1>j
  <2> QED
    BY <1>g, <1>k, <2>1, <2>2, <2>3 DEF CallShape
<1>7. OwnedStreams'
  BY <1>u, <1>v, <1>j, <1>l, <1>g, <1>w DEF TakeoverInv, OwnedStreams, Owns, R
<1>8. Settled'
  BY <1>u, <1>v, <1>j, <1>l, <1>g DEF TakeoverInv, Settled, Without
<1>9. LeasesHeld'
  BY <1>u, <1>v, <1>j, <1>l, <1>g DEF TakeoverInv, LeasesHeld, Without
<1>10. SessionsHeld'
  BY <1>u, <1>v, <1>j, <1>l, <1>g DEF TakeoverInv, SessionsHeld
<1>11. ReceiversParked'
  BY <1>u, <1>v, <1>j, <1>l, <1>g, <1>w DEF TakeoverInv, ReceiversParked, ParkedHere, Without, Owns, R
<1>12. ParkedQuiet'
  BY <1>u, <1>v, <1>j, <1>l, <1>g, <1>w DEF TakeoverInv, ParkedQuiet, Handed, Without, Owns, R
<1>13. ParkedIntact'
  BY <1>u, <1>v, <1>j, <1>l, <1>g, <1>w DEF TakeoverInv, ParkedIntact, GivingBack, Without, Owns, R
<1>14. ReceiverInStep'
  BY <1>u, <1>v, <1>j, <1>l, <1>g DEF TakeoverInv, ReceiverInStep, Without
<1>15. StreamsWanted'
  BY <1>u, <1>v, <1>j, <1>l, <1>g, <1>w DEF TakeoverInv, StreamsWanted, Streaming, CanUse, Without, Owns, R
<1>16. StreamsClean'
  <2>1. \A r \in Radio : InHands(r)' <=> InHands(r)
    BY <1>u, <1>v, <1>g, <1>w DEF InHands, Handed, R
  <2>2. InHands(R(e))
    BY <1>u DEF InHands, Handed
  <2>3. \A r \in Radio : ~InHands(r)' => radio'[r] = radio[r]
    BY <1>l, <2>1, <2>2
  <2> QED
    BY <1>u, <1>l, <1>g, <1>w, <2>1, <2>3 DEF TakeoverInv, StreamsClean, Clean, Streaming, Live, Without
<1>17. EnginesTuned'
  BY <1>u, <1>v, <1>j, <1>l, <1>g, <1>w, <1>o, <1>k DEF TakeoverInv, EnginesTuned, Owns, R
<1>18. FlowTuned'
  BY <1>u, <1>v, <1>j, <1>l, <1>g DEF TakeoverInv, FlowTuned, TokensApart, Owns
<1> QED
  BY <1>1, <1>2, <1>3, <1>4, <1>5, <1>6, <1>7, <1>8, <1>9, <1>10, <1>11, <1>12, <1>13, <1>14, <1>15, <1>16, <1>17, <1>18 DEF TakeoverInv

(* The confirmation keeps the invariant.                                    *)
LEMMA ConfirmedKeeps ==
    ASSUME TakeoverInv, Confirmed
    PROVE  TakeoverInv'
<1>j. /\ radio \in [Radio -> RadioState] /\ engine \in [Engine -> EngineState] /\ gui \in CallState
      /\ use.flow \in Radio /\ \A d \in Engine : R(d) \in Radio
  BY Names DEF TakeoverInv, Typed, RadiosTyped, EnginesTyped, CallTyped, RestTyped
<1>v. PICK e \in Engine : gui.e = e
  BY DEF TakeoverInv, CallShape, Confirmed
<1>u. /\ UNCHANGED <<use, radio, issued, engine, posted, sessions, rx, flow, listen, excuses>>
      /\ gui.at = "confirm" /\ radio[R(e)].centre = e
  BY <1>v DEF Confirmed, devices, host, history
<1>x. gui' = [gui EXCEPT !.at = "go"]
  BY DEF Confirmed
<1>g. /\ gui' \in CallState /\ gui'.at = "go" /\ gui'.e = e /\ gui'.token = gui.token
      /\ gui'.host = gui.host /\ gui'.ok = gui.ok /\ gui'.tried = gui.tried /\ gui'.saved = gui.saved
  BY <1>j, <1>x, <1>v DEF CallState
<1>1. Typed'
  BY <1>u, <1>v, <1>j, <1>g DEF TakeoverInv, Typed, RadiosTyped, EnginesTyped, CallTyped, HostTyped, RestTyped
<1>2. TokensIssued'
  BY <1>u, <1>v, <1>j, <1>g DEF TakeoverInv, TokensIssued
<1>3. TokensApart'
  BY <1>u, <1>v, <1>j, <1>g DEF TakeoverInv, TokensApart
<1>4. TokensInPlace'
  BY <1>u, <1>v, <1>j, <1>g DEF TakeoverInv, TokensInPlace, R
<1>5. StopsExclude'
  BY <1>u, <1>v, <1>j, <1>g DEF TakeoverInv, StopsExclude, R
<1>6. CallShape'
  BY <1>u, <1>v, <1>j, <1>g DEF TakeoverInv, CallShape, Owns, R
<1>7. OwnedStreams'
  BY <1>u, <1>v, <1>j, <1>g DEF TakeoverInv, OwnedStreams, Owns, R
<1>8. Settled'
  BY <1>u, <1>v, <1>j, <1>g DEF TakeoverInv, Settled, Without
<1>9. LeasesHeld'
  BY <1>u, <1>v, <1>j, <1>g DEF TakeoverInv, LeasesHeld, Without
<1>10. SessionsHeld'
  BY <1>u, <1>v, <1>j, <1>g DEF TakeoverInv, SessionsHeld
<1>11. ReceiversParked'
  BY <1>u, <1>v, <1>j, <1>g DEF TakeoverInv, ReceiversParked, ParkedHere, Without, Owns, R
<1>12. ParkedQuiet'
  BY <1>u, <1>v, <1>j, <1>g DEF TakeoverInv, ParkedQuiet, Handed, Without, Owns, R
<1>13. ParkedIntact'
  BY <1>u, <1>v, <1>j, <1>g DEF TakeoverInv, ParkedIntact, GivingBack, Without, Owns, R
<1>14. ReceiverInStep'
  BY <1>u, <1>v, <1>j, <1>g DEF TakeoverInv, ReceiverInStep, Without
<1>15. StreamsWanted'
  BY <1>u, <1>v, <1>j, <1>g DEF TakeoverInv, StreamsWanted, Streaming, CanUse, Without, Owns, R
<1>16. StreamsClean'
  BY <1>u, <1>v, <1>j, <1>g DEF TakeoverInv, StreamsClean, Clean, InHands, Handed, Streaming, Live, Without, Owns, R
<1>17. EnginesTuned'
  BY <1>u, <1>v, <1>j, <1>g DEF TakeoverInv, EnginesTuned, Owns, R
<1>18. FlowTuned'
  BY <1>u, <1>v, <1>j, <1>g DEF TakeoverInv, FlowTuned
<1> QED
  BY <1>1, <1>2, <1>3, <1>4, <1>5, <1>6, <1>7, <1>8, <1>9, <1>10, <1>11, <1>12, <1>13, <1>14, <1>15, <1>16, <1>17, <1>18 DEF TakeoverInv

(* A takeover that fails keeps the invariant.                               *)
LEMMA TakeoverFailsKeeps ==
    ASSUME TakeoverInv, TakeoverFails
    PROVE  TakeoverInv'
<1>j. /\ radio \in [Radio -> RadioState] /\ engine \in [Engine -> EngineState] /\ gui \in CallState
      /\ use.flow \in Radio /\ \A d \in Engine : R(d) \in Radio
  BY Names DEF TakeoverInv, Typed, RadiosTyped, EnginesTyped, CallTyped, RestTyped
<1>v. PICK e \in Engine : gui.e = e
  BY DEF TakeoverInv, CallShape, TakeoverFails
<1>u. /\ UNCHANGED <<use, radio, issued, posted, sessions, rx, flow, listen, excuses>>
      /\ gui.at \in {"wait", "confirm"}
  BY <1>v DEF TakeoverFails, devices, host, history
<1>l. /\ engine' \in [Engine -> EngineState]
      /\ \A d \in Engine :
            /\ engine'[d].lease = engine[d].lease /\ engine'[d].host = engine[d].host
            /\ engine'[d].prev = engine[d].prev
            /\ engine'[d].run = engine[d].run /\ engine'[d].worker = engine[d].worker
  <2>1. PICK p \in BOOLEAN : p = (engine[e].pass /\ gui.at # "confirm")
    OBVIOUS
  <2>2. engine' = [engine EXCEPT ![e].pass = p]
    BY <1>v, <2>1 DEF TakeoverFails
  <2> QED
    BY ZenonT(60), <1>j, <2>2 DEF EngineState
<1>g. /\ gui' \in CallState /\ gui'.at = "restore" /\ gui'.e = e /\ gui'.token = None
      /\ gui'.host = None /\ ~gui'.ok
  BY ZenonT(60), <1>v, NewCall DEF TakeoverFails
<1>k. gui.token = None /\ gui.host = None /\ ~engine[e].run
  BY <1>u, <1>v DEF TakeoverInv, CallShape
<1>w. \A d \in Engine : Owns(d)' <=> Owns(d)
  BY <1>u, <1>l, <1>j DEF Owns, R
<1>1. Typed'
  BY <1>u, <1>v, <1>j, <1>l, <1>g, <1>k DEF TakeoverInv, Typed, RadiosTyped, EnginesTyped, CallTyped, HostTyped, RestTyped
<1>2. TokensIssued'
  BY <1>u, <1>v, <1>j, <1>l, <1>g, <1>k DEF TakeoverInv, TokensIssued
<1>3. TokensApart'
  BY <1>u, <1>v, <1>j, <1>l, <1>g, <1>k DEF TakeoverInv, TokensApart
<1>4. TokensInPlace'
  BY <1>u, <1>v, <1>j, <1>l, <1>g, <1>k DEF TakeoverInv, TokensInPlace, R
<1>5. StopsExclude'
  BY <1>u, <1>v, <1>j, <1>l, <1>g, <1>k DEF TakeoverInv, StopsExclude, R
<1>6. CallShape'
  BY <1>u, <1>v, <1>j, <1>l, <1>g, <1>k DEF TakeoverInv, CallShape, Owns, R
<1>7. OwnedStreams'
  BY <1>u, <1>v, <1>j, <1>l, <1>g, <1>k, <1>w DEF TakeoverInv, OwnedStreams, Owns, R
<1>8. Settled'
  BY <1>u, <1>v, <1>j, <1>l, <1>g, <1>k DEF TakeoverInv, Settled, Without
<1>9. LeasesHeld'
  BY <1>u, <1>v, <1>j, <1>l, <1>g, <1>k DEF TakeoverInv, LeasesHeld, Without
<1>10. SessionsHeld'
  BY <1>u, <1>v, <1>j, <1>l, <1>g, <1>k DEF TakeoverInv, SessionsHeld
<1>11. ReceiversParked'
  BY <1>u, <1>v, <1>j, <1>l, <1>g, <1>k, <1>w DEF TakeoverInv, ReceiversParked, ParkedHere, Without, Owns, R
<1>12. ParkedQuiet'
  BY <1>u, <1>v, <1>j, <1>l, <1>g, <1>k, <1>w DEF TakeoverInv, ParkedQuiet, Handed, Without, Owns, R
<1>13. ParkedIntact'
  BY <1>u, <1>v, <1>j, <1>l, <1>g, <1>k, <1>w DEF TakeoverInv, ParkedIntact, GivingBack, Without, Owns, R
<1>14. ReceiverInStep'
  BY <1>u, <1>v, <1>j, <1>l, <1>g, <1>k DEF TakeoverInv, ReceiverInStep, Without
<1>15. StreamsWanted'
  BY <1>u, <1>v, <1>j, <1>l, <1>g, <1>k, <1>w DEF TakeoverInv, StreamsWanted, Streaming, CanUse, Without, Owns, R
<1>16. StreamsClean'
  <2>1. \A r \in Radio : InHands(r)' <=> InHands(r)
    BY <1>u, <1>v, <1>g, <1>w DEF InHands, Handed, R
  <2> QED
    BY <1>u, <1>l, <1>g, <1>w, <2>1 DEF TakeoverInv, StreamsClean, Clean, Streaming, Live, Without
<1>17. EnginesTuned'
  BY <1>u, <1>v, <1>j, <1>l, <1>g, <1>k, <1>w DEF TakeoverInv, EnginesTuned, Owns, R
<1>18. FlowTuned'
  BY <1>u, <1>v, <1>j, <1>l, <1>g, <1>k DEF TakeoverInv, FlowTuned
<1> QED
  BY <1>1, <1>2, <1>3, <1>4, <1>5, <1>6, <1>7, <1>8, <1>9, <1>10, <1>11, <1>12, <1>13, <1>14, <1>15, <1>16, <1>17, <1>18 DEF TakeoverInv

(* The start of a worker keeps the invariant: its radio has confirmed its   *)
(* frequency.                                                               *)
LEMMA GoKeeps ==
    ASSUME TakeoverInv, Go
    PROVE  TakeoverInv'
<1>j. /\ radio \in [Radio -> RadioState] /\ engine \in [Engine -> EngineState] /\ gui \in CallState
      /\ use.flow \in Radio /\ \A d \in Engine : R(d) \in Radio
  BY Names DEF TakeoverInv, Typed, RadiosTyped, EnginesTyped, CallTyped, RestTyped
<1>v. PICK e \in Engine : gui.e = e
  BY DEF TakeoverInv, CallShape, Go
<1>c. /\ NoCall \in CallState /\ NoCall.at = "idle" /\ NoCall.token = None /\ NoCall.host = None
      /\ ~NoCall.ok
  BY DEF NoCall, CallState, Token
<1>u. /\ UNCHANGED <<use, radio, issued, posted, sessions, rx, flow, listen, excuses>> /\ gui.at = "go"
  BY <1>v DEF Go, devices, host, history
<1>x. PICK smart \in BOOLEAN :
           engine' = [engine EXCEPT ![e].run = TRUE, ![e].worker = "running", ![e].lost = smart]
  <2>1. PICK smart \in {FALSE, e = Satcom /\ gui.op = "start"} :
           engine' = [engine EXCEPT ![e].run = TRUE, ![e].worker = "running", ![e].lost = smart]
    BY <1>v DEF Go
  <2>2. smart \in BOOLEAN
    OBVIOUS
  <2> QED
    BY <2>1, <2>2
<1>y. gui' = NoCall
  BY DEF Go
<1>l. /\ engine' \in [Engine -> EngineState]
      /\ \A d \in Engine :
            /\ engine'[d].lease = engine[d].lease /\ engine'[d].host = engine[d].host
            /\ engine'[d].prev = engine[d].prev
            /\ d # e => engine'[d] = engine[d]
      /\ engine'[e].worker = "running"
  BY ZenonT(60), <1>j, <1>x DEF EngineState
<1>g. /\ gui' \in CallState /\ gui'.at = "idle" /\ gui'.token = None /\ gui'.host = None
      /\ ~gui'.ok
  BY <1>c, <1>y
<1>k. /\ gui.token = None /\ gui.host = None /\ radio[R(e)].want = e
      /\ radio[R(e)].stream \in {"live", "stub"} /\ (radio[R(e)].stream = "live" => radio[R(e)].centre = e)
  BY <1>u, <1>v DEF TakeoverInv, CallShape
<1>w. \A d \in Engine : Owns(d)' <=> Owns(d)
  BY <1>u, <1>l, <1>j DEF Owns, R
<1>1. Typed'
  BY <1>u, <1>v, <1>j, <1>l, <1>g, <1>k DEF TakeoverInv, Typed, RadiosTyped, EnginesTyped, CallTyped, HostTyped, RestTyped
<1>2. TokensIssued'
  BY <1>u, <1>v, <1>j, <1>l, <1>g, <1>k DEF TakeoverInv, TokensIssued
<1>3. TokensApart'
  BY <1>u, <1>v, <1>j, <1>l, <1>g, <1>k DEF TakeoverInv, TokensApart
<1>4. TokensInPlace'
  BY <1>u, <1>v, <1>j, <1>l, <1>g, <1>k, SessionTokens DEF TakeoverInv, TokensInPlace, R
<1>5. StopsExclude'
  BY <1>u, <1>v, <1>j, <1>l, <1>g, <1>k DEF TakeoverInv, StopsExclude, R
<1>6. CallShape'
  BY <1>u, <1>v, <1>j, <1>l, <1>g, <1>k DEF TakeoverInv, CallShape, Owns, R
<1>7. OwnedStreams'
  BY <1>u, <1>v, <1>j, <1>l, <1>g, <1>k, <1>w DEF TakeoverInv, OwnedStreams, Owns, R
<1>8. Settled'
  BY <1>u, <1>v, <1>j, <1>l, <1>g, <1>k DEF TakeoverInv, Settled, Without
<1>9. LeasesHeld'
  BY <1>u, <1>v, <1>j, <1>l, <1>g, <1>k DEF TakeoverInv, LeasesHeld, Without
<1>10. SessionsHeld'
  BY <1>u, <1>v, <1>j, <1>l, <1>g, <1>k DEF TakeoverInv, SessionsHeld
<1>11. ReceiversParked'
  BY <1>u, <1>v, <1>j, <1>l, <1>g, <1>k, <1>w DEF TakeoverInv, ReceiversParked, ParkedHere, Without, Owns, R
<1>12. ParkedQuiet'
  BY <1>u, <1>v, <1>j, <1>l, <1>g, <1>k, <1>w DEF TakeoverInv, ParkedQuiet, Handed, Without, Owns, R
<1>13. ParkedIntact'
  BY <1>u, <1>v, <1>j, <1>l, <1>g, <1>k, <1>w DEF TakeoverInv, ParkedIntact, GivingBack, Without, Owns, R
<1>14. ReceiverInStep'
  BY <1>u, <1>v, <1>j, <1>l, <1>g, <1>k DEF TakeoverInv, ReceiverInStep, Without
<1>15. StreamsWanted'
  BY <1>u, <1>v, <1>j, <1>l, <1>g, <1>k, <1>w DEF TakeoverInv, StreamsWanted, Streaming, CanUse, Without, Owns, R
<1>16. StreamsClean'
  <2>1. \A r \in Radio : InHands(r)' <=> InHands(r)
    BY <1>u, <1>v, <1>g, <1>w DEF InHands, Handed, R
  <2> QED
    BY <1>u, <1>l, <1>g, <1>w, <2>1 DEF TakeoverInv, StreamsClean, Clean, Streaming, Live, Without
<1>17. EnginesTuned'
  BY <1>u, <1>v, <1>j, <1>l, <1>g, <1>k, <1>w DEF TakeoverInv, EnginesTuned, Owns, R
<1>18. FlowTuned'
  BY <1>u, <1>v, <1>j, <1>l, <1>g, <1>k DEF TakeoverInv, FlowTuned
<1> QED
  BY <1>1, <1>2, <1>3, <1>4, <1>5, <1>6, <1>7, <1>8, <1>9, <1>10, <1>11, <1>12, <1>13, <1>14, <1>15, <1>16, <1>17, <1>18 DEF TakeoverInv

(* What the claim does to radio, engine and call; the receiver is parked    *)
(* beside it.                                                               *)
ClaimStep(e, t) ==
    /\ t = issued + 1 /\ issued' = t
    /\ gui.at = "claim" /\ gui.e = e
    /\ radio[R(e)].lease = None /\ ~radio[R(e)].stopping
    /\ UNCHANGED <<use, posted, flow, listen>>
    /\ excuses \subseteq excuses'
    /\ engine[e].prev.on /\ R(e) \notin listen.on => "torn" \in excuses'
    /\ engine' \in [Engine -> EngineState] /\ radio' \in [Radio -> RadioState] /\ gui' \in CallState
    /\ \A d \in Engine :
          /\ d # e => engine'[d] = engine[d]
          /\ engine'[d].prev = engine[d].prev /\ engine'[d].run = engine[d].run
          /\ engine'[d].worker = engine[d].worker
    /\ engine'[e].lease = t
    /\ engine'[e].host = IF engine[e].host = None THEN t ELSE engine[e].host
    /\ \A r \in Radio :
          /\ r # R(e) => radio'[r] = radio[r]
          /\ radio'[r].want = radio[r].want /\ radio'[r].centre = radio[r].centre
          /\ radio'[r].stopping = radio[r].stopping
          /\ radio'[r].stream = "live" => radio[r].stream = "live"
    /\ radio'[R(e)].lease = t
    /\ gui'.at \in {"wait", "restore"} /\ gui'.e = e /\ gui'.token = None /\ gui'.host = None /\ ~gui'.ok
    /\ gui'.at = "wait" => radio'[R(e)].stream # "off"

(* The claim is such a step ...                                             *)
LEMMA ClaimSteps ==
    ASSUME TakeoverInv, Claim
    PROVE  \E e \in Engine : ClaimStep(e, issued + 1) /\ Park(e, R(e), issued + 1)
<1>j. /\ radio \in [Radio -> RadioState] /\ engine \in [Engine -> EngineState] /\ gui \in CallState
      /\ use.flow \in Radio /\ \A d \in Engine : R(d) \in Radio
  BY Names DEF TakeoverInv, Typed, RadiosTyped, EnginesTyped, CallTyped, RestTyped
<1>v. PICK e \in Engine : gui.e = e
  BY DEF TakeoverInv, CallShape, Claim
<1>t. PICK t \in Nat : t = issued + 1
  BY Fresh
<1>u. /\ gui.at = "claim" /\ CanUse(R(e)) /\ issued' = t /\ Park(e, R(e), t)
      /\ UNCHANGED <<use, posted, flow, listen>>
      /\ excuses' = excuses \cup {x \in {"torn"} : engine[e].prev.on /\ R(e) \notin listen.on}
      /\ engine' = [engine EXCEPT ![e].lease = t, ![e].host = IF @ = None THEN t ELSE @]
  BY <1>v, <1>t DEF Claim
<1>x. PICK opened \in BOOLEAN :
         /\ opened \in {Live(R(e))} \cup {b \in BOOLEAN : ~Streaming(R(e))}
         /\ radio' = [radio EXCEPT ![R(e)].lease = t,
                          ![R(e)].stream = IF @ = "off" /\ opened THEN "opening" ELSE @]
         /\ gui' = IF opened THEN [gui EXCEPT !.at = "wait"] ELSE Call("restore", "stop", e, FALSE)
  <2>1. Live(R(e)) \in BOOLEAN
    BY DEF Live
  <2> QED
    BY <1>v, <1>t, <2>1 DEF Claim
<1>k. gui.token = None /\ gui.host = None /\ ~gui.ok
  BY <1>u DEF TakeoverInv, CallShape
<1>1. /\ engine' \in [Engine -> EngineState]
      /\ \A d \in Engine :
            /\ d # e => engine'[d] = engine[d]
            /\ engine'[d].prev = engine[d].prev /\ engine'[d].run = engine[d].run
            /\ engine'[d].worker = engine[d].worker
      /\ engine'[e].lease = t
      /\ engine'[e].host = IF engine[e].host = None THEN t ELSE engine[e].host
  <2>1. PICK h \in Token : h = IF engine[e].host = None THEN t ELSE engine[e].host
    BY <1>j DEF EngineState, Token
  <2>2. engine' = [engine EXCEPT ![e].lease = t, ![e].host = h]
    BY <1>u, <2>1
  <2> QED
    BY ZenonT(60), <1>j, <2>1, <2>2 DEF EngineState, Token
<1>2. /\ radio' \in [Radio -> RadioState]
      /\ \A r \in Radio :
            /\ r # R(e) => radio'[r] = radio[r]
            /\ radio'[r].want = radio[r].want /\ radio'[r].centre = radio[r].centre
            /\ radio'[r].stopping = radio[r].stopping
            /\ radio'[r].stream = "live" => radio[r].stream = "live"
      /\ radio'[R(e)].lease = t
      /\ opened => radio'[R(e)].stream # "off"
  <2>1. PICK s \in {"off", "opening", "live", "stub"} :
           s = IF radio[R(e)].stream = "off" /\ opened THEN "opening" ELSE radio[R(e)].stream
    BY <1>j DEF RadioState
  <2>2. radio' = [radio EXCEPT ![R(e)].lease = t, ![R(e)].stream = s]
    BY <1>x, <2>1
  <2>3. (s = "live" => radio[R(e)].stream = "live") /\ (opened => s # "off")
    BY <2>1
  <2> QED
    BY <1>j, <2>2, <2>3 DEF RadioState, Token
<1>3. /\ gui' \in CallState /\ gui'.at \in {"wait", "restore"} /\ gui'.e = e
      /\ gui'.token = None /\ gui'.host = None /\ ~gui'.ok /\ (gui'.at = "wait" => opened)
  <2>1. CASE opened
    <3>1. gui' = [gui EXCEPT !.at = "wait"]
      BY <1>x, <2>1
    <3> QED
      BY <1>j, <1>v, <1>k, <2>1, <3>1 DEF CallState
  <2>2. CASE ~opened
    <3>1. gui' = Call("restore", "stop", e, FALSE)
      BY <1>x, <2>2
    <3> QED
      BY ZenonT(60), <3>1, NewCall
  <2> QED
    BY <2>1, <2>2
<1>4. ClaimStep(e, t)
  BY <1>t, <1>u, <1>v, <1>1, <1>2, <1>3 DEF ClaimStep, CanUse
<1> QED
  BY <1>t, <1>u, <1>4

(* ... and such a step keeps the invariant.                                 *)
LEMMA ClaimKeeps ==
    ASSUME TakeoverInv, NEW e \in Engine, NEW t \in Nat, ClaimStep(e, t), Park(e, R(e), t)
    PROVE  TakeoverInv'
<1>j. /\ radio \in [Radio -> RadioState] /\ engine \in [Engine -> EngineState] /\ gui \in CallState
      /\ use.flow \in Radio /\ \A d \in Engine : R(d) \in Radio
  BY Names DEF TakeoverInv, Typed, RadiosTyped, EnginesTyped, CallTyped, RestTyped
<1>i. /\ sessions \in [Radio -> ParkedSession \cup {None}]
      /\ rx \in [active : BOOLEAN, setting : 0..1, at : Radio]
      /\ listen \in [active : BOOLEAN, on : SUBSET Radio]
  BY DEF TakeoverInv, Typed, HostTyped
<1>u. /\ t = issued + 1 /\ issued' = t /\ gui.at = "claim" /\ gui.e = e
      /\ UNCHANGED <<use, posted, flow, listen>> /\ excuses \subseteq excuses'
      /\ radio[R(e)].lease = None /\ ~radio[R(e)].stopping
  BY DEF ClaimStep
<1>l. /\ engine' \in [Engine -> EngineState]
      /\ \A d \in Engine :
            /\ d # e => engine'[d] = engine[d]
            /\ engine'[d].prev = engine[d].prev /\ engine'[d].run = engine[d].run
            /\ engine'[d].worker = engine[d].worker
      /\ engine'[e].lease = t /\ ~engine[e].run
      /\ engine'[e].host = IF engine[e].host = None THEN t ELSE engine[e].host
  BY <1>u DEF ClaimStep, TakeoverInv, CallShape
<1>k. /\ radio' \in [Radio -> RadioState]
      /\ \A r \in Radio :
            /\ r # R(e) => radio'[r] = radio[r]
            /\ radio'[r].want = radio[r].want /\ radio'[r].centre = radio[r].centre
            /\ radio'[r].stopping = radio[r].stopping
            /\ radio'[r].stream = "live" => radio[r].stream = "live"
      /\ radio'[R(e)].lease = t
  BY DEF ClaimStep
<1>g. /\ gui' \in CallState /\ gui'.at \in {"wait", "restore"} /\ gui'.e = e
      /\ gui'.token = None /\ gui'.host = None /\ ~gui'.ok
      /\ (gui'.at = "wait" => radio'[R(e)].stream # "off")
      /\ gui.token = None /\ gui.host = None /\ engine[e].prev # None
  BY <1>u DEF ClaimStep, TakeoverInv, CallShape
<1>h. /\ sessions' \in [Radio -> ParkedSession \cup {None}]
      /\ rx' \in [active : BOOLEAN, setting : 0..1, at : Radio]
      /\ rx'.at = rx.at /\ rx'.setting = rx.setting
      /\ \A r \in Radio : r # R(e) => sessions'[r] = sessions[r]
      /\ rx.at # R(e) => rx'.active = rx.active
      /\ engine[e].host # None => sessions' = sessions
      /\ engine[e].host = None =>
            /\ sessions[R(e)] = None /\ sessions'[R(e)] # None /\ sessions'[R(e)].token = t
            /\ rx.at = R(e) => /\ ~rx'.active /\ sessions'[R(e)].saved # None
                              /\ sessions'[R(e)].saved.active = rx.active
                              /\ sessions'[R(e)].saved.setting = rx.setting
  <2>1. CASE engine[e].host # None
    BY <1>i, <2>1 DEF Park, host
  <2>2. CASE engine[e].host = None
    <3>1. PICK s \in Reception \cup {None} :
             s = IF rx.at = R(e) THEN [active |-> rx.active, setting |-> rx.setting] ELSE None
      BY <1>i DEF Reception
    <3>2. PICK a \in BOOLEAN : a = (rx.active /\ rx.at # R(e))
      OBVIOUS
    <3>3. /\ sessions[R(e)] = None /\ sessions' = [sessions EXCEPT ![R(e)] = [token |-> t, saved |-> s]]
          /\ rx' = [rx EXCEPT !.active = a]
      BY <2>2, <3>1, <3>2 DEF Park
    <3>4. [token |-> t, saved |-> s] \in ParkedSession
      BY DEF ParkedSession
    <3>5. /\ [token |-> t, saved |-> s] # None
          /\ rx.at = R(e) => s # None /\ s.active = rx.active /\ s.setting = rx.setting
      <4>1. rx.at = R(e) => [active |-> rx.active, setting |-> rx.setting] \in Reception
        BY <1>i DEF Reception
      <4> QED
        BY <3>1, <3>4, <4>1, Names DEF TakeoverInv
    <3> QED
      BY <1>i, <1>j, <2>2, <3>2, <3>3, <3>4, <3>5
  <2> QED
    BY <2>1, <2>2
<1>m. issued' \in Nat
  BY <1>u
<1>w. /\ Owns(e)' /\ ~Owns(e)
      /\ \A d \in Engine : d # e => (Owns(d)' <=> Owns(d))
      /\ \A d \in Engine : Owns(d) => R(d) # R(e)
      /\ \A d \in Engine : d # e /\ R(d) = R(e) => ~Owns(d)'
  <2>1. /\ \A d \in Engine : engine[d].lease # t
        /\ t # None
    BY <1>u, Fresh
  <2>2. \A d \in Engine : Owns(d) => R(d) # R(e)
    BY <1>u DEF Owns
  <2> QED
    BY <1>u, <1>l, <1>k, <1>j, <2>1, <2>2 DEF Owns, R
<1>f. /\ t # None /\ \A r \in Radio : radio[r].lease # t /\ (sessions[r] # None => sessions[r].token # t /\ sessions[r].token # None)
      /\ \A d \in Engine : engine[d].lease # t /\ engine[d].host # t
      /\ flow.token # t
  BY <1>u, Fresh, SessionTokens DEF TakeoverInv
<1>o. Without({"overtaken"}) => engine[e].host = None /\ engine[e].lease = None
  BY <1>u DEF TakeoverInv, Settled
<1>1. Typed'
  BY <1>u, <1>j, <1>l, <1>k, <1>g, <1>h, <1>m DEF TakeoverInv, Typed, RadiosTyped, EnginesTyped, CallTyped, HostTyped, RestTyped
<1>2. TokensIssued'
  BY <1>u, <1>j, <1>l, <1>k, <1>g, <1>h, Fresh DEF TakeoverInv, TokensIssued
<1>3. TokensApart'
  <2>1. \A d \in Engine : d # e => engine'[d].lease # t /\ engine'[d].host # t /\ engine'[d] = engine[d]
    BY <1>l, <1>f
  <2>2. engine'[e].lease = t /\ engine'[e].host \in {t, engine[e].host} /\ engine'[e].host # None
    BY <1>l, <1>f
  <2>3. flow' = flow /\ flow.token # t
    BY <1>u, <1>f
  <2> QED
    BY <1>g, <1>f, <2>1, <2>2, <2>3 DEF TakeoverInv, TokensApart
<1>4. TokensInPlace'
  <2>1. \A d \in Engine, r \in Radio :
           radio'[r].lease # None /\ radio'[r].lease = engine'[d].lease => r = R(d)
    <3> SUFFICES ASSUME NEW d \in Engine, NEW r \in Radio,
                        radio'[r].lease # None, radio'[r].lease = engine'[d].lease
                 PROVE  r = R(d)
      OBVIOUS
    <3>1. CASE d = e
      BY <1>k, <1>l, <1>f, <3>1
    <3>2. CASE d # e
      <4>1. engine'[d].lease = engine[d].lease /\ engine[d].lease # t
        BY <1>l, <1>f, <3>2
      <4>2. radio'[r].lease = radio[r].lease
        BY <1>k, <4>1
      <4> QED
        BY <4>1, <4>2 DEF TakeoverInv, TokensInPlace
    <3> QED
      BY <3>1, <3>2
  <2>2. \A d \in Engine, r \in Radio :
           sessions'[r] # None /\ sessions'[r].token = engine'[d].host => r = R(d)
    <3> SUFFICES ASSUME NEW d \in Engine, NEW r \in Radio,
                        sessions'[r] # None, sessions'[r].token = engine'[d].host
                 PROVE  r = R(d)
      OBVIOUS
    <3>1. CASE engine[e].host # None
      <4>1. sessions'[r] = sessions[r] /\ engine'[d].host = engine[d].host
        BY <1>h, <1>l, <3>1
      <4> QED
        BY <4>1 DEF TakeoverInv, TokensInPlace
    <3>2. CASE engine[e].host = None /\ d = e
      BY <1>h, <1>l, <1>f, <3>2
    <3>3. CASE engine[e].host = None /\ d # e
      <4>1. engine'[d].host = engine[d].host /\ engine[d].host # t
        BY <1>l, <1>f, <3>3
      <4>2. sessions'[r] = sessions[r]
        BY <1>h, <3>3, <4>1
      <4> QED
        BY <4>1, <4>2 DEF TakeoverInv, TokensInPlace
    <3> QED
      BY <3>1, <3>2, <3>3
  <2>3. \A r \in Radio : radio'[r].lease # None /\ radio'[r].lease = flow'.token => r = use.flow
    BY <1>u, <1>k, <1>f DEF TakeoverInv, TokensInPlace
  <2>4. \A r \in Radio : sessions'[r] # None => sessions'[r].token # None
    BY <1>h, <1>f
  <2>5. \A d \in Engine : R(d)' = R(d)
    BY <1>u DEF R
  <2> QED
    BY <1>u, <1>g, <2>1, <2>2, <2>3, <2>4, <2>5 DEF TokensInPlace
<1>5. StopsExclude'
  BY SMTT(30), <1>u, <1>j, <1>l, <1>k, <1>g, <1>h DEF TakeoverInv, StopsExclude, R
<1>6. CallShape'
  BY <1>u, <1>l, <1>g, <1>w DEF TakeoverInv, CallShape, R
<1>7. OwnedStreams'
  BY <1>u, <1>j, <1>l, <1>k, <1>g, <1>h, <1>w DEF TakeoverInv, OwnedStreams, R
<1>8. Settled'
  BY <1>u, <1>j, <1>l, <1>k, <1>g, <1>h, <1>o, Fresh DEF TakeoverInv, Settled, Without
<1>9. LeasesHeld'
  <2> SUFFICES ASSUME Without({"overtaken"}), NEW r \in Radio, radio'[r].lease # None
               PROVE  radio'[r].lease = flow'.token \/ \E d \in Engine : radio'[r].lease = engine'[d].lease
    BY <1>u DEF LeasesHeld, Without
  <2>1. CASE r = R(e)
    BY <1>k, <1>l, <2>1
  <2>2. CASE r # R(e)
    <3>1. radio'[r] = radio[r]
      BY <1>k, <2>2
    <3>2. radio[r].lease = flow.token \/ \E d \in Engine : radio[r].lease = engine[d].lease
      BY <1>u, <3>1 DEF TakeoverInv, LeasesHeld
    <3>3. \A d \in Engine : radio[r].lease = engine[d].lease => d # e
      BY <1>o, <3>1
    <3> QED
      BY <1>u, <1>l, <3>1, <3>2, <3>3
  <2> QED
    BY <2>1, <2>2
<1>10. SessionsHeld'
  <2> SUFFICES ASSUME NEW r \in Radio, sessions'[r] # None
               PROVE  \E d \in Engine : sessions'[r].token = engine'[d].host
    BY DEF SessionsHeld
  <2>1. CASE sessions'[r] = sessions[r]
    <3>1. PICK d \in Engine : sessions[r].token = engine[d].host
      BY <1>f, <1>g, <2>1 DEF TakeoverInv, SessionsHeld
    <3>2. engine'[d].host = engine[d].host
      BY <1>l, <1>f, <2>1, <3>1
    <3> QED
      BY <2>1, <3>1, <3>2
  <2>2. CASE sessions'[r] # sessions[r]
    <3>1. r = R(e) /\ engine[e].host = None
      BY <1>h, <2>2
    <3> QED
      BY <1>h, <1>l, <3>1
  <2> QED
    BY <2>1, <2>2
<1>11. ReceiversParked'
  BY <1>u, <1>j, <1>l, <1>k, <1>g, <1>h, <1>w, <1>o DEF TakeoverInv, ReceiversParked, ParkedHere, Without, R
<1>12. ParkedQuiet'
  BY <1>u, <1>j, <1>l, <1>k, <1>g, <1>h, <1>w, <1>o DEF TakeoverInv, ParkedQuiet, Handed, Without, R
<1>13. ParkedIntact'
  <2> SUFFICES ASSUME Without({"mode", "overtaken"})',
                      NEW d \in Engine, Owns(d)' \/ GivingBack(d)', rx'.at = R(d)
               PROVE  /\ sessions'[R(d)].saved # None
                      /\ sessions'[R(d)].saved.setting = rx'.setting
                      /\ sessions'[R(d)].saved.active = listen'.active
    BY <1>u DEF ParkedIntact, R
  <2>1. Without({"mode", "overtaken"}) /\ Without({"overtaken"})
    BY <1>u DEF Without
  <2>2. Owns(d)'
    BY <1>g DEF GivingBack
  <2>3. CASE d = e
    <3>1. rx.active = listen.active
      BY <1>h, <1>j, <1>o, <2>1, <2>3 DEF TakeoverInv, ReceiverInStep
    <3> QED
      BY <1>u, <1>h, <1>o, <2>1, <2>3, <3>1
  <2>4. CASE d # e
    <3>1. Owns(d) /\ R(d) # R(e)
      BY <1>w, <2>2, <2>4
    <3>2. sessions'[R(d)] = sessions[R(d)] /\ rx.at = R(d)
      BY <1>h, <1>j, <3>1
    <3> QED
      BY <1>u, <1>h, <2>1, <3>1, <3>2 DEF TakeoverInv, ParkedIntact
  <2> QED
    BY <2>3, <2>4
<1>14. ReceiverInStep'
  BY <1>u, <1>j, <1>l, <1>k, <1>g, <1>h, <1>o, <1>i DEF TakeoverInv, ReceiverInStep, Without
<1>15. StreamsWanted'
  <2> SUFFICES ASSUME Without({"overtaken", "torn"})' PROVE StreamsWanted'
    BY DEF StreamsWanted
  <2>1. Without({"overtaken", "torn"}) /\ (engine[e].prev.on => R(e) \in listen.on)
    BY <1>u DEF Without, ClaimStep
  <2>2. \A r \in Radio : Streaming(r)' /\ CanUse(r)' => r \in listen.on
    <3> SUFFICES ASSUME NEW r \in Radio, Streaming(r)', CanUse(r)' PROVE r \in listen.on
      OBVIOUS
    <3>1. radio'[r] = radio[r]
      BY <1>k, <1>f DEF CanUse
    <3> QED
      BY <2>1, <3>1 DEF TakeoverInv, StreamsWanted, Streaming, CanUse
  <2>3. \A d \in Engine : Owns(d)' /\ engine'[d].prev # None /\ engine'[d].prev.on => R(d) \in listen.on
    BY <1>l, <1>w, <2>1 DEF TakeoverInv, StreamsWanted
  <2>4. \A d \in Engine : R(d)' = R(d)
    BY <1>u DEF R
  <2> QED
    BY <1>u, <1>g, <2>2, <2>3, <2>4 DEF StreamsWanted
<1>16. StreamsClean'
  <2> SUFFICES ASSUME Without({"cold", "overtaken"}) PROVE StreamsClean'
    BY <1>u DEF StreamsClean, Without
  <2>1. \A r \in Radio : InHands(r) => InHands(r)'
    BY <1>u, <1>w DEF InHands, Handed, R
  <2>2. InHands(R(e))'
    BY <1>u, <1>w DEF InHands, Handed, R
  <2>3. \A r \in Radio : Streaming(r)' /\ ~InHands(r)' => Clean(r)'
    <3> SUFFICES ASSUME NEW r \in Radio, Streaming(r)', ~InHands(r)' PROVE Clean(r)'
      OBVIOUS
    <3>1. ~InHands(r)
      BY <2>1
    <3>2. r # R(e)
      <4> SUFFICES ASSUME r = R(e) PROVE FALSE
        OBVIOUS
      <4> QED
        BY <1>w, <1>u DEF InHands, Handed, R
    <3>3. radio'[r] = radio[r]
      BY <1>k, <3>2
    <3> QED
      BY <3>1, <3>3 DEF TakeoverInv, StreamsClean, Clean, Streaming, Live
  <2>4. engine[e].prev.on => engine[e].prev.centre \notin Engine
    <3>1. \A d \in Engine : R(d) = R(e) => ~Owns(d)
      BY <1>w
    <3> QED
      BY <1>u, <1>g, <3>1 DEF TakeoverInv, StreamsClean
  <2> QED
    BY <1>u, <1>l, <1>g, <1>w, <2>3, <2>4 DEF TakeoverInv, StreamsClean
<1>17. EnginesTuned'
  BY <1>u, <1>j, <1>l, <1>k, <1>g, <1>h, <1>w DEF TakeoverInv, EnginesTuned, R
<1>18. FlowTuned'
  BY <1>u, <1>j, <1>l, <1>k, <1>g, <1>h, Fresh DEF TakeoverInv, FlowTuned
<1> QED
  BY <1>1, <1>2, <1>3, <1>4, <1>5, <1>6, <1>7, <1>8, <1>9, <1>10, <1>11, <1>12, <1>13, <1>14, <1>15, <1>16, <1>17, <1>18 DEF TakeoverInv
-----------------------------------------------------------------------------
(* The invariant holds at first, whether or not Listen is receiving ...     *)
LEMMA InitKeeps ==
    ASSUME Init
    PROVE  TakeoverInv
<1>1. PICK on \in BOOLEAN :
         /\ radio = [r \in Radio |->
                 [stream |-> IF on /\ r = use.at THEN "live" ELSE "off",
                  centre |-> Listen, want |-> Listen, lease |-> None, stopping |-> FALSE]]
         /\ rx = [active |-> on, setting |-> 0, at |-> use.at]
         /\ listen = [active |-> on, on |-> {r \in {use.at} : on}]
  BY DEF Init
<1>2. /\ use \in Use /\ issued = 0 /\ engine = [e \in Engine |-> NoSession] /\ gui = NoCall
      /\ posted = <<>> /\ sessions = [r \in Radio |-> None] /\ flow = [pc |-> "idle", token |-> None]
      /\ excuses = {}
  BY DEF Init
<1>3. /\ use.at \in Radio /\ use.flow \in Radio /\ \A e \in Engine : R(e) \in Radio
      /\ None \notin Nat /\ Listen \notin Engine
  BY <1>2, NamesAssumption, TakeoverAssumption DEF R
<1>4. /\ radio \in [Radio -> RadioState]
      /\ \A r \in Radio :
            /\ radio[r].lease = None /\ ~radio[r].stopping
            /\ radio[r].centre = Listen /\ radio[r].want = Listen
            /\ radio[r].stream # "off" => on /\ r = use.at
  BY <1>1 DEF RadioState, Centre, Token
<1>5. /\ engine \in [Engine -> EngineState]
      /\ \A e \in Engine :
            /\ engine[e].lease = None /\ engine[e].host = None /\ engine[e].prev = None
            /\ ~engine[e].run /\ engine[e].worker = "none"
  BY <1>2 DEF NoSession, EngineState, Token
<1>6. /\ gui \in CallState /\ gui.at = "idle" /\ gui.token = None /\ gui.host = None /\ ~gui.ok
  BY <1>2 DEF NoCall, CallState, Token
<1>7. /\ \A r \in Radio : sessions[r] = None
      /\ sessions \in [Radio -> ParkedSession \cup {None}]
      /\ rx \in [active : BOOLEAN, setting : 0..1, at : Radio]
      /\ listen \in [active : BOOLEAN, on : SUBSET Radio]
      /\ rx.active <=> on
      /\ listen.active <=> on
      /\ on => use.at \in listen.on
  BY <1>1, <1>2, <1>3
<1>8. /\ flow \in FlowState /\ flow.pc = "idle" /\ flow.token = None
      /\ posted \in Seq([e : Engine, lease : Token]) /\ issued \in Nat
  BY <1>2 DEF FlowState, Token
<1>9. \A e \in Engine : ~Owns(e) /\ ~Handed(e)
  BY <1>5, <1>6 DEF Owns, Handed
<1> USE <1>2, <1>3, <1>4, <1>5, <1>6, <1>7, <1>8, <1>9
<1>10. Typed
  BY DEF Typed, RadiosTyped, EnginesTyped, CallTyped, HostTyped, RestTyped
<1>11. TokensIssued /\ TokensApart /\ TokensInPlace /\ StopsExclude
  BY DEF TokensIssued, TokensApart, TokensInPlace, StopsExclude
<1>12. CallShape /\ OwnedStreams /\ Settled /\ LeasesHeld /\ SessionsHeld
  BY DEF CallShape, OwnedStreams, Settled, LeasesHeld, SessionsHeld
<1>13. ReceiversParked /\ ParkedQuiet /\ ParkedIntact /\ ReceiverInStep
  BY DEF ReceiversParked, ParkedQuiet, ParkedIntact, GivingBack, ReceiverInStep
<1>14. StreamsWanted /\ StreamsClean /\ EnginesTuned /\ FlowTuned
  BY DEF StreamsWanted, Streaming, StreamsClean, Clean, EnginesTuned, FlowTuned
<1> QED
  BY <1>10, <1>11, <1>12, <1>13, <1>14 DEF TakeoverInv

(* ... and every step of any of the threads keeps it.                       *)
LEMMA NextKeeps ==
    ASSUME TakeoverInv, [Next]_vars
    PROVE  TakeoverInv'
<1>1. CASE UNCHANGED vars
  <2>1. StreamStep
    <3>1. radio \in [Radio -> RadioState]
      BY DEF TakeoverInv, Typed, RadiosTyped
    <3> QED
      BY <1>1, <3>1 DEF vars, StreamStep
  <2> QED
    BY <2>1, StreamsKeep
<1>2. CASE \/ \E e \in Engine : Stop(e) \/ \E force \in BOOLEAN : Start(e, force)
           \/ \E force \in BOOLEAN : Arm(force)
           \/ Disarm \/ Dispatch
  BY <1>2, CallsStep, CallsKeep
<1>3. CASE \/ \E e \in Engine : Works(e) \/ Throws(e)
           \/ PassEnds \/ Posts
  BY <1>3, WorkersStep, WorkersKeep
<1>4. CASE \E r \in Radio : Opens(r) \/ Applies(r) \/ Fault(r)
  BY <1>4, StreamsStep, StreamsKeep
<1>5. CASE ListenTune \/ ListenOff \/ \E r \in Radio : ListenApply(r)
  BY <1>5, EditsStep, EditsKeep
<1>6. CASE ListenMode \/ Rescan
  BY <1>6, ModeKeeps, RescanKeeps
<1>7. CASE Flows
  BY <1>7, FlowClaimKeeps, LooksKeep, FlowStopKeeps, FlowHaltKeeps DEF Flows
<1>8. CASE Cleanup
  <2>1. CASE Restore
    BY <2>1, RestoreSteps, RestoreKeeps
  <2> QED
    BY <1>8, <2>1, JoinKeeps, RestoredKeeps, RestoreGivesUpKeeps, HaltedKeeps, EndKeeps DEF Cleanup
<1>9. CASE Takeover
  <2>1. CASE Claim
    <3>1. PICK e \in Engine : ClaimStep(e, issued + 1) /\ Park(e, R(e), issued + 1)
      BY <2>1, ClaimSteps
    <3>2. issued + 1 \in Nat
      BY Fresh
    <3> QED
      BY <3>1, <3>2, ClaimKeeps
  <2> QED
    BY <1>9, <2>1, CaptureKeeps, RefusedKeeps, TuneKeeps, ConfirmedKeeps, TakeoverFailsKeeps, GoKeeps
    DEF Takeover
<1> QED
  BY <1>1, <1>2, <1>3, <1>4, <1>5, <1>6, <1>7, <1>8, <1>9 DEF Next
-----------------------------------------------------------------------------
(* The invariant holds throughout, for any radios, any assignment of them   *)
(* to the engines and the workflow and any number of calls, faults, edits   *)
(* and rescans.                                                             *)
THEOREM TakeoverSafe == Spec => []TakeoverInv
<1>1. Init => TakeoverInv
  BY InitKeeps
<1>2. TakeoverInv /\ [Next]_vars => TakeoverInv'
  BY NextKeeps
<1> QED
  BY <1>1, <1>2, PTL DEF Spec

(* Nobody takes another's carrier for its own: Listen is never active on a  *)
(* live radio that is on a satellite, a running session and a workflow that *)
(* was told so hear their own frequency (endReceiverTakeover,               *)
(* tuneAndConfirm, WorkflowRadioSession).                                   *)
THEOREM EveryoneHearsItsOwn == Spec => []EachHearsItsOwn
<1>1. TakeoverInv => EachHearsItsOwn
  <2> SUFFICES ASSUME TakeoverInv PROVE EachHearsItsOwn
    OBVIOUS
  <2>1. ListenHearsItself
    <3> SUFFICES ASSUME rx.active, Live(rx.at), Without({"mode", "cold", "overtaken"})
                 PROVE  radio[rx.at].centre \notin Engine
      BY DEF ListenHearsItself, Without
    <3>1. Without({"mode", "overtaken"}) /\ Without({"cold", "overtaken"})
      BY DEF Without
    <3>2. ~InHands(rx.at)
      BY <3>1 DEF TakeoverInv, ParkedQuiet, InHands
    <3>3. rx.at \in Radio
      BY DEF TakeoverInv, Typed, HostTyped
    <3>4. Clean(rx.at)
      BY <3>1, <3>2, <3>3 DEF TakeoverInv, StreamsClean, Streaming, Live
    <3> QED
      BY <3>4 DEF Clean
  <2>2. EnginesHearThemselves
    BY DEF TakeoverInv, EnginesTuned, EnginesHearThemselves, Live
  <2>3. FlowHearsItself
    <3>1. use.flow \in Radio
      BY Names DEF TakeoverInv
    <3> QED
      BY <3>1 DEF TakeoverInv, FlowTuned, FlowHearsItself, FlowHolds
  <2> QED
    BY <2>1, <2>2, <2>3 DEF EachHearsItsOwn
<1> QED
  BY <1>1, TakeoverSafe, PTL

(* With no call running and nothing parked, the receiver is active exactly  *)
(* if the user last wanted it and the radio could be given back             *)
(* (restorePreviousDeviceState, endReceiverTakeover).                       *)
THEOREM ListenIsGivenBack == Spec => []ListenComesBack
<1>1. TakeoverInv => ListenComesBack
  <2> SUFFICES ASSUME TakeoverInv, sessions[rx.at] = None, Without({"mode", "overtaken"})
               PROVE  rx.active = listen.active
    BY DEF ListenComesBack, Without
  <2>1. rx.at \in Radio
    BY DEF TakeoverInv, Typed, HostTyped
  <2> QED
    BY <2>1 DEF TakeoverInv, ReceiverInStep
<1> QED
  BY <1>1, TakeoverSafe, PTL

(* No lease, parked receiver or stream is left without a holder that will   *)
(* give it back (every path out of prepareReceiverForSatcom, start and      *)
(* stop).                                                                   *)
THEOREM NothingStaysBehind == Spec => []NothingIsLeftBehind
<1>1. TakeoverInv => NothingIsLeftBehind
  <2> SUFFICES ASSUME TakeoverInv, Without({"overtaken", "torn"})
               PROVE  LeasesAreKnown /\ SessionsAreKnown /\ StreamsAreWanted
    BY DEF NothingIsLeftBehind, Without
  <2>1. Without({"overtaken"})
    BY DEF Without
  <2>2. LeasesAreKnown
    BY <2>1 DEF TakeoverInv, LeasesHeld, LeasesAreKnown
  <2>3. SessionsAreKnown
    <3>1. Satcom \in Engine
      BY DEF Engine
    <3> QED
      BY <3>1 DEF TakeoverInv, SessionsHeld, SessionsAreKnown
  <2>4. StreamsAreWanted
    BY DEF TakeoverInv, StreamsWanted, StreamsAreWanted
  <2> QED
    BY <2>2, <2>3, <2>4
<1> QED
  BY <1>1, TakeoverSafe, PTL
=============================================================================
