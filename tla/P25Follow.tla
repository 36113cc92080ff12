------------------------------- MODULE P25Follow -------------------------------
(* The life of one auto-follow of a P25 Phase 2 call by a radio that has left *)
(* the control channel: what is on the air, the decoder's batches, the        *)
(* observer of the call (TrafficChannel), and the GUI's timer, which          *)
(* evaluates the follow (evaluateP25Follow) and returns to the control        *)
(* channel.  Calls are clear: the encrypted return is not modelled, nor what  *)
(* the GUI does when the receiver's lock is taken.                            *)
EXTENDS TrafficChannel

CONSTANTS
    Overlap,   \* ticks a batch repeats
    Use        \* the instances: the grant, the carrier, stalls and the script of the air

ASSUME FollowAssumption ==
    /\ Overlap \in Nat
    /\ \A u \in Use :
          /\ {u.grantClear, u.strong} \subseteq BOOLEAN /\ u.stalls \in Nat
          /\ \A i \in DOMAIN u.script :
                /\ u.script[i].on \subseteq Kinds /\ u.script[i].least <= u.script[i].most

VARIABLES
    use,
    now, pc,
    phase, since,   \* of the script: which, and when it began
    air,            \* what was on the air and is still needed, oldest first
    heard,          \* the last tick decoded
    stalls,         \* decodes that did not come in time
    call,           \* the observer, None before the first batch
    diag,           \* the diagnostics last published
    lastActive, lastOutput, latch,
    left,           \* why the follow was ended
    truth           \* not in the code: what the ticks decoded so far really held

vars == <<use, now, pc, phase, since, air, heard, stalls, call, diag,
          lastActive, lastOutput, latch, left, truth>>

NoDiag == [at |-> None, decoded |-> FALSE, bursts |-> FALSE, sf |-> FALSE, crc |-> FALSE,
           mac |-> FALSE, ess |-> FALSE, opp |-> FALSE, code |-> "Idle"]

Init ==
    /\ use \in Use
    /\ now = 0 /\ pc = "air" /\ phase = 1 /\ since = 0
    /\ air = <<>> /\ heard = 0 /\ stalls = 0
    /\ call = None /\ diag = NoDiag
    /\ lastActive = 0 /\ lastOutput = None /\ latch = FALSE /\ left = None
    /\ truth = [ends |-> 0, boundary |-> "none", spoke |-> 0, after |-> {}]
-----------------------------------------------------------------------------
(* Half a second passes; the script says what is on the air.                  *)

Script(p) == use.script[p]
Tick ==
    /\ pc = "air" /\ left = None
    /\ \E p \in {phase, phase + 1} \cap DOMAIN use.script :
          /\ p # phase => now - since >= Script(phase).least
          /\ p = phase => now - since < Script(phase).most
          /\ phase' = p /\ since' = IF p = phase THEN since ELSE now
          /\ \E k \in Script(p).on :
                LET all == Append(air, [tick |-> now + 1, kind |-> k])
                    from == IF heard > Overlap THEN heard - Overlap ELSE 0
                IN  air' = SelectSeq(all, LAMBDA x : x.tick > from)
    /\ now' = now + 1 /\ pc' = "decode"
    /\ UNCHANGED <<use, heard, stalls, call, diag, lastActive, lastOutput, latch, left, truth>>
-----------------------------------------------------------------------------
(* The decoder.                                                               *)

grantClearKnown == use.grantClear \/ latch

(* The batch: all bursts since the last one and the overlap, where this eye   *)
(* puts them, in no particular order.                                         *)
Place(x, shift) == [at |-> 2 * BurstLength * x.tick + shift, kind |-> x.kind]
Batches ==
    {[i \in DOMAIN air |-> Place(air[IF turned THEN Len(air) + 1 - i ELSE i], shift)] :
        turned \in BOOLEAN, shift \in {0, BurstLength \div 2}}

(* Voice that proves itself clear is decoded, and any voice once the call is  *)
(* known to be; after a clear grant it may be.                                *)
Decoded(new) ==
    IF "speech" \in new \/ (latch /\ "voice" \in new) THEN {TRUE}
    ELSE IF use.grantClear /\ "voice" \in new THEN BOOLEAN ELSE {FALSE}

(* chooseP25VoiceDiag, as far as it depends on what the batch holds.          *)
Codes(all, new, decoded) ==
    IF decoded \/ (all \cap Voice # {} /\ new \cap Voice = {}) THEN {"Decoding"}
    ELSE IF new \cap Voice # {}
         THEN IF grantClearKnown THEN {"LateEntry"} ELSE {"WaitingForClearGrant"}
    ELSE IF all \cap Companion # {} THEN {"WrongSlot", "NoDecodedAudio"}
    ELSE IF all \cap Bursts # {} THEN {"NoLduVoice", "AudioLockMissing"}
    ELSE IF grantClearKnown THEN {"NoSync"} ELSE {"NoSync", "WaitingForClearGrant"}

(* What really was on the air: ends since the last voice, the last boundary   *)
(* of the call ("either" once voice without a proof has followed an end), the *)
(* tick of the last voice, and what came after it.                            *)
Tell(t, x) ==
    [ends |-> IF x.kind \in Voice \cup {"ptt"} THEN 0
              ELSE IF x.kind = "end" /\ t.ends < 2 THEN t.ends + 1 ELSE t.ends,
     boundary |-> CASE x.kind \in {"ptt", "speech"} -> "open"
                    [] x.kind \in Ends -> "ended"
                    [] x.kind = "voice" /\ t.boundary = "ended" -> "either"
                    [] OTHER -> t.boundary,
     spoke |-> IF x.kind \in Voice THEN x.tick ELSE t.spoke,
     after |-> IF x.kind \in Voice THEN {} ELSE t.after \cup {x.kind}]

Decode ==
    /\ pc = "decode"
    /\ \E batch \in Batches :
          LET o == IF call = None THEN NewCall(now) ELSE call
              all == {batch[i].kind : i \in DOMAIN batch}
              unheard == SelectSeq(air, LAMBDA x : x.tick > heard)
              new == {unheard[i].kind : i \in DOMAIN unheard}
          IN  /\ call' = observeDecodeResult(o, batch, now)
              /\ truth' = FoldLeft(Tell, truth, unheard)
              /\ \E decoded \in Decoded(new) : \E code \in Codes(all, new, decoded) :
                    /\ diag' = [at |-> now, decoded |-> decoded, bursts |-> all \cap Bursts # {},
                                sf |-> all \cap Framed # {}, crc |-> all \cap Crc # {},
                                mac |-> all \cap (Crc \cup Ends) # {},
                                ess |-> "speech" \in all, opp |-> all \cap Companion # {}, code |-> code]
                    /\ lastOutput' = IF decoded THEN now ELSE lastOutput
                    /\ latch' = (latch \/ decoded)
    /\ heard' = now /\ pc' = "look"
    /\ UNCHANGED <<use, now, phase, since, air, stalls, lastActive, left>>

(* A decode that does not come in time; the next one makes up for it.         *)
Stall ==
    /\ pc = "decode" /\ stalls < use.stalls
    /\ stalls' = stalls + 1 /\ pc' = "look"
    /\ UNCHANGED <<use, now, phase, since, air, heard, call, diag, lastActive, lastOutput,
                   latch, left, truth>>
-----------------------------------------------------------------------------
(* evaluateP25Follow.  The voice counts of the observer stand for those of    *)
(* the decoder; every count is reduced to whether there is enough.            *)

Age(t) == (now - t) * Step
Most(a, b) == IF a > b THEN a ELSE b
tuned == Age(0)
present == call # None
vcw == present /\ call.vcw
callActive == present /\ isCallStillActive(call, now)
audioOpen == latch /\ callActive
published == diag.at # None \/ present
fresh == published /\ (diag.at = None \/ Age(diag.at) <= 2500)
hasCarrier == air[Len(air)].kind # "off"
strongTrafficCarrier == use.strong /\ hasCarrier
recentVoice == vcw \/ diag.decoded
Diag(codes) == diag.code \in codes

kSpeakerImmediateGraceMs == 2500
speakerWithin(ms) == lastOutput # None /\ Age(lastOutput) <= ms
recentSpeakerOutput ==
    \/ speakerWithin(kSpeakerImmediateGraceMs)
    \/ speakerWithin(40000) /\ (recentVoice \/ callActive \/ (diag.sf /\ diag.mac))

confirmedSelectedTeardown ==
    fresh /\ present /\ teardownConfirmed(call) /\ ~callActive /\ ~recentVoice

effectiveLastActive == IF recentSpeakerOutput THEN Most(lastActive, lastOutput) ELSE lastActive
silence == Age(effectiveLastActive)
recentContinuation == effectiveLastActive > 0 /\ now > effectiveLastActive

hardProgress ==
    \/ diag.decoded \/ diag.crc \/ audioOpen
    \/ diag.ess /\ (vcw \/ callActive)
untrustedClearAcquire_Forgetful == grantClearKnown /\ ~hardProgress
untrustedClearAcquire == grantClearKnown /\ ~recentContinuation /\ ~hardProgress
untrustedClearLimit == IF vcw THEN 18000 ELSE IF diag.bursts THEN 12000 ELSE 6500
unknownGrantCold ==
    /\ ~grantClearKnown /\ ~vcw /\ ~diag.bursts /\ ~callActive
    /\ ~Diag({"AudioLockMissing", "LateEntry"})
acquireLimit ==
    IF untrustedClearAcquire THEN untrustedClearLimit
    ELSE IF grantClearKnown THEN 45000 ELSE IF unknownGrantCold THEN 8000 ELSE 30000
acquisitionProgress ==
    \/ hardProgress \/ vcw \/ diag.bursts \/ callActive
    \/ Diag({"AudioLockMissing", "LateEntry"})
    \/ Diag({"WaitingForClearGrant"}) /\ tuned < 8000
    \/ grantClearKnown /\ tuned < untrustedClearLimit /\ Diag({"NoSync", "Idle"})
stillAcquiring ==
    /\ ~diag.decoded /\ tuned < acquireLimit
    /\ \/ acquisitionProgress
       \/ grantClearKnown /\ strongTrafficCarrier /\ tuned < untrustedClearLimit

voiceStillLooksActive ==
    /\ ~confirmedSelectedTeardown /\ fresh /\ hasCarrier
    /\ callActive \/ (stillAcquiring /\ (vcw \/ diag.bursts))

activityGone ==
    /\ ~stillAcquiring /\ tuned > 2500
    /\ silence > (IF grantClearKnown THEN 15000 ELSE 3500)
    /\ Diag({"NoSync", "NoLduVoice"})
carrierDropped == tuned > 2500 /\ ~hasCarrier /\ ~stillAcquiring /\ silence > 800

noTrustedMacEss == ~diag.crc /\ ~diag.ess /\ ~diag.decoded /\ ~audioOpen
noMacEssLimits ==
    IF untrustedClearAcquire
    THEN [tuned |-> untrustedClearLimit, silence |-> IF vcw THEN 3500 ELSE 2500]
    ELSE IF recentContinuation THEN [tuned |-> 30000, silence |-> 10000]
    ELSE [tuned |-> 15000, silence |-> 3500]
noProgressTimeout ==
    /\ ~stillAcquiring /\ noTrustedMacEss /\ diag.sf
    /\ tuned > noMacEssLimits.tuned /\ silence > noMacEssLimits.silence

waitingUnknown == ~grantClearKnown /\ Diag({"WaitingForClearGrant"})
wrongSlot == ~vcw /\ diag.opp
coldDead == ~vcw /\ ~diag.decoded /\ ~diag.bursts /\ ~recentContinuation /\ lastOutput = None
postSpeechQuiet ==
    /\ grantClearKnown /\ (effectiveLastActive * Step > 2000 \/ lastOutput # None)
    /\ ~callActive /\ ~vcw /\ ~diag.decoded
noVcwLimits ==
    IF waitingUnknown THEN IF coldDead THEN [tuned |-> 8000, silence |-> 6000]
                                       ELSE [tuned |-> 12000, silence |-> 8000]
    ELSE IF untrustedClearAcquire
         THEN [tuned |-> untrustedClearLimit, silence |-> IF diag.bursts THEN 2500 ELSE 1200]
    ELSE IF postSpeechQuiet THEN [tuned |-> 12000, silence |-> 6000]
    ELSE IF grantClearKnown THEN IF coldDead THEN [tuned |-> 10000, silence |-> 7000]
                                             ELSE [tuned |-> 45000, silence |-> 30000]
    ELSE IF recentContinuation THEN [tuned |-> 18000, silence |-> 10000]
    ELSE [tuned |-> 9000, silence |-> 3500]
idleTimeout ==
    /\ tuned > (IF waitingUnknown THEN 12000 ELSE 4500)
    /\ silence > (IF waitingUnknown THEN 4000 ELSE 1200)
    /\ Diag({"Idle"})
carrierHold ==
    /\ grantClearKnown /\ strongTrafficCarrier
    /\ tuned <= (IF untrustedClearAcquire THEN untrustedClearLimit ELSE 45000)
    /\ effectiveLastActive * Step <= 2500
quiet == ~callActive /\ ~diag.decoded /\ ~vcw /\ ~wrongSlot
noVcwTimeout ==
    /\ ~stillAcquiring /\ published /\ quiet /\ ~carrierHold
    /\ tuned > noVcwLimits.tuned \/ idleTimeout
    /\ silence > noVcwLimits.silence
    /\ Diag({"Idle", "WaitingForClearGrant", "NoSync", "NoLduVoice", "AudioLockMissing"})
hardTimeout ==
    LET cold == waitingUnknown /\ coldDead
    IN  /\ tuned > (IF cold THEN 12000 ELSE 45000) /\ silence > (IF cold THEN 8000 ELSE 12000)
        /\ published \/ tuned > 30000
        /\ ~acquisitionProgress /\ quiet /\ ~(waitingUnknown /\ ~coldDead)

evaluateP25Follow ==
    IF confirmedSelectedTeardown
    THEN IF speakerWithin(kSpeakerImmediateGraceMs) THEN None ELSE "ReturnCallEnded"
    ELSE IF recentSpeakerOutput THEN None
    ELSE IF noProgressTimeout THEN "ReturnNoMacEss"
    ELSE IF noVcwTimeout THEN "ReturnNoVoiceCodewords"
    ELSE IF activityGone \/ carrierDropped THEN "ReturnActivityGone"
    ELSE IF hardTimeout THEN "ReturnHardTimeout"
    ELSE None

(* The timer: what renews the follow, and the return.                         *)
hadClearSpeech == latch \/ lastOutput # None
freshFollowVoiceEvidence ==
    \/ vcw \/ diag.decoded \/ diag.crc
    \/ ~hadClearSpeech /\ (diag.ess \/ diag.sf \/ (callActive /\ diag.bursts))
Look ==
    /\ pc = "look" /\ left = None
    /\ lastActive' = IF voiceStillLooksActive /\ freshFollowVoiceEvidence THEN now ELSE lastActive
    /\ left' = evaluateP25Follow /\ pc' = "air"
    /\ UNCHANGED <<use, now, phase, since, air, heard, stalls, call, diag, lastOutput, latch,
                   truth>>

Next == Tick \/ Decode \/ Stall \/ Look
Spec == Init /\ [][Next]_vars
-----------------------------------------------------------------------------
(* A follow is ended as a confirmed teardown only after two different ends of *)
(* the followed slot, with no voice of it between or since, and after what    *)
(* was played has been heard (DEC-0193: overlapping batches show the same     *)
(* burst twice, by a shifted eye in another place).                           *)
TeardownIsReal ==
    left = "ReturnCallEnded" =>
        truth.ends = 2 /\ ~speakerWithin(kSpeakerImmediateGraceMs)

(* Whatever the order of a batch, the call is ended when the last boundary    *)
(* decoded is an end, and open when it is a beginning (observeDecodeResult,   *)
(* DEC-0192).                                                                 *)
ObserverInOrder ==
    present => /\ truth.boundary = "ended" => call.ended
               /\ truth.boundary = "open" => ~call.ended

(* A gap of up to five seconds in a call that has been heard does not end the *)
(* follow while there is a carrier (evaluateP25Follow, capture 053448), unless*)
(* the call was confirmed to be over.                                         *)
GapIsBridged ==
    (left \notin {None, "ReturnCallEnded"} /\ lastOutput # None /\ hasCarrier)
        => Age(lastOutput) > 5000

(* A channel that has gone dead, with or without a carrier, is left after     *)
(* seventeen seconds, whatever was heard before, decoded in time or late.     *)
Dead == Script(phase).on \subseteq {"noise", "off"}
DeadFollowEnds == (left = None /\ Dead) => Age(since) <= 17000

(* How long a call that was heard in the clear and has gone silent keeps the  *)
(* radio, by what is decoded of the channel since: nothing, 17 s; structure,  *)
(* as long or till the end of the acquisition, 45 s after tuning; messages    *)
(* too, 41 s or, as they renew the follow, till 6 s after that acquisition.   *)
(* This is what the limits and the renewal in the GUI's timer come to; it is  *)
(* longer than the "~6-12s instead of 45-60s" that DEC-0056 and               *)
(* P25FollowStateMachine.cpp:336-337 mean to achieve (README, section 4).     *)
(* Messages of the companion slot keep every limit from applying, and are     *)
(* excepted.                                                                  *)
messages == truth.after \cap (Crc \cup Ends) # {}
SpokenFollowEnds ==
    (left = None /\ latch /\ "otherMac" \notin truth.after) =>
        \/ Age(truth.spoke) <= (IF messages THEN 41000 ELSE 17000)
        \/ /\ truth.after \cap Bursts # {}
           /\ Age(0) <= (IF messages THEN 51000 ELSE 45500)
=============================================================================
