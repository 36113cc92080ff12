------------------------- MODULE DeviceLeases_proofs --------------------------
(***************************************************************************)
(* The first part is about the lease book alone, for any radios, domains,  *)
(* workflows and number of devices.  OwnershipInv is inductive as it       *)
(* stands: exclusion needs the ranges (sibling tests read endpoints_),     *)
(* dead tokens need the bookkeeping of ids and generations.                *)
(* The second: the control plane uses the book only as the book allows.    *)
(* Every step of DeviceLeases is a step of DeviceOwnership or leaves the   *)
(* book alone, so what is proved of the book holds of the program for any  *)
(* threads, radios and discovery results, without bounds.                  *)
(* The third relates the calls in progress to the book: commands to        *)
(* permits, stops to announcements, the two device lists to each other.    *)
(***************************************************************************)
EXTENDS DeviceLeases, TLAPS

USE OwnershipAssumption DEF LegacyClient

(* The empty token is not a token; tokens name an index.                     *)
LEMMA NoTokenIsNone == NoToken \notin Token
BY DEF NoToken, Token, Index

(* The empty book satisfies the invariant. *)
LEMMA OwnershipInitInv == OwnershipInit => OwnershipInv
<1> SUFFICES ASSUME OwnershipInit PROVE OwnershipInv
  OBVIOUS
<1> USE DEF OwnershipInit
<1>1. OwnershipTypeOK
  BY DEF OwnershipTypeOK, Assignments
<1>2. Leased = {} /\ Controlled = {}
  BY DEF Leased, Controlled
<1>3. IndicesInRange
  BY <1>2 DEF IndicesInRange
<1>4. LeaseExclusive /\ PermitExclusive /\ ReservationHonoured
  BY <1>2 DEF LeaseExclusive, PermitExclusive, ReservationHonoured
<1>5. TokensConsistent
  BY <1>2 DEF TokensConsistent
<1> QED
  BY <1>1, <1>3, <1>4, <1>5 DEF OwnershipInv

(* A new endpoint list: nothing is leased, commanded or stopping afterwards. *)
LEMMA BindInv ==
    ASSUME OwnershipInv, bind(endpoints'), endpoints' \in Seq(Endpoint),
           Len(endpoints') <= MaxDevices, assignments' \in Assignments
    PROVE  OwnershipInv'
<1> USE DEF bind
<1>1. OwnershipTypeOK'
  BY DEF OwnershipInv, OwnershipTypeOK
<1>2. Leased' = {} /\ Controlled' = {} /\ stopping' = {}
  BY DEF Leased, Controlled
<1>3. IndicesInRange'
  BY <1>2 DEF IndicesInRange
<1>4. LeaseExclusive' /\ PermitExclusive' /\ ReservationHonoured'
  BY <1>2 DEF LeaseExclusive, PermitExclusive, ReservationHonoured
<1>5. TokensConsistent'
  BY <1>2 DEF OwnershipInv, TokensConsistent
<1> QED
  BY <1>1, <1>3, <1>4, <1>5 DEF OwnershipInv

(* A radio appended at the end disturbs no index in use. *)
LEMMA AppendInv ==
    ASSUME OwnershipInv, NEW e \in Endpoint, append(e)
    PROVE  OwnershipInv'
<1> USE DEF append
<1>1. /\ endpoints \in Seq(Endpoint)
      /\ Len(endpoints') = Len(endpoints) + 1
      /\ \A i \in 1..Len(endpoints) : endpoints'[i] = endpoints[i]
  BY DEF OwnershipInv, OwnershipTypeOK
<1>2. OwnershipTypeOK'
  BY <1>1 DEF OwnershipInv, OwnershipTypeOK
<1>3. Leased' = Leased /\ Controlled' = Controlled /\ stopping' = stopping
  BY DEF Leased, Controlled
<1>4. IndicesInRange'
  BY <1>1, <1>3 DEF OwnershipInv, IndicesInRange
<1>5. \A i, j \in 1..Len(endpoints) : SameRadio(i, j)' = SameRadio(i, j)
  BY <1>1 DEF SameRadio, sameDomain
<1>6. Leased \cup Controlled \subseteq 1..Len(endpoints)
  BY DEF OwnershipInv, IndicesInRange
<1>7. LeaseExclusive' /\ PermitExclusive'
  BY <1>3, <1>5, <1>6 DEF OwnershipInv, LeaseExclusive, PermitExclusive
<1>8. \A i \in Leased : assignment(i)' = assignment(i)
  BY <1>1, <1>6 DEF assignment, Known, Reserved
<1>9. ReservationHonoured'
  BY <1>3, <1>8 DEF OwnershipInv, ReservationHonoured
<1>10. TokensConsistent'
  BY <1>3 DEF OwnershipInv, TokensConsistent
<1> QED
  BY <1>2, <1>4, <1>7, <1>9, <1>10 DEF OwnershipInv

(* New reservations leave those of leased radios as they were. *)
LEMMA SetAssignmentsInv ==
    ASSUME OwnershipInv, NEW values \in Assignments, setAssignments(values)
    PROVE  OwnershipInv'
<1> USE DEF setAssignments
<1>1. OwnershipTypeOK'
  BY DEF OwnershipInv, OwnershipTypeOK
<1>2. Leased' = Leased /\ Controlled' = Controlled
  BY DEF Leased, Controlled
<1>3. IndicesInRange' /\ LeaseExclusive' /\ PermitExclusive'
  BY <1>2 DEF OwnershipInv, IndicesInRange, LeaseExclusive, PermitExclusive,
              SameRadio, sameDomain
<1>4. \A i \in Leased : assignment(i)' = assignment(i)
  <2> SUFFICES ASSUME NEW i \in Leased PROVE assignment(i)' = assignment(i)
    OBVIOUS
  <2>1. i \in 1..Len(endpoints)
    BY DEF OwnershipInv, IndicesInRange
  <2>2. assignment(i) = Reserved(endpoints, values, i)
    BY <2>1 DEF AssignmentsOK
  <2>3. assignment(i)' = Reserved(endpoints, values, i)
    BY <2>1 DEF assignment, Known, Reserved
  <2> QED
    BY <2>2, <2>3
<1>5. ReservationHonoured'
  BY <1>2, <1>4 DEF OwnershipInv, ReservationHonoured
<1>6. TokensConsistent'
  BY <1>2 DEF OwnershipInv, TokensConsistent
<1> QED
  BY <1>1, <1>3, <1>5, <1>6 DEF OwnershipInv

(* A claim: the new lease is alone on its radio, honours the reservations    *)
(* and has a fresh id.                                                       *)
LEMMA ClaimInv ==
    ASSUME OwnershipInv, NEW i \in Index, NEW o \in Owner, NEW c \in Client,
           claim(i, o, c)
    PROVE  OwnershipInv'
<1> USE DEF claim
<1> DEFINE t == NewToken(i, o, c)
<1>1. CASE i \in Leased
  <2>1. UNCHANGED ownershipVars
    BY <1>1 DEF ownershipVars
  <2>2. Leased' = Leased /\ Controlled' = Controlled
    BY <2>1 DEF ownershipVars, Leased, Controlled
  <2> QED
    BY <2>1, <2>2 DEF ownershipVars, OwnershipInv, OwnershipTypeOK, IndicesInRange,
       LeaseExclusive, PermitExclusive, ReservationHonoured, TokensConsistent,
       SameRadio, sameDomain, assignment, Known, Reserved
<1>2. CASE i \notin Leased
  <2>1. t \in Token /\ t # NoToken /\ t.index = i /\ t.generation = generation
        /\ t.id = nextId + 1 /\ t.owner = o
    BY NoTokenIsNone DEF OwnershipInv, OwnershipTypeOK, NewToken, Token
  <2>2. /\ leases' = [leases EXCEPT ![i] = t]
        /\ nextId' = nextId + 1 /\ issued' = issued \cup {t}
    BY <1>2
  <2>3. OwnershipTypeOK'
    BY <2>1, <2>2 DEF OwnershipInv, OwnershipTypeOK
  <2>4. Leased' = Leased \cup {i} /\ Controlled' = Controlled
    BY <2>1, <2>2 DEF OwnershipInv, OwnershipTypeOK, Leased, Controlled
  <2>5. i \in 1..Len(endpoints)
    BY DEF allowed, Known
  <2>6. IndicesInRange' /\ PermitExclusive'
    BY <2>4, <2>5 DEF OwnershipInv, IndicesInRange, PermitExclusive, SameRadio, sameDomain
  <2>7. \A j \in Leased : ~sameDomain(i, j) /\ ~sameDomain(j, i)
    BY <1>2 DEF allowed, sameDomain
  <2>8. LeaseExclusive'
    BY <2>4, <2>7 DEF OwnershipInv, LeaseExclusive, SameRadio, sameDomain
  <2>9. \A j \in Leased : leases'[j] = leases[j]
    BY <1>2, <2>2 DEF OwnershipInv, OwnershipTypeOK, Leased
  <2>10. leases'[i] = t
    BY <2>2 DEF OwnershipInv, OwnershipTypeOK
  <2>11. \A j \in Index : assignment(j)' = assignment(j)
    BY DEF assignment, Known, Reserved
  <2>12. assignment(i) \in {None, o}
    BY DEF allowed
  <2>13. ReservationHonoured'
    BY <2>1, <2>4, <2>9, <2>10, <2>11, <2>12
       DEF OwnershipInv, ReservationHonoured, Leased
  <2>14. TokensConsistent'
    <3>1. \A j \in Leased' : /\ leases'[j].index = j
                             /\ leases'[j].generation = generation'
                             /\ leases'[j] \in issued'
      BY <2>1, <2>2, <2>4, <2>9, <2>10 DEF OwnershipInv, TokensConsistent
    <3>2. \A u \in issued : u.id \in Nat /\ u.id <= nextId
      BY DEF OwnershipInv, OwnershipTypeOK, TokensConsistent, Token
    <3>3. nextId \in Nat
      BY DEF OwnershipInv, OwnershipTypeOK
    <3>4. \A u \in issued' : u.id <= nextId'
      BY <2>1, <2>2, <3>2, <3>3
    <3>5. \A u \in issued : u.id # t.id
      BY <2>1, <3>2, <3>3
    <3>6. \A u, v \in issued' : u.id = v.id => u = v
      BY <2>2, <3>5 DEF OwnershipInv, TokensConsistent
    <3> QED
      BY <3>1, <3>4, <3>6 DEF TokensConsistent
  <2> QED
    BY <2>3, <2>6, <2>8, <2>13, <2>14 DEF OwnershipInv
<1> QED
  BY <1>1, <1>2

(* Giving up leases: release, releaseDeviceLease and the retirement that     *)
(* goes with a stop.  Everything the invariant says of leases is universal.  *)
LEMMA FewerLeases ==
    ASSUME OwnershipInv,
           UNCHANGED <<endpoints, assignments, controls, nextControlId, generation,
                       nextId, issued>>,
           leases' \in [Index -> Token \cup {NoToken}],
           \A i \in Index : leases'[i] \in {leases[i], NoToken},
           stopping' \subseteq Index, stopping' \subseteq 1..Len(endpoints)
    PROVE  OwnershipInv'
<1>1. OwnershipTypeOK'
  BY DEF OwnershipInv, OwnershipTypeOK
<1>2. Leased' \subseteq Leased /\ Controlled' = Controlled
  BY DEF Leased, Controlled
<1>3. \A i \in Leased' : leases'[i] = leases[i]
  BY DEF Leased
<1>4. IndicesInRange'
  BY <1>2 DEF OwnershipInv, IndicesInRange
<1>5. LeaseExclusive' /\ PermitExclusive'
  BY <1>2 DEF OwnershipInv, LeaseExclusive, PermitExclusive, SameRadio, sameDomain
<1>6. ReservationHonoured'
  BY <1>2, <1>3 DEF OwnershipInv, ReservationHonoured, assignment, Known, Reserved
<1>7. TokensConsistent'
  BY <1>2, <1>3 DEF OwnershipInv, TokensConsistent
<1> QED
  BY <1>1, <1>4, <1>5, <1>6, <1>7 DEF OwnershipInv

(* A permit is granted on a radio without one. *)
LEMMA BeginControlInv ==
    ASSUME OwnershipInv, NEW i \in Index, NEW t, beginControl(i, t)
    PROVE  OwnershipInv'
<1> USE DEF beginControl
<1>1. OwnershipTypeOK'
  BY DEF OwnershipInv, OwnershipTypeOK
<1>2. Leased' = Leased /\ Controlled' = Controlled \cup {i}
  BY DEF OwnershipInv, OwnershipTypeOK, Leased, Controlled
<1>3. i \in 1..Len(endpoints) /\ ~controlBusy(i)
  BY DEF ControlOK, unique, Known
<1>4. IndicesInRange' /\ LeaseExclusive'
  BY <1>2, <1>3 DEF OwnershipInv, IndicesInRange, LeaseExclusive, SameRadio, sameDomain
<1>5. \A j \in Controlled : ~SameRadio(i, j) /\ ~SameRadio(j, i)
  BY <1>3 DEF controlBusy, Known, SameRadio, sameDomain
<1>6. PermitExclusive'
  BY <1>2, <1>5 DEF OwnershipInv, PermitExclusive, SameRadio, sameDomain
<1>7. ReservationHonoured' /\ TokensConsistent'
  BY <1>2 DEF OwnershipInv, ReservationHonoured, TokensConsistent, assignment, Known, Reserved
<1> QED
  BY <1>1, <1>4, <1>6, <1>7 DEF OwnershipInv

(* A permit ends. *)
LEMMA EndControlInv ==
    ASSUME OwnershipInv, NEW i \in Index, NEW id, endControl(i, id)
    PROVE  OwnershipInv'
<1> USE DEF endControl
<1>1. OwnershipTypeOK'
  BY DEF OwnershipInv, OwnershipTypeOK
<1>2. Leased' = Leased /\ Controlled' \subseteq Controlled
  BY DEF OwnershipInv, OwnershipTypeOK, Leased, Controlled
<1>3. IndicesInRange' /\ LeaseExclusive' /\ PermitExclusive'
  BY <1>2 DEF OwnershipInv, IndicesInRange, LeaseExclusive, PermitExclusive,
              SameRadio, sameDomain
<1>4. ReservationHonoured' /\ TokensConsistent'
  BY <1>2 DEF OwnershipInv, ReservationHonoured, TokensConsistent, assignment, Known, Reserved
<1> QED
  BY <1>1, <1>3, <1>4 DEF OwnershipInv

(* Every operation of the book, in any order, keeps the invariant.           *)
LEMMA OwnershipNextInv == OwnershipInv /\ [OwnershipNext]_ownershipVars => OwnershipInv'
<1> SUFFICES ASSUME OwnershipInv, [OwnershipNext]_ownershipVars PROVE OwnershipInv'
  OBVIOUS
<1>1. CASE /\ endpoints' \in Seq(Endpoint) /\ Len(endpoints') <= MaxDevices
           /\ assignments' \in Assignments
           /\ bind(endpoints')
  BY <1>1, BindInv
<1>2. CASE \E e \in Endpoint : append(e)
  BY <1>2, AppendInv
<1>3. CASE \E values \in Assignments : setAssignments(values)
  BY <1>3, SetAssignmentsInv
<1>4. CASE \E i \in Index, o \in Owner, c \in Client : claim(i, o, c)
  BY <1>4, ClaimInv
<1>5. CASE \E set \in SUBSET Index : Retire(set)
  <2>1. /\ leases \in [Index -> Token \cup {NoToken}] /\ stopping \subseteq Index
        /\ stopping \subseteq 1..Len(endpoints)
    BY DEF OwnershipInv, OwnershipTypeOK, IndicesInRange
  <2> QED
    BY <1>5, <2>1, FewerLeases DEF Retire
<1>6. CASE \E i \in Index : beginStop(i) \/ endStop(i)
  <2>1. /\ leases \in [Index -> Token \cup {NoToken}] /\ stopping \subseteq Index
        /\ stopping \subseteq 1..Len(endpoints)
    BY DEF OwnershipInv, OwnershipTypeOK, IndicesInRange
  <2>2. PICK i \in Index : beginStop(i) \/ endStop(i)
    BY <1>6
  <2>3. CASE beginStop(i)
    BY <2>1, <2>3, FewerLeases DEF beginStop, Known
  <2>4. CASE endStop(i)
    BY <2>1, <2>4, FewerLeases DEF endStop
  <2> QED
    BY <2>2, <2>3, <2>4
<1>7. CASE \E i \in Index, t \in issued \cup {NoToken} : beginControl(i, t)
  BY <1>7, BeginControlInv
<1>8. CASE \E i \in Controlled : endControl(i, controls[i])
  BY <1>8, EndControlInv DEF Controlled
<1>9. CASE UNCHANGED ownershipVars
  BY <1>9 DEF ownershipVars, OwnershipInv, OwnershipTypeOK, IndicesInRange, LeaseExclusive,
     PermitExclusive, ReservationHonoured, TokensConsistent, SameRadio, sameDomain,
     assignment, Known, Reserved, Leased, Controlled
<1> QED
  BY <1>1, <1>2, <1>3, <1>4, <1>5, <1>6, <1>7, <1>8, <1>9 DEF OwnershipNext

(* For any set of radios, however they share hardware: types, index ranges,  *)
(* one lease and one permit per physical radio, reservations and token       *)
(* bookkeeping hold for ever (DeviceOwnership.h).                            *)
THEOREM OwnershipSafe == OwnershipSpec => []OwnershipInv
<1> QED
  BY OwnershipInitInv, OwnershipNextInv, PTL DEF OwnershipSpec

(* Two workflows never hold the same physical radio, nor two tuners of one.  *)
THEOREM BookLeaseExclusive == OwnershipSpec => []LeaseExclusive
<1>1. OwnershipInv => LeaseExclusive
  BY DEF OwnershipInv
<1> QED
  BY <1>1, OwnershipSafe, PTL

(* Two hardware commands are never in flight on the same physical radio.     *)
THEOREM BookPermitExclusive == OwnershipSpec => []PermitExclusive
<1>1. OwnershipInv => PermitExclusive
  BY DEF OwnershipInv
<1> QED
  BY <1>1, OwnershipSafe, PTL

-----------------------------------------------------------------------------
(* Dead tokens. *)

(* A step of the book leaves a lease alone, drops it, or puts one with a     *)
(* fresh id in its place.                                                    *)
LEMMA LeaseSteps ==
    ASSUME OwnershipInv, OwnershipNext, NEW i \in Index
    PROVE  \/ leases'[i] = leases[i] /\ generation' = generation
           \/ leases'[i] = NoToken
           \/ leases'[i].id = nextId + 1
<1>1. leases \in [Index -> Token \cup {NoToken}]
  BY DEF OwnershipInv, OwnershipTypeOK
<1>2. CASE bind(endpoints')
  BY <1>2 DEF bind
<1>3. CASE \E e \in Endpoint : append(e)
  BY <1>3 DEF append
<1>4. CASE \E values \in Assignments : setAssignments(values)
  BY <1>4 DEF setAssignments
<1>5. CASE \E j \in Index, o \in Owner, c \in Client : claim(j, o, c)
  BY <1>1, <1>5 DEF claim, NewToken
<1>6. CASE \E set \in SUBSET Index : Retire(set)
  BY <1>6 DEF Retire
<1>7. CASE \E j \in Index : beginStop(j) \/ endStop(j)
  BY <1>1, <1>7 DEF beginStop, endStop
<1>8. CASE \E j \in Index, t \in issued \cup {NoToken} : beginControl(j, t)
  BY <1>8 DEF beginControl
<1>9. CASE \E j \in Controlled : endControl(j, controls[j])
  BY <1>9 DEF endControl
<1> QED
  BY <1>2, <1>3, <1>4, <1>5, <1>6, <1>7, <1>8, <1>9 DEF OwnershipNext

(* A token of the past that is not valid now is not valid after any step.    *)
LEMMA StepKeepsTokensDead ==
    OwnershipInv /\ [OwnershipNext]_ownershipVars =>
        [\A t \in issued : ~valid(t) => ~(valid(t)')]_ownershipVars
<1> SUFFICES ASSUME OwnershipInv, OwnershipNext, NEW t \in issued, valid(t)'
             PROVE  valid(t)
  OBVIOUS
<1>1. t \in Token /\ t.index \in Index /\ t.id <= nextId /\ t.id \in Nat /\ nextId \in Nat
  BY DEF OwnershipInv, OwnershipTypeOK, TokensConsistent, Token
<1>2. leases'[t.index] = t /\ t.generation = generation'
  BY DEF valid
<1>3. leases'[t.index].id # nextId + 1 /\ leases'[t.index] # NoToken
  BY <1>1, <1>2, NoTokenIsNone
<1>4. leases'[t.index] = leases[t.index] /\ generation' = generation
  BY <1>1, <1>3, LeaseSteps
<1> QED
  BY <1>2, <1>3, <1>4 DEF valid

(* No token ever comes back to life, so a worker that returns late from a    *)
(* stop, a rescan or a release cannot act on its successor's radio.          *)
THEOREM BookTokensStayDead == OwnershipSpec => StaleTokensStayDead
<1> QED
  BY OwnershipSafe, StepKeepsTokensDead, PTL DEF OwnershipSpec, StaleTokensStayDead
-----------------------------------------------------------------------------
(* The control plane. *)

USE LeasesAssumption

(* TypeOK without its part about the book. *)
LocalsOK ==
    /\ devices \in Seq(Endpoint) /\ Len(devices) <= MaxDevices
    /\ phase \in [Index -> Phase]
    /\ streamDevice \in [Index -> Endpoint \cup {NoDevice}]
    /\ opener \in [Key -> Opener]
    /\ tuneReq \in [Index -> Nat] /\ tuneApplied \in [Index -> Nat]
    /\ file \in Assignments /\ fileOK \in BOOLEAN
    /\ loaded \in BOOLEAN /\ loadError \in BOOLEAN
    /\ rescans \in Nat
    /\ pc \in [Thread -> Pc]
    /\ call \in [Thread -> Call]

LEMMA TypeOKParts == TypeOK <=> OwnershipTypeOK /\ LocalsOK
BY DEF TypeOK, LocalsOK

LEMMA NoCallTyped == NoCall \in Call
BY DEF NoCall, Call, Index

LEMMA NoOpenerTyped == NoOpener \in Opener
BY DEF NoOpener, Opener, Index

LEMMA LeasesInit == Init => OwnershipInv /\ LocalsOK
<1> SUFFICES ASSUME Init PROVE LocalsOK
  BY OwnershipInitInv DEF Init
<1>1. file \in Assignments
  BY DEF Init
<1>2. devices \in Seq(Endpoint) /\ Len(devices) <= MaxDevices
  BY DEF Init
<1>3. phase \in [Index -> Phase] /\ streamDevice \in [Index -> Endpoint \cup {NoDevice}]
  BY DEF Init, Phase
<1>4. opener \in [Key -> Opener]
  BY NoOpenerTyped DEF Init
<1>5. pc \in [Thread -> Pc] /\ call \in [Thread -> Call]
  BY NoCallTyped DEF Init, Pc
<1> QED
  BY <1>1, <1>2, <1>3, <1>4, <1>5 DEF Init, LocalsOK

-----------------------------------------------------------------------------
(* Refinement, call by call. *)

(* A known index is a valid index. *)
LEMMA KnownIsIndex == ASSUME OwnershipInv, NEW i, Known(i) PROVE i \in Index
BY DEF OwnershipInv, OwnershipTypeOK, Known, Index

(* A lease in force was issued. *)
LEMMA LeaseIssued == ASSUME OwnershipInv, NEW i \in Index PROVE leases[i] \in issued \cup {NoToken}
BY DEF OwnershipInv, OwnershipTypeOK, TokensConsistent, Leased

(* Ending a permit that is no longer in the book is no step of the book.     *)
LEMMA EndControlStep ==
    ASSUME OwnershipInv, NEW i, NEW id, endControl(i, id)
    PROVE  [OwnershipNext]_ownershipVars
<1>1. controls \in [Index -> Nat]
  BY DEF OwnershipInv, OwnershipTypeOK
<1>2. CASE i \in Index /\ controls[i] = id
  BY <1>1, <1>2 DEF endControl, OwnershipNext, Controlled
<1>3. CASE ~(i \in Index /\ controls[i] = id)
  <2>1. controls' = controls
    BY <1>1, <1>3 DEF endControl
  <2> QED
    BY <2>1 DEF endControl, ownershipVars
<1> QED
  BY <1>2, <1>3

LEMMA BeginControlStep ==
    ASSUME OwnershipInv, NEW i, NEW t \in issued \cup {NoToken}, beginControl(i, t)
    PROVE  OwnershipNext
<1>1. i \in Index
  BY KnownIsIndex DEF beginControl, ControlOK, unique
<1> QED
  BY <1>1 DEF OwnershipNext

LEMMA BeginStopStep == ASSUME OwnershipInv, NEW i, beginStop(i) PROVE OwnershipNext
<1>1. i \in Index
  BY KnownIsIndex DEF beginStop
<1> QED
  BY <1>1 DEF OwnershipNext

LEMMA EndStopStep == ASSUME OwnershipInv, NEW i, endStop(i) PROVE [OwnershipNext]_ownershipVars
<1>1. CASE i \in Index
  BY <1>1 DEF OwnershipNext
<1>2. CASE i \notin Index
  <2>1. stopping' = stopping
    BY <1>2 DEF endStop, OwnershipInv, OwnershipTypeOK
  <2> QED
    BY <2>1 DEF endStop, ownershipVars
<1> QED
  BY <1>1, <1>2

LEMMA ReleaseStep ==
    ASSUME OwnershipInv, NEW t \in Token \cup {NoToken}, release(t) PROVE OwnershipNext
<1>1. {t.index} \in SUBSET Index
  BY DEF release, valid, Token
<1> QED
  BY <1>1 DEF release, OwnershipNext

(* The calls of a thread. *)
LEMMA CallStepsRefine ==
    ASSUME OwnershipInv, LocalsOK, NEW th \in Thread, CallSteps(th)
    PROVE  [OwnershipNext]_ownershipVars
<1> USE DEF bookVars
<1>0. call[th] \in Call /\ call[th].token \in Token \cup {NoToken}
  BY DEF LocalsOK, Call
<1>1. CASE RetuneQueue(th) \/ RunCommand(th) \/ StopDrained(th) \/ Teardown(th) \/ RestoreTune(th)
  BY <1>1 DEF RetuneQueue, RunCommand, StopDrained, Teardown, RestoreTune
<1>2. CASE EndCommand(th) \/ RestoreControlEnds(th)
  BY <1>2, EndControlStep DEF EndCommand, RestoreControlEnds
<1>3. CASE StopEnds(th)
  BY <1>3, EndStopStep DEF StopEnds
<1>4. CASE RestoreControl(th)
  <2>1. CASE ControlOK(call[th].index, call[th].token)
    <3>1. call[th].token \in issued \cup {NoToken}
      BY <1>0, <2>1, LeaseIssued DEF ControlOK, valid, Token
    <3> QED
      BY <1>4, <2>1, <3>1, BeginControlStep DEF RestoreControl
  <2>2. CASE ~ControlOK(call[th].index, call[th].token)
    BY <1>4, <2>2 DEF RestoreControl
  <2> QED
    BY <2>1, <2>2
<1>5. CASE RestorePoll(th)
  BY <1>0, <1>5, ReleaseStep DEF RestorePoll
<1>6. CASE RestoreStop(th)
  BY <1>6, BeginStopStep DEF RestoreStop
<1> QED
  BY <1>1, <1>2, <1>3, <1>4, <1>5, <1>6 DEF CallSteps

(* The rescan: bind with nothing, then with what was discovered.             *)
LEMMA RescanStepsRefine ==
    ASSUME OwnershipInv, LocalsOK, RescanSteps PROVE [OwnershipNext]_ownershipVars
<1> USE DEF bookVars
<1>0. assignments \in Assignments /\ MaxDevices \in Nat
  BY DEF OwnershipInv, OwnershipTypeOK
<1>1. CASE RescanStops
  BY <1>1, BeginStopStep DEF RescanStops, ownershipVars
<1>2. CASE RescanUnbinds
  <2>1. CASE bind(<<>>) /\ UNCHANGED assignments
    <3>1. endpoints' = <<>>
      BY <2>1 DEF bind
    <3>2. bind(endpoints')
      BY <2>1, <3>1
    <3>3. endpoints' \in Seq(Endpoint) /\ Len(endpoints') <= MaxDevices
      BY <1>0, <3>1
    <3> QED
      BY <1>0, <2>1, <3>2, <3>3 DEF OwnershipNext
  <2>2. CASE UNCHANGED ownershipVars
    BY <2>2
  <2> QED
    BY <1>2, <2>1, <2>2 DEF RescanUnbinds
<1>3. CASE Discover
  BY <1>3 DEF Discover
<1>4. CASE bindWorkflowDevices
  <2>1. endpoints' = devices /\ bind(endpoints')
    BY <1>4 DEF bindWorkflowDevices, bind
  <2>2. endpoints' \in Seq(Endpoint) /\ Len(endpoints') <= MaxDevices
    BY <2>1 DEF LocalsOK
  <2>3. assignments' \in Assignments
        /\ (assignments' = assignments \/ AssignmentsFit(endpoints', assignments'))
    BY <1>0, <1>4, <2>1 DEF bindWorkflowDevices, LocalsOK
  <2> QED
    BY <2>1, <2>2, <2>3 DEF OwnershipNext
<1> QED
  BY <1>1, <1>2, <1>3, <1>4 DEF RescanSteps

(* The detached open threads. *)
LEMMA OpenerStepsRefine ==
    ASSUME OwnershipInv, LocalsOK, NEW k \in Key, OpenerSteps(k)
    PROVE  [OwnershipNext]_ownershipVars
<1> USE DEF bookVars
<1>1. CASE OpenFails(k) \/ OpenPublishes(k) \/ StartupReady(k)
  BY <1>1 DEF OpenFails, OpenPublishes, StartupReady
<1>2. CASE StartupControlEnds(k)
  BY <1>2, EndControlStep DEF StartupControlEnds
<1>3. CASE StartupControl(k)
  <2> DEFINE i == opener[k].index
  <2>1. CASE beginControl(i, leases[i])
    <3>1. i \in Index
      BY <2>1, KnownIsIndex DEF beginControl, ControlOK, unique
    <3> QED
      BY <2>1, <3>1, LeaseIssued, BeginControlStep
  <2>2. CASE UNCHANGED ownershipVars
    BY <2>2
  <2> QED
    BY <1>3, <2>1, <2>2 DEF StartupControl
<1> QED
  BY <1>1, <1>2, <1>3 DEF OpenerSteps

(* Calls made with a token, and calls made with an index.                    *)
LEMMA TokenCallsRefine ==
    ASSUME OwnershipInv, LocalsOK, NEW th \in Thread, NEW t \in issued, TokenCalls(th, t)
    PROVE  [OwnershipNext]_ownershipVars
<1> USE DEF bookVars
<1>0. t \in Token
  BY DEF OwnershipInv, OwnershipTypeOK
<1>1. CASE releaseDevice(th, t)
  BY <1>0, <1>1, ReleaseStep DEF releaseDevice
<1>2. CASE tuneDevice(th, t) \/ \E wasLive \in BOOLEAN : restoreDevice(th, t, wasLive)
  BY <1>2 DEF tuneDevice, restoreDevice
<1>3. CASE stopDevice(th, t)
  BY <1>3, BeginStopStep DEF stopDevice
<1>4. CASE BeginCommand(th, "start", t.index, t)
  BY <1>4, BeginControlStep DEF BeginCommand
<1> QED
  BY <1>1, <1>2, <1>3, <1>4 DEF TokenCalls

LEMMA IndexCallsRefine ==
    ASSUME OwnershipInv, LocalsOK, NEW th \in Thread, NEW i \in Index, IndexCalls(th, i)
    PROVE  [OwnershipNext]_ownershipVars
<1> USE DEF bookVars
<1>0. Owner \subseteq Client /\ Scoped \subseteq Client
  BY DEF Client
<1>1. CASE stopStreaming(th, i)
  BY <1>1, BeginStopStep DEF stopStreaming
<1>2. CASE BeginCommand(th, "rate", i, NoToken)
  BY <1>2, BeginControlStep DEF BeginCommand
<1>3. ASSUME NEW o \in Owner, setCenterFreq(th, i, o) PROVE UNCHANGED ownershipVars
  BY <1>3 DEF setCenterFreq
<1>4. ASSUME NEW o \in Owner, BeginLegacyCommand(th, i, o) PROVE OwnershipNext
  BY <1>4, LeaseIssued, BeginControlStep DEF BeginLegacyCommand
<1>5. ASSUME NEW o \in Owner, releaseDeviceLease(th, o, {i}) PROVE OwnershipNext
  BY <1>5 DEF releaseDeviceLease, OwnershipNext
<1>6. ASSUME NEW o \in Owner, NEW force \in BOOLEAN,
             acquireDeviceLease(th, i, o, force) \/ RetuneAcquire(th, i, o, force)
      PROVE  OwnershipNext
  BY <1>0, <1>6 DEF acquireDeviceLease, RetuneAcquire, OwnershipNext
<1>7. ASSUME NEW o \in Owner, NEW c \in Scoped, NEW attach \in BOOLEAN,
             claimDevice(th, i, o, c, attach)
      PROVE  OwnershipNext
  BY <1>0, <1>7 DEF claimDevice, OwnershipNext
<1> QED
  BY <1>1, <1>2, <1>3, <1>4, <1>5, <1>6, <1>7 DEF IndexCalls

LEMMA NextRefines ==
    ASSUME OwnershipInv, LocalsOK, [Next]_vars PROVE [OwnershipNext]_ownershipVars
<1> USE DEF bookVars
<1>1. ASSUME NEW i \in Index, ApplyTune(i) \/ ReceiverFault(i) PROVE UNCHANGED ownershipVars
  BY <1>1 DEF ApplyTune, ReceiverFault
<1>2. ASSUME NEW th \in Thread, NEW o \in Owner, releaseDeviceLease(th, o, Index)
      PROVE  OwnershipNext
  <2>1. LegacyLeases(o) \cap Index \in SUBSET Index
    OBVIOUS
  <2> QED
    BY <1>2, <2>1 DEF releaseDeviceLease, OwnershipNext
<1>3. CASE enumerateDevices
  BY <1>3 DEF enumerateDevices
<1>4. ASSUME NEW values \in Plans, NEW saved \in BOOLEAN, setWorkflowAssignments(values, saved)
      PROVE  OwnershipNext
  BY <1>4 DEF setWorkflowAssignments, OwnershipNext
<1>5. CASE UNCHANGED vars
  BY <1>5 DEF vars
<1> QED
  BY <1>1, <1>2, <1>3, <1>4, <1>5, CallStepsRefine, RescanStepsRefine, OpenerStepsRefine,
     TokenCallsRefine, IndexCallsRefine DEF Next

-----------------------------------------------------------------------------
(* Types of the locals, group by group. *)

(* A call's locals stay typed whichever of them changes. *)
LEMMA CallFields ==
    ASSUME NEW c \in Call
    PROVE  /\ c.index \in Index \cup {0} /\ c.token \in Token \cup {NoToken}
           /\ c.todo \in SUBSET Index
BY DEF Call

LEMMA CallIndex == ASSUME NEW c \in Call, NEW i \in Index PROVE [c EXCEPT !.index = i] \in Call
BY DEF Call

LEMMA CallId == ASSUME NEW c \in Call, NEW n \in Nat PROVE [c EXCEPT !.id = n] \in Call
BY DEF Call

LEMMA CallRequest == ASSUME NEW c \in Call, NEW n \in Nat PROVE [c EXCEPT !.request = n] \in Call
BY DEF Call

LEMMA CallTodo ==
    ASSUME NEW c \in Call, NEW set \in SUBSET Index
    PROVE  /\ [c EXCEPT !.todo = set] \in Call
           /\ [c EXCEPT !.todo = set, !.index = 0] \in Call
BY DEF Call

LEMMA OpenerStep ==
    ASSUME NEW c \in Opener, NEW step \in {"none", "open", "wait", "command", "ready"}
    PROVE  [c EXCEPT !.step = step] \in Opener
BY DEF Opener

LEMMA OpenerSuperseded == ASSUME NEW c \in Opener PROVE [c EXCEPT !.current = FALSE] \in Opener
BY DEF Opener

LEMMA OpenerPermit ==
    ASSUME NEW c \in Opener, NEW n \in Nat, NEW t \in Token \cup {NoToken}
    PROVE  [c EXCEPT !.step = "command", !.id = n, !.token = t] \in Opener
BY DEF Opener

LEMMA SupersedeTyped ==
    ASSUME LocalsOK, NEW i PROVE Supersede(i) \in [Key -> Opener]
BY OpenerSuperseded DEF LocalsOK, Supersede

LEMMA QueueTyped ==
    ASSUME LocalsOK, NEW i, queueCenterFreq(i)
    PROVE  i \in Index /\ tuneReq' \in [Index -> Nat] /\ tuneApplied' \in [Index -> Nat]
<1>1. Len(devices) \in Nat /\ i \in 1..Len(devices) /\ Len(devices) <= MaxDevices
  BY DEF LocalsOK, queueCenterFreq, Discovered
<1>2. i \in Index
  BY <1>1 DEF Index
<1> QED
  BY <1>2 DEF LocalsOK, queueCenterFreq

(* The call a command makes: an operation, its index, lease and permit.      *)
LEMMA CommandCall ==
    ASSUME NEW op \in {"start", "legacyStart", "rate"}, NEW i \in Index,
           NEW t \in Token \cup {NoToken}, NEW n \in Nat
    PROVE  [NoCall EXCEPT !.op = op, !.index = i, !.token = t, !.id = n] \in Call
BY DEF NoCall, Call

LEMMA CallStepsTyped ==
    ASSUME OwnershipInv, LocalsOK, NEW th \in Thread, CallSteps(th)
    PROVE  LocalsOK'
<1> USE DEF Goto, Return, Pc, tuneVars, streamVars, fileVars
<1>0. call \in [Thread -> Call] /\ call[th] \in Call /\ nextControlId \in Nat
  BY DEF LocalsOK, OwnershipInv, OwnershipTypeOK
<1>1. CASE RetuneQueue(th)
  <2>1. tuneReq' \in [Index -> Nat] /\ tuneApplied' \in [Index -> Nat]
    BY <1>1, QueueTyped DEF RetuneQueue, LocalsOK
  <2> QED
    BY <1>1, <2>1, NoCallTyped DEF RetuneQueue, LocalsOK
<1>2. CASE RunCommand(th)
  <2> DEFINE i == call[th].index
  <2>1. CASE StartStream(i)
    <3>1. devices[i] \in Endpoint /\ i \in Index \cup {0}
      <4>1. i \in 1..Len(devices) /\ devices \in Seq(Endpoint)
        BY <2>1 DEF StartStream, Discovered, LocalsOK
      <4>2. i \in Index \cup {0}
        BY <1>0, CallFields
      <4> QED
        BY <4>1, <4>2
    <3>2. [NoOpener EXCEPT !.step = "open", !.index = i, !.current = TRUE] \in Opener
      BY <3>1 DEF NoOpener, Opener
    <3>3. opener' \in [Key -> Opener]
      BY <2>1, <3>2, SupersedeTyped DEF StartStream
    <3>4. phase' \in [Index -> Phase] /\ streamDevice' \in [Index -> Endpoint \cup {NoDevice}]
      BY <2>1, <3>1 DEF StartStream, Phase, LocalsOK
    <3> QED
      BY <1>2, <3>3, <3>4 DEF RunCommand, LocalsOK
  <2>2. CASE stopStreamingImpl(i)
    BY <1>2, <2>2, SupersedeTyped DEF RunCommand, stopStreamingImpl, Phase, LocalsOK
  <2>3. CASE UNCHANGED streamVars
    BY <1>2, <2>3 DEF RunCommand, LocalsOK
  <2> QED
    BY <1>2, <2>1, <2>2, <2>3 DEF RunCommand
<1>3. CASE EndCommand(th)
  BY <1>3, NoCallTyped DEF EndCommand, LocalsOK
<1>4. CASE StopDrained(th)
  BY <1>4 DEF StopDrained, LocalsOK
<1>5. CASE Teardown(th)
  BY <1>5, SupersedeTyped DEF Teardown, stopStreamingImpl, Phase, LocalsOK
<1>6. CASE StopEnds(th)
  <2> DEFINE rest == [call[th] EXCEPT !.todo = call[th].todo \ {call[th].index}, !.index = 0]
  <2>1. rest \in Call
    BY <1>0, CallFields, CallTodo
  <2>2. call' = [call EXCEPT ![th] = rest] \/ call' = [call EXCEPT ![th] = NoCall]
    BY <1>6 DEF StopEnds
  <2> HIDE DEF rest
  <2>3. call' \in [Thread -> Call]
    BY <1>0, <2>1, <2>2, NoCallTyped
  <2> QED
    BY <1>6, <2>3 DEF StopEnds, LocalsOK
<1>7. CASE RestoreControl(th)
  <2> DEFINE admitted == [call[th] EXCEPT !.id = nextControlId + 1]
  <2>1. admitted \in Call
    BY <1>0, CallId
  <2>2. call' = [call EXCEPT ![th] = admitted] \/ call' = [call EXCEPT ![th] = NoCall]
    BY <1>7 DEF RestoreControl
  <2> HIDE DEF admitted
  <2>3. call' \in [Thread -> Call]
    BY <1>0, <2>1, <2>2, NoCallTyped
  <2> QED
    BY <1>7, <2>3 DEF RestoreControl, LocalsOK
<1>8. CASE RestoreTune(th)
  <2>1. CASE /\ queueCenterFreq(call[th].index)
             /\ call' = [call EXCEPT ![th].request = tuneReq[call[th].index] + 1]
    <3>1. tuneReq[call[th].index] + 1 \in Nat
      BY <2>1, QueueTyped DEF LocalsOK
    <3>2. call' \in [Thread -> Call]
      BY <1>0, <2>1, <3>1, CallRequest
    <3> QED
      BY <1>8, <2>1, <3>2, QueueTyped DEF RestoreTune, LocalsOK
  <2>2. CASE UNCHANGED <<tuneVars, call>>
    BY <1>8, <2>2 DEF RestoreTune, LocalsOK
  <2> QED
    BY <1>8, <2>1, <2>2 DEF RestoreTune
<1>9. CASE RestorePoll(th)
  BY <1>9 DEF RestorePoll, LocalsOK
<1>10. CASE RestoreControlEnds(th)
  <2>1. call' \in [Thread -> Call]
    BY <1>0, <1>10, CallId DEF RestoreControlEnds
  <2> QED
    BY <1>10, <2>1 DEF RestoreControlEnds, LocalsOK
<1>11. CASE RestoreStop(th)
  <2>1. \/ UNCHANGED call /\ Goto(th, "stopWait")
        \/ Return(th)
    BY <1>11 DEF RestoreStop
  <2>2. UNCHANGED <<devices, streamVars, tuneVars, fileVars, rescans>>
    BY <1>11 DEF RestoreStop
  <2>3. call' \in [Thread -> Call]
    BY <1>0, <2>1, NoCallTyped
  <2>4. pc' \in [Thread -> Pc]
    BY <2>1 DEF LocalsOK
  <2> QED
    BY <2>2, <2>3, <2>4 DEF LocalsOK
<1> QED
  BY <1>1, <1>2, <1>3, <1>4, <1>5, <1>6, <1>7, <1>8, <1>9, <1>10, <1>11 DEF CallSteps

LEMMA RescanStepsTyped ==
    ASSUME OwnershipInv, LocalsOK, RescanSteps PROVE LocalsOK'
<1> USE DEF LocalsOK, Goto, Return, Pc, tuneVars, streamVars, fileVars
<1>0. call[Gui] \in Call /\ Gui \in Thread
  BY DEF Thread
<1>1. CASE RescanStops
  <2>1. PICK i \in call[Gui].todo :
            \/ Goto(Gui, "stopWait") /\ call' = [call EXCEPT ![Gui].index = i]
            \/ UNCHANGED pc /\ call' = [call EXCEPT ![Gui].todo = call[Gui].todo \ {i}]
    BY <1>1 DEF RescanStops
  <2> DEFINE c == call[Gui]
  <2>2. i \in Index /\ c.todo \ {i} \in SUBSET Index
    BY <1>0, CallFields
  <2>3. [c EXCEPT !.index = i] \in Call /\ [c EXCEPT !.todo = c.todo \ {i}] \in Call
    BY <1>0, <2>2, CallIndex, CallTodo
  <2>4. call' \in [Thread -> Call]
    BY <1>0, <2>1, <2>3
  <2>5. pc' \in [Thread -> Pc]
    BY <1>0, <2>1
  <2> QED
    BY <1>1, <2>4, <2>5 DEF RescanStops
<1>2. CASE RescanUnbinds
  BY ZenonT(30), <1>2, NoCallTyped DEF RescanUnbinds
<1>3. CASE Discover
  BY <1>3 DEF Discover
<1>4. CASE bindWorkflowDevices
  BY <1>4, NoCallTyped DEF bindWorkflowDevices
<1> QED
  BY <1>1, <1>2, <1>3, <1>4 DEF RescanSteps

LEMMA OpenerStepsTyped ==
    ASSUME OwnershipInv, LocalsOK, NEW k \in Key, OpenerSteps(k)
    PROVE  LocalsOK'
<1> USE DEF LocalsOK, tuneVars, streamVars, fileVars, SetOpener, CloseOpener
<1>0. opener[k] \in Opener /\ nextControlId \in Nat
  BY DEF OwnershipInv, OwnershipTypeOK
<1>1. CASE OpenFails(k)
  BY <1>1, NoOpenerTyped DEF OpenFails, Phase
<1>2. CASE OpenPublishes(k)
  <2>1. [opener[k] EXCEPT !.step = "wait"] \in Opener
    BY <1>0, OpenerStep
  <2>2. opener' \in [Key -> Opener]
    BY <1>2, <2>1, NoOpenerTyped DEF OpenPublishes
  <2>3. phase' \in [Index -> Phase]
    BY <1>2 DEF OpenPublishes, Phase
  <2> QED
    BY <1>2, <2>2, <2>3 DEF OpenPublishes
<1>3. CASE StartupControl(k)
  <2> DEFINE i == opener[k].index
  <2>1. CASE ControlOK(i, leases[i])
    <3>1. leases[i] \in Token \cup {NoToken}
      <4>1. i \in Index
        BY <2>1, KnownIsIndex DEF ControlOK, unique
      <4> QED
        BY <4>1 DEF OwnershipInv, OwnershipTypeOK
    <3> DEFINE admitted == [opener[k] EXCEPT !.step = "command", !.id = nextControlId + 1,
                                             !.token = leases[i]]
    <3>2. admitted \in Opener
      <4>1. nextControlId + 1 \in Nat
        BY <1>0
      <4> QED
        BY <1>0, <3>1, <4>1, OpenerPermit
    <3>3. \/ opener' = [opener EXCEPT ![k] = admitted]
          \/ opener' = [opener EXCEPT ![k] = NoOpener]
      BY <1>3 DEF StartupControl
    <3> HIDE DEF admitted
    <3>4. opener' \in [Key -> Opener]
      BY <3>2, <3>3, NoOpenerTyped
    <3> QED
      BY <1>3, <3>4 DEF StartupControl
  <2>2. CASE ~ControlOK(i, leases[i])
    BY ZenonT(30), <1>3, <2>2, NoOpenerTyped DEF StartupControl
  <2> QED
    BY <2>1, <2>2
<1>4. CASE StartupControlEnds(k)
  BY <1>0, <1>4, OpenerStep DEF StartupControlEnds
<1>5. CASE StartupReady(k)
  BY <1>5, NoOpenerTyped DEF StartupReady, Phase
<1> QED
  BY <1>1, <1>2, <1>3, <1>4, <1>5 DEF OpenerSteps

LEMMA BeginCommandTyped ==
    ASSUME OwnershipInv, LocalsOK, NEW th \in Thread, NEW op \in {"start", "rate"},
           NEW i, NEW t, BeginCommand(th, op, i, t)
    PROVE  LocalsOK'
<1> USE DEF LocalsOK
<1>1. i \in Index
  BY KnownIsIndex DEF BeginCommand, beginControl, ControlOK, unique
<1>2. leases[i] \in Token \cup {NoToken} /\ nextControlId \in Nat
  BY <1>1 DEF OwnershipInv, OwnershipTypeOK
<1>3. [NoCall EXCEPT !.op = op, !.index = i, !.token = leases[i],
                     !.id = nextControlId + 1] \in Call
  <2>1. op \in {"start", "legacyStart", "rate"} /\ nextControlId + 1 \in Nat
    BY <1>2
  <2> QED
    BY <1>1, <1>2, <2>1, CommandCall, Zenon
<1> QED
  BY <1>3 DEF BeginCommand, Call1, Pc, tuneVars, streamVars, fileVars

LEMMA TokenCallsTyped ==
    ASSUME OwnershipInv, LocalsOK, NEW th \in Thread, NEW t \in issued, TokenCalls(th, t)
    PROVE  LocalsOK'
<1> USE DEF Call1, Pc, tuneVars, streamVars, fileVars
<1>0. t \in Token /\ t.index \in Index
  BY DEF OwnershipInv, OwnershipTypeOK, Token
<1>1. CASE releaseDevice(th, t)
  BY <1>1 DEF releaseDevice, LocalsOK
<1>2. CASE tuneDevice(th, t)
  BY <1>2, QueueTyped DEF tuneDevice, LocalsOK
<1>3. CASE stopDevice(th, t)
  BY <1>0, <1>3 DEF stopDevice, NoCall, Call, LocalsOK
<1>4. ASSUME NEW wasLive \in BOOLEAN, restoreDevice(th, t, wasLive) PROVE LocalsOK'
  BY <1>0, <1>4 DEF restoreDevice, NoCall, Call, LocalsOK
<1>5. CASE BeginCommand(th, "start", t.index, t)
  BY <1>5, BeginCommandTyped
<1> QED
  BY <1>1, <1>2, <1>3, <1>4, <1>5 DEF TokenCalls

LEMMA IndexCallsTyped ==
    ASSUME OwnershipInv, LocalsOK, NEW th \in Thread, NEW i \in Index, IndexCalls(th, i)
    PROVE  LocalsOK'
<1> USE DEF Call1, Pc, tuneVars, streamVars, fileVars
<1>0. leases[i] \in Token \cup {NoToken} /\ nextControlId \in Nat
  BY DEF OwnershipInv, OwnershipTypeOK
<1>1. CASE stopStreaming(th, i)
  BY <1>1 DEF stopStreaming, NoCall, Call, LocalsOK
<1>2. ASSUME NEW o \in Owner, setCenterFreq(th, i, o) PROVE LocalsOK'
  BY <1>2, QueueTyped DEF setCenterFreq, LocalsOK
<1>3. ASSUME NEW o \in Owner, BeginLegacyCommand(th, i, o) PROVE LocalsOK'
  <2>1. [NoCall EXCEPT !.op = "legacyStart", !.index = i, !.token = leases[i],
                       !.id = nextControlId + 1] \in Call
    <3>1. "legacyStart" \in {"start", "legacyStart", "rate"} /\ nextControlId + 1 \in Nat
      BY <1>0
    <3> QED
      BY <1>0, <3>1, CommandCall, Zenon
  <2> QED
    BY <1>3, <2>1 DEF BeginLegacyCommand, LocalsOK
<1>4. ASSUME NEW o \in Owner, releaseDeviceLease(th, o, {i}) PROVE LocalsOK'
  BY <1>4 DEF releaseDeviceLease, LocalsOK
<1>5. ASSUME NEW o \in Owner, NEW force \in BOOLEAN, acquireDeviceLease(th, i, o, force)
      PROVE  LocalsOK'
  BY <1>5 DEF acquireDeviceLease, LocalsOK
<1>6. ASSUME NEW o \in Owner, NEW force \in BOOLEAN, RetuneAcquire(th, i, o, force)
      PROVE  LocalsOK'
  BY <1>6 DEF RetuneAcquire, NoCall, Call, LocalsOK
<1>7. ASSUME NEW o \in Owner, NEW c \in Scoped, NEW attach \in BOOLEAN,
             claimDevice(th, i, o, c, attach)
      PROVE  LocalsOK'
  BY <1>7 DEF claimDevice, LocalsOK
<1>8. CASE BeginCommand(th, "rate", i, NoToken)
  BY <1>8, BeginCommandTyped
<1> QED
  BY <1>1, <1>2, <1>3, <1>4, <1>5, <1>6, <1>7, <1>8 DEF IndexCalls

LEMMA NextTyped ==
    ASSUME OwnershipInv, LocalsOK, [Next]_vars PROVE LocalsOK'
<1> USE DEF tuneVars, streamVars, fileVars
<1>1. ASSUME NEW i \in Index, ApplyTune(i) PROVE LocalsOK'
  BY <1>1 DEF ApplyTune, LocalsOK
<1>2. ASSUME NEW i \in Index, ReceiverFault(i) PROVE LocalsOK'
  BY <1>2 DEF ReceiverFault, Phase, LocalsOK
<1>3. ASSUME NEW th \in Thread, NEW o \in Owner, releaseDeviceLease(th, o, Index)
      PROVE  LocalsOK'
  BY <1>3 DEF releaseDeviceLease, LocalsOK
<1>4. CASE enumerateDevices
  <2>1. [NoCall EXCEPT !.op = "rescan", !.todo = {i \in Index : isStreaming(i)}] \in Call
    BY DEF NoCall, Call
  <2> QED
    BY <1>4, <2>1 DEF enumerateDevices, Call1, Pc, Thread, LocalsOK
<1>5. ASSUME NEW values \in Plans, NEW saved \in BOOLEAN, setWorkflowAssignments(values, saved)
      PROVE  LocalsOK'
  BY <1>5 DEF setWorkflowAssignments, LocalsOK
<1>6. CASE UNCHANGED vars
  BY <1>6 DEF vars, LocalsOK
<1> QED
  BY <1>1, <1>2, <1>3, <1>4, <1>5, <1>6, CallStepsTyped, RescanStepsTyped, OpenerStepsTyped,
     TokenCallsTyped, IndexCallsTyped DEF Next

-----------------------------------------------------------------------------
LEMMA LeasesInv == Spec => [](OwnershipInv /\ LocalsOK)
<1>1. OwnershipInv /\ LocalsOK /\ [Next]_vars => (OwnershipInv /\ LocalsOK)'
  BY NextRefines, NextTyped, OwnershipNextInv
<1> QED
  BY <1>1, LeasesInit, PTL DEF Spec

(* Type correctness of the control plane (DeviceManager.cpp), the book       *)
(* included, for any number of threads, radios and rescans.                  *)
THEOREM LeasesTypeCorrect == Spec => []TypeOK
<1>1. OwnershipInv /\ LocalsOK => TypeOK
  BY TypeOKParts DEF OwnershipInv
<1> QED
  BY <1>1, LeasesInv, PTL

(* Every interleaving of claims, commands, stops, restorations and rescans   *)
(* uses the book as its specification allows.                                *)
THEOREM LeasesImplementBook == Spec => OwnershipSpec
<1>1. Init => OwnershipInit
  BY DEF Init
<1>2. OwnershipInv /\ LocalsOK /\ [Next]_vars => [OwnershipNext]_ownershipVars
  BY NextRefines
<1> QED
  BY <1>1, <1>2, LeasesInv, PTL DEF Spec, OwnershipSpec

(* At no time do two workflows hold one physical radio, tuners included.     *)
THEOREM LeasesExclusive == Spec => []LeaseExclusive
<1> QED
  BY LeasesImplementBook, BookLeaseExclusive, PTL

(* At no time are two commands in flight on one physical radio (DEC-0184).   *)
THEOREM CommandsExclusive == Spec => []PermitExclusive
<1> QED
  BY LeasesImplementBook, BookPermitExclusive, PTL

(* Stops, leases and permits never name an index outside the endpoint list,  *)
(* and a reservation is never broken by the lease under it.                  *)
THEOREM LeasesHonourBook == Spec => [](IndicesInRange /\ ReservationHonoured)
<1>1. OwnershipInv => IndicesInRange /\ ReservationHonoured
  BY DEF OwnershipInv
<1> QED
  BY <1>1, LeasesImplementBook, OwnershipSafe, PTL

(* A worker that comes back after a stop, a release or a rescan never finds  *)
(* its old token valid again.                                                *)
THEOREM LeaseTokensStayDead == Spec => StaleTokensStayDead
<1> QED
  BY LeasesImplementBook, BookTokensStayDead

-----------------------------------------------------------------------------
(* What relates the locals of suspended calls to the book, the inductive     *)
(* invariant behind the three properties of the control plane.               *)

(* Threads in stopStreaming, from the announcement to the end of the stop.   *)
Stopping == {th \in Thread : pc[th] \in {"stopWait", "teardown", "stopEnd"}}

(* The permit of a command is in the book, and the radio carries the lease   *)
(* the command was admitted under, or none.                                  *)
PermitOK(c) ==
    /\ c.index \in Index /\ c.id # 0
    /\ controls[c.index] = c.id
    /\ \A j \in Leased : SameRadio(c.index, j) => leases[j] = c.token

(* Commands in flight are on distinct indices; a restoration that waits for  *)
(* its permit came with a token.                                             *)
PermitsInv ==
    /\ \A th \in Commanding : PermitOK(call[th])
    /\ \A k \in Starting : PermitOK(opener[k])
    /\ \A a, b \in Commanding : call[a].index = call[b].index => a = b
    /\ \A k, l \in Starting : opener[k].index = opener[l].index => k = l
    /\ \A th \in Commanding, k \in Starting : call[th].index # opener[k].index
    /\ \A th \in Thread : pc[th] = "restoreWait" => call[th].token # NoToken

(* Stops in progress are announced, on distinct indices without lease; past  *)
(* the wait no command is left on the radio.                                 *)
StopsInv ==
    /\ \A th \in Stopping : call[th].index \in stopping /\ call[th].index \notin Leased
    /\ \A a, b \in Stopping : call[a].index = call[b].index => a = b
    /\ \A th \in Stopping : pc[th] # "stopWait" => ~controlBusy(call[th].index)

(* The book lists the discovered devices, or nothing inside a rescan.        *)
ListsInv == endpoints = IF pc[Gui] \in {"discover", "rebind"} THEN <<>> ELSE devices

ControlInv == PermitsInv /\ StopsInv /\ ListsInv

(* What every operation of the book but bind does to leases and permits: it  *)
(* only adds one where no command runs and no stop is announced.             *)
Free(i) == Known(i) /\ ~controlBusy(i) /\ ~StopPending(i)
Courteous ==
    /\ endpoints' = endpoints
    /\ \A j \in Index : leases'[j] \in {leases[j], NoToken} \/ Free(j)
    /\ \A j \in Index : controls'[j] \in {controls[j], 0} \/ Free(j)

LEMMA SameRadioSymmetric == ASSUME NEW i, NEW j, SameRadio(i, j) PROVE SameRadio(j, i)
BY DEF SameRadio, sameDomain

LEMMA PinnedKnown ==
    ASSUME OwnershipInv, NEW i \in Index, i \in stopping \/ i \in Controlled \/ i \in Leased
    PROVE  Known(i)
BY DEF OwnershipInv, IndicesInRange, Known

LEMMA ClaimCourteous == ASSUME OwnershipInv, NEW i, NEW o, NEW c, claim(i, o, c) PROVE Courteous
<1>1. Free(i)
  BY DEF claim, allowed, Free
<1>2. leases \in [Index -> Token \cup {NoToken}]
  BY DEF OwnershipInv, OwnershipTypeOK
<1>3. \A j \in Index : j # i => leases'[j] = leases[j]
  BY <1>2 DEF claim
<1> QED
  BY <1>1, <1>3 DEF claim, Courteous

LEMMA RetireCourteous == ASSUME NEW set, Retire(set) PROVE Courteous
BY DEF Retire, Courteous

LEMMA ReleaseCourteous == ASSUME NEW t, release(t) PROVE Courteous
BY RetireCourteous DEF release

LEMMA BeginStopCourteous == ASSUME OwnershipInv, NEW i, beginStop(i) PROVE Courteous
<1>1. leases \in [Index -> Token \cup {NoToken}]
  BY DEF OwnershipInv, OwnershipTypeOK
<1> QED
  BY <1>1 DEF beginStop, Courteous

LEMMA BeginControlCourteous ==
    ASSUME OwnershipInv, NEW i, NEW t, beginControl(i, t) PROVE Courteous
<1>1. Free(i)
  BY DEF beginControl, ControlOK, unique, Free
<1>2. controls \in [Index -> Nat]
  BY DEF OwnershipInv, OwnershipTypeOK
<1>3. \A j \in Index : j # i => controls'[j] = controls[j]
  BY <1>2 DEF beginControl
<1> QED
  BY <1>1, <1>3 DEF beginControl, Courteous

LEMMA EndControlCourteous ==
    ASSUME OwnershipInv, NEW i, NEW id, endControl(i, id) PROVE Courteous
<1>1. controls \in [Index -> Nat]
  BY DEF OwnershipInv, OwnershipTypeOK
<1> QED
  BY <1>1 DEF endControl, Courteous

LEMMA OtherCourteous ==
    ASSUME \/ UNCHANGED ownershipVars
           \/ \E i : endStop(i)
           \/ \E values : setAssignments(values)
    PROVE  Courteous
BY DEF ownershipVars, endStop, setAssignments, Courteous

-----------------------------------------------------------------------------
(* On such a step a command in flight keeps its radio, and a stop its index. *)
LEMMA SameRadioKept ==
    ASSUME Courteous, NEW i, NEW j PROVE SameRadio(i, j)' = SameRadio(i, j)
BY DEF Courteous, SameRadio, sameDomain

LEMMA PermitKept ==
    ASSUME OwnershipInv, Courteous, NEW c, PermitOK(c), NEW j \in Leased', SameRadio(c.index, j)
    PROVE  leases'[j] = c.token
<1>1. c.index \in Controlled
  BY DEF PermitOK, Controlled
<1>2. j \in Index /\ leases'[j] # NoToken
  BY DEF Leased
<1>3. ~Free(j)
  BY <1>1, SameRadioSymmetric DEF Free, controlBusy
<1>4. leases'[j] = leases[j]
  BY <1>2, <1>3 DEF Courteous
<1> QED
  BY <1>2, <1>4 DEF PermitOK, Leased

LEMMA StopKept ==
    ASSUME OwnershipInv, Courteous, NEW i \in stopping, i \notin Leased
    PROVE  /\ i \notin Leased'
           /\ ~controlBusy(i) => ~controlBusy(i)'
<1>1. i \in Index /\ Known(i)
  BY PinnedKnown DEF OwnershipInv, OwnershipTypeOK
<1>2. ASSUME NEW j \in Index, SameRadio(i, j) PROVE ~Free(j)
  BY <1>2, SameRadioSymmetric DEF Free, StopPending
<1>3. i \notin Leased'
  <2>1. ~Free(i)
    BY <1>1, <1>2 DEF SameRadio
  <2> QED
    BY <1>1, <2>1 DEF Courteous, Leased
<1>4. ASSUME ~controlBusy(i), controlBusy(i)' PROVE FALSE
  <2>1. PICK j \in Controlled' : SameRadio(i, j)'
    BY <1>4 DEF controlBusy
  <2>2. j \in Index /\ controls'[j] # 0 /\ SameRadio(i, j)
    BY <2>1, SameRadioKept DEF Controlled
  <2>3. controls'[j] = controls[j]
    BY <1>2, <2>2 DEF Courteous
  <2> QED
    BY <1>1, <1>4, <2>2, <2>3 DEF controlBusy, Controlled
<1> QED
  BY <1>3, <1>4

-----------------------------------------------------------------------------
(* A step that begins no command and no stop.                                *)
SameCommand(c, d) == c.index = d.index /\ c.id = d.id /\ c.token = d.token

LEMMA KeepPermits ==
    ASSUME OwnershipInv, Courteous, PermitsInv,
           \A th \in Commanding' : /\ th \in Commanding
                                   /\ SameCommand(call'[th], call[th])
                                   /\ controls'[call[th].index] = controls[call[th].index],
           \A k \in Starting' : /\ k \in Starting
                                /\ SameCommand(opener'[k], opener[k])
                                /\ controls'[opener[k].index] = controls[opener[k].index],
           \A th \in Thread : pc'[th] = "restoreWait" => call'[th].token # NoToken
    PROVE  PermitsInv'
<1>1. ASSUME NEW c, NEW d, PermitOK(c), SameCommand(d, c),
             controls'[c.index] = controls[c.index]
      PROVE  /\ d.index \in Index /\ d.id # 0 /\ controls'[d.index] = d.id
             /\ \A j \in Leased' : SameRadio(d.index, j)' => leases'[j] = d.token
  BY <1>1, PermitKept, SameRadioKept DEF PermitOK, SameCommand
<1>2. \A th \in Commanding' : PermitOK(call[th])'
  BY <1>1 DEF PermitOK, PermitsInv
<1>3. \A k \in Starting' : PermitOK(opener[k])'
  BY <1>1 DEF PermitOK, PermitsInv
<1> QED
  BY <1>2, <1>3 DEF PermitsInv, SameCommand

LEMMA KeepStops ==
    ASSUME OwnershipInv, Courteous, StopsInv,
           \A th \in Stopping' : /\ th \in Stopping
                                 /\ call'[th].index = call[th].index
                                 /\ call[th].index \in stopping'
                                 /\ pc'[th] # "stopWait" =>
                                       pc[th] # "stopWait" \/ ~controlBusy(call[th].index)
    PROVE  StopsInv'
<1>1. ASSUME NEW th \in Stopping', NEW i, i = call[th].index
      PROVE  /\ i \notin Leased'
             /\ pc'[th] # "stopWait" => ~controlBusy(i)'
  BY <1>1, StopKept DEF StopsInv
<1>2. ASSUME NEW th \in Stopping'
      PROVE  /\ call'[th].index \notin Leased'
             /\ pc'[th] # "stopWait" => ~controlBusy(call[th].index)'
  BY <1>1 DEF controlBusy, Known, SameRadio, sameDomain
<1> QED
  BY <1>2 DEF StopsInv

-----------------------------------------------------------------------------
(* A step that begins a command: the radio carries no other.                 *)
LEMMA AdmittedLease ==
    ASSUME OwnershipInv, NEW i, NEW t, ControlOK(i, t)
    PROVE  /\ i \in Index
           /\ t # NoToken => leases[i] = t
           /\ \A j \in Leased : SameRadio(i, j) => leases[j] = leases[i]
<1>1. i \in Index
  BY KnownIsIndex DEF ControlOK, unique
<1>2. CASE t # NoToken
  <2>1. leases[i] = t /\ i \in Leased
    BY <1>1, <1>2 DEF ControlOK, valid, Leased
  <2> QED
    BY <1>1, <2>1 DEF OwnershipInv, LeaseExclusive
<1>3. CASE t = NoToken
  BY <1>1, <1>3 DEF ControlOK
<1> QED
  BY <1>2, <1>3, <1>1

LEMMA AdmittedAlone ==
    ASSUME OwnershipInv, NEW i, NEW t, beginControl(i, t), NEW c, PermitOK(c)
    PROVE  c.index # i /\ controls'[c.index] = controls[c.index]
<1>1. ~controlBusy(i) /\ Known(i)
  BY DEF beginControl, ControlOK, unique
<1>2. c.index \in Controlled
  BY DEF PermitOK, Controlled
<1>3. c.index # i
  BY <1>1, <1>2 DEF controlBusy, SameRadio
<1> QED
  BY <1>2, <1>3 DEF beginControl, OwnershipInv, OwnershipTypeOK, Controlled

LEMMA AdmittedPermit ==
    ASSUME OwnershipInv, NEW i, NEW t, beginControl(i, t),
           NEW d, d.index = i, d.id = nextControlId + 1, d.token = leases[i]
    PROVE  /\ d.index \in Index /\ d.id # 0 /\ controls'[d.index] = d.id
           /\ \A j \in Leased' : SameRadio(d.index, j)' => leases'[j] = d.token
<1>1. i \in Index /\ \A j \in Leased : SameRadio(i, j) => leases[j] = leases[i]
  BY AdmittedLease DEF beginControl
<1>2. nextControlId \in Nat /\ controls \in [Index -> Nat]
  BY DEF OwnershipInv, OwnershipTypeOK
<1>3. d.id # 0 /\ controls'[i] = d.id
  BY <1>1, <1>2 DEF beginControl
<1>4. leases' = leases /\ Leased' = Leased
  BY DEF beginControl, Leased
<1> QED
  BY <1>1, <1>3, <1>4, BeginControlCourteous, SameRadioKept

LEMMA NewCommand ==
    ASSUME OwnershipInv, PermitsInv, NEW i, NEW t, beginControl(i, t), NEW th \in Thread,
           call'[th].index = i, call'[th].id = nextControlId + 1, call'[th].token = leases[i],
           \A x \in Commanding' : x # th => x \in Commanding /\ call'[x] = call[x],
           opener' = opener,
           \A x \in Thread : pc'[x] = "restoreWait" => call'[x].token # NoToken
    PROVE  PermitsInv'
<1>1. ASSUME NEW c, PermitOK(c)
      PROVE  /\ c.index # i
             /\ c.index \in Index /\ c.id # 0 /\ controls'[c.index] = c.id
             /\ \A j \in Leased' : SameRadio(c.index, j)' => leases'[j] = c.token
  BY <1>1, AdmittedAlone, BeginControlCourteous, PermitKept, SameRadioKept DEF PermitOK
<1>2. /\ call'[th].index \in Index /\ call'[th].id # 0
      /\ controls'[call'[th].index] = call'[th].id
      /\ \A j \in Leased' : SameRadio(call[th].index, j)' => leases'[j] = call'[th].token
  BY AdmittedPermit DEF SameRadio, sameDomain
<1>3. \A x \in Commanding' : PermitOK(call[x])'
  BY <1>1, <1>2 DEF PermitOK, PermitsInv
<1>4. \A k \in Starting' : PermitOK(opener[k])' /\ opener'[k].index # i
  BY <1>1 DEF PermitOK, PermitsInv, Starting
<1>5. \A x \in Commanding' : x # th => call'[x].index # i
  BY <1>1 DEF PermitsInv
<1>6. Starting' = Starting
  BY DEF Starting
<1> QED
  BY <1>3, <1>4, <1>5, <1>6 DEF PermitsInv

LEMMA NewStartup ==
    ASSUME OwnershipInv, PermitsInv, NEW i, NEW t, beginControl(i, t), NEW k \in Key,
           opener'[k].index = i, opener'[k].id = nextControlId + 1, opener'[k].token = leases[i],
           \A l \in Starting' : l # k => l \in Starting /\ opener'[l] = opener[l],
           pc' = pc, call' = call
    PROVE  PermitsInv'
<1>1. ASSUME NEW c, PermitOK(c)
      PROVE  /\ c.index # i
             /\ c.index \in Index /\ c.id # 0 /\ controls'[c.index] = c.id
             /\ \A j \in Leased' : SameRadio(c.index, j)' => leases'[j] = c.token
  BY <1>1, AdmittedAlone, BeginControlCourteous, PermitKept, SameRadioKept DEF PermitOK
<1>2. /\ opener'[k].index \in Index /\ opener'[k].id # 0
      /\ controls'[opener'[k].index] = opener'[k].id
      /\ \A j \in Leased' : SameRadio(opener[k].index, j)' => leases'[j] = opener'[k].token
  BY AdmittedPermit DEF SameRadio, sameDomain
<1>3. \A l \in Starting' : PermitOK(opener[l])'
  BY <1>1, <1>2 DEF PermitOK, PermitsInv
<1>4. \A x \in Commanding' : PermitOK(call[x])' /\ call'[x].index # i
  BY <1>1 DEF PermitOK, PermitsInv, Commanding
<1>5. \A l \in Starting' : l # k => opener'[l].index # i
  BY <1>1 DEF PermitsInv
<1>6. Commanding' = Commanding
  BY DEF Commanding
<1> QED
  BY <1>3, <1>4, <1>5, <1>6 DEF PermitsInv

(* A step that announces a stop.                                             *)
LEMMA NewStop ==
    ASSUME OwnershipInv, StopsInv, NEW i, beginStop(i), NEW th \in Thread,
           call'[th].index = i, pc'[th] = "stopWait",
           \A x \in Stopping' : x # th => /\ x \in Stopping
                                         /\ call'[x] = call[x] /\ pc'[x] = pc[x]
    PROVE  StopsInv'
<1>1. i \in stopping' /\ i \notin Leased' /\ i \notin stopping /\ stopping \subseteq stopping'
  <2>1. leases \in [Index -> Token \cup {NoToken}] /\ i \in Index
    BY KnownIsIndex DEF OwnershipInv, OwnershipTypeOK, beginStop
  <2> QED
    BY <2>1 DEF beginStop, Leased
<1>2. ASSUME NEW j \in stopping, j \notin Leased
      PROVE  /\ j # i /\ j \notin Leased' /\ j \in stopping'
             /\ ~controlBusy(j) => ~controlBusy(j)'
  BY <1>1, <1>2, BeginStopCourteous, StopKept
<1>3. ASSUME NEW x \in Stopping', x # th
      PROVE  /\ call'[x].index \in stopping' /\ call'[x].index \notin Leased'
             /\ call'[x].index # i
             /\ pc'[x] # "stopWait" => ~controlBusy(call[x].index)'
  <2>1. ASSUME NEW j, j = call[x].index
        PROVE  /\ j # i /\ j \notin Leased' /\ j \in stopping'
               /\ pc'[x] # "stopWait" => ~controlBusy(j)'
    BY <1>2, <1>3, <2>1 DEF StopsInv
  <2> QED
    BY <1>3, <2>1 DEF controlBusy, Known, SameRadio, sameDomain
<1> QED
  BY <1>1, <1>3 DEF StopsInv

-----------------------------------------------------------------------------
(* What moving one thread says of the threads. *)
LEMMA GotoOne ==
    ASSUME LocalsOK, NEW th \in Thread, NEW l, Goto(th, l)
    PROVE  pc'[th] = l /\ \A x \in Thread : x # th => pc'[x] = pc[x]
BY DEF LocalsOK, Goto

LEMMA ReturnOne ==
    ASSUME LocalsOK, NEW th \in Thread, Return(th)
    PROVE  /\ pc'[th] = "idle"
           /\ \A x \in Thread : x # th => pc'[x] = pc[x] /\ call'[x] = call[x]
BY DEF LocalsOK, Return

LEMMA CallOne ==
    ASSUME LocalsOK, NEW th \in Thread, NEW l, NEW c, Call1(th, l, c)
    PROVE  /\ pc[th] = "idle" /\ pc'[th] = l /\ call'[th] = c
           /\ \A x \in Thread : x # th => pc'[x] = pc[x] /\ call'[x] = call[x]
BY DEF LocalsOK, Call1

(* A step that leaves the permits and the commands alone.                    *)
LEMMA NoCommandMoves ==
    ASSUME OwnershipInv, Courteous, PermitsInv, controls' = controls,
           \A x \in Commanding' : x \in Commanding /\ SameCommand(call'[x], call[x]),
           \A k \in Starting' : k \in Starting /\ SameCommand(opener'[k], opener[k]),
           \A x \in Thread : pc'[x] = "restoreWait" => call'[x].token # NoToken
    PROVE  PermitsInv'
BY KeepPermits

(* A step that leaves the stops alone. *)
LEMMA NoStopMoves ==
    ASSUME OwnershipInv, Courteous, StopsInv, stopping' = stopping,
           \A x \in Stopping' : x \in Stopping /\ call'[x].index = call[x].index /\ pc'[x] = pc[x]
    PROVE  StopsInv'
BY KeepStops DEF StopsInv

(* Ending the permit of one command leaves the other commands theirs. *)
LEMMA CommandEnds ==
    ASSUME OwnershipInv, LocalsOK, PermitsInv, NEW th \in Commanding,
           endControl(call[th].index, call[th].id),
           \A x \in Thread : x # th => pc'[x] = pc[x] /\ call'[x] = call[x],
           opener' = opener,
           pc'[th] \in {"idle", "restoreStop"}
    PROVE  PermitsInv'
<1>1. Courteous
  BY EndControlCourteous
<1>2. \A i \in Index : i # call[th].index => controls'[i] = controls[i]
  BY DEF endControl, OwnershipInv, OwnershipTypeOK
<1>3. \A x \in Commanding' : /\ x \in Commanding /\ x # th
                             /\ SameCommand(call'[x], call[x])
                             /\ controls'[call[x].index] = controls[call[x].index]
  BY <1>2 DEF Commanding, SameCommand, PermitsInv, PermitOK
<1>4. \A k \in Starting' : /\ k \in Starting
                           /\ SameCommand(opener'[k], opener[k])
                           /\ controls'[opener[k].index] = controls[opener[k].index]
  BY <1>2 DEF Starting, SameCommand, PermitsInv, PermitOK
<1>5. \A x \in Thread : pc'[x] = "restoreWait" => call'[x].token # NoToken
  BY DEF PermitsInv
<1> QED
  BY <1>1, <1>3, <1>4, <1>5, KeepPermits

LEMMA CallStepsControl ==
    ASSUME OwnershipInv, LocalsOK, PermitsInv, StopsInv, NEW th \in Thread, CallSteps(th)
    PROVE  PermitsInv' /\ StopsInv'
<1> USE DEF bookVars, ownershipVars
<1>0. \A x \in Thread : call[x] \in Call /\ x \in Thread
  BY DEF LocalsOK
<1>1. CASE RetuneQueue(th)
  <2>1. Courteous /\ opener' = opener /\ controls' = controls /\ stopping' = stopping
    BY <1>1, OtherCourteous DEF RetuneQueue, streamVars
  <2>2. /\ pc'[th] = "idle"
        /\ \A x \in Thread : x # th => pc'[x] = pc[x] /\ call'[x] = call[x]
    BY <1>1, ReturnOne DEF RetuneQueue
  <2>3. PermitsInv'
    BY <2>1, <2>2, NoCommandMoves DEF Commanding, Starting, SameCommand, PermitsInv
  <2>4. StopsInv'
    BY <2>1, <2>2, NoStopMoves DEF Stopping
  <2> QED
    BY <2>3, <2>4
<1>2. CASE RunCommand(th)
  <2>1. Courteous /\ controls' = controls /\ stopping' = stopping /\ call' = call
    BY <1>2, OtherCourteous DEF RunCommand
  <2>2. pc[th] = "command" /\ pc'[th] = "commandEnd" /\ \A x \in Thread : x # th => pc'[x] = pc[x]
    BY <1>2, GotoOne DEF RunCommand
  <2>3. \A k \in Starting' : k \in Starting /\ SameCommand(opener'[k], opener[k])
    <3>0. \A k \in Key : opener[k] \in Opener
      BY DEF LocalsOK
    <3>1. \A i : \A k \in Key : Supersede(i)[k].step = opener[k].step
                                /\ SameCommand(Supersede(i)[k], opener[k])
      BY <3>0 DEF Supersede, SameCommand, Opener
    <3>2. CASE StartStream(call[th].index)
      <4>1. PICK j, d : opener' = [Supersede(j) EXCEPT ![d] =
                        [NoOpener EXCEPT !.step = "open", !.index = j, !.current = TRUE]]
        BY <3>2 DEF StartStream
      <4>2. \A k \in Key : opener'[k].step = "open" \/ opener'[k] = Supersede(j)[k]
        BY <4>1 DEF Supersede, NoOpener
      <4> QED
        BY <3>1, <4>2 DEF Starting
    <3>3. CASE stopStreamingImpl(call[th].index)
      BY <3>1, <3>3 DEF stopStreamingImpl, Starting
    <3>4. CASE UNCHANGED streamVars
      BY <3>4 DEF streamVars, Starting, SameCommand
    <3> QED
      BY <1>2, <3>2, <3>3, <3>4 DEF RunCommand
  <2>4. PermitsInv'
    BY <2>1, <2>2, <2>3, NoCommandMoves DEF Commanding, SameCommand, PermitsInv
  <2>5. StopsInv'
    BY <2>1, <2>2, NoStopMoves DEF Stopping
  <2> QED
    BY <2>4, <2>5
<1>3. CASE EndCommand(th)
  <2>1. endControl(call[th].index, call[th].id) /\ opener' = opener /\ pc[th] = "commandEnd"
    BY <1>3 DEF EndCommand, streamVars
  <2>2. /\ pc'[th] = "idle"
        /\ \A x \in Thread : x # th => pc'[x] = pc[x] /\ call'[x] = call[x]
    BY <1>3, ReturnOne DEF EndCommand
  <2>3. PermitsInv'
    BY <2>1, <2>2, CommandEnds DEF Commanding
  <2>4. StopsInv'
    BY <2>1, <2>2, NoStopMoves, EndControlCourteous DEF Stopping, endControl
  <2> QED
    BY <2>3, <2>4
<1>4. CASE StopDrained(th)
  <2>1. Courteous /\ controls' = controls /\ stopping' = stopping /\ call' = call /\ opener' = opener
    BY <1>4, OtherCourteous DEF StopDrained, streamVars
  <2>2. /\ pc[th] = "stopWait" /\ pc'[th] = "teardown" /\ ~controlBusy(call[th].index)
        /\ \A x \in Thread : x # th => pc'[x] = pc[x]
    BY <1>4, GotoOne DEF StopDrained
  <2>3. PermitsInv'
    BY <2>1, <2>2, NoCommandMoves DEF Commanding, Starting, SameCommand, PermitsInv
  <2>4. StopsInv'
    BY <2>1, <2>2, KeepStops DEF Stopping, StopsInv
  <2> QED
    BY <2>3, <2>4
<1>5. CASE Teardown(th)
  <2>1. Courteous /\ controls' = controls /\ stopping' = stopping /\ call' = call
    BY <1>5, OtherCourteous DEF Teardown
  <2>2. /\ pc[th] = "teardown" /\ pc'[th] = "stopEnd"
        /\ \A x \in Thread : x # th => pc'[x] = pc[x]
    BY <1>5, GotoOne DEF Teardown
  <2>3. \A k \in Starting' : k \in Starting /\ SameCommand(opener'[k], opener[k])
    BY <1>5 DEF Teardown, stopStreamingImpl, Supersede, Starting, SameCommand, LocalsOK, Opener
  <2>4. PermitsInv'
    BY <2>1, <2>2, <2>3, NoCommandMoves DEF Commanding, SameCommand, PermitsInv
  <2>5. StopsInv'
    BY <2>1, <2>2, KeepStops DEF Stopping, StopsInv
  <2> QED
    BY <2>4, <2>5
<1>6. CASE StopEnds(th)
  <2>1. /\ endStop(call[th].index) /\ Courteous /\ controls' = controls /\ opener' = opener
        /\ pc[th] = "stopEnd"
    BY <1>6, OtherCourteous DEF StopEnds, endStop, streamVars
  <2>2. /\ pc'[th] \in {"idle", "rescan"}
        /\ \A x \in Thread : x # th => pc'[x] = pc[x] /\ call'[x] = call[x]
    BY <1>6 DEF StopEnds, Return, Goto, LocalsOK
  <2>3. PermitsInv'
    BY <2>1, <2>2, NoCommandMoves DEF Commanding, Starting, SameCommand, PermitsInv
  <2>4. \A x \in Stopping' : /\ x \in Stopping /\ call'[x].index = call[x].index
                             /\ call[x].index \in stopping' /\ pc'[x] = pc[x]
    BY <2>1, <2>2 DEF Stopping, StopsInv, endStop
  <2>5. StopsInv'
    BY <2>1, <2>4, KeepStops
  <2> QED
    BY <2>3, <2>5
<1>7. CASE RestoreControl(th)
  <2> DEFINE i == call[th].index
             t == call[th].token
  <2>0. pc[th] = "restoreWait" /\ t # NoToken /\ opener' = opener
    BY <1>7 DEF RestoreControl, PermitsInv, streamVars
  <2>1. CASE ControlOK(i, t)
    <3>1. /\ beginControl(i, t) /\ Courteous
          /\ Goto(th, "restoreTune") /\ call' = [call EXCEPT ![th].id = nextControlId + 1]
      BY <1>7, <2>1, BeginControlCourteous DEF RestoreControl
    <3>2. pc'[th] = "restoreTune" /\ \A x \in Thread : x # th => pc'[x] = pc[x]
      BY <3>1, GotoOne
    <3>3. /\ \A x \in Thread : x # th => call'[x] = call[x]
          /\ call'[th].id = nextControlId + 1 /\ call'[th].index = i /\ call'[th].token = t
      BY <1>0, <3>1 DEF LocalsOK, Call
    <3>4. call'[th].token = leases[i]
      BY <2>0, <2>1, <3>3, AdmittedLease
    <3>5. PermitsInv'
      <4>1. \A x \in Commanding' : x # th => x \in Commanding /\ call'[x] = call[x]
        BY <3>2, <3>3 DEF Commanding
      <4>2. \A x \in Thread : pc'[x] = "restoreWait" => call'[x].token # NoToken
        BY <3>2, <3>3 DEF PermitsInv
      <4> QED
        BY <2>0, <3>1, <3>3, <3>4, <4>1, <4>2, NewCommand
    <3>6. StopsInv'
      BY <3>1, <3>2, <3>3, NoStopMoves DEF Stopping, beginControl
    <3> QED
      BY <3>5, <3>6
  <2>2. CASE ~ControlOK(i, t)
    <3>1. Courteous /\ controls' = controls /\ stopping' = stopping /\ Return(th)
      BY <1>7, <2>2, OtherCourteous DEF RestoreControl
    <3>2. PermitsInv'
      BY <2>0, <3>1, ReturnOne, NoCommandMoves DEF Commanding, Starting, SameCommand, PermitsInv
    <3>3. StopsInv'
      BY <3>1, ReturnOne, NoStopMoves DEF Stopping
    <3> QED
      BY <3>2, <3>3
  <2> QED
    BY <2>1, <2>2
<1>8. CASE RestoreTune(th)
  <2>1. Courteous /\ controls' = controls /\ stopping' = stopping /\ opener' = opener
    BY <1>8, OtherCourteous DEF RestoreTune, streamVars
  <2>2. /\ pc[th] = "restoreTune" /\ pc'[th] \in {"commandEnd", "restorePoll", "restoreEnd"}
        /\ \A x \in Thread : x # th => pc'[x] = pc[x]
    BY <1>8 DEF RestoreTune, Goto, LocalsOK
  <2>3. \A x \in Thread : SameCommand(call'[x], call[x])
    <3>1. PICK n : call' = call \/ call' = [call EXCEPT ![th].request = n]
      BY <1>8 DEF RestoreTune
    <3> DEFINE moved == [call[th] EXCEPT !.request = n]
    <3>2. SameCommand(moved, call[th])
      BY <1>0 DEF SameCommand, Call
    <3>3. call' = call \/ call' = [call EXCEPT ![th] = moved]
      BY <3>1
    <3> HIDE DEF moved
    <3> QED
      BY <3>2, <3>3 DEF SameCommand, LocalsOK
  <2>4. PermitsInv'
    BY <2>1, <2>2, <2>3, NoCommandMoves DEF Commanding, Starting, SameCommand, PermitsInv
  <2>5. StopsInv'
    BY <2>1, <2>2, <2>3, NoStopMoves DEF Stopping, SameCommand
  <2> QED
    BY <2>4, <2>5
<1>9. CASE RestorePoll(th)
  <2>1. Courteous /\ controls' = controls /\ stopping' = stopping
    BY <1>9, OtherCourteous, ReleaseCourteous DEF RestorePoll, release, Retire
  <2>2. /\ pc[th] = "restorePoll" /\ pc'[th] \in {"commandEnd", "restoreEnd"}
        /\ \A x \in Thread : x # th => pc'[x] = pc[x]
        /\ call' = call /\ opener' = opener
    BY <1>9 DEF RestorePoll, Goto, LocalsOK, streamVars
  <2>3. PermitsInv'
    BY <2>1, <2>2, NoCommandMoves DEF Commanding, Starting, SameCommand, PermitsInv
  <2>4. StopsInv'
    BY <2>1, <2>2, NoStopMoves DEF Stopping
  <2> QED
    BY <2>3, <2>4
<1>10. CASE RestoreControlEnds(th)
  <2>1. endControl(call[th].index, call[th].id) /\ opener' = opener /\ pc[th] = "restoreEnd"
    BY <1>10 DEF RestoreControlEnds, streamVars
  <2>2. /\ pc'[th] = "restoreStop"
        /\ \A x \in Thread : x # th => pc'[x] = pc[x] /\ call'[x] = call[x]
    BY <1>10, GotoOne DEF RestoreControlEnds, LocalsOK
  <2>3. PermitsInv'
    BY <2>1, <2>2, CommandEnds DEF Commanding
  <2>4. StopsInv'
    BY <2>1, <2>2, NoStopMoves, EndControlCourteous DEF Stopping, endControl
  <2> QED
    BY <2>3, <2>4
<1>11. CASE RestoreStop(th)
  <2>0. pc[th] = "restoreStop" /\ opener' = opener
    BY <1>11 DEF RestoreStop, streamVars
  <2>1. CASE beginStop(call[th].index) /\ Goto(th, "stopWait") /\ UNCHANGED call
    <3>1. Courteous /\ controls' = controls
      BY <2>1, BeginStopCourteous DEF beginStop
    <3>2. PermitsInv'
      BY <2>0, <2>1, <3>1, GotoOne, NoCommandMoves DEF Commanding, Starting, SameCommand, PermitsInv
    <3>3. StopsInv'
      BY <2>1, GotoOne, NewStop DEF Stopping
    <3> QED
      BY <3>2, <3>3
  <2>2. CASE UNCHANGED bookVars /\ Return(th)
    <3>1. Courteous /\ controls' = controls /\ stopping' = stopping
      BY <2>2, OtherCourteous
    <3>2. PermitsInv'
      BY <2>0, <2>2, <3>1, ReturnOne, NoCommandMoves DEF Commanding, Starting, SameCommand, PermitsInv
    <3>3. StopsInv'
      BY <2>2, <3>1, ReturnOne, NoStopMoves DEF Stopping
    <3> QED
      BY <3>2, <3>3
  <2> QED
    BY <1>11, <2>1, <2>2 DEF RestoreStop
<1> QED
  BY <1>1, <1>2, <1>3, <1>4, <1>5, <1>6, <1>7, <1>8, <1>9, <1>10, <1>11 DEF CallSteps

-----------------------------------------------------------------------------
(* The rescan stops streams, empties the book and fills it again. *)
LEMMA RescanStepsControl ==
    ASSUME OwnershipInv, LocalsOK, PermitsInv, StopsInv, RescanSteps
    PROVE  PermitsInv' /\ StopsInv'
<1> USE DEF bookVars
<1>0. Gui \in Thread
  BY DEF Thread
<1>1. CASE RescanStops
  <2>1. PICK i \in call[Gui].todo :
            IF Known(i) /\ i \notin stopping
            THEN beginStop(i) /\ Goto(Gui, "stopWait") /\ call' = [call EXCEPT ![Gui].index = i]
            ELSE /\ UNCHANGED <<bookVars, pc>>
                 /\ call' = [call EXCEPT ![Gui].todo = call[Gui].todo \ {i}]
    BY <1>1 DEF RescanStops
  <2>2. pc[Gui] = "rescan" /\ opener' = opener
    BY <1>1 DEF RescanStops, streamVars
  <2>3. /\ \A x \in Thread : x # Gui => pc'[x] = pc[x] /\ call'[x] = call[x]
        /\ pc'[Gui] \in {"rescan", "stopWait"}
    BY <1>0, <2>1, <2>2, GotoOne DEF LocalsOK
  <2>4. Courteous /\ controls' = controls
    BY <2>1, BeginStopCourteous, OtherCourteous DEF beginStop, ownershipVars
  <2>5. PermitsInv'
    BY <2>2, <2>3, <2>4, NoCommandMoves DEF Commanding, Starting, SameCommand, PermitsInv
  <2>6. CASE Known(i) /\ i \notin stopping
    <3>1. beginStop(i) /\ pc'[Gui] = "stopWait" /\ call'[Gui].index = i
      BY <1>0, <2>1, <2>6, GotoOne DEF LocalsOK, Call
    <3>2. StopsInv'
      BY <1>0, <2>3, <3>1, NewStop DEF Stopping
    <3> QED
      BY <2>5, <3>2
  <2>7. CASE ~(Known(i) /\ i \notin stopping)
    <3>1. pc' = pc /\ stopping' = stopping
      BY <2>1, <2>7 DEF ownershipVars
    <3>2. StopsInv'
      BY <2>2, <2>3, <2>4, <3>1, NoStopMoves DEF Stopping
    <3> QED
      BY <2>5, <3>2
  <2> QED
    BY <2>6, <2>7
<1>2. ASSUME NEW list, bind(list), UNCHANGED opener,
             \A x \in Thread : x # Gui => pc'[x] = pc[x] /\ call'[x] = call[x],
             pc'[Gui] \in {"discover", "idle"}
      PROVE  PermitsInv' /\ StopsInv'
  <2>1. Commanding = {} /\ Starting = {} /\ Stopping = {}
    BY <1>2 DEF bind, PermitsInv, StopsInv, PermitOK, Controlled
  <2>2. Commanding' = {} /\ Starting' = {} /\ Stopping' = {}
    BY <1>2, <2>1 DEF Commanding, Starting, Stopping
  <2> QED
    BY <1>2, <2>2 DEF PermitsInv, StopsInv
<1>3. CASE RescanUnbinds
  <2>1. CASE bind(<<>>) /\ UNCHANGED call /\ Goto(Gui, "discover")
    BY <1>0, <1>2, <1>3, <2>1, GotoOne DEF RescanUnbinds, streamVars
  <2>2. CASE UNCHANGED ownershipVars /\ Return(Gui)
    <3>1. Courteous /\ controls' = controls /\ stopping' = stopping /\ opener' = opener
      BY <1>3, <2>2, OtherCourteous DEF RescanUnbinds, streamVars, ownershipVars
    <3>2. PermitsInv'
      BY <1>0, <2>2, <3>1, ReturnOne, NoCommandMoves
      DEF Commanding, Starting, SameCommand, PermitsInv
    <3>3. StopsInv'
      BY <1>0, <2>2, <3>1, ReturnOne, NoStopMoves DEF Stopping
    <3> QED
      BY <3>2, <3>3
  <2> QED
    BY <1>3, <2>1, <2>2 DEF RescanUnbinds
<1>4. CASE Discover
  <2>1. /\ Courteous /\ controls' = controls /\ stopping' = stopping /\ opener' = opener
        /\ call' = call /\ pc[Gui] = "discover" /\ pc'[Gui] = "rebind"
        /\ \A x \in Thread : x # Gui => pc'[x] = pc[x]
    BY <1>0, <1>4, OtherCourteous, GotoOne DEF Discover, streamVars, ownershipVars
  <2>2. PermitsInv'
    BY <2>1, NoCommandMoves DEF Commanding, Starting, SameCommand, PermitsInv
  <2>3. StopsInv'
    BY <2>1, NoStopMoves DEF Stopping
  <2> QED
    BY <2>2, <2>3
<1>5. CASE bindWorkflowDevices
  BY <1>0, <1>2, <1>5, ReturnOne DEF bindWorkflowDevices, streamVars
<1> QED
  BY <1>1, <1>3, <1>4, <1>5 DEF RescanSteps

(* The detached opens, their startup control among them. *)
LEMMA OpenerStepsControl ==
    ASSUME OwnershipInv, LocalsOK, PermitsInv, StopsInv, NEW k \in Key, OpenerSteps(k)
    PROVE  PermitsInv' /\ StopsInv'
<1> USE DEF bookVars
<1>0. opener \in [Key -> Opener] /\ opener[k] \in Opener
  BY DEF LocalsOK
<1>1. CASE OpenFails(k) \/ OpenPublishes(k) \/ StartupReady(k)
  <2>1. /\ Courteous /\ controls' = controls /\ stopping' = stopping
        /\ pc' = pc /\ call' = call
    BY <1>1, OtherCourteous DEF OpenFails, OpenPublishes, StartupReady, ownershipVars
  <2>2. /\ \A l \in Key : l # k => opener'[l] = opener[l]
        /\ opener'[k].step # "command"
    BY <1>0, <1>1
    DEF OpenFails, OpenPublishes, StartupReady, SetOpener, CloseOpener, NoOpener, Opener
  <2>3. PermitsInv'
    BY <2>1, <2>2, NoCommandMoves DEF Commanding, Starting, SameCommand, PermitsInv
  <2>4. StopsInv'
    BY <2>1, NoStopMoves DEF Stopping
  <2> QED
    BY <2>3, <2>4
<1>2. CASE StartupControl(k)
  <2> DEFINE i == opener[k].index
             admitted == [opener[k] EXCEPT !.step = "command", !.id = nextControlId + 1,
                                           !.token = leases[i]]
  <2>0. pc' = pc /\ call' = call
    BY <1>2 DEF StartupControl
  <2>1. CASE beginControl(i, leases[i]) /\ opener' = [opener EXCEPT ![k] = admitted]
    <3>1. /\ Courteous /\ stopping' = stopping
      BY <2>1, BeginControlCourteous DEF beginControl
    <3>2. admitted.index = i /\ admitted.id = nextControlId + 1 /\ admitted.token = leases[i]
      BY <1>0 DEF Opener
    <3> HIDE DEF admitted
    <3>3. opener'[k] = admitted /\ \A l \in Key : l # k => opener'[l] = opener[l]
      BY <1>0, <2>1
    <3>4. \A l \in Starting' : l # k => l \in Starting /\ opener'[l] = opener[l]
      BY <3>3 DEF Starting
    <3>5. PermitsInv'
      BY <2>0, <2>1, <3>2, <3>3, <3>4, NewStartup
    <3>6. StopsInv'
      BY <2>0, <3>1, NoStopMoves DEF Stopping
    <3> QED
      BY <3>5, <3>6
  <2>2. CASE UNCHANGED ownershipVars /\ CloseOpener(k)
    <3>1. Courteous /\ controls' = controls /\ stopping' = stopping
      BY <2>2, OtherCourteous DEF ownershipVars
    <3>2. PermitsInv'
      BY <1>0, <2>0, <2>2, <3>1, NoCommandMoves
      DEF Commanding, Starting, SameCommand, PermitsInv, CloseOpener, NoOpener
    <3>3. StopsInv'
      BY <2>0, <3>1, NoStopMoves DEF Stopping
    <3> QED
      BY <3>2, <3>3
  <2> QED
    BY <1>2, <2>1, <2>2 DEF StartupControl
<1>3. CASE StartupControlEnds(k)
  <2> DEFINE i == opener[k].index
  <2>1. /\ endControl(i, opener[k].id) /\ Courteous /\ k \in Starting
        /\ pc' = pc /\ call' = call /\ stopping' = stopping
        /\ opener'[k].step = "ready" /\ \A l \in Key : l # k => opener'[l] = opener[l]
    BY <1>0, <1>3, EndControlCourteous
    DEF StartupControlEnds, SetOpener, endControl, Starting, Opener
  <2>2. \A j \in Index : j # i => controls'[j] = controls[j]
    BY <2>1 DEF endControl, OwnershipInv, OwnershipTypeOK
  <2>3. \A x \in Commanding' : /\ x \in Commanding
                               /\ SameCommand(call'[x], call[x])
                               /\ controls'[call[x].index] = controls[call[x].index]
    BY <2>1, <2>2 DEF Commanding, SameCommand, PermitsInv, PermitOK
  <2>4. \A l \in Starting' : /\ l \in Starting
                             /\ SameCommand(opener'[l], opener[l])
                             /\ controls'[opener[l].index] = controls[opener[l].index]
    BY <2>1, <2>2 DEF Starting, SameCommand, PermitsInv, PermitOK
  <2>5. PermitsInv'
    BY <2>1, <2>3, <2>4, KeepPermits DEF PermitsInv
  <2>6. StopsInv'
    BY <2>1, NoStopMoves DEF Stopping
  <2> QED
    BY <2>5, <2>6
<1> QED
  BY <1>1, <1>2, <1>3 DEF OpenerSteps

(* A call that begins a command. *)
LEMMA CommandBegins ==
    ASSUME OwnershipInv, LocalsOK, PermitsInv, StopsInv, NEW th \in Thread, NEW op, NEW i, NEW t,
           beginControl(i, t),
           Call1(th, "command", [NoCall EXCEPT !.op = op, !.index = i, !.token = leases[i],
                                               !.id = nextControlId + 1]),
           opener' = opener
    PROVE  PermitsInv' /\ StopsInv'
<1>1. /\ pc'[th] = "command"
      /\ call'[th].index = i /\ call'[th].token = leases[i] /\ call'[th].id = nextControlId + 1
      /\ \A x \in Thread : x # th => pc'[x] = pc[x] /\ call'[x] = call[x]
  <2> DEFINE c == [NoCall EXCEPT !.op = op, !.index = i, !.token = leases[i],
                                 !.id = nextControlId + 1]
  <2>1. c.index = i /\ c.token = leases[i] /\ c.id = nextControlId + 1
    BY DEF NoCall
  <2>2. Call1(th, "command", c)
    OBVIOUS
  <2> HIDE DEF c
  <2> QED
    BY <2>1, <2>2, CallOne
<1>2. PermitsInv'
  <2>1. \A x \in Commanding' : x # th => x \in Commanding /\ call'[x] = call[x]
    BY <1>1 DEF Commanding
  <2>2. \A x \in Thread : pc'[x] = "restoreWait" => call'[x].token # NoToken
    BY <1>1 DEF PermitsInv
  <2> QED
    BY <1>1, <2>1, <2>2, NewCommand
<1>3. StopsInv'
  BY <1>1, BeginControlCourteous, NoStopMoves DEF Stopping, beginControl
<1> QED
  BY <1>2, <1>3

(* A call that announces a stop. *)
LEMMA StopBegins ==
    ASSUME OwnershipInv, LocalsOK, PermitsInv, StopsInv, NEW th \in Thread, NEW i, beginStop(i),
           Call1(th, "stopWait", [NoCall EXCEPT !.op = "stop", !.index = i]),
           opener' = opener
    PROVE  PermitsInv' /\ StopsInv'
<1>1. /\ pc'[th] = "stopWait" /\ call'[th].index = i
      /\ \A x \in Thread : x # th => pc'[x] = pc[x] /\ call'[x] = call[x]
  <2> DEFINE c == [NoCall EXCEPT !.op = "stop", !.index = i]
  <2>1. c.index = i
    BY DEF NoCall
  <2>2. Call1(th, "stopWait", c)
    OBVIOUS
  <2> HIDE DEF c
  <2> QED
    BY <2>1, <2>2, CallOne
<1>2. PermitsInv'
  BY <1>1, BeginStopCourteous, NoCommandMoves
  DEF beginStop, Commanding, Starting, SameCommand, PermitsInv
<1>3. StopsInv'
  BY <1>1, NewStop DEF Stopping
<1> QED
  BY <1>2, <1>3

(* A step that runs no command and no stop, and starts at most a wait.       *)
LEMMA BookOnly ==
    ASSUME OwnershipInv, LocalsOK, PermitsInv, StopsInv, Courteous,
           controls' = controls, stopping' = stopping, opener' = opener,
           \/ pc' = pc /\ call' = call
           \/ \E th \in Thread : \E l, c :
                 /\ Call1(th, l, c)
                 /\ \/ l \in {"retune", "rescan"}
                    \/ l = "restoreWait" /\ c.token # NoToken
    PROVE  PermitsInv' /\ StopsInv'
<1>1. CASE pc' = pc /\ call' = call
  <2>1. PermitsInv'
    BY <1>1, NoCommandMoves DEF Commanding, Starting, SameCommand, PermitsInv
  <2>2. StopsInv'
    BY <1>1, NoStopMoves DEF Stopping
  <2> QED
    BY <2>1, <2>2
<1>2. CASE \E th \in Thread : \E l, c :
              /\ Call1(th, l, c)
              /\ \/ l \in {"retune", "rescan"}
                 \/ l = "restoreWait" /\ c.token # NoToken
  <2> PICK th \in Thread : \E l, c :
              /\ Call1(th, l, c)
              /\ \/ l \in {"retune", "rescan"}
                 \/ l = "restoreWait" /\ c.token # NoToken
    BY <1>2
  <2>0. PICK l, c : /\ Call1(th, l, c)
                    /\ \/ l \in {"retune", "rescan"}
                       \/ l = "restoreWait" /\ c.token # NoToken
    OBVIOUS
  <2>1. /\ pc'[th] = l /\ call'[th] = c
        /\ \A x \in Thread : x # th => pc'[x] = pc[x] /\ call'[x] = call[x]
    BY <2>0, CallOne
  <2>2. PermitsInv'
    BY <2>0, <2>1, NoCommandMoves DEF Commanding, Starting, SameCommand, PermitsInv
  <2>3. StopsInv'
    BY <2>0, <2>1, NoStopMoves DEF Stopping
  <2> QED
    BY <2>2, <2>3
<1> QED
  BY <1>1, <1>2

LEMMA TokenCallsControl ==
    ASSUME OwnershipInv, LocalsOK, PermitsInv, StopsInv, NEW th \in Thread, NEW t \in issued,
           TokenCalls(th, t)
    PROVE  PermitsInv' /\ StopsInv'
<1> USE DEF bookVars, streamVars
<1>1. CASE releaseDevice(th, t)
  BY <1>1, ReleaseCourteous, BookOnly DEF releaseDevice, release, Retire
<1>2. CASE tuneDevice(th, t)
  BY <1>2, OtherCourteous, BookOnly DEF tuneDevice, ownershipVars
<1>3. CASE stopDevice(th, t)
  BY <1>3, StopBegins DEF stopDevice
<1>4. ASSUME NEW wasLive \in BOOLEAN, restoreDevice(th, t, wasLive)
      PROVE  PermitsInv' /\ StopsInv'
  <2> DEFINE c == [NoCall EXCEPT !.op = "restore", !.index = t.index,
                                 !.token = t, !.wasLive = wasLive]
  <2>1. Call1(th, "restoreWait", c) /\ c.token # NoToken
    BY <1>4 DEF restoreDevice, valid, NoCall
  <2> HIDE DEF c
  <2>2. Courteous /\ controls' = controls /\ stopping' = stopping /\ opener' = opener
    BY <1>4, OtherCourteous DEF restoreDevice, ownershipVars
  <2> QED
    BY <2>1, <2>2, BookOnly
<1>5. CASE BeginCommand(th, "start", t.index, t)
  BY <1>5, CommandBegins DEF BeginCommand
<1> QED
  BY <1>1, <1>2, <1>3, <1>4, <1>5 DEF TokenCalls

LEMMA IndexCallsControl ==
    ASSUME OwnershipInv, LocalsOK, PermitsInv, StopsInv, NEW th \in Thread, NEW i \in Index,
           IndexCalls(th, i)
    PROVE  PermitsInv' /\ StopsInv'
<1> USE DEF bookVars, streamVars
<1>1. CASE stopStreaming(th, i)
  BY <1>1, StopBegins DEF stopStreaming
<1>2. CASE BeginCommand(th, "rate", i, NoToken)
  BY <1>2, CommandBegins DEF BeginCommand
<1>3. ASSUME NEW o \in Owner, setCenterFreq(th, i, o) PROVE PermitsInv' /\ StopsInv'
  BY <1>3, OtherCourteous, BookOnly DEF setCenterFreq, ownershipVars
<1>4. ASSUME NEW o \in Owner, BeginLegacyCommand(th, i, o) PROVE PermitsInv' /\ StopsInv'
  BY <1>4, CommandBegins DEF BeginLegacyCommand
<1>5. ASSUME NEW o \in Owner, releaseDeviceLease(th, o, {i}) PROVE PermitsInv' /\ StopsInv'
  BY <1>5, RetireCourteous, BookOnly DEF releaseDeviceLease, Retire
<1>6. ASSUME NEW o \in Owner, NEW force \in BOOLEAN, acquireDeviceLease(th, i, o, force)
      PROVE  PermitsInv' /\ StopsInv'
  BY <1>6, ClaimCourteous, BookOnly DEF acquireDeviceLease, claim
<1>7. ASSUME NEW o \in Owner, NEW force \in BOOLEAN, RetuneAcquire(th, i, o, force)
      PROVE  PermitsInv' /\ StopsInv'
  BY <1>7, ClaimCourteous, BookOnly DEF RetuneAcquire, claim
<1>8. ASSUME NEW o \in Owner, NEW c \in Scoped, NEW attach \in BOOLEAN,
             claimDevice(th, i, o, c, attach)
      PROVE  PermitsInv' /\ StopsInv'
  BY <1>8, ClaimCourteous, BookOnly DEF claimDevice, claim
<1> QED
  BY <1>1, <1>2, <1>3, <1>4, <1>5, <1>6, <1>7, <1>8 DEF IndexCalls

LEMMA NextControl ==
    ASSUME OwnershipInv, LocalsOK, PermitsInv, StopsInv, [Next]_vars
    PROVE  PermitsInv' /\ StopsInv'
<1> USE DEF bookVars, streamVars
<1>1. ASSUME NEW i \in Index, ApplyTune(i) \/ ReceiverFault(i) PROVE PermitsInv' /\ StopsInv'
  BY <1>1, OtherCourteous, BookOnly DEF ApplyTune, ReceiverFault, ownershipVars
<1>2. ASSUME NEW th \in Thread, NEW o \in Owner, releaseDeviceLease(th, o, Index)
      PROVE  PermitsInv' /\ StopsInv'
  BY <1>2, RetireCourteous, BookOnly DEF releaseDeviceLease, Retire
<1>3. CASE enumerateDevices
  <2>1. PICK c : Call1(Gui, "rescan", c)
    BY <1>3 DEF enumerateDevices
  <2> QED
    BY <1>3, <2>1, OtherCourteous, BookOnly DEF enumerateDevices, ownershipVars, Thread
<1>4. ASSUME NEW values \in Plans, NEW saved \in BOOLEAN, setWorkflowAssignments(values, saved)
      PROVE  PermitsInv' /\ StopsInv'
  BY <1>4, OtherCourteous, BookOnly DEF setWorkflowAssignments, setAssignments
<1>5. CASE UNCHANGED vars
  BY <1>5, OtherCourteous, BookOnly DEF vars, ownershipVars
<1> QED
  BY <1>1, <1>2, <1>3, <1>4, <1>5, CallStepsControl, RescanStepsControl, OpenerStepsControl,
     TokenCallsControl, IndexCallsControl DEF Next

-----------------------------------------------------------------------------
(* The list of the book is the list of the manager, except inside a rescan.  *)
LEMMA NextLists ==
    ASSUME OwnershipInv, LocalsOK, ListsInv, [Next]_vars PROVE ListsInv'
<1> USE DEF bookVars
<1>0. Gui \in Thread /\ pc \in [Thread -> Pc]
  BY DEF Thread, LocalsOK
<1>1. ASSUME Courteous, devices' = devices,
             \/ pc'[Gui] = pc[Gui]
             \/ {pc[Gui], pc'[Gui]} \cap {"discover", "rebind"} = {}
      PROVE  ListsInv'
  BY <1>1 DEF ListsInv, Courteous
<1>2. ASSUME NEW th \in Thread, CallSteps(th) PROVE ListsInv'
  <2>1. endpoints' = endpoints /\ devices' = devices
    BY <1>2
    DEF CallSteps, RetuneQueue, RunCommand, EndCommand, StopDrained, Teardown, StopEnds,
        RestoreControl, RestoreTune, RestorePoll, RestoreControlEnds, RestoreStop,
        ownershipVars, endControl, endStop, beginControl, beginStop, release, Retire
  <2>2. \/ pc'[Gui] = pc[Gui]
        \/ {pc[Gui], pc'[Gui]} \cap {"discover", "rebind"} = {}
    BY <1>0, <1>2
    DEF CallSteps, RetuneQueue, RunCommand, EndCommand, StopDrained, Teardown, StopEnds,
        RestoreControl, RestoreTune, RestorePoll, RestoreControlEnds, RestoreStop, Goto, Return
  <2> QED
    BY <2>1, <2>2 DEF ListsInv
<1>3. CASE RescanSteps
  <2>1. CASE RescanStops
    <3>1. endpoints' = endpoints /\ devices' = devices
      BY <2>1 DEF RescanStops, beginStop, ownershipVars
    <3>2. pc[Gui] = "rescan" /\ pc'[Gui] \in {"rescan", "stopWait"}
      BY <1>0, <2>1 DEF RescanStops, Goto
    <3> QED
      BY <3>1, <3>2 DEF ListsInv
  <2>2. CASE RescanUnbinds
    BY <1>0, <2>2 DEF RescanUnbinds, bind, Goto, Return, ListsInv, ownershipVars
  <2>3. CASE Discover
    BY <1>0, <2>3 DEF Discover, Goto, ListsInv, ownershipVars
  <2>4. CASE bindWorkflowDevices
    BY <1>0, <2>4 DEF bindWorkflowDevices, bind, Return, ListsInv
  <2> QED
    BY <1>3, <2>1, <2>2, <2>3, <2>4 DEF RescanSteps
<1>4. ASSUME NEW k \in Key, OpenerSteps(k) PROVE ListsInv'
  BY <1>4
  DEF OpenerSteps, OpenFails, OpenPublishes, StartupControl, StartupControlEnds, StartupReady,
      ownershipVars, beginControl, endControl, ListsInv
<1>5. ASSUME NEW th \in Thread, NEW t \in issued, TokenCalls(th, t) PROVE ListsInv'
  <2>1. endpoints' = endpoints /\ devices' = devices
    BY <1>5 DEF TokenCalls, releaseDevice, tuneDevice, stopDevice, restoreDevice, BeginCommand,
                ownershipVars, release, Retire, beginStop, beginControl
  <2>2. \/ pc'[Gui] = pc[Gui]
        \/ {pc[Gui], pc'[Gui]} \cap {"discover", "rebind"} = {}
    BY <1>0, <1>5 DEF TokenCalls, releaseDevice, tuneDevice, stopDevice, restoreDevice,
                      BeginCommand, Call1
  <2> QED
    BY <2>1, <2>2 DEF ListsInv
<1>6. ASSUME NEW th \in Thread, NEW i \in Index, IndexCalls(th, i) PROVE ListsInv'
  <2>1. endpoints' = endpoints /\ devices' = devices
    BY <1>6 DEF IndexCalls, stopStreaming, setCenterFreq, BeginCommand, BeginLegacyCommand,
                releaseDeviceLease, acquireDeviceLease, RetuneAcquire, claimDevice,
                ownershipVars, Retire, beginStop, beginControl, claim
  <2>2. \/ pc'[Gui] = pc[Gui]
        \/ {pc[Gui], pc'[Gui]} \cap {"discover", "rebind"} = {}
    BY <1>0, <1>6 DEF IndexCalls, stopStreaming, setCenterFreq, BeginCommand, BeginLegacyCommand,
                      releaseDeviceLease, acquireDeviceLease, RetuneAcquire, claimDevice, Call1
  <2> QED
    BY <2>1, <2>2 DEF ListsInv
<1>7. ASSUME NEW i \in Index, ApplyTune(i) \/ ReceiverFault(i) PROVE ListsInv'
  BY <1>7 DEF ApplyTune, ReceiverFault, ownershipVars, ListsInv
<1>8. ASSUME NEW th \in Thread, NEW o \in Owner, releaseDeviceLease(th, o, Index) PROVE ListsInv'
  BY <1>8 DEF releaseDeviceLease, Retire, ListsInv
<1>9. CASE enumerateDevices
  BY <1>0, <1>9 DEF enumerateDevices, Call1, ownershipVars, ListsInv
<1>10. ASSUME NEW values \in Plans, NEW saved \in BOOLEAN, setWorkflowAssignments(values, saved)
       PROVE  ListsInv'
  BY <1>10 DEF setWorkflowAssignments, setAssignments, ListsInv
<1>11. CASE UNCHANGED vars
  BY <1>11 DEF vars, ownershipVars, ListsInv
<1> QED
  BY <1>2, <1>3, <1>4, <1>5, <1>6, <1>7, <1>8, <1>9, <1>10, <1>11 DEF Next

-----------------------------------------------------------------------------
LEMMA ControlInitInv == Init => ControlInv
BY DEF Init, OwnershipInit, ControlInv, PermitsInv, StopsInv, ListsInv,
       Commanding, Starting, Stopping, Thread, NoOpener

LEMMA ControlInductive == Spec => []ControlInv
<1>1. OwnershipInv /\ LocalsOK /\ ControlInv /\ [Next]_vars => ControlInv'
  BY NextControl, NextLists DEF ControlInv
<1> QED
  BY <1>1, ControlInitInv, LeasesInv, PTL DEF Spec

(* DEC-0184: until a command has finished, its permit stays in the book and  *)
(* the radio carries the lease it was admitted under or none, whatever the   *)
(* other threads claim, release, stop or rescan meanwhile.                   *)
THEOREM CommandsFinishFirst == Spec => []NoReplacementDuringCommand
<1>1. ControlInv => NoReplacementDuringCommand
  BY DEF ControlInv, PermitsInv, PermitOK, NoReplacementDuringCommand, InFlight
<1> QED
  BY <1>1, ControlInductive, PTL

(* While stopStreamingImpl tears a stream down the stop is announced, its    *)
(* index is not leased and no command runs on any tuner of the radio.        *)
THEOREM TeardownsAreAlone == Spec => []TeardownIsAlone
<1>1. ASSUME OwnershipInv, ControlInv, NEW th \in Thread, pc[th] \in {"teardown", "stopEnd"},
             NEW i, i = call[th].index
      PROVE  /\ i \in stopping /\ i \notin Leased /\ ~controlBusy(i)
             /\ \A c \in InFlight : ~SameRadio(i, c.index)
  <2>1. i \in stopping /\ i \notin Leased /\ ~controlBusy(i)
    BY <1>1 DEF ControlInv, StopsInv, Stopping
  <2>2. Known(i)
    BY <1>1, <2>1, PinnedKnown DEF OwnershipInv, OwnershipTypeOK
  <2>3. \A c \in InFlight : c.index \in Controlled
    BY <1>1 DEF ControlInv, PermitsInv, PermitOK, InFlight, Controlled
  <2> QED
    BY <2>1, <2>2, <2>3 DEF controlBusy
<1>2. OwnershipInv /\ ControlInv => TeardownIsAlone
  BY <1>1 DEF TeardownIsAlone
<1> QED
  BY <1>2, ControlInductive, LeasesInv, PTL

(* DEC-0181: a radio that is leased, commanded or stopping is the device the *)
(* book knew when it admitted that: a rescan never moves it.                 *)
THEOREM PinnedRadiosStay == Spec => []PinnedRadiosKeepIdentity
<1>1. ASSUME OwnershipInv, LocalsOK, ControlInv, NEW i \in Leased \cup Controlled \cup stopping
      PROVE  Known(i) /\ Discovered(i) /\ devices[i] = endpoints[i]
  <2>1. i \in 1..Len(endpoints)
    BY <1>1 DEF OwnershipInv, IndicesInRange
  <2>2. endpoints = devices
    BY <1>1, <2>1 DEF ControlInv, ListsInv
  <2> QED
    BY <2>1, <2>2 DEF Known, Discovered
<1>2. OwnershipInv /\ LocalsOK /\ ControlInv => PinnedRadiosKeepIdentity
  BY <1>1 DEF PinnedRadiosKeepIdentity
<1> QED
  BY <1>2, ControlInductive, LeasesInv, PTL
=============================================================================
