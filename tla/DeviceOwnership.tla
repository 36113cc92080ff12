--------------------------- MODULE DeviceOwnership ---------------------------
(***************************************************************************)
(* The lease book of include/DeviceOwnership.h: which workflow may use     *)
(* which radio.  It is control-plane policy only: every operation runs     *)
(* under DeviceManager::leaseMutex_, so each one is a single step here.    *)
(*                                                                         *)
(* A radio is an index into the endpoint list.  Several endpoints can      *)
(* share one physical SDR (the tuners and modes of an RSPduo): they have   *)
(* the same domain.  Key and domain strings are members of small sets;     *)
(* NoKey and NoDomain are the empty strings.  The book remembers every     *)
(* token it has issued (issued) so that callers may come back with an old  *)
(* one, which is what the generation and id fields of a token are for.     *)
(***************************************************************************)
EXTENDS Naturals, Sequences

CONSTANTS
    Key,          \* stable identities of radios
    Domain,       \* physical hardware domains
    Owner,        \* workflows: DeviceOwnership::Owner without None
    Listen,       \* the workflow whose legacy client is the operator
    Scoped,       \* clients that are named workflow instances
    None,         \* Owner::None, an absent assignment
    NoKey, NoDomain,
    MaxDevices    \* bound on the length of the endpoint list

(* The legacy client of workflow o ("legacy-" + name(o)) is o itself. *)
ASSUME OwnershipAssumption ==
    /\ MaxDevices \in Nat
    /\ Listen \in Owner
    /\ None \notin Owner
    /\ Owner \cap Scoped = {}
    /\ NoKey \notin Key
    /\ NoDomain \notin Domain

Client == Owner \cup Scoped
LegacyClient(o) == o

Index == 1..MaxDevices
Endpoint == [key : Key \cup {NoKey}, domain : Domain \cup {NoDomain}]
Token == [index : Index, generation : Nat, id : Nat \ {0},
          owner : Owner, client : Client]
NoToken == [index |-> 0, generation |-> 0, id |-> 0,
            owner |-> None, client |-> None]
Assignments == [Key -> Owner \cup {None}]

VARIABLES
    endpoints,      \* endpoints_
    assignments,    \* assignments_, None for a key that is absent
    leases,         \* leases_, NoToken for an index that is absent
    stopping,       \* stopping_
    controls,       \* controls_, 0 for an index that is absent
    nextControlId, generation, nextId,
    issued          \* history: every token claim() has returned

ownershipVars == <<endpoints, assignments, leases, stopping, controls,
                   nextControlId, generation, nextId, issued>>

OwnershipTypeOK ==
    /\ endpoints \in Seq(Endpoint)
    /\ Len(endpoints) <= MaxDevices
    /\ assignments \in Assignments
    /\ leases \in [Index -> Token \cup {NoToken}]
    /\ stopping \subseteq Index
    /\ controls \in [Index -> Nat]
    /\ nextControlId \in Nat
    /\ generation \in Nat
    /\ nextId \in Nat
    /\ issued \subseteq Token

-----------------------------------------------------------------------------
(* Queries. *)

Known(i) == i \in 1..Len(endpoints)

sameDomain(a, b) == /\ endpoints[a].domain # NoDomain
                    /\ endpoints[a].domain = endpoints[b].domain

(* "other == index || sameDomain(index, other)": one physical radio. *)
SameRadio(a, b) == a = b \/ sameDomain(a, b)

UniqueIn(list, i) == /\ list[i].key # NoKey
                     /\ \A j \in 1..Len(list) : list[j].key = list[i].key => j = i

unique(i) == Known(i) /\ UniqueIn(endpoints, i)

Reserved(list, values, i) == IF list[i].key \in Key THEN values[list[i].key] ELSE None

assignment(i) == IF Known(i) THEN Reserved(endpoints, assignments, i) ELSE None

Leased == {i \in Index : leases[i] # NoToken}
Controlled == {i \in Index : controls[i] # 0}

StopPending(i) == \E s \in stopping : SameRadio(i, s)
(* Mutant: only a command on the very same endpoint counts. *)
controlBusy_SameEndpoint(i) == Known(i) /\ i \in Controlled

controlBusy(i) == Known(i) /\ \E c \in Controlled : SameRadio(i, c)

(* Mutant: the leases of sibling tuners are not looked at. *)
allowed_IgnoresSiblings(i, o, c) ==
    /\ Known(i) /\ ~StopPending(i) /\ unique(i) /\ ~controlBusy(i)
    /\ assignment(i) \in {None, o}
    /\ i \in Leased => leases[i].owner = o /\ leases[i].client = c

(* Mutant: a command in flight does not keep claims out. *)
allowed_DuringCommand(i, o, c) ==
    /\ Known(i) /\ ~StopPending(i) /\ unique(i)
    /\ assignment(i) \in {None, o}
    /\ \A j \in Leased : IF j = i
                         THEN leases[i].owner = o /\ leases[i].client = c
                         ELSE ~sameDomain(i, j)

allowed(i, o, c) ==
    /\ Known(i)
    /\ o \in Owner
    /\ ~StopPending(i)
    /\ unique(i)
    /\ ~controlBusy(i)
    /\ assignment(i) \in {None, o}
    /\ \A j \in Leased : IF j = i
                         THEN leases[i].owner = o /\ leases[i].client = c
                         ELSE ~sameDomain(i, j)
    /\ \A j \in 1..Len(endpoints) :
           j # i /\ sameDomain(i, j) => assignment(j) \in {None, o}

valid(t) == /\ t # NoToken
            /\ t.generation = generation
            /\ leases[t.index] = t

(* Reservations fit an endpoint list: assigned keys are unique in it and    *)
(* endpoints of one physical radio are not reserved for different workflows. *)
AssignmentsFit(list, values) ==
    \A i \in 1..Len(list) :
        Reserved(list, values, i) # None =>
            /\ UniqueIn(list, i)
            /\ \A j \in 1..(i - 1) :
                   /\ list[i].domain # NoDomain
                   /\ list[i].domain = list[j].domain
                   => Reserved(list, values, j) \in {None, Reserved(list, values, i)}

(* setAssignments accepts: no radio operation in progress, the values fit,   *)
(* and the reservation of a leased endpoint does not change.                 *)
AssignmentsOK(values) ==
    /\ Controlled = {} /\ stopping = {}
    /\ AssignmentsFit(endpoints, values)
    /\ \A i \in 1..Len(endpoints) :
           assignment(i) # Reserved(endpoints, values, i) => i \notin Leased

(* A permit may be granted: with a token, to its holder; without one, when  *)
(* the radio carries no lease except the legacy Listen one on i itself.     *)
ControlOK(i, t) ==
    /\ unique(i)
    /\ ~controlBusy(i)
    /\ ~StopPending(i)
    /\ IF t # NoToken
       THEN t.index = i /\ valid(t) /\ allowed(i, t.owner, t.client)
       ELSE \A j \in Leased :
                SameRadio(i, j) => /\ j = i
                                   /\ leases[i].owner = Listen
                                   /\ leases[i].client = LegacyClient(Listen)

-----------------------------------------------------------------------------
(* Operations.  A refused call changes nothing and is not a step. *)

OwnershipInit ==
    /\ endpoints = <<>>
    /\ assignments = [k \in Key |-> None]
    /\ leases = [i \in Index |-> NoToken]
    /\ stopping = {}
    /\ controls = [i \in Index |-> 0]
    /\ nextControlId = 0 /\ generation = 0 /\ nextId = 0
    /\ issued = {}

(* Mutant: the leases survive the new list. *)
bind_KeepsLeases(list) ==
    /\ stopping = {} /\ Controlled = {}
    /\ endpoints' = list
    /\ UNCHANGED <<leases, generation, stopping, controls, nextControlId, nextId, issued>>

(* Old tokens must not target reordered indices: every lease is dropped.    *)
(* The caller says what happens to the assignments.                          *)
bind(list) ==
    /\ stopping = {} /\ Controlled = {}
    /\ endpoints' = list
    /\ leases' = [i \in Index |-> NoToken]
    /\ generation' = generation + 1
    /\ UNCHANGED <<stopping, controls, nextControlId, nextId, issued>>

append(e) ==
    /\ Len(endpoints) < MaxDevices
    /\ endpoints' = Append(endpoints, e)
    /\ UNCHANGED <<assignments, leases, stopping, controls, nextControlId,
                   generation, nextId, issued>>

setAssignments(values) ==
    /\ AssignmentsOK(values)
    /\ assignments' = values
    /\ UNCHANGED <<endpoints, leases, stopping, controls, nextControlId,
                   generation, nextId, issued>>

(* Mutant: no id per claim. *)
NewToken_NoId(i, o, c) == [index |-> i, generation |-> generation,
                           id |-> 1, owner |-> o, client |-> c]

NewToken(i, o, c) == [index |-> i, generation |-> generation,
                      id |-> nextId + 1, owner |-> o, client |-> c]

(* Re-claiming what the same client already holds returns the same token. *)
claim(i, o, c) ==
    /\ allowed(i, o, c)
    /\ IF i \in Leased
       THEN UNCHANGED <<leases, nextId, issued>>
       ELSE /\ leases' = [leases EXCEPT ![i] = NewToken(i, o, c)]
            /\ nextId' = nextId + 1
            /\ issued' = issued \cup {NewToken(i, o, c)}
    /\ UNCHANGED <<endpoints, assignments, stopping, controls, nextControlId, generation>>

Retire(set) ==
    /\ leases' = [i \in Index |-> IF i \in set THEN NoToken ELSE leases[i]]
    /\ UNCHANGED <<endpoints, assignments, stopping, controls, nextControlId,
                   generation, nextId, issued>>

release(t) == valid(t) /\ Retire({t.index})

(* beginStop followed, under the same lock, by invalidate: every caller     *)
(* retires the lease in the critical section that announces the stop.       *)
beginStop(i) ==
    /\ Known(i) /\ i \notin stopping
    /\ stopping' = stopping \cup {i}
    /\ leases' = [leases EXCEPT ![i] = NoToken]
    /\ UNCHANGED <<endpoints, assignments, controls, nextControlId, generation, nextId, issued>>

endStop(i) ==
    /\ stopping' = stopping \ {i}
    /\ UNCHANGED <<endpoints, assignments, leases, controls, nextControlId,
                   generation, nextId, issued>>

(* The permit's id is the value nextControlId has after the step. *)
beginControl(i, t) ==
    /\ ControlOK(i, t)
    /\ nextControlId' = nextControlId + 1
    /\ controls' = [controls EXCEPT ![i] = nextControlId + 1]
    /\ UNCHANGED <<endpoints, assignments, leases, stopping, generation, nextId, issued>>

endControl(i, id) ==
    /\ id # 0
    /\ controls' = [controls EXCEPT ![i] = IF @ = id THEN 0 ELSE @]
    /\ UNCHANGED <<endpoints, assignments, leases, stopping, nextControlId,
                   generation, nextId, issued>>

-----------------------------------------------------------------------------
(* The book used by any callers, in any order, with any token they ever got. *)

OwnershipNext ==
    \/ /\ endpoints' \in Seq(Endpoint) /\ Len(endpoints') <= MaxDevices
       /\ assignments' \in Assignments
       /\ assignments' = assignments \/ AssignmentsFit(endpoints', assignments')
       /\ bind(endpoints')
    \/ \E e \in Endpoint : append(e)
    \/ \E values \in Assignments : setAssignments(values)
    \/ \E i \in Index, o \in Owner, c \in Client : claim(i, o, c)
    \/ \E set \in SUBSET Index : Retire(set)
    \/ \E i \in Index : beginStop(i) \/ endStop(i)
    \/ \E i \in Index, t \in issued \cup {NoToken} : beginControl(i, t)
    \/ \E i \in Controlled : endControl(i, controls[i])

OwnershipSpec == OwnershipInit /\ [][OwnershipNext]_ownershipVars

-----------------------------------------------------------------------------
(* What the book promises. *)

(* Every index in leases_, stopping_ and controls_ names an endpoint, so     *)
(* sameDomain() never reads past endpoints_ (DeviceOwnership.h:193): bind()  *)
(* must refuse while stops or permits are outstanding.                       *)
IndicesInRange == stopping \cup Leased \cup Controlled \subseteq 1..Len(endpoints)

(* At most one lease per physical radio: a shared SDRplay unit is never held *)
(* through two of its tuners (DeviceOwnership.h:92-99).                      *)
LeaseExclusive == \A i, j \in Leased : SameRadio(i, j) => i = j

(* At most one hardware command in flight per physical radio (DEC-0184).     *)
PermitExclusive == \A i, j \in Controlled : SameRadio(i, j) => i = j

(* A leased radio is never reserved for a workflow other than its holder:    *)
(* setAssignments cannot re-reserve a radio under its holder.                *)
ReservationHonoured == \A i \in Leased : assignment(i) \in {None, leases[i].owner}

(* The book's bookkeeping behind token validity: a lease sits under its own  *)
(* index, carries the current generation and was issued; ids are never       *)
(* reused.                                                                   *)
TokensConsistent ==
    /\ \A i \in Leased : /\ leases[i].index = i
                         /\ leases[i].generation = generation
                         /\ leases[i] \in issued
    /\ \A t \in issued : t.id <= nextId
    /\ \A t, u \in issued : t.id = u.id => t = u

OwnershipInv == /\ OwnershipTypeOK
                /\ IndicesInRange
                /\ LeaseExclusive
                /\ PermitExclusive
                /\ ReservationHonoured
                /\ TokensConsistent

(* A token that stopped being valid (released, retired by a stop, or         *)
(* outlived by a rescan) never becomes valid again, so a worker that comes   *)
(* back late cannot act on its successor's radio (DEC-0182).                 *)
StaleTokensStayDead ==
    [][\A t \in issued : ~valid(t) => ~(valid(t)')]_ownershipVars
=============================================================================
