------------------------------ MODULE QDMIDriver ------------------------------
(***************************************************************************)
(* The QDMI driver (src/src/qdmi/driver/Driver.cpp, class qdmi::Driver):   *)
(* the registry of device definitions, the devices opened from it, the     *)
(* catalog it shows to client sessions and the sessions themselves.        *)
(*                                                                         *)
(* The driver is used by one thread at a time (none of its members is      *)
(* guarded by a lock), so a call is a step; only the opening of the        *)
(* catalog, a loop over calls of open that may each fail, is stepped       *)
(* through.  What happens inside the opening of one device, where threads  *)
(* do interleave, is the subject of module DeviceOpening; here it succeeds *)
(* or fails.                                                               *)
(***************************************************************************)
EXTENDS Naturals, Sequences, FiniteSets

CONSTANTS
  Ids,        \* stable device identifiers
  Payloads,   \* library, prefix and session parameters of a definition
  Handles,    \* device objects that may be created
  Sessions,   \* client sessions that may be allocated
  None        \* no device

Definition == [id : Ids, payload : Payloads]

ASSUME ConstantsAssumption ==
  /\ IsFiniteSet(Ids)
  /\ None \notin Handles \cup Sessions \cup Definition

VARIABLES
  definitions,   \* definitions_, in registration order
  disabled,      \* disabledDeviceIds_
  clientIds,     \* clientDefinitionIds_: what the configuration defined
  clientDevices, \* clientDevices_: the catalog
  cursor,        \* 0 before materializeClientCatalog, then how far its loop is
  opened,        \* openedDevices_[id], or None
  device,        \* device[h]: the definition h was created from, or None
  fresh,         \* the devices created by openFresh and owned by the caller
  session,       \* session[s]: the Status of a client session, or NONE / FREED
  snapshot,      \* snapshot[s]: QDMI_Session_impl_d::devices_
  caller         \* the session whose allocation is under way, or None

registryVars == <<definitions, disabled, clientIds>>
deviceVars   == <<opened, device, fresh>>
sessionVars  == <<session, snapshot, caller>>
vars == <<registryVars, clientDevices, cursor, deviceVars, sessionVars>>

IdsOf(defs) == {defs[i].id : i \in DOMAIN defs}
Idle == caller = None

\* Driver(): the registry hands over definitions with distinct identifiers,
\* none of them disabled (module DeviceRegistry), and registerDevice accepts
\* them one after the other.
Init ==
  /\ disabled \in SUBSET Ids
  /\ \E n \in 0..Cardinality(Ids) : definitions \in [1..n -> Definition]
  /\ \A i, j \in DOMAIN definitions :
       definitions[i].id = definitions[j].id => i = j
  /\ IdsOf(definitions) \cap disabled = {}
  /\ clientIds = [i \in DOMAIN definitions |-> definitions[i].id]
  /\ clientDevices = <<>>
  /\ cursor = 0
  /\ opened = [id \in Ids |-> None]
  /\ device = [h \in Handles |-> None]
  /\ fresh = {}
  /\ session = [s \in Sessions |-> "NONE"]
  /\ snapshot = [s \in Sessions |-> <<>>]
  /\ caller = None

-----------------------------------------------------------------------------
(* Registration.  A call that throws changes nothing and is a stuttering   *)
(* step; validateDefinition accepts every member of Definition.            *)

\* Mutant: an opened definition is replaced.
Bug_registerOpened(d, replace) ==
  /\ Idle
  /\ d.id \in disabled => replace
  /\ disabled' = disabled \ {d.id}
  /\ \/ /\ d.id \notin IdsOf(definitions)
        /\ definitions' = Append(definitions, d)
     \/ /\ replace
        /\ \E i \in DOMAIN definitions :
             /\ definitions[i].id = d.id
             /\ definitions' = [definitions EXCEPT ![i] = d]
  /\ UNCHANGED <<clientIds, clientDevices, cursor, deviceVars, sessionVars>>

registerDevice(d, replace) ==
  /\ Idle
  /\ d.id \in disabled => replace
  /\ disabled' = disabled \ {d.id}
  /\ \/ /\ d.id \notin IdsOf(definitions)
        /\ definitions' = Append(definitions, d)
     \/ /\ replace
        /\ opened[d.id] = None
        /\ \E i \in DOMAIN definitions :
             /\ definitions[i].id = d.id
             /\ definitions' = [definitions EXCEPT ![i] = d]
  /\ UNCHANGED <<clientIds, clientDevices, cursor, deviceVars, sessionVars>>

\* Mutant: a disabled identifier counts as absent.
Bug_registerDeviceIfAbsent(d) ==
  /\ Idle
  /\ d.id \notin IdsOf(definitions)
  /\ definitions' = Append(definitions, d)
  /\ UNCHANGED <<disabled, clientIds, clientDevices, cursor, deviceVars,
                 sessionVars>>

registerDeviceIfAbsent(d) ==
  /\ Idle
  /\ d.id \notin disabled \cup IdsOf(definitions)
  /\ definitions' = Append(definitions, d)
  /\ UNCHANGED <<disabled, clientIds, clientDevices, cursor, deviceVars,
                 sessionVars>>

-----------------------------------------------------------------------------
(* Opening.                                                                *)

\* What open(id) may return: the device opened before, a new one, or none at
\* all, when it throws (disabled, unknown, or the device could not be opened).
Outcomes(id) ==
  IF id \in disabled THEN {None}
  ELSE IF opened[id] # None THEN {opened[id]}
  ELSE IF id \notin IdsOf(definitions) THEN {None}
  ELSE {None} \cup {h \in Handles : device[h] = None}

\* What a call of open(id) that returns h leaves behind.
Opened(id, h) ==
  IF h \in {None, opened[id]}
    THEN UNCHANGED <<opened, device>>
    ELSE /\ opened' = [opened EXCEPT ![id] = h]
         /\ \E i \in DOMAIN definitions :
              /\ definitions[i].id = id
              /\ device' = [device EXCEPT ![h] = definitions[i]]

open(id) ==
  /\ Idle
  /\ \E h \in Outcomes(id) : Opened(id, h)
  /\ UNCHANGED <<registryVars, clientDevices, cursor, fresh, sessionVars>>

\* A device session of the caller's own, with some parameters overridden.
openFresh(id, h, payload) ==
  /\ Idle
  /\ id \in IdsOf(definitions) \ disabled
  /\ device[h] = None
  /\ device' = [device EXCEPT ![h] = [id |-> id, payload |-> payload]]
  /\ fresh' = fresh \cup {h}
  /\ UNCHANGED <<registryVars, clientDevices, cursor, opened, sessionVars>>

\* The last wrapper of a fresh device goes away.
releaseFresh(h) ==
  /\ Idle
  /\ h \in fresh
  /\ fresh' = fresh \ {h}
  /\ device' = [device EXCEPT ![h] = None]
  /\ UNCHANGED <<registryVars, clientDevices, cursor, opened, sessionVars>>

-----------------------------------------------------------------------------
(* Client sessions.  The first allocation opens the configured devices.    *)

\* Mutant: the catalog is opened again for every session.
Bug_sessionAlloc(s) ==
  /\ Idle
  /\ session[s] = "NONE"
  /\ caller' = s
  /\ cursor' = 1
  /\ UNCHANGED <<registryVars, clientDevices, deviceVars, session, snapshot>>

sessionAlloc(s) ==
  /\ Idle
  /\ session[s] = "NONE"
  /\ caller' = s
  /\ cursor' = IF cursor = 0 THEN 1 ELSE cursor
  /\ UNCHANGED <<registryVars, clientDevices, deviceVars, session, snapshot>>

\* Mutant: the loop ends at the first device that cannot be opened.
Bug_materializeClientCatalog ==
  /\ ~Idle
  /\ cursor \in DOMAIN clientIds
  /\ \E h \in Outcomes(clientIds[cursor]) :
       /\ Opened(clientIds[cursor], h)
       /\ clientDevices' = IF h = None THEN clientDevices
                           ELSE Append(clientDevices, h)
       /\ cursor' = IF h = None THEN Len(clientIds) + 1 ELSE cursor + 1
  /\ UNCHANGED <<registryVars, fresh, sessionVars>>

\* One turn of the loop; a device that cannot be opened is skipped.
materializeClientCatalog ==
  /\ ~Idle
  /\ cursor \in DOMAIN clientIds
  /\ \E h \in Outcomes(clientIds[cursor]) :
       /\ Opened(clientIds[cursor], h)
       /\ clientDevices' = IF h = None THEN clientDevices
                           ELSE Append(clientDevices, h)
  /\ cursor' = cursor + 1
  /\ UNCHANGED <<registryVars, fresh, sessionVars>>

sessionAllocated(s) ==
  /\ caller = s
  /\ cursor \notin DOMAIN clientIds
  /\ session' = [session EXCEPT ![s] = "ALLOCATED"]
  /\ snapshot' = [snapshot EXCEPT ![s] = clientDevices]
  /\ caller' = None
  /\ UNCHANGED <<registryVars, clientDevices, cursor, deviceVars>>

init(s) ==
  /\ Idle
  /\ session[s] = "ALLOCATED"
  /\ session' = [session EXCEPT ![s] = "INITIALIZED"]
  /\ UNCHANGED <<registryVars, clientDevices, cursor, deviceVars, snapshot,
                 caller>>

sessionFree(s) ==
  /\ Idle
  /\ session[s] \in {"ALLOCATED", "INITIALIZED"}
  /\ session' = [session EXCEPT ![s] = "FREED"]
  /\ snapshot' = [snapshot EXCEPT ![s] = <<>>]
  /\ UNCHANGED <<registryVars, clientDevices, cursor, deviceVars, caller>>

-----------------------------------------------------------------------------
Next ==
  \/ \E d \in Definition : \/ \E replace \in BOOLEAN : registerDevice(d, replace)
                           \/ registerDeviceIfAbsent(d)
  \/ \E id \in Ids : open(id)
  \/ \E id \in Ids, h \in Handles, p \in Payloads : openFresh(id, h, p)
  \/ \E h \in Handles : releaseFresh(h)
  \/ materializeClientCatalog
  \/ \E s \in Sessions : \/ sessionAlloc(s)
                         \/ sessionAllocated(s)
                         \/ init(s)
                         \/ sessionFree(s)

Spec == Init /\ [][Next]_vars

-----------------------------------------------------------------------------
(* Properties.                                                             *)

TypeOK ==
  /\ definitions \in Seq(Definition)
  /\ disabled \in SUBSET Ids
  /\ clientIds \in Seq(Ids)
  /\ clientDevices \in Seq(Handles)
  /\ cursor \in 0..(Len(clientIds) + 1)
  /\ opened \in [Ids -> Handles \cup {None}]
  /\ device \in [Handles -> Definition \cup {None}]
  /\ fresh \in SUBSET Handles
  /\ session \in [Sessions -> {"NONE", "ALLOCATED", "INITIALIZED", "FREED"}]
  /\ snapshot \in [Sessions -> Seq(Handles)]
  /\ caller \in Sessions \cup {None}

\* "The final disabled ID remains reserved": after any sequence of
\* registrations an identifier has at most one definition, and none while it
\* is disabled.
RegistryConsistent ==
  /\ \A i, j \in DOMAIN definitions :
       definitions[i].id = definitions[j].id => i = j
  /\ IdsOf(definitions) \cap disabled = {}

\* The cached device of an identifier is the one the registry describes now:
\* the identifier is not disabled and its definition is still the definition
\* the device was opened from.
OpenedMatchesDefinition ==
  \A id \in Ids : opened[id] # None =>
    /\ device[opened[id]] \in {definitions[i] : i \in DOMAIN definitions}
    /\ device[opened[id]].id = id
    /\ id \notin disabled

NoSession == \A s \in Sessions : session[s] = "NONE"

\* The catalog shows devices that open gives for configured identifiers, in the
\* order of the configuration and each at most once.
CatalogInOrder ==
  \A j \in DOMAIN clientDevices :
    \E i \in 1..(cursor - 1) :
      /\ opened[clientIds[i]] = clientDevices[j]
      /\ \A k \in 1..(j - 1) :
           \E l \in 1..(i - 1) : opened[clientIds[l]] = clientDevices[k]

\* Until the first session exists, every configured identifier the loop has
\* passed is in the catalog if it has a device at all.
CatalogComplete ==
  NoSession =>
    \A i \in 1..(cursor - 1) : opened[clientIds[i]] # None =>
      \E j \in DOMAIN clientDevices : clientDevices[j] = opened[clientIds[i]]

\* A device that cannot be opened disturbs neither the others of the catalog nor
\* any session: the catalog has the devices of the configured identifiers, those
\* which the application replaced or opened before the first session included,
\* in the order of the configuration, each once and all that could be opened;
\* and it is what every session shows, then and later.
CatalogOfConfiguration ==
  /\ CatalogInOrder
  /\ CatalogComplete
  /\ \A s \in Sessions :
       session[s] \in {"ALLOCATED", "INITIALIZED"} => snapshot[s] = clientDevices

\* A device the caller of openFresh owns, and may destroy, is never handed out
\* by open or shown in a session.
FreshStaysPrivate ==
  /\ \A id \in Ids : opened[id] \notin fresh
  /\ \A s \in Sessions : \A k \in DOMAIN snapshot[s] : snapshot[s][k] \notin fresh

\* All sessions, whenever they were allocated, see the same devices.
SessionsAgree ==
  \A s, t \in Sessions :
    session[s] \in {"ALLOCATED", "INITIALIZED"} /\
    session[t] \in {"ALLOCATED", "INITIALIZED"} => snapshot[s] = snapshot[t]

\* registeredDeviceIds lists identifiers in a stable order: what was listed
\* keeps its place.
RegistrationOrder ==
  [][/\ Len(definitions) <= Len(definitions')
     /\ \A i \in DOMAIN definitions : definitions'[i].id = definitions[i].id]_vars
=============================================================================
