-------------------------- MODULE QDMIDriver_proofs --------------------------
(***************************************************************************)
(* Proofs about the QDMI driver, for every set of identifiers, payloads,   *)
(* device handles and sessions.                                            *)
(*                                                                         *)
(* The properties of QDMIDriver are not inductive on their own: that a     *)
(* session shows the catalog (CatalogShown), that a fresh device exists    *)
(* (FreshLive) and how far the catalog loop is while a session is being    *)
(* allocated (LoopStarted) are what the steps need to know besides. Before *)
(* the first session the catalog lacks no device that is open: the loop is *)
(* the only caller of open then, once it has begun.                        *)
(***************************************************************************)
EXTENDS QDMIDriver, FiniteSetTheorems, SequenceTheorems, TLAPS

Live(s) == session[s] \in {"ALLOCATED", "INITIALIZED"}

FreshLive == \A h \in fresh : device[h] # None

OpenedPrivate == \A id \in Ids : opened[id] # None => opened[id] \notin fresh

LoopStarted ==
  /\ caller # None => cursor # 0
  /\ caller = None /\ NoSession => cursor = 0
  /\ \A s \in Sessions : Live(s) => cursor # 0 /\ cursor \notin DOMAIN clientIds

CatalogShown ==
  \A s \in Sessions :
    /\ Live(s) => snapshot[s] = clientDevices
    /\ ~Live(s) => snapshot[s] = <<>>

IInv ==
  /\ TypeOK
  /\ RegistryConsistent
  /\ OpenedMatchesDefinition
  /\ CatalogInOrder
  /\ CatalogComplete
  /\ FreshLive
  /\ OpenedPrivate
  /\ LoopStarted
  /\ CatalogShown

\* The driver starts out with what the registry hands over.
LEMMA InitInv == Init => IInv
<1> SUFFICES ASSUME Init PROVE IInv
  OBVIOUS
<1> USE ConstantsAssumption
<1>1. PICK n \in 0..Cardinality(Ids) : definitions \in [1..n -> Definition]
  BY DEF Init
<1>2. n \in Nat
  BY FS_CardinalityType
<1>3. definitions \in Seq(Definition) /\ DOMAIN definitions = 1..n
  BY <1>1, <1>2
<1>4. clientIds \in Seq(Ids)
  BY <1>2, <1>3 DEF Init, Definition
<1>5. TypeOK
  BY <1>3, <1>4 DEF Init, TypeOK
<1>6. RegistryConsistent
  BY DEF Init, RegistryConsistent
<1>7. OpenedMatchesDefinition /\ CatalogInOrder /\ CatalogComplete
  BY DEF Init, OpenedMatchesDefinition, CatalogInOrder, CatalogComplete
<1>8. FreshLive /\ OpenedPrivate /\ LoopStarted /\ CatalogShown
  BY DEF Init, FreshLive, OpenedPrivate, LoopStarted, CatalogShown, Live
<1> QED
  BY <1>5, <1>6, <1>7, <1>8 DEF IInv

\* The catalog stays in order as long as it stands still and no device is opened.
LEMMA OrderKept ==
  ASSUME CatalogInOrder,
         UNCHANGED <<clientIds, clientDevices, cursor, opened>>
  PROVE  CatalogInOrder'
BY DEF CatalogInOrder

\* Nothing is missing in the catalog as long as the loop stands still and no
\* device is opened.
LEMMA CompleteKept ==
  ASSUME CatalogComplete, NoSession' => NoSession,
         UNCHANGED <<clientIds, clientDevices, cursor, opened>>
  PROVE  CatalogComplete'
BY DEF CatalogComplete

-----------------------------------------------------------------------------
(* Registration.  Appending a definition of a new identifier, or replacing *)
(* one that is not opened, disturbs the registry and nothing else.         *)

\* A definition of a new identifier is put at the end (registerDevice).
LEMMA AppendDefinition ==
  ASSUME IInv, NEW d \in Definition,
         d.id \notin IdsOf(definitions),
         definitions' = Append(definitions, d),
         disabled' \in SUBSET disabled, d.id \notin disabled',
         UNCHANGED <<clientIds, clientDevices, cursor, deviceVars, sessionVars>>
  PROVE  IInv'
<1> USE DEF IInv, TypeOK
<1>1. /\ definitions' \in Seq(Definition)
      /\ DOMAIN definitions' = 1..(Len(definitions) + 1)
      /\ \A i \in DOMAIN definitions : definitions'[i] = definitions[i]
      /\ definitions'[Len(definitions) + 1] = d
      /\ DOMAIN definitions = 1..Len(definitions)
  OBVIOUS
<1>2. TypeOK'
  BY <1>1 DEF deviceVars, sessionVars
<1>3. RegistryConsistent'
  BY <1>1 DEF RegistryConsistent, IdsOf
<1>4. OpenedMatchesDefinition'
  <2> SUFFICES ASSUME NEW id \in Ids, opened[id] # None
               PROVE  /\ \E i \in DOMAIN definitions' :
                            device[opened[id]] = definitions'[i]
                      /\ device[opened[id]].id = id
                      /\ id \notin disabled'
    BY DEF OpenedMatchesDefinition, deviceVars
  <2> QED
    BY <1>1 DEF OpenedMatchesDefinition
<1>5. CatalogInOrder' /\ CatalogComplete'
  <2>1. CatalogInOrder'
    BY OrderKept DEF deviceVars
  <2>2. CatalogComplete'
    BY CompleteKept DEF deviceVars, sessionVars, NoSession
  <2> QED
    BY <2>1, <2>2
<1>6. FreshLive' /\ OpenedPrivate' /\ LoopStarted' /\ CatalogShown'
  BY DEF FreshLive, OpenedPrivate, LoopStarted, NoSession, CatalogShown,
         Live, deviceVars, sessionVars
<1> QED
  BY <1>2, <1>3, <1>4, <1>5, <1>6 DEF IInv

\* A definition is replaced where it is, while it is not opened (registerDevice).
LEMMA ReplaceDefinition ==
  ASSUME IInv, NEW d \in Definition, NEW i \in DOMAIN definitions,
         definitions[i].id = d.id, opened[d.id] = None,
         definitions' = [definitions EXCEPT ![i] = d],
         disabled' \in SUBSET disabled,
         UNCHANGED <<clientIds, clientDevices, cursor, deviceVars, sessionVars>>
  PROVE  IInv'
<1> USE DEF IInv, TypeOK
<1>1. /\ definitions' \in Seq(Definition)
      /\ DOMAIN definitions' = DOMAIN definitions
      /\ definitions'[i] = d
      /\ \A j \in DOMAIN definitions : j # i => definitions'[j] = definitions[j]
      /\ \A j \in DOMAIN definitions : definitions'[j].id = definitions[j].id
  OBVIOUS
<1>2. TypeOK'
  BY <1>1 DEF deviceVars, sessionVars
<1>3. RegistryConsistent'
  BY <1>1 DEF RegistryConsistent, IdsOf
<1>4. OpenedMatchesDefinition'
  <2> SUFFICES ASSUME NEW id \in Ids, opened[id] # None
               PROVE  /\ \E j \in DOMAIN definitions' :
                            device[opened[id]] = definitions'[j]
                      /\ device[opened[id]].id = id
                      /\ id \notin disabled'
    BY DEF OpenedMatchesDefinition, deviceVars
  <2>1. PICK j \in DOMAIN definitions : device[opened[id]] = definitions[j]
    BY DEF OpenedMatchesDefinition
  <2>2. j # i
    BY <2>1 DEF OpenedMatchesDefinition, Definition
  <2> QED
    BY <1>1, <2>1, <2>2 DEF OpenedMatchesDefinition
<1>5. CatalogInOrder' /\ CatalogComplete'
  <2>1. CatalogInOrder'
    BY OrderKept DEF deviceVars
  <2>2. CatalogComplete'
    BY CompleteKept DEF deviceVars, sessionVars, NoSession
  <2> QED
    BY <2>1, <2>2
<1>6. FreshLive' /\ OpenedPrivate' /\ LoopStarted' /\ CatalogShown'
  BY DEF FreshLive, OpenedPrivate, LoopStarted, NoSession, CatalogShown,
         Live, deviceVars, sessionVars
<1> QED
  BY <1>2, <1>3, <1>4, <1>5, <1>6 DEF IInv

-----------------------------------------------------------------------------
(* Opening: what a call of open does to the devices, whoever makes it.     *)

\* Opening one identifier leaves what was opened for the others alone.
LEMMA OpenedKeeps ==
  ASSUME IInv, NEW id \in Ids, NEW h \in Outcomes(id), Opened(id, h),
         UNCHANGED <<registryVars, fresh>>
  PROVE  /\ opened' \in [Ids -> Handles \cup {None}]
         /\ device' \in [Handles -> Definition \cup {None}]
         /\ h \in Handles \cup {None}
         /\ h # None => opened'[id] = h
         /\ \A x \in Ids : opened[x] # None => opened'[x] = opened[x]
         /\ OpenedMatchesDefinition'
         /\ FreshLive'
         /\ OpenedPrivate'
<1> USE ConstantsAssumption DEF IInv, TypeOK, registryVars
<1>1. CASE h \in {None, opened[id]}
  <2>1. UNCHANGED <<opened, device>>
    BY <1>1 DEF Opened
  <2>2. h # None => opened[id] = h
    BY <1>1
  <2> QED
    BY <2>1, <2>2, <1>1
       DEF OpenedMatchesDefinition, FreshLive, OpenedPrivate
<1>2. CASE h \notin {None, opened[id]}
  <2>1. /\ id \notin disabled
        /\ opened[id] = None
        /\ h \in Handles
        /\ device[h] = None
    BY <1>2 DEF Outcomes
  <2>2. PICK i \in DOMAIN definitions :
               /\ definitions[i].id = id
               /\ device' = [device EXCEPT ![h] = definitions[i]]
    BY <1>2 DEF Opened
  <2>3. opened' = [opened EXCEPT ![id] = h]
    BY <1>2 DEF Opened
  <2>4. definitions[i] \in Definition /\ definitions[i] # None
    OBVIOUS
  <2>5. h \notin fresh
    BY <2>1 DEF FreshLive
  <2>6. \A x \in Ids : opened[x] # h
    BY <2>1, <1>2 DEF OpenedMatchesDefinition
  <2>7. OpenedMatchesDefinition'
    <3> SUFFICES ASSUME NEW x \in Ids, opened'[x] # None
                 PROVE  /\ \E j \in DOMAIN definitions :
                             device'[opened'[x]] = definitions[j]
                        /\ device'[opened'[x]].id = x
                        /\ x \notin disabled
      BY DEF OpenedMatchesDefinition
    <3>1. CASE x = id
      BY <3>1, <2>1, <2>2, <2>3
    <3>2. CASE x # id
      BY <3>2, <2>2, <2>3, <2>6 DEF OpenedMatchesDefinition
    <3> QED
      BY <3>1, <3>2
  <2>8. FreshLive' /\ OpenedPrivate'
    BY <2>2, <2>3, <2>4, <2>5 DEF FreshLive, OpenedPrivate
  <2> QED
    BY <2>1, <2>2, <2>3, <2>4, <2>7, <2>8
<1> QED
  BY <1>1, <1>2

\* A catalog entry keeps its witness when more devices are opened.
LEMMA CatalogEntry ==
  ASSUME IInv, \A x \in Ids : opened[x] # None => opened'[x] = opened[x],
         NEW j \in DOMAIN clientDevices
  PROVE  \E i \in 1..(cursor - 1) :
           /\ opened'[clientIds[i]] = clientDevices[j]
           /\ \A k \in 1..(j - 1) : \E l \in 1..(i - 1) :
                opened'[clientIds[l]] = clientDevices[k]
<1>1. PICK i \in 1..(cursor - 1) :
             /\ opened[clientIds[i]] = clientDevices[j]
             /\ \A k \in 1..(j - 1) : \E l \in 1..(i - 1) :
                  opened[clientIds[l]] = clientDevices[k]
  BY DEF IInv, CatalogInOrder
<1>2. /\ \A l \in 1..(cursor - 1) : clientIds[l] \in Ids
      /\ \A k \in DOMAIN clientDevices : clientDevices[k] # None
      /\ \A k \in 1..(j - 1) : k \in DOMAIN clientDevices
      /\ \A l \in 1..(i - 1) : l \in 1..(cursor - 1)
  BY ConstantsAssumption DEF IInv, TypeOK
<1>3. opened'[clientIds[i]] = clientDevices[j]
  BY <1>1, <1>2
<1>4. ASSUME NEW k \in 1..(j - 1)
      PROVE  \E l \in 1..(i - 1) : opened'[clientIds[l]] = clientDevices[k]
  <2>1. PICK l \in 1..(i - 1) : opened[clientIds[l]] = clientDevices[k]
    BY <1>1
  <2>2. opened'[clientIds[l]] = clientDevices[k]
    BY <2>1, <1>2
  <2> QED
    BY <2>2
<1> QED
  BY <1>3, <1>4

\* The catalog stays right as long as no opened device is exchanged.
LEMMA CatalogKept ==
  ASSUME IInv, \A x \in Ids : opened[x] # None => opened'[x] = opened[x],
         UNCHANGED <<clientIds, clientDevices, cursor>>
  PROVE  CatalogInOrder'
BY CatalogEntry DEF CatalogInOrder

\* open keeps the invariant, whether the device can be opened or not.
LEMMA OpenInv == ASSUME IInv, NEW id \in Ids, open(id) PROVE IInv'
<1> USE DEF IInv, TypeOK
<1>1. PICK h \in Outcomes(id) : Opened(id, h)
  BY DEF open
<1>2. /\ opened' \in [Ids -> Handles \cup {None}]
      /\ device' \in [Handles -> Definition \cup {None}]
      /\ \A x \in Ids : opened[x] # None => opened'[x] = opened[x]
      /\ OpenedMatchesDefinition' /\ FreshLive' /\ OpenedPrivate'
  BY <1>1, OpenedKeeps DEF open
<1>3. TypeOK'
  BY <1>2 DEF open, registryVars, sessionVars
<1>4. RegistryConsistent'
  BY DEF open, registryVars, RegistryConsistent, IdsOf
<1>5. CatalogInOrder'
  BY <1>2, CatalogKept DEF open, registryVars
<1>7. CatalogComplete'
  <2> SUFFICES ASSUME NoSession' PROVE \A i \in 1..(cursor' - 1) : FALSE
    BY DEF CatalogComplete
  <2>1. caller = None /\ NoSession /\ cursor' = cursor
    BY DEF open, Idle, sessionVars, NoSession
  <2>2. cursor' = 0
    BY <2>1 DEF LoopStarted
  <2> QED
    BY <2>2
<1>6. LoopStarted' /\ CatalogShown'
  BY DEF open, registryVars, sessionVars, LoopStarted, NoSession,
         CatalogShown, Live
<1> QED
  BY <1>2, <1>3, <1>4, <1>5, <1>6, <1>7 DEF IInv

-----------------------------------------------------------------------------
(* Fresh devices and client sessions.                                      *)

\* openFresh keeps the invariant: its device is in no cache and no session.
LEMMA OpenFreshInv ==
  ASSUME IInv, NEW id \in Ids, NEW h \in Handles, NEW p \in Payloads,
         openFresh(id, h, p)
  PROVE  IInv'
<1> USE ConstantsAssumption DEF IInv, TypeOK
<1>1. /\ device' = [device EXCEPT ![h] = [id |-> id, payload |-> p]]
      /\ fresh' = fresh \cup {h}
      /\ device[h] = None
      /\ opened' = opened /\ definitions' = definitions
      /\ disabled' = disabled /\ clientIds' = clientIds
      /\ clientDevices' = clientDevices /\ cursor' = cursor
      /\ session' = session /\ snapshot' = snapshot /\ caller' = caller
  BY DEF openFresh, registryVars, sessionVars
<1>2. [id |-> id, payload |-> p] \in Definition
  BY DEF Definition
<1>3. \A x \in Ids : opened[x] # h
  BY <1>1 DEF OpenedMatchesDefinition
<1>4. TypeOK'
  BY <1>1, <1>2
<1>5. OpenedMatchesDefinition'
  BY <1>1, <1>3 DEF OpenedMatchesDefinition
<1>6. FreshLive' /\ OpenedPrivate'
  BY <1>1, <1>2, <1>3 DEF FreshLive, OpenedPrivate
<1>7. RegistryConsistent' /\ CatalogInOrder' /\ CatalogComplete'
  <2>1. RegistryConsistent'
    BY <1>1 DEF RegistryConsistent, IdsOf
  <2>2. CatalogInOrder'
    BY <1>1, OrderKept
  <2>3. CatalogComplete'
    BY <1>1, CompleteKept DEF NoSession
  <2> QED
    BY <2>1, <2>2, <2>3
<1>8. LoopStarted' /\ CatalogShown'
  BY <1>1 DEF LoopStarted, NoSession, CatalogShown, Live
<1> QED
  BY <1>4, <1>5, <1>6, <1>7, <1>8 DEF IInv

\* Dropping a fresh device keeps the invariant.
LEMMA ReleaseFreshInv ==
  ASSUME IInv, NEW h \in Handles, releaseFresh(h) PROVE IInv'
<1> USE ConstantsAssumption DEF IInv, TypeOK
<1>1. /\ device' = [device EXCEPT ![h] = None]
      /\ fresh' = fresh \ {h}
      /\ h \in fresh
      /\ opened' = opened /\ definitions' = definitions
      /\ disabled' = disabled /\ clientIds' = clientIds
      /\ clientDevices' = clientDevices /\ cursor' = cursor
      /\ session' = session /\ snapshot' = snapshot /\ caller' = caller
  BY DEF releaseFresh, registryVars, sessionVars
<1>2. \A x \in Ids : opened[x] # None => opened[x] # h
  BY <1>1 DEF OpenedPrivate
<1>3. TypeOK'
  BY <1>1
<1>4. OpenedMatchesDefinition'
  BY <1>1, <1>2 DEF OpenedMatchesDefinition
<1>5. FreshLive' /\ OpenedPrivate'
  BY <1>1 DEF FreshLive, OpenedPrivate
<1>6. RegistryConsistent' /\ CatalogInOrder' /\ CatalogComplete'
  <2>1. RegistryConsistent'
    BY <1>1 DEF RegistryConsistent, IdsOf
  <2>2. CatalogInOrder'
    BY <1>1, OrderKept
  <2>3. CatalogComplete'
    BY <1>1, CompleteKept DEF NoSession
  <2> QED
    BY <2>1, <2>2, <2>3
<1>7. LoopStarted' /\ CatalogShown'
  BY <1>1 DEF LoopStarted, NoSession, CatalogShown, Live
<1> QED
  BY <1>3, <1>4, <1>5, <1>6, <1>7 DEF IInv

\* The loop over the configured devices: the device a turn opens is appended
\* to a catalog of devices that earlier turns opened.
LEMMA MaterializeInv == ASSUME IInv, materializeClientCatalog PROVE IInv'
<1> USE DEF IInv, TypeOK
<1>1. PICK h \in Outcomes(clientIds[cursor]) :
             /\ Opened(clientIds[cursor], h)
             /\ clientDevices' = IF h = None THEN clientDevices
                                 ELSE Append(clientDevices, h)
  BY DEF materializeClientCatalog
<1>2. /\ cursor \in DOMAIN clientIds /\ cursor' = cursor + 1
      /\ caller # None
      /\ UNCHANGED <<registryVars, fresh, sessionVars>>
  BY DEF materializeClientCatalog, Idle
<1>3. clientIds[cursor] \in Ids /\ cursor \in 1..Len(clientIds)
  BY <1>2
<1>4. /\ opened' \in [Ids -> Handles \cup {None}]
      /\ device' \in [Handles -> Definition \cup {None}]
      /\ h \in Handles \cup {None}
      /\ h # None => opened'[clientIds[cursor]] = h
      /\ \A x \in Ids : opened[x] # None => opened'[x] = opened[x]
      /\ OpenedMatchesDefinition' /\ FreshLive' /\ OpenedPrivate'
  BY <1>1, <1>2, <1>3, OpenedKeeps
<1>5. clientDevices' \in Seq(Handles)
  BY <1>1, <1>4
<1>6. TypeOK'
  BY <1>2, <1>3, <1>4, <1>5 DEF registryVars, sessionVars
<1>7. RegistryConsistent'
  BY <1>2 DEF registryVars, RegistryConsistent, IdsOf
<1>8. CatalogInOrder'
  <2> SUFFICES ASSUME NEW j \in DOMAIN clientDevices'
               PROVE  \E i \in 1..(cursor' - 1) :
                        /\ opened'[clientIds'[i]] = clientDevices'[j]
                        /\ \A k \in 1..(j - 1) : \E l \in 1..(i - 1) :
                             opened'[clientIds'[l]] = clientDevices'[k]
    BY DEF CatalogInOrder
  <2>0. cursor' - 1 = cursor /\ clientIds' = clientIds
    BY <1>2, <1>3 DEF registryVars
  <2>1. ASSUME NEW m \in DOMAIN clientDevices
        PROVE  \E i \in 1..(cursor - 1) :
                 /\ opened'[clientIds[i]] = clientDevices[m]
                 /\ \A k \in 1..(m - 1) : \E l \in 1..(i - 1) :
                      opened'[clientIds[l]] = clientDevices[k]
    BY <1>4, CatalogEntry
  <2>2. 1..(cursor - 1) \subseteq 1..cursor
    BY <1>3
  <2>3. CASE j \in DOMAIN clientDevices
    <3>1. /\ clientDevices'[j] = clientDevices[j]
          /\ \A k \in 1..(j - 1) : clientDevices'[k] = clientDevices[k]
      BY <1>1, <1>4, <2>3
    <3> HIDE DEF IInv, TypeOK
    <3>2. PICK i \in 1..(cursor - 1) :
                 /\ opened'[clientIds[i]] = clientDevices[j]
                 /\ \A k \in 1..(j - 1) : \E l \in 1..(i - 1) :
                      opened'[clientIds[l]] = clientDevices[k]
      BY <2>1, <2>3
    <3>3. i \in 1..(cursor' - 1)
      BY <2>0, <2>2
    <3>4. \A k \in 1..(j - 1) : \E l \in 1..(i - 1) :
            opened'[clientIds'[l]] = clientDevices'[k]
      BY <2>0, <3>1, <3>2
    <3> QED
      BY <2>0, <3>1, <3>2, <3>3, <3>4
  <2>4. CASE j \notin DOMAIN clientDevices
    <3>1. /\ h # None /\ j = Len(clientDevices) + 1
          /\ clientDevices'[j] = h
          /\ \A k \in 1..(j - 1) : /\ k \in DOMAIN clientDevices
                                   /\ clientDevices'[k] = clientDevices[k]
      BY <1>1, <1>4, <2>4
    <3>2. opened'[clientIds[cursor]] = clientDevices'[j]
      BY <1>4, <3>1
    <3>3. \A k \in 1..(j - 1) : \E l \in 1..(cursor - 1) :
            opened'[clientIds[l]] = clientDevices'[k]
      <4> HIDE DEF IInv, TypeOK
      <4>1. ASSUME NEW k \in 1..(j - 1)
            PROVE  \E l \in 1..(cursor - 1) : opened'[clientIds[l]] = clientDevices'[k]
        BY <2>1, <3>1, <4>1
      <4> QED
        BY <4>1
    <3>4. cursor \in 1..(cursor' - 1)
      BY <2>0, <1>3
    <3> HIDE DEF IInv, TypeOK
    <3> QED
      BY <2>0, <3>2, <3>3, <3>4
  <2> QED
    BY <2>3, <2>4
<1>9. LoopStarted' /\ CatalogShown'
  BY <1>2, <1>3
     DEF registryVars, sessionVars, LoopStarted, NoSession, CatalogShown, Live
<1>10. CatalogComplete'
  <2> SUFFICES ASSUME NoSession', NEW i \in 1..(cursor' - 1),
                      opened'[clientIds'[i]] # None
               PROVE  \E j \in DOMAIN clientDevices' :
                        clientDevices'[j] = opened'[clientIds'[i]]
    BY DEF CatalogComplete
  <2>1. /\ i \in 1..cursor /\ clientIds' = clientIds /\ NoSession
        /\ clientIds[i] \in Ids
    BY <1>2, <1>3 DEF registryVars, sessionVars, NoSession
  <2>2. ASSUME NEW k \in DOMAIN clientDevices
        PROVE  k \in DOMAIN clientDevices' /\ clientDevices'[k] = clientDevices[k]
    BY <1>1, <1>4
  <2>3. h # None => \E j \in DOMAIN clientDevices' : clientDevices'[j] = h
    <3> SUFFICES ASSUME h # None
                 PROVE  \E j \in DOMAIN clientDevices' : clientDevices'[j] = h
      OBVIOUS
    <3>1. /\ Len(clientDevices) + 1 \in DOMAIN clientDevices'
          /\ clientDevices'[Len(clientDevices) + 1] = h
      BY <1>1, <1>4
    <3> QED
      BY <3>1
  <2>4. CASE clientIds[i] = clientIds[cursor]
    <3>1. h # None
      BY <1>1, <1>3, <2>1, <2>4 DEF Outcomes, Opened, OpenedMatchesDefinition
    <3> QED
      BY <1>4, <2>1, <2>3, <2>4, <3>1
  <2>5. CASE clientIds[i] # clientIds[cursor]
    <3>1. i \in 1..(cursor - 1)
      BY <1>3, <2>1, <2>5
    <3>2. opened'[clientIds[i]] = opened[clientIds[i]]
      BY <1>1, <2>1, <2>5 DEF Opened
    <3>3. PICK j \in DOMAIN clientDevices : clientDevices[j] = opened[clientIds[i]]
      BY <2>1, <3>1, <3>2 DEF CatalogComplete
    <3> QED
      BY <2>1, <2>2, <3>2, <3>3
  <2> QED
    BY <2>4, <2>5
<1> QED
  BY <1>4, <1>6, <1>7, <1>8, <1>9, <1>10 DEF IInv

\* Allocating a session starts the construction of the catalog, once.
LEMMA SessionAllocInv ==
  ASSUME IInv, NEW s \in Sessions, sessionAlloc(s) PROVE IInv'
<1> USE ConstantsAssumption DEF IInv, TypeOK
<1>1. /\ cursor' = IF cursor = 0 THEN 1 ELSE cursor
      /\ caller' = s
      /\ UNCHANGED <<registryVars, clientDevices, deviceVars, session, snapshot>>
  BY DEF sessionAlloc
<1>2. TypeOK'
  BY <1>1 DEF registryVars, deviceVars
<1>3. RegistryConsistent' /\ OpenedMatchesDefinition'
  BY <1>1 DEF registryVars, deviceVars, RegistryConsistent, IdsOf,
              OpenedMatchesDefinition
<1>4. CatalogInOrder'
  <2>1. CASE cursor = 0
    <3>1. \A i \in 1..(cursor - 1) : FALSE
      BY <2>1
    <3> HIDE DEF IInv, TypeOK
    <3>2. CatalogInOrder
      BY DEF IInv
    <3>3. \A j \in DOMAIN clientDevices : FALSE
      BY <3>1, <3>2 DEF CatalogInOrder
    <3> QED
      BY <3>3, <1>1 DEF CatalogInOrder
  <2>2. CASE cursor # 0
    <3>1. UNCHANGED <<clientIds, clientDevices, cursor, opened>>
      BY <2>2, <1>1 DEF registryVars, deviceVars
    <3> HIDE DEF IInv, TypeOK
    <3> QED
      BY <3>1, CatalogKept
  <2> QED
    BY <2>1, <2>2
<1>5. FreshLive' /\ OpenedPrivate' /\ CatalogShown'
  BY <1>1 DEF deviceVars, FreshLive, OpenedPrivate, CatalogShown, Live
<1>6. LoopStarted'
  BY <1>1 DEF registryVars, LoopStarted, NoSession, Live
<1>7. CatalogComplete'
  <2>1. CASE cursor = 0
    <3>1. \A i \in 1..(cursor' - 1) : FALSE
      BY <1>1, <2>1
    <3> QED
      BY <3>1 DEF CatalogComplete
  <2>2. CASE cursor # 0
    BY <1>1, <2>2, CompleteKept DEF registryVars, deviceVars, NoSession
  <2> QED
    BY <2>1, <2>2
<1> QED
  BY <1>2, <1>3, <1>4, <1>5, <1>6, <1>7 DEF IInv

\* An allocated session shows the whole catalog.
LEMMA SessionAllocatedInv ==
  ASSUME IInv, NEW s \in Sessions, sessionAllocated(s) PROVE IInv'
<1> USE ConstantsAssumption DEF IInv, TypeOK
<1>1. /\ caller = s /\ cursor \notin DOMAIN clientIds
      /\ session' = [session EXCEPT ![s] = "ALLOCATED"]
      /\ snapshot' = [snapshot EXCEPT ![s] = clientDevices]
      /\ caller' = None
      /\ UNCHANGED <<registryVars, clientDevices, cursor, deviceVars>>
  BY DEF sessionAllocated
<1>2. TypeOK'
  BY <1>1 DEF registryVars, deviceVars
<1>3. RegistryConsistent' /\ OpenedMatchesDefinition' /\ CatalogInOrder'
  BY <1>1 DEF registryVars, deviceVars, RegistryConsistent, IdsOf,
              OpenedMatchesDefinition, CatalogInOrder
<1>4. FreshLive' /\ OpenedPrivate'
  BY <1>1 DEF deviceVars, FreshLive, OpenedPrivate
<1>5. LoopStarted' /\ CatalogComplete'
  <2>1. ~NoSession'
    BY <1>1 DEF NoSession, Live
  <2> QED
    BY <1>1, <2>1 DEF registryVars, LoopStarted, CatalogComplete, Live
<1>6. CatalogShown'
  BY <1>1 DEF CatalogShown, Live
<1> QED
  BY <1>2, <1>3, <1>4, <1>5, <1>6 DEF IInv

\* Initializing and freeing a session keep the invariant.
LEMMA SessionCallInv ==
  ASSUME IInv, NEW s \in Sessions, init(s) \/ sessionFree(s) PROVE IInv'
<1> USE ConstantsAssumption DEF IInv, TypeOK
<1>1. /\ Live(s)
      /\ UNCHANGED <<registryVars, clientDevices, cursor, deviceVars, caller>>
      /\ \/ /\ session' = [session EXCEPT ![s] = "INITIALIZED"]
            /\ snapshot' = snapshot
         \/ /\ session' = [session EXCEPT ![s] = "FREED"]
            /\ snapshot' = [snapshot EXCEPT ![s] = <<>>]
  BY DEF init, sessionFree, Live
<1>2. TypeOK'
  <2>1. <<>> \in Seq(Handles)
    OBVIOUS
  <2>2. session' \in [Sessions -> {"NONE", "ALLOCATED", "INITIALIZED", "FREED"}]
    BY <1>1
  <2>3. snapshot' \in [Sessions -> Seq(Handles)]
    <3>1. CASE snapshot' = snapshot
      BY <3>1
    <3>2. CASE snapshot' = [snapshot EXCEPT ![s] = <<>>]
      BY <3>2, <2>1
    <3> QED
      BY <1>1, <3>1, <3>2
  <2> QED
    BY <1>1, <2>2, <2>3 DEF registryVars, deviceVars
<1>3. RegistryConsistent' /\ OpenedMatchesDefinition' /\ CatalogInOrder'
  BY <1>1 DEF registryVars, deviceVars, RegistryConsistent, IdsOf,
              OpenedMatchesDefinition, CatalogInOrder
<1>4. FreshLive' /\ OpenedPrivate'
  BY <1>1 DEF deviceVars, FreshLive, OpenedPrivate
<1>5. LoopStarted' /\ CatalogComplete'
  <2>1. ~NoSession'
    BY <1>1 DEF NoSession, Live
  <2> QED
    BY <1>1, <2>1 DEF registryVars, LoopStarted, CatalogComplete, Live
<1>6. CatalogShown'
  BY <1>1 DEF CatalogShown, Live
<1> QED
  BY <1>2, <1>3, <1>4, <1>5, <1>6 DEF IInv

-----------------------------------------------------------------------------
\* Every call of the driver keeps the invariant.
LEMMA NextInv == IInv /\ [Next]_vars => IInv'
<1> SUFFICES ASSUME IInv, [Next]_vars PROVE IInv'
  OBVIOUS
<1>1. ASSUME NEW d \in Definition, NEW replace \in BOOLEAN,
             registerDevice(d, replace)
      PROVE  IInv'
  <2>1. CASE d.id \notin IdsOf(definitions)
    <3>1. definitions' = Append(definitions, d)
      BY <1>1, <2>1 DEF registerDevice, IdsOf
    <3> QED
      BY <1>1, <2>1, <3>1, AppendDefinition DEF registerDevice
  <2>2. CASE d.id \in IdsOf(definitions)
    <3>1. PICK i \in DOMAIN definitions :
                 /\ definitions[i].id = d.id
                 /\ opened[d.id] = None
                 /\ definitions' = [definitions EXCEPT ![i] = d]
      BY <1>1, <2>2 DEF registerDevice
    <3> QED
      BY <1>1, <3>1, ReplaceDefinition DEF registerDevice
  <2> QED
    BY <2>1, <2>2
<1>2. ASSUME NEW d \in Definition, registerDeviceIfAbsent(d) PROVE IInv'
  BY <1>2, AppendDefinition DEF registerDeviceIfAbsent
<1>3. ASSUME NEW id \in Ids, open(id) PROVE IInv'
  BY <1>3, OpenInv
<1>4. ASSUME NEW id \in Ids, NEW h \in Handles, NEW p \in Payloads,
             openFresh(id, h, p)
      PROVE  IInv'
  BY <1>4, OpenFreshInv
<1>5. ASSUME NEW h \in Handles, releaseFresh(h) PROVE IInv'
  BY <1>5, ReleaseFreshInv
<1>6. CASE materializeClientCatalog
  BY <1>6, MaterializeInv
<1>7. ASSUME NEW s \in Sessions, sessionAlloc(s) PROVE IInv'
  BY <1>7, SessionAllocInv
<1>8. ASSUME NEW s \in Sessions, sessionAllocated(s) PROVE IInv'
  BY <1>8, SessionAllocatedInv
<1>9. ASSUME NEW s \in Sessions, init(s) \/ sessionFree(s) PROVE IInv'
  BY <1>9, SessionCallInv
<1>10. CASE UNCHANGED vars
  BY <1>10 DEF vars, registryVars, deviceVars, sessionVars, IInv, TypeOK,
               RegistryConsistent, IdsOf, OpenedMatchesDefinition,
               CatalogInOrder, CatalogComplete, NoSession, FreshLive,
               OpenedPrivate, LoopStarted, CatalogShown, Live
<1> QED
  BY <1>1, <1>2, <1>3, <1>4, <1>5, <1>6, <1>7, <1>8, <1>9, <1>10 DEF Next

\* The inductive invariant holds in every reachable state of the driver.
THEOREM DriverInvariance == Spec => []IInv
BY InitInv, NextInv, PTL DEF Spec

\* All variables of the driver keep their types.
THEOREM DriverTypeCorrect == Spec => []TypeOK
<1>1. IInv => TypeOK
  BY DEF IInv
<1> QED
  BY DriverInvariance, <1>1, PTL

\* An identifier has one definition at most, and none while it is disabled,
\* whatever registerDevice and registerDeviceIfAbsent are called with.
THEOREM DriverRegistryConsistent == Spec => []RegistryConsistent
<1>1. IInv => RegistryConsistent
  BY DEF IInv
<1> QED
  BY DriverInvariance, <1>1, PTL

\* open answers with the device of the definition that is registered now.
THEOREM DriverOpenedMatches == Spec => []OpenedMatchesDefinition
<1>1. IInv => OpenedMatchesDefinition
  BY DEF IInv
<1> QED
  BY DriverInvariance, <1>1, PTL

\* The catalog has the devices of the configured identifiers, in order, each
\* once and all that could be opened, and every session shows it.
THEOREM DriverCatalog == Spec => []CatalogOfConfiguration
<1>1. IInv => CatalogOfConfiguration
  BY DEF IInv, CatalogShown, Live, CatalogOfConfiguration
<1> QED
  BY DriverInvariance, <1>1, PTL

\* Every session sees the same devices, whenever it was allocated.
THEOREM DriverSessionsAgree == Spec => []SessionsAgree
<1>1. IInv => SessionsAgree
  BY DEF IInv, CatalogShown, Live, SessionsAgree
<1> QED
  BY DriverInvariance, <1>1, PTL

\* A device opened for one caller is never shared with another.
THEOREM DriverFreshPrivate == Spec => []FreshStaysPrivate
<1>1. ASSUME IInv PROVE FreshStaysPrivate
  <2>1. ASSUME NEW id \in Ids PROVE opened[id] \notin fresh
    BY <1>1, ConstantsAssumption DEF IInv, TypeOK, OpenedPrivate
  <2>2. ASSUME NEW s \in Sessions, NEW k \in DOMAIN snapshot[s]
        PROVE  snapshot[s][k] \notin fresh
    <3>1. Live(s) /\ snapshot[s] = clientDevices
      BY <1>1, <2>2 DEF IInv, CatalogShown
    <3>2. PICK i \in 1..(cursor - 1) : opened[clientIds[i]] = clientDevices[k]
      BY <1>1, <2>2, <3>1 DEF IInv, CatalogInOrder
    <3>3. clientIds[i] \in Ids
      BY <1>1, <3>2 DEF IInv, TypeOK
    <3> QED
      BY <3>1, <3>2, <3>3, <2>1
  <2> QED
    BY <2>1, <2>2 DEF FreshStaysPrivate
<1> QED
  BY DriverInvariance, <1>1, PTL

\* registeredDeviceIds keeps its order: a registration only appends, and a
\* replacement stays where it was.
THEOREM DriverRegistrationOrder == Spec => RegistrationOrder
<1> DEFINE Kept == /\ Len(definitions) <= Len(definitions')
                   /\ \A i \in DOMAIN definitions :
                        definitions'[i].id = definitions[i].id
<1>1. ASSUME IInv, [Next]_vars PROVE Kept
  <2>0. definitions \in Seq(Definition)
    BY <1>1 DEF IInv, TypeOK
  <2>1. ASSUME NEW d \in Definition, definitions' = Append(definitions, d)
        PROVE  Kept
    BY <2>0, <2>1
  <2>2. ASSUME NEW d \in Definition, NEW i \in DOMAIN definitions,
               definitions[i].id = d.id,
               definitions' = [definitions EXCEPT ![i] = d]
        PROVE  Kept
    BY <2>0, <2>2
  <2>3. ASSUME definitions' = definitions PROVE Kept
    BY <2>0, <2>3
  <2>4. \/ \E d \in Definition : definitions' = Append(definitions, d)
        \/ \E d \in Definition, i \in DOMAIN definitions :
             /\ definitions[i].id = d.id
             /\ definitions' = [definitions EXCEPT ![i] = d]
        \/ definitions' = definitions
    BY <1>1 DEF Next, registerDevice, registerDeviceIfAbsent, open, openFresh,
                releaseFresh, sessionAlloc, sessionAllocated,
                materializeClientCatalog, init, sessionFree, vars,
                registryVars
  <2> QED
    BY <2>1, <2>2, <2>3, <2>4
<1> HIDE DEF Kept
<1>2. IInv /\ [Next]_vars => [Kept]_vars
  BY <1>1
<1>3. Spec => [][Kept]_vars
  BY DriverInvariance, <1>2, PTL DEF Spec
<1> QED
  BY <1>3 DEF Kept, RegistrationOrder
=============================================================================
