------------------------- MODULE DeviceOpening_proofs -------------------------
(***************************************************************************)
(* Proofs about the opening of devices, for any number of devices, library *)
(* objects, child devices and jobs.                                        *)
(*                                                                         *)
(* The argument.  Only a thread that holds the mutex of the cache adds an  *)
(* owner to a library object, and it makes a new object only when the one  *)
(* in the cache has no owner left; so whatever has owners is the one in    *)
(* the cache (LibraryInv).  A device is an owner from the end of the       *)
(* lookup to release, and all its sessions live in between; which of its   *)
(* wrappers have a session follows from where the constructor or the       *)
(* destructor is and which wrapper it is at (SessionInv).                  *)
(*                                                                         *)
(* The loaded code is shared by objects that know nothing of each other.   *)
(* device_initialize runs only when no object has an owner, so it disturbs *)
(* nobody; device_finalize and DL_CLOSE run on an object without owners,   *)
(* and the handle of an object with owners keeps the code loaded; but      *)
(* nothing orders the finalize of an expired object before the             *)
(* device_initialize of the next (CodeInv).                                *)
(***************************************************************************)
EXTENDS DeviceOpening, TLAPS

\* Where a device is an owner of its library object.
Constructing == {"alloc", "params", "init", "query"}
Owning == Constructing \cup {"alive", "unwind", "release"}

\* Library objects and their owners.
LibraryInv ==
  /\ \A d \in Devices : pc[d] \in {"lookup", "load"} => mutex = d
  /\ \A d \in Devices : pc[d] \in {"idle", "lookup"} => inst[d] = None
  /\ \A d \in Devices : pc[d] = "load" =>
       /\ inst[d] # None
       /\ \A i \in Instances : refs[i] = {}
  /\ \A d \in Devices : pc[d] \in Owning =>
       inst[d] # None /\ d \in refs[inst[d]] /\ lib[inst[d]] = "initialized"
  /\ \A d \in Devices : pc[d] \in {"finalize", "close"} =>
       inst[d] # None /\ refs[inst[d]] = {}
  /\ \A i \in Instances : \A d \in refs[i] : pc[d] \in Owning /\ inst[d] = i
  /\ \A i \in Instances : refs[i] # {} => cached = i
  /\ \A d, e \in Devices :
       d # e /\ inst[d] = inst[e] /\ inst[d] # None => pc[d] \in Owning
  /\ \A i \in Instances : lib[i] = "none" <=> \A d \in Devices : inst[d] # i

\* The loaded library behind the handles.
CodeInv ==
  /\ code = "unloaded" <=> \A i \in Instances : lib[i] = "none"
  /\ \A d \in Devices : pc[d] \in Owning => UsableCode(inst[d])

\* The sessions and jobs of the wrappers of d.  The constructor initializes the
\* wrappers in order and stands at current[d]; a destructor has no wrapper that
\* is only allocated left, and frees the device's own session last.
SessionInv(d) ==
  /\ pc[d] \notin Owning \ {"release"} => \A k \in Wrappers : session[d][k] = "none"
  /\ pc[d] \in Constructing => \A k \in Wrappers :
       /\ k < current[d] => session[d][k] = "initialized"
       /\ k > current[d] => session[d][k] = "none"
  /\ pc[d] = "alloc" => session[d][current[d]] = "none"
  /\ pc[d] \in {"params", "init"} => session[d][current[d]] = "allocated"
  /\ pc[d] = "query" => session[d][0] = "initialized"
  /\ pc[d] \notin Constructing \ {"query"} => current[d] = 0
  /\ pc[d] \in {"alive", "unwind"} =>
       /\ session[d][0] = "initialized"
       /\ \A k \in Wrappers : session[d][k] # "allocated"
  /\ \A k \in Wrappers : jobs[d][k] > 0 =>
       pc[d] \in {"alive", "unwind"} /\ session[d][k] = "initialized"

IInv == TypeOK /\ LibraryInv /\ CodeInv /\ \A d \in Devices : SessionInv(d)

-----------------------------------------------------------------------------
(* The actions in two groups.                                              *)

\* What the constructors and destructors of the wrappers do beside the library.
WrapperStep(d) ==
  \/ sessionAlloc(d) \/ setParameters(d) \/ sessionInit(d) \/ queryChildren(d)
  \/ destroy(d)
  \/ \E k \in Wrappers : \/ createJob(d, k) \/ freeJob(d, k)
                         \/ clearJob(d, k) \/ sessionFree(d, k)

\* What the library cache and the library object go through.
LibraryStep(d) ==
  \/ lookup(d) \/ reuse(d) \/ load(d) \/ loadFails(d)
  \/ initialize(d) \/ initializeFails(d)
  \/ release(d) \/ finalize(d) \/ close(d)

\* A step is one of a device's constructor and destructor or one of the library cache.
LEMMA NextCases ==
  ASSUME [Next]_vars
  PROVE  \/ \E d \in Devices : WrapperStep(d)
         \/ \E d \in Devices : LibraryStep(d)
         \/ UNCHANGED vars
BY DEF Next, Step, WrapperStep, LibraryStep

\* What the proofs need of the order of numbers.
LEMMA Order ==
  /\ \A m, n \in Nat : m < n \/ m = n \/ m > n
  /\ \A m, n \in Nat : m < n + 1 => m < n \/ m = n
  /\ \A m, n \in Nat : m > n + 1 => m > n
OBVIOUS

\* The device and its children are numbered from 0 (the device itself).
LEMMA WrapperFacts ==
  /\ Wrappers \subseteq Nat
  /\ 0 \in Wrappers
  /\ None \notin Instances /\ None \notin Devices
BY ConstantsAssumption DEF Wrappers

-----------------------------------------------------------------------------
(* Types.                                                                  *)

\* Setting the state of one session keeps the type of all.
LEMMA SessionTyped ==
  ASSUME TypeOK, NEW d \in Devices,
         NEW v \in {"none", "allocated", "initialized"}, SetSession(d, v)
  PROVE  session' \in [Devices -> [Wrappers -> {"none", "allocated", "initialized"}]]
<1>1. [session[d] EXCEPT ![current[d]] = v] \in
        [Wrappers -> {"none", "allocated", "initialized"}]
  BY DEF TypeOK
<1> QED
  BY <1>1 DEF TypeOK, SetSession

\* An exception leads to the destructor of the children or of the library object.
LEMMA ThrowTyped ==
  ASSUME TypeOK, NEW d \in Devices, Throw(d)
  PROVE  /\ pc' = [pc EXCEPT ![d] = pc'[d]]
         /\ pc'[d] \in {"release", "unwind"}
         /\ current' \in [Devices -> Wrappers]
BY WrapperFacts DEF TypeOK, Throw, Goto

\* Constructors, destructors and jobs keep the types.
LEMMA TypeOfWrapperStep ==
  ASSUME TypeOK, NEW d \in Devices, WrapperStep(d)
  PROVE  TypeOK'
<1> USE ConstantsAssumption, WrapperFacts
<1> USE DEF TypeOK, libraryVars, Goto, At
<1>1. CASE sessionAlloc(d)
  BY <1>1, SessionTyped, ThrowTyped DEF sessionAlloc
<1>2. CASE setParameters(d)
  BY <1>2, SessionTyped, ThrowTyped DEF setParameters
<1>3. CASE sessionInit(d)
  <2>1. current[d] \in Wrappers /\ children[d] \in Wrappers
    OBVIOUS
  <2>2. current[d] < children[d] => current[d] + 1 \in Wrappers
    BY ONLY <2>1, ConstantsAssumption DEF Wrappers
  <2>3. CASE /\ SetSession(d, "initialized")
            /\ IF current[d] = 0 THEN Goto(d, "query") /\ UNCHANGED current
                                 ELSE NextChild(d)
    <3>1. pc' \in [Devices -> {"idle", "lookup", "load", "alloc", "params", "init",
                               "query", "alive", "unwind", "release", "finalize",
                               "close"}]
      BY <2>3 DEF NextChild
    <3>2. current' \in [Devices -> Wrappers]
      BY <2>2, <2>3 DEF NextChild
    <3> QED
      BY <1>3, <2>3, <3>1, <3>2, SessionTyped DEF sessionInit
  <2>4. CASE Throw(d) /\ SetSession(d, "none")
    BY <1>3, <2>4, SessionTyped, ThrowTyped DEF sessionInit
  <2> QED
    BY <1>3, <2>3, <2>4 DEF sessionInit
<1>4. CASE queryChildren(d)
  <2>1. \A n \in Wrappers \ {0} : 1 \in Wrappers
    BY ONLY ConstantsAssumption DEF Wrappers
  <2>2. CASE /\ children' = [children EXCEPT ![d] = 0]
            /\ Goto(d, "alive")
            /\ UNCHANGED <<current, session>>
    BY <1>4, <2>2 DEF queryChildren
  <2>3. CASE Throw(d) /\ SetSession(d, "none") /\ UNCHANGED children
    BY <1>4, <2>3, SessionTyped, ThrowTyped DEF queryChildren
  <2>4. ASSUME NEW n \in Wrappers \ {0}, children' = [children EXCEPT ![d] = n],
               Goto(d, "alloc"), current' = [current EXCEPT ![d] = 1],
               UNCHANGED session
        PROVE  TypeOK'
    BY <1>4, <2>1, <2>4 DEF queryChildren
  <2> QED
    BY <1>4, <2>2, <2>3, <2>4 DEF queryChildren
<1>5. CASE destroy(d)
  BY <1>5 DEF destroy
<1>6. ASSUME NEW k \in Wrappers, createJob(d, k) PROVE TypeOK'
  BY <1>6 DEF createJob
<1>7. ASSUME NEW k \in Wrappers, freeJob(d, k) PROVE TypeOK'
  BY <1>7 DEF freeJob
<1>8. ASSUME NEW k \in Wrappers, clearJob(d, k) PROVE TypeOK'
  BY <1>8 DEF clearJob
<1>9. ASSUME NEW k \in Wrappers, sessionFree(d, k) PROVE TypeOK'
  BY <1>9 DEF sessionFree
<1> QED
  BY <1>1, <1>2, <1>3, <1>4, <1>5, <1>6, <1>7, <1>8, <1>9 DEF WrapperStep

\* The library cache keeps the types (get, ~DynamicDeviceLibrary).
LEMMA TypeOfLibraryStep ==
  ASSUME TypeOK, LibraryInv, NEW d \in Devices, LibraryStep(d)
  PROVE  TypeOK'
<1> USE ConstantsAssumption, WrapperFacts DEF TypeOK, Goto, At
<1>1. CASE lookup(d)
  BY <1>1 DEF lookup
<1>2. CASE reuse(d)
  BY <1>2 DEF reuse, Reusable
<1>3. CASE load(d)
  BY <1>3 DEF load
<1>4. CASE loadFails(d)
  BY <1>4 DEF loadFails
<1>5. CASE initialize(d)
  BY <1>5 DEF initialize, LibraryInv
<1>6. CASE initializeFails(d)
  BY <1>6 DEF initializeFails, CloseHandle
<1>7. CASE release(d)
  BY <1>7 DEF release
<1>8. CASE finalize(d)
  BY <1>8 DEF finalize
<1>9. CASE close(d)
  BY <1>9 DEF close, CloseHandle
<1> QED
  BY <1>1, <1>2, <1>3, <1>4, <1>5, <1>6, <1>7, <1>8, <1>9 DEF LibraryStep

-----------------------------------------------------------------------------
(* Library objects.                                                        *)

\* A constructor or destructor at work on its wrappers stays an owner.
LEMMA LibraryOfWrapperStep ==
  ASSUME TypeOK, LibraryInv, NEW d \in Devices, WrapperStep(d)
  PROVE  LibraryInv'
<1>1. /\ pc[d] \in Owning
      /\ pc' = [pc EXCEPT ![d] = pc'[d]]
      /\ pc'[d] \in Owning
      /\ UNCHANGED <<inst, libraryVars>>
  BY DEF WrapperStep, sessionAlloc, setParameters, sessionInit, NextChild,
         queryChildren, destroy, createJob, freeJob, clearJob, sessionFree,
         Goto, At, Throw, Owning, Constructing, TypeOK
<1>2. \A e \in Devices : pc'[e] \in Owning <=> pc[e] \in Owning
  BY <1>1 DEF TypeOK
<1>3. \A e \in Devices : pc'[e] \notin Owning => pc'[e] = pc[e]
  BY <1>1 DEF TypeOK
<1>4. Owning \cap {"idle", "lookup", "load", "finalize", "close"} = {}
  BY DEF Owning, Constructing
<1> QED
  BY <1>1, <1>2, <1>3, <1>4 DEF LibraryInv, libraryVars, TypeOK

\* Each step of the library cache keeps owners, cache and mutex in agreement.
LEMMA LibraryOfLibraryStep ==
  ASSUME TypeOK, LibraryInv, NEW d \in Devices, LibraryStep(d)
  PROVE  LibraryInv'
<1> USE WrapperFacts DEF TypeOK, Goto, At, Owning, Constructing
<1>1. CASE lookup(d)
  BY <1>1 DEF lookup, LibraryInv
<1>2. CASE reuse(d)
  BY <1>2 DEF reuse, Reusable, LibraryInv
<1>3. CASE load(d)
  BY <1>3 DEF load, Reusable, LibraryInv
<1>4. CASE loadFails(d)
  BY <1>4 DEF loadFails, LibraryInv
<1>5. CASE initialize(d)
  BY <1>5 DEF initialize, LibraryInv
<1>6. CASE initializeFails(d)
  BY <1>6 DEF initializeFails, CloseHandle, LibraryInv
<1>7. CASE release(d)
  <2> DEFINE i == inst[d]
  <2>1. i \in Instances /\ d \in refs[i] /\ pc[d] = "release"
    BY <1>7 DEF release, LibraryInv
  <2>2. /\ \A j \in Instances : refs'[j] = IF j = i THEN refs[j] \ {d} ELSE refs[j]
        /\ UNCHANGED <<lib, cached, mutex>>
    BY <1>7, <2>1 DEF release
  <2>5. \A j \in Instances : /\ refs'[j] \subseteq refs[j] /\ refs[j] \subseteq Devices
                             /\ d \notin refs'[j]
    <3>1. \A j \in Instances : d \in refs[j] => j = i
      BY DEF LibraryInv
    <3> QED
      BY <2>2, <3>1
  <2>6. \A f \in Devices : inst[f] # None => inst[f] \in Instances
    OBVIOUS
  <2>3. CASE refs[i] = {d}
    <3>1. /\ inst' = inst /\ refs'[i] = {}
          /\ \A e \in Devices : pc'[e] = IF e = d THEN "finalize" ELSE pc[e]
      BY <1>7, <2>1, <2>2, <2>3 DEF release
    <3>2. \A e \in Devices \ {d} : inst[e] # i
      BY <2>1, <2>3 DEF LibraryInv
    <3>3. \A f \in Devices : pc'[f] \in {"lookup", "load"} => mutex' = f
      BY <2>1, <2>2, <2>3, <2>5, <2>6, <3>1, <3>2 DEF LibraryInv
    <3>4. \A f \in Devices : pc'[f] \in {"idle", "lookup"} => inst'[f] = None
      BY <2>1, <2>2, <2>3, <2>5, <2>6, <3>1, <3>2 DEF LibraryInv
    <3>5. \A f \in Devices : pc'[f] = "load" =>
            inst'[f] # None /\ \A j \in Instances : refs'[j] = {}
      BY <2>1, <2>2, <2>3, <2>5, <2>6, <3>1, <3>2 DEF LibraryInv
    <3>6. \A f \in Devices : pc'[f] \in Owning =>
            inst'[f] # None /\ f \in refs'[inst'[f]] /\ lib'[inst'[f]] = "initialized"
      BY <2>1, <2>2, <2>3, <2>5, <2>6, <3>1, <3>2 DEF LibraryInv
    <3>7. \A f \in Devices : pc'[f] \in {"finalize", "close"} =>
            inst'[f] # None /\ refs'[inst'[f]] = {}
      BY <2>1, <2>2, <2>3, <2>5, <2>6, <3>1, <3>2 DEF LibraryInv
    <3>8. \A j \in Instances : \A f \in refs'[j] : pc'[f] \in Owning /\ inst'[f] = j
      BY <2>1, <2>2, <2>3, <2>5, <2>6, <3>1, <3>2 DEF LibraryInv
    <3>9. \A j \in Instances : refs'[j] # {} => cached' = j
      BY <2>1, <2>2, <2>3, <2>5, <2>6, <3>1, <3>2 DEF LibraryInv
    <3>10. \A f, g \in Devices :
            f # g /\ inst'[f] = inst'[g] /\ inst'[f] # None => pc'[f] \in Owning
      BY <2>1, <2>2, <2>3, <2>5, <2>6, <3>1, <3>2 DEF LibraryInv
    <3>11. \A j \in Instances : lib'[j] = "none" <=> \A f \in Devices : inst'[f] # j
      BY <2>1, <2>2, <2>3, <2>5, <2>6, <3>1, <3>2 DEF LibraryInv
    <3> QED
      BY <3>3, <3>4, <3>5, <3>6, <3>7, <3>8, <3>9, <3>10, <3>11 DEF LibraryInv
  <2>4. CASE refs[i] # {d}
    <3>1. /\ \A e \in Devices : inst'[e] = IF e = d THEN None ELSE inst[e]
          /\ \A e \in Devices : pc'[e] = IF e = d THEN "idle" ELSE pc[e]
      BY <1>7, <2>1, <2>4 DEF release
    <3>2. PICK e \in refs[i] : e # d
      BY <2>1, <2>4
    <3>3. e \in Devices /\ inst[e] = i
      BY <2>1, <3>2 DEF LibraryInv
    <3>4. \A f \in Devices : pc'[f] \in {"lookup", "load"} => mutex' = f
      BY <2>1, <2>2, <2>5, <2>6, <3>1, <3>2, <3>3 DEF LibraryInv
    <3>5. \A f \in Devices : pc'[f] \in {"idle", "lookup"} => inst'[f] = None
      BY <2>1, <2>2, <2>5, <2>6, <3>1, <3>2, <3>3 DEF LibraryInv
    <3>6. \A f \in Devices : pc'[f] = "load" =>
            inst'[f] # None /\ \A j \in Instances : refs'[j] = {}
      BY <2>5, <3>1 DEF LibraryInv
    <3>7. \A f \in Devices : pc'[f] \in Owning =>
            inst'[f] # None /\ f \in refs'[inst'[f]] /\ lib'[inst'[f]] = "initialized"
      <4>1. \A f \in Devices : pc'[f] \in Owning =>
              f # d /\ pc[f] \in Owning /\ inst'[f] = inst[f]
        BY <3>1
      <4>2. \A f \in Devices : pc[f] \in Owning => inst[f] \in Instances
        BY <2>6 DEF LibraryInv
      <4>3. \A f \in Devices : pc[f] \in Owning =>
              inst[f] # None /\ f \in refs[inst[f]] /\ lib[inst[f]] = "initialized"
        BY DEF LibraryInv
      <4> HIDE DEF TypeOK, Owning, Constructing
      <4>4. ASSUME NEW f \in Devices, pc'[f] \in Owning
            PROVE  f \in refs'[inst[f]]
        <5>1. f # d /\ inst[f] \in Instances /\ f \in refs[inst[f]]
          BY <4>1, <4>2, <4>3, <4>4
        <5> QED
          BY <2>2, <5>1
      <4> QED
        BY <2>2, <4>1, <4>3, <4>4
    <3>8. \A f \in Devices : pc'[f] \in {"finalize", "close"} =>
            inst'[f] # None /\ refs'[inst'[f]] = {}
      BY <2>1, <2>2, <2>5, <2>6, <3>1, <3>2, <3>3 DEF LibraryInv
    <3>9. \A j \in Instances : \A f \in refs'[j] : pc'[f] \in Owning /\ inst'[f] = j
      BY <2>1, <2>2, <2>5, <2>6, <3>1, <3>2, <3>3 DEF LibraryInv
    <3>10. \A j \in Instances : refs'[j] # {} => cached' = j
      BY <2>1, <2>2, <2>5, <2>6, <3>1, <3>2, <3>3 DEF LibraryInv
    <3>11. \A f, g \in Devices :
            f # g /\ inst'[f] = inst'[g] /\ inst'[f] # None => pc'[f] \in Owning
      BY <2>1, <2>2, <2>5, <2>6, <3>1, <3>2, <3>3 DEF LibraryInv
    <3>12. \A j \in Instances : lib'[j] = "none" <=> \A f \in Devices : inst'[f] # j
      <4>1. \A j \in Instances :
              (\A f \in Devices : inst'[f] # j) <=> (\A f \in Devices : inst[f] # j)
        BY <2>1, <3>1, <3>2, <3>3
      <4> QED
        BY <2>2, <4>1 DEF LibraryInv
    <3> QED
      BY <3>4, <3>5, <3>6, <3>7, <3>8, <3>9, <3>10, <3>11, <3>12 DEF LibraryInv
  <2> QED
    BY <2>3, <2>4
<1>8. CASE finalize(d)
  BY <1>8 DEF finalize, LibraryInv
<1>9. CASE close(d)
  BY <1>9 DEF close, CloseHandle, LibraryInv
<1> QED
  BY <1>1, <1>2, <1>3, <1>4, <1>5, <1>6, <1>7, <1>8, <1>9 DEF LibraryStep

-----------------------------------------------------------------------------
(* The loaded library.                                                     *)

\* A constructor or destructor at work on its wrappers leaves the library alone.
LEMMA CodeOfWrapperStep ==
  ASSUME TypeOK, CodeInv, NEW d \in Devices, WrapperStep(d)
  PROVE  CodeInv'
<1>1. /\ pc[d] \in Owning
      /\ pc' = [pc EXCEPT ![d] = pc'[d]]
      /\ UNCHANGED <<inst, libraryVars>>
  BY DEF WrapperStep, sessionAlloc, setParameters, sessionInit, NextChild,
         queryChildren, destroy, createJob, freeJob, clearJob, sessionFree,
         Goto, At, Throw, Owning, Constructing, TypeOK
<1>2. \A e \in Devices : pc'[e] \in Owning => pc[e] \in Owning
  BY <1>1 DEF TypeOK
<1> QED
  BY <1>1, <1>2 DEF CodeInv, UsableCode, libraryVars

\* Closing a handle unloads the library exactly when no other handle is left.
LEMMA ClosedHandle ==
  ASSUME TypeOK, CodeInv, NEW i \in Instances, lib[i] # "none", CloseHandle(i)
  PROVE  /\ code' = "unloaded" <=> \A j \in Instances : lib'[j] = "none"
         /\ \A j \in Instances \ {i} : UsableCode(j) =>
              UNCHANGED <<code, codeBy>> /\ lib'[j] = lib[j]
<1>1. \A j \in Instances : lib'[j] = IF j = i THEN "none" ELSE lib[j]
  BY DEF CloseHandle, TypeOK
<1>2. CASE \A j \in Instances \ {i} : lib[j] = "none"
  BY <1>1, <1>2 DEF CloseHandle, UsableCode
<1>3. CASE ~ \A j \in Instances \ {i} : lib[j] = "none"
  BY <1>1, <1>3 DEF CloseHandle, CodeInv
<1> QED
  BY <1>2, <1>3

\* Each step of the library cache leaves the owners on usable code.
LEMMA CodeOfLibraryStep ==
  ASSUME TypeOK, LibraryInv, CodeInv, NEW d \in Devices, LibraryStep(d)
  PROVE  CodeInv'
<1> USE WrapperFacts DEF Goto, At
<1>o. \A e \in Devices : pc[e] \in Owning =>
        inst[e] \in Instances /\ refs[inst[e]] # {}
  BY DEF LibraryInv, TypeOK
<1>1. CASE lookup(d)
  BY <1>1 DEF lookup, CodeInv, UsableCode, TypeOK, Owning, Constructing
<1>2. CASE reuse(d)
  <2>1. PICK f \in refs[cached] : TRUE
    BY <1>2 DEF reuse, Reusable
  <2>2. cached \in Instances /\ f \in Devices /\ pc[f] \in Owning /\ inst[f] = cached
    BY <1>2, <2>1 DEF reuse, Reusable, LibraryInv, TypeOK
  <2>3. UsableCode(cached)
    BY <2>2 DEF CodeInv
  <2>4. \A e \in Devices : pc'[e] \in Owning => inst'[e] = cached
    BY <1>2, <1>o DEF reuse, LibraryInv, TypeOK
  <2>5. \A j \in Instances \ {cached} : refs'[j] = refs[j]
    BY <1>2, <2>2 DEF reuse, TypeOK
  <2> QED
    BY <1>2, <2>3, <2>4, <2>5 DEF reuse, CodeInv, UsableCode
<1>3. CASE load(d)
  <2>1. PICK i \in Instances : lib[i] = "none" /\ lib' = [lib EXCEPT ![i] = "open"]
    BY <1>3 DEF load
  <2>2. \A e \in Devices : pc'[e] \in Owning => FALSE
    <3>1. \A e \in Devices : pc[e] \notin Owning
      BY <1>3, <1>o DEF load, Reusable, LibraryInv
    <3> QED
      BY <1>3, <3>1 DEF load, TypeOK, Owning, Constructing
  <2>3. code' # "unloaded"
    BY <1>3 DEF load
  <2>4. lib'[i] = "open"
    BY <2>1 DEF TypeOK
  <2> QED
    BY <2>2, <2>3, <2>4 DEF CodeInv
<1>4. CASE loadFails(d)
  BY <1>4 DEF loadFails, CodeInv, UsableCode, TypeOK, Owning, Constructing
<1>5. CASE initialize(d)
  <2>1. inst[d] \in Instances /\ \A i \in Instances : refs[i] = {}
    BY <1>5 DEF initialize, LibraryInv, TypeOK
  <2>2. /\ lib'[inst[d]] = "initialized" /\ code' = "initialized"
        /\ codeBy' = inst[d] /\ inst' = inst
    BY <1>5, <2>1 DEF initialize, TypeOK
  <2>3. \A e \in Devices : pc'[e] \in Owning => e = d
    BY <1>5, <1>o, <2>1 DEF initialize, TypeOK
  <2> QED
    BY <2>1, <2>2, <2>3 DEF CodeInv, UsableCode
<1>6. CASE initializeFails(d)
  <2>1. inst[d] \in Instances /\ \A i \in Instances : refs[i] = {}
    BY <1>6 DEF initializeFails, LibraryInv, TypeOK
  <2>2. lib[inst[d]] # "none"
    BY <2>1 DEF LibraryInv
  <2>3. \A e \in Devices : pc'[e] \notin Owning
    <3>1. \A e \in Devices : pc[e] \notin Owning
      BY <1>o, <2>1
    <3> QED
      BY <1>6, <3>1 DEF initializeFails, TypeOK, Owning, Constructing
  <2> QED
    BY <1>6, <2>1, <2>2, <2>3, ClosedHandle DEF initializeFails, CodeInv
<1>7. CASE release(d)
  <2>1. \A e \in Devices : pc'[e] \in Owning => pc[e] \in Owning /\ inst'[e] = inst[e]
    BY <1>7 DEF release, TypeOK, Owning, Constructing
  <2>2. \A j \in Instances : refs[j] = {} => refs'[j] = {}
    BY <1>7 DEF release, TypeOK
  <2> QED
    BY <1>7, <2>1, <2>2 DEF release, CodeInv, UsableCode
<1>8. CASE finalize(d)
  <2>1. inst[d] \in Instances /\ refs[inst[d]] = {}
    BY <1>8 DEF finalize, LibraryInv, TypeOK
  <2>2. \A j \in Instances : lib'[j] = IF j = inst[d] THEN "finalized" ELSE lib[j]
    BY <1>8 DEF finalize, TypeOK
  <2>3. \A e \in Devices : pc'[e] \in Owning => pc[e] \in Owning
    BY <1>8 DEF finalize, TypeOK, Owning, Constructing
  <2>4. \A e \in Devices : pc[e] \in Owning => inst[e] # inst[d]
    BY <1>o, <2>1
  <2>5. ASSUME NEW e \in Devices, pc'[e] \in Owning PROVE UsableCode(inst[e])'
    <3>1. inst[e] \in Instances \ {inst[d]} /\ lib[inst[e]] = "initialized"
      BY <1>o, <2>3, <2>4, <2>5 DEF CodeInv, UsableCode
    <3> QED
      BY <1>8, <2>1, <2>2, <3>1 DEF finalize, UsableCode
  <2>6. \E j \in Instances : lib'[j] # "none"
    BY <2>1, <2>2
  <2> QED
    BY <1>8, <2>5, <2>6 DEF finalize, CodeInv
<1>9. CASE close(d)
  <2>1. inst[d] \in Instances /\ refs[inst[d]] = {}
    BY <1>9 DEF close, LibraryInv, TypeOK
  <2>2. lib[inst[d]] # "none"
    BY <2>1 DEF LibraryInv
  <2>3. \A e \in Devices : pc'[e] \in Owning => pc[e] \in Owning /\ inst'[e] = inst[e]
    BY <1>9 DEF close, TypeOK, Owning, Constructing
  <2>4. ASSUME NEW e \in Devices, pc'[e] \in Owning PROVE UsableCode(inst[e])'
    <3>1. inst[e] \in Instances \ {inst[d]} /\ UsableCode(inst[e]) /\ inst'[e] = inst[e]
      BY <1>o, <2>1, <2>3, <2>4 DEF CodeInv
    <3>2. UNCHANGED <<code, codeBy, refs>> /\ lib'[inst[e]] = lib[inst[e]]
      BY <1>9, <2>1, <2>2, <3>1, ClosedHandle DEF close
    <3> QED
      BY <3>1, <3>2 DEF UsableCode
  <2>5. code' = "unloaded" <=> \A j \in Instances : lib'[j] = "none"
    BY <1>9, <2>1, <2>2, ClosedHandle DEF close
  <2> QED
    BY <2>3, <2>4, <2>5 DEF CodeInv
<1> QED
  BY <1>1, <1>2, <1>3, <1>4, <1>5, <1>6, <1>7, <1>8, <1>9 DEF LibraryStep

-----------------------------------------------------------------------------
(* Sessions and jobs.                                                      *)

\* A step of one device leaves the wrappers of the others alone.
LEMMA OtherSessions ==
  ASSUME TypeOK, NEW d \in Devices, WrapperStep(d) \/ LibraryStep(d),
         NEW e \in Devices, e # d, SessionInv(e)
  PROVE  SessionInv(e)'
<1>1. /\ pc'[e] = pc[e]
      /\ current'[e] = current[e]
      /\ session'[e] = session[e]
      /\ jobs'[e] = jobs[e]
  BY DEF WrapperStep, sessionAlloc, setParameters, sessionInit, NextChild,
         queryChildren, destroy, createJob, freeJob, clearJob, sessionFree,
         LibraryStep, lookup, reuse, load, loadFails, initialize,
         initializeFails, release, finalize, close,
         Goto, At, Throw, SetSession, TypeOK
<1> QED
  BY <1>1 DEF SessionInv

\* The library cache leaves the sessions of a device alone.
LEMMA SessionsOfLibraryStep ==
  ASSUME TypeOK, NEW d \in Devices, LibraryStep(d), SessionInv(d)
  PROVE  SessionInv(d)'
<1>1. /\ UNCHANGED <<current, session, jobs>>
      /\ pc[d] \notin {"alive", "unwind"} \cup Constructing
      /\ pc'[d] \notin {"alive", "unwind", "params", "init", "query"}
  BY DEF LibraryStep, lookup, reuse, load, loadFails, initialize,
         initializeFails, release, finalize, close, Goto, At, TypeOK,
         Constructing
<1>2. /\ \A k \in Wrappers : session[d][k] = "none" /\ ~(jobs[d][k] > 0)
      /\ current[d] = 0
  BY <1>1 DEF SessionInv, Owning, Constructing
<1>3. /\ \A k \in Wrappers : session'[d][k] = "none" /\ ~(jobs'[d][k] > 0)
      /\ current'[d] = 0 /\ 0 \in Wrappers
      /\ \A k \in Wrappers : ~(k < 0)
  BY <1>1, <1>2, WrapperFacts
<1> QED
  BY <1>1, <1>3 DEF SessionInv, Owning, Constructing

\* Setting the state of one session changes that session only.
LEMMA SessionUpdate ==
  ASSUME TypeOK, NEW d \in Devices, NEW v, SetSession(d, v), NEW k \in Wrappers
  PROVE  session'[d][k] = IF k = current[d] THEN v ELSE session[d][k]
BY DEF TypeOK, SetSession

\* Where an exception leaves a wrapper without a session, its device is without
\* one, or ready to be unwound.
LEMMA SessionsAfterThrow ==
  ASSUME TypeOK, NEW d \in Devices, SessionInv(d), pc[d] \in Constructing,
         Throw(d), UNCHANGED jobs,
         \A k \in Wrappers : session'[d][k] =
           IF k = current[d] THEN "none" ELSE session[d][k]
  PROVE  SessionInv(d)'
<1>1. /\ current[d] \in Nat /\ 0 \in Wrappers /\ Wrappers \subseteq Nat
      /\ current'[d] = 0
      /\ pc'[d] = IF current[d] = 0 THEN "release" ELSE "unwind"
  BY WrapperFacts DEF TypeOK, Throw, Goto
<1>2. \A k \in Wrappers : ~(jobs'[d][k] > 0)
  BY DEF SessionInv, Constructing
<1>3. CASE current[d] = 0
  <2>1. \A k \in Wrappers : k = 0 \/ k > 0
    BY <1>1
  <2>2. \A k \in Wrappers : session'[d][k] = "none"
    BY <1>1, <1>3, <2>1 DEF SessionInv
  <2> QED
    BY <1>1, <1>2, <1>3, <2>2 DEF SessionInv, Owning, Constructing
<1>4. CASE current[d] # 0
  <2>1. \A k \in Wrappers : k < current[d] \/ k = current[d] \/ k > current[d]
    BY <1>1, Order
  <2>2. /\ \A k \in Wrappers : session'[d][k] # "allocated"
        /\ session'[d][0] = "initialized"
    BY <1>1, <1>4, <2>1 DEF SessionInv
  <2> QED
    BY <1>1, <1>2, <1>4, <2>2 DEF SessionInv, Owning, Constructing
<1> QED
  BY <1>3, <1>4

\* Each step of the constructor and of the destructor keeps what is said of the
\* sessions of its device.
LEMMA SessionsOfWrapperStep ==
  ASSUME TypeOK, NEW d \in Devices, WrapperStep(d), SessionInv(d)
  PROVE  SessionInv(d)'
<1> USE WrapperFacts
<1>a. current[d] \in Nat /\ current[d] \in Wrappers /\ children[d] \in Nat
  BY DEF TypeOK
<1>d. children[d] \in Wrappers
  BY DEF TypeOK
<1>b. \A v : pc' = [pc EXCEPT ![d] = v] => pc'[d] = v
  BY DEF TypeOK
<1>c. \A v : current' = [current EXCEPT ![d] = v] => current'[d] = v
  BY DEF TypeOK
<1> USE DEF Goto, At, SessionInv, Owning, Constructing
<1>1. CASE sessionAlloc(d)
  <2>1. CASE SetSession(d, "allocated") /\ Goto(d, "params") /\ UNCHANGED current
    BY <1>1, <1>a, <1>b, <2>1, SessionUpdate DEF sessionAlloc
  <2>2. CASE Throw(d) /\ UNCHANGED session
    BY <1>1, <2>2, SessionsAfterThrow DEF sessionAlloc, libraryVars
  <2> QED
    BY <1>1, <2>1, <2>2 DEF sessionAlloc
<1>2. CASE setParameters(d)
  <2>1. CASE Goto(d, "init") /\ UNCHANGED <<current, session>>
    BY <1>2, <1>b, <2>1 DEF setParameters
  <2>2. CASE Throw(d) /\ SetSession(d, "none")
    BY <1>2, <2>2, SessionUpdate, SessionsAfterThrow DEF setParameters
  <2> QED
    BY <1>2, <2>1, <2>2 DEF setParameters
<1>3. CASE sessionInit(d)
  <2>1. CASE /\ SetSession(d, "initialized")
            /\ IF current[d] = 0 THEN Goto(d, "query") /\ UNCHANGED current
                                 ELSE NextChild(d)
    <3>1. \A k \in Wrappers :
            session'[d][k] = IF k = current[d] THEN "initialized" ELSE session[d][k]
      BY <2>1, SessionUpdate
    <3>2. \A k \in Wrappers : ~(jobs'[d][k] > 0)
      BY <1>3 DEF sessionInit
    <3>3. \A k \in Wrappers : k < current[d] \/ k = current[d] \/ k > current[d]
      BY <1>a, Order
    <3>4. CASE current[d] = 0
      BY <1>3, <1>a, <1>b, <2>1, <3>1, <3>2, <3>4 DEF sessionInit
    <3>5. CASE current[d] # 0 /\ current[d] < children[d]
      <4>1. current'[d] = current[d] + 1 /\ pc'[d] = "alloc"
        BY <1>b, <1>c, <2>1, <3>5 DEF NextChild
      <4>2. \A k \in Wrappers :
              /\ k < current[d] + 1 => k < current[d] \/ k = current[d]
              /\ k > current[d] + 1 => k > current[d]
        BY <1>a, Order
      <4>3. \A k \in Wrappers : k < current'[d] => session'[d][k] = "initialized"
        BY <1>3, <3>1, <4>1, <4>2 DEF sessionInit
      <4>4. \A k \in Wrappers : k > current'[d] => session'[d][k] = "none"
        BY <1>3, <1>a, <3>1, <4>1, <4>2 DEF sessionInit
      <4>5. session'[d][current'[d]] = "none"
        <5>1. current[d] + 1 \in Wrappers /\ current[d] + 1 > current[d]
          BY ONLY <1>a, <1>d, <3>5, ConstantsAssumption DEF Wrappers
        <5> QED
          BY <1>3, <1>a, <3>1, <4>1, <5>1 DEF sessionInit
      <4> QED
        BY <3>2, <4>1, <4>3, <4>4, <4>5
    <3>6. CASE current[d] # 0 /\ ~(current[d] < children[d])
      <4>1. current'[d] = 0 /\ pc'[d] = "alive"
        BY <1>b, <1>c, <2>1, <3>6 DEF NextChild
      <4> QED
        BY <1>3, <1>a, <3>1, <3>2, <3>3, <3>6, <4>1 DEF sessionInit
    <3> QED
      BY <3>4, <3>5, <3>6
  <2>2. CASE Throw(d) /\ SetSession(d, "none")
    BY <1>3, <2>2, SessionUpdate, SessionsAfterThrow DEF sessionInit
  <2> QED
    BY <1>3, <2>1, <2>2 DEF sessionInit
<1>4. CASE queryChildren(d)
  <2>1. CASE Goto(d, "alive") /\ UNCHANGED <<current, session>>
    BY <1>4, <1>b, <2>1 DEF queryChildren
  <2>2. CASE Throw(d) /\ SetSession(d, "none")
    BY <1>4, <2>2, SessionUpdate, SessionsAfterThrow DEF queryChildren
  <2>3. ASSUME NEW n \in Wrappers \ {0}, Goto(d, "alloc"),
               current' = [current EXCEPT ![d] = 1], UNCHANGED session
        PROVE  SessionInv(d)'
    <3>1. 1 \in Wrappers
      BY ONLY n \in Wrappers \ {0}, ConstantsAssumption DEF Wrappers
    <3>2. pc'[d] = "alloc" /\ current'[d] = 1 /\ current[d] = 0 /\ session'[d] = session[d]
      BY <1>4, <1>b, <1>c, <2>3 DEF queryChildren
    <3>3. \A k \in Wrappers : (k < 1 => k = 0) /\ (k > 1 => k > 0)
      OBVIOUS
    <3>4. \A k \in Wrappers : k > 0 => session[d][k] = "none"
      BY <1>4, <3>2 DEF queryChildren
    <3>5. \A k \in Wrappers : ~(jobs'[d][k] > 0)
      BY <1>4 DEF queryChildren
    <3>6. session[d][0] = "initialized"
      BY <1>4 DEF queryChildren
    <3> QED
      BY ONLY <3>1, <3>2, <3>3, <3>4, <3>5, <3>6 DEF SessionInv, Owning, Constructing
  <2> QED
    BY <1>4, <2>1, <2>2, <2>3 DEF queryChildren
<1>5. CASE destroy(d)
  BY <1>5 DEF destroy
<1>6. ASSUME NEW k \in Wrappers, createJob(d, k) PROVE SessionInv(d)'
  BY <1>6 DEF createJob
<1>7. ASSUME NEW k \in Wrappers, freeJob(d, k) PROVE SessionInv(d)'
  BY <1>7 DEF freeJob
<1>8. ASSUME NEW k \in Wrappers, clearJob(d, k) PROVE SessionInv(d)'
  BY <1>8 DEF clearJob
<1>9. ASSUME NEW k \in Wrappers, sessionFree(d, k) PROVE SessionInv(d)'
  <2>1. \A l \in Wrappers :
          /\ session'[d][l] = IF l = k THEN "none" ELSE session[d][l]
          /\ jobs'[d][l] > 0 => l # k /\ jobs'[d][l] = jobs[d][l]
    BY <1>9 DEF sessionFree, TypeOK
  <2>2. pc[d] = "unwind" /\ current[d] = 0 /\ current'[d] = 0
    BY <1>9 DEF sessionFree
  <2>3. CASE k = 0
    <3>1. \A l \in Wrappers : session'[d][l] = "none"
      BY <1>9, <2>1, <2>3 DEF sessionFree, NextWrapper
    <3>2. pc'[d] = "release"
      BY <1>9, <1>b, <2>3 DEF sessionFree
    <3>3. \A l \in Wrappers : ~(jobs'[d][l] > 0)
      BY <2>1, <2>2, <3>1, <1>9, <2>3 DEF sessionFree, NextWrapper
    <3> QED
      BY ONLY <2>2, <3>1, <3>2, <3>3 DEF SessionInv, Owning, Constructing
  <2>4. CASE k # 0
    <3>1. pc'[d] = "unwind"
      BY <1>9, <1>b, <2>4 DEF sessionFree
    <3> QED
      BY <2>1, <2>2, <2>4, <3>1
  <2> QED
    BY <2>3, <2>4
<1> QED
  BY <1>1, <1>2, <1>3, <1>4, <1>5, <1>6, <1>7, <1>8, <1>9 DEF WrapperStep

-----------------------------------------------------------------------------
(* The theorems.                                                           *)

\* Before any device is opened the cache is empty and nothing is owned.
LEMMA InitIInv == Init => IInv
BY ConstantsAssumption, WrapperFacts
   DEF Init, IInv, TypeOK, LibraryInv, CodeInv, SessionInv, Owning, Constructing

\* The library cache, the constructor and the destructor keep the invariant,
\* whatever fails and however their threads interleave.
THEOREM Invariance == Spec => []IInv
<1>1. ASSUME IInv, [Next]_vars PROVE IInv'
  <2>1. ASSUME NEW d \in Devices, WrapperStep(d) PROVE IInv'
    BY <1>1, <2>1, TypeOfWrapperStep, LibraryOfWrapperStep,
       CodeOfWrapperStep,
       SessionsOfWrapperStep, OtherSessions DEF IInv
  <2>2. ASSUME NEW d \in Devices, LibraryStep(d) PROVE IInv'
    BY <1>1, <2>2, TypeOfLibraryStep, LibraryOfLibraryStep,
       CodeOfLibraryStep,
       SessionsOfLibraryStep, OtherSessions DEF IInv
  <2>3. CASE UNCHANGED vars
    BY <1>1, <2>3
       DEF IInv, vars, libraryVars, TypeOK, LibraryInv, CodeInv, UsableCode, SessionInv
  <2> QED
    BY <1>1, <2>1, <2>2, <2>3, NextCases
<1> QED
  BY InitIInv, <1>1, PTL DEF Spec

\* All devices share one library object, in every interleaving of openings and
\* last releases.
THEOREM LibraryShared == Spec => []OneLibraryInUse
<1>1. IInv => OneLibraryInUse
  BY DEF IInv, LibraryInv, OneLibraryInUse
<1> QED
  BY Invariance, <1>1, PTL

\* No path through the constructor or the destructor leaves a session, a job or
\* a share of the library behind, and no library object is lost.
THEOREM NothingLeaksCorrect == Spec => []NothingLeaks
<1>1. IInv => NothingLeaks
  <2> SUFFICES ASSUME IInv PROVE NothingLeaks
    OBVIOUS
  <2>1. ASSUME NEW d \in Devices,
               pc[d] \in {"idle", "lookup", "release", "finalize", "close"},
               NEW k \in Wrappers
        PROVE  session[d][k] = "none" /\ jobs[d][k] = 0
    <3>1. session[d][k] = "none" /\ ~(jobs[d][k] > 0)
      BY <2>1 DEF IInv, SessionInv, Owning, Constructing
    <3> QED
      BY <3>1 DEF IInv, TypeOK
  <2>2. ASSUME NEW d \in Devices, pc[d] \in {"idle", "lookup"}
        PROVE  inst[d] = None /\ \A i \in Instances : d \notin refs[i]
    BY <2>2, WrapperFacts DEF IInv, LibraryInv
  <2>3. ASSUME NEW i \in Instances, lib[i] # "none"
        PROVE  \E d \in Devices : inst[d] = i
    BY <2>3 DEF IInv, LibraryInv
  <2> QED
    BY <2>1, <2>2, <2>3 DEF NothingLeaks
<1> QED
  BY Invariance, <1>1, PTL

\* Jobs go before their session, children before their parent, and all while
\* the library is loaded and their own object, which initialized it, has not
\* begun to destroy it.
THEOREM FreedInsideOutCorrect == Spec => []FreedInsideOut
<1>1. IInv => FreedInsideOut
  <2> SUFFICES ASSUME IInv, NEW d \in Devices, NEW k \in Wrappers
               PROVE  /\ session[d][k] # "none" =>
                           /\ inst[d] # None
                           /\ d \in refs[inst[d]]
                           /\ UsableCode(inst[d])
                           /\ session[d][0] # "none"
                      /\ jobs[d][k] > 0 => session[d][k] = "initialized"
    BY DEF FreedInsideOut
  <2>1. session[d][k] # "none" => pc[d] \in Owning \ {"release"}
    BY DEF IInv, SessionInv
  <2> k \in Nat /\ 0 \in Wrappers /\ current[d] \in Nat
    BY WrapperFacts DEF IInv, TypeOK
  <2>2. session[d][k] # "none" => session[d][0] # "none"
    BY <2>1, SessionInv(d) DEF IInv, SessionInv, Owning, Constructing
  <2> QED
    BY <2>1, <2>2 DEF IInv, LibraryInv, CodeInv, SessionInv
<1> QED
  BY Invariance, <1>1, PTL
===============================================================================
