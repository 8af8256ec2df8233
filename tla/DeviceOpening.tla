---------------------------- MODULE DeviceOpening ----------------------------
(***************************************************************************)
(* How the QDMI driver opens a device and gives it back: the cache of      *)
(* loaded device libraries, the constructor and the destructor of          *)
(* QDMI_Device_impl_d (src/src/qdmi/driver/Driver.cpp, Driver.hpp).        *)
(*                                                                         *)
(* Driver::openFresh only reads the registry, so several threads may be in *)
(* it at once; what they share is the library cache, whose mutex is taken  *)
(* for the lookup and for loading, and the reference count of the library, *)
(* whose last release runs device_finalize and DL_CLOSE with no lock held. *)
(* A process of this module is one device object: a thread constructs it,  *)
(* uses it, destroys it, and may then construct another.                   *)
(*                                                                         *)
(* All devices here name the same library and prefix: different keys share *)
(* nothing but the mutex.  Every call into the library may fail.           *)
(*                                                                         *)
(* Library objects of one path share the code: DL_OPEN gives them handles  *)
(* of one loaded library, which the last DL_CLOSE unloads.  lib[i] is what *)
(* object i has done; code is the state of what they share, and codeBy the *)
(* object whose device_initialize or device_finalize brought it there.     *)
(***************************************************************************)
EXTENDS Naturals, FiniteSets

CONSTANTS
  Devices,       \* device objects
  Instances,     \* DynamicDeviceLibrary objects that may exist at once
  Parents,       \* the devices that may have child devices
  MaxChildren,   \* bound on the child devices of a device
  MaxJobs,       \* bound on the jobs of one wrapper
  None

ASSUME ConstantsAssumption ==
  /\ Parents \subseteq Devices
  /\ MaxChildren \in Nat
  /\ MaxJobs \in Nat
  /\ None \notin Devices \cup Instances

VARIABLES
  pc,        \* pc[d]: where the constructor or destructor of d is
  inst,      \* inst[d]: library_, or the library being loaded for d
  current,   \* current[d]: the wrapper under construction, 0 the device itself
  children,  \* children[d]: the number of child devices the library reported
  session,   \* session[d][k]: deviceSession_ of wrapper k of d
  jobs,      \* jobs[d][k]: how many entries jobs_ of wrapper k has
  lib,       \* lib[i]: what library object i has called; a handle unless "none"
  code,      \* state of the loaded library, shared by all handles
  codeBy,    \* the library object that brought it there, None after loading
  refs,      \* refs[i]: the devices that share library object i
  cached,    \* the weak_ptr of the cache
  mutex      \* the device whose thread holds the cache's mutex

libraryVars == <<lib, code, codeBy, refs, cached, mutex>>
vars == <<pc, inst, current, children, session, jobs, libraryVars>>

Wrappers == 0..MaxChildren

Init ==
  /\ pc = [d \in Devices |-> "idle"]
  /\ inst = [d \in Devices |-> None]
  /\ current = [d \in Devices |-> 0]
  /\ children = [d \in Devices |-> 0]
  /\ session = [d \in Devices |-> [k \in Wrappers |-> "none"]]
  /\ jobs = [d \in Devices |-> [k \in Wrappers |-> 0]]
  /\ lib = [i \in Instances |-> "none"]
  /\ code = "unloaded"
  /\ codeBy = None
  /\ refs = [i \in Instances |-> {}]
  /\ cached = None
  /\ mutex = None

At(d, l) == pc[d] = l
Goto(d, l) == pc' = [pc EXCEPT ![d] = l]

\* DL_CLOSE of object i: the library stays loaded as long as another object has
\* a handle of it.
CloseHandle(i) ==
  /\ lib' = [lib EXCEPT ![i] = "none"]
  /\ IF \A j \in Instances \ {i} : lib[j] = "none"
       THEN code' = "unloaded" /\ codeBy' = None
       ELSE UNCHANGED <<code, codeBy>>

\* weak_ptr::lock succeeds.
Reusable == cached # None /\ refs[cached] # {}

-----------------------------------------------------------------------------
(* getDynamicDeviceLibrary and the constructor of DynamicDeviceLibrary.    *)

\* Mutant: the cache is used without its mutex.
Bug_lookup(d) ==
  /\ At(d, "idle")
  /\ mutex' = d
  /\ Goto(d, "lookup")
  /\ UNCHANGED <<inst, current, children, session, jobs, lib, code, codeBy, refs, cached>>

lookup(d) ==
  /\ At(d, "idle")
  /\ mutex = None
  /\ mutex' = d
  /\ Goto(d, "lookup")
  /\ UNCHANGED <<inst, current, children, session, jobs, lib, code, codeBy, refs, cached>>

reuse(d) ==
  /\ At(d, "lookup")
  /\ Reusable
  /\ inst' = [inst EXCEPT ![d] = cached]
  /\ refs' = [refs EXCEPT ![cached] = @ \cup {d}]
  /\ mutex' = None
  /\ Goto(d, "alloc")
  /\ UNCHANGED <<current, children, session, jobs, lib, code, codeBy, cached>>

\* DL_OPEN: loads the library, or gives another handle of it while an object
\* that expired has not closed its own.
load(d) ==
  /\ At(d, "lookup")
  /\ ~Reusable
  /\ \E i \in Instances :
       /\ lib[i] = "none"
       /\ lib' = [lib EXCEPT ![i] = "open"]
       /\ inst' = [inst EXCEPT ![d] = i]
  /\ IF code = "unloaded" THEN code' = "loaded" /\ UNCHANGED codeBy
                          ELSE UNCHANGED <<code, codeBy>>
  /\ Goto(d, "load")
  /\ UNCHANGED <<current, children, session, jobs, refs, cached, mutex>>

\* DL_OPEN returns null.
loadFails(d) ==
  /\ At(d, "lookup")
  /\ ~Reusable
  /\ mutex' = None
  /\ Goto(d, "idle")
  /\ UNCHANGED <<inst, current, children, session, jobs, lib, code, codeBy, refs, cached>>

\* Every symbol is found and device_initialize succeeds.
initialize(d) ==
  /\ At(d, "load")
  /\ lib' = [lib EXCEPT ![inst[d]] = "initialized"]
  /\ code' = "initialized"
  /\ codeBy' = inst[d]
  /\ refs' = [refs EXCEPT ![inst[d]] = {d}]
  /\ cached' = inst[d]
  /\ mutex' = None
  /\ Goto(d, "alloc")
  /\ UNCHANGED <<inst, current, children, session, jobs>>

\* A required symbol is missing or device_initialize fails: DL_CLOSE.
initializeFails(d) ==
  /\ At(d, "load")
  /\ CloseHandle(inst[d])
  /\ inst' = [inst EXCEPT ![d] = None]
  /\ mutex' = None
  /\ Goto(d, "idle")
  /\ UNCHANGED <<current, children, session, jobs, refs, cached>>

-----------------------------------------------------------------------------
(* The constructor of QDMI_Device_impl_d, for the device itself            *)
(* (current[d] = 0) and then for each of its children.                     *)

SetSession(d, v) == session' = [session EXCEPT ![d][current[d]] = v]

\* An exception leaves the constructor of the wrapper under construction: the
\* device's own ends with the release of library_, a child's is caught, to
\* clear childDevices_ and to free the device's session.
Throw(d) ==
  /\ Goto(d, IF current[d] = 0 THEN "release" ELSE "unwind")
  /\ current' = [current EXCEPT ![d] = 0]

sessionAlloc(d) ==
  /\ At(d, "alloc")
  /\ \/ SetSession(d, "allocated") /\ Goto(d, "params") /\ UNCHANGED current
     \/ Throw(d) /\ UNCHANGED session
  /\ UNCHANGED <<inst, children, jobs, libraryVars>>

\* Mutant: the session is not freed when a parameter is rejected.
Bug_setParameters(d) ==
  /\ At(d, "params")
  /\ \/ Goto(d, "init") /\ UNCHANGED <<current, session>>
     \/ Throw(d) /\ UNCHANGED session
  /\ UNCHANGED <<inst, children, jobs, libraryVars>>

\* Mutant: a rejected parameter is tried again in a new session.
Bug_retryParameters(d) ==
  /\ At(d, "params")
  /\ \/ Goto(d, "init") /\ UNCHANGED session
     \/ Goto(d, "alloc") /\ SetSession(d, "none")
  /\ UNCHANGED <<inst, current, children, jobs, libraryVars>>

\* The session parameters and, for a child, the selection of the child device.
setParameters(d) ==
  /\ At(d, "params")
  /\ \/ Goto(d, "init") /\ UNCHANGED <<current, session>>
     \/ Throw(d) /\ SetSession(d, "none")
  /\ UNCHANGED <<inst, children, jobs, libraryVars>>

\* The next child of childDevices_, or the end of the constructor.
NextChild(d) ==
  IF current[d] < children[d]
    THEN Goto(d, "alloc") /\ current' = [current EXCEPT ![d] = @ + 1]
    ELSE Goto(d, "alive") /\ current' = [current EXCEPT ![d] = 0]

sessionInit(d) ==
  /\ At(d, "init")
  /\ \/ /\ SetSession(d, "initialized")
        /\ IF current[d] = 0 THEN Goto(d, "query") /\ UNCHANGED current
                             ELSE NextChild(d)
     \/ Throw(d) /\ SetSession(d, "none")
  /\ UNCHANGED <<inst, children, jobs, libraryVars>>

\* QDMI_DEVICE_PROPERTY_CHILDDEVICES: none (or not supported), some, or an
\* error or a malformed list.
queryChildren(d) ==
  /\ At(d, "query")
  /\ \/ /\ children' = [children EXCEPT ![d] = 0]
        /\ Goto(d, "alive")
        /\ UNCHANGED <<current, session>>
     \/ /\ d \in Parents
        /\ \E n \in Wrappers \ {0} : children' = [children EXCEPT ![d] = n]
        /\ Goto(d, "alloc")
        /\ current' = [current EXCEPT ![d] = 1]
        /\ UNCHANGED session
     \/ Throw(d) /\ SetSession(d, "none") /\ UNCHANGED children
  /\ UNCHANGED <<inst, jobs, libraryVars>>

-----------------------------------------------------------------------------
(* Jobs of a device and of its children.                                   *)

createJob(d, k) ==
  /\ At(d, "alive")
  /\ session[d][k] = "initialized"
  /\ jobs[d][k] < MaxJobs
  /\ jobs' = [jobs EXCEPT ![d][k] = @ + 1]
  /\ UNCHANGED <<pc, inst, current, children, session, libraryVars>>

freeJob(d, k) ==
  /\ At(d, "alive")
  /\ jobs[d][k] > 0
  /\ jobs' = [jobs EXCEPT ![d][k] = @ - 1]
  /\ UNCHANGED <<pc, inst, current, children, session, libraryVars>>

-----------------------------------------------------------------------------
(* The destructor: jobs_, then the children, each with its own jobs_, then *)
(* the session, then library_.                                             *)

destroy(d) ==
  /\ At(d, "alive")
  /\ Goto(d, "unwind")
  /\ UNCHANGED <<inst, current, children, session, jobs, libraryVars>>

\* Mutant: the children are left to the members' destructors, after the
\* device's session has been freed.
Bug_NextWrapper(d, k) ==
  /\ session[d][k] # "none"
  /\ \A l \in Wrappers : session[d][l] # "none" => k <= l

\* The wrapper whose session is freed next: the first child that is left, and
\* the device itself when none is.
NextWrapper(d, k) ==
  /\ session[d][k] # "none"
  /\ \A l \in Wrappers \ {0} : session[d][l] # "none" => k # 0 /\ k <= l

clearJob(d, k) ==
  /\ At(d, "unwind")
  /\ jobs[d][k] > 0
  /\ k = 0 \/ (jobs[d][0] = 0 /\ NextWrapper(d, k))
  /\ jobs' = [jobs EXCEPT ![d][k] = @ - 1]
  /\ UNCHANGED <<pc, inst, current, children, session, libraryVars>>

sessionFree(d, k) ==
  /\ At(d, "unwind")
  /\ jobs[d][0] = 0
  /\ jobs[d][k] = 0
  /\ NextWrapper(d, k)
  /\ session' = [session EXCEPT ![d][k] = "none"]
  /\ Goto(d, IF k = 0 THEN "release" ELSE "unwind")
  /\ UNCHANGED <<inst, current, children, jobs, libraryVars>>

\* Mutant: every device that gives up its share destroys the object.
Bug_release(d) ==
  /\ At(d, "release")
  /\ refs' = [refs EXCEPT ![inst[d]] = @ \ {d}]
  /\ Goto(d, "finalize")
  /\ UNCHANGED <<inst, current, children, session, jobs, lib, code, codeBy, cached, mutex>>

\* The device gives up its share of library_; the last one destroys it.
release(d) ==
  /\ At(d, "release")
  /\ refs' = [refs EXCEPT ![inst[d]] = @ \ {d}]
  /\ IF refs[inst[d]] = {d}
       THEN Goto(d, "finalize") /\ UNCHANGED inst
       ELSE Goto(d, "idle") /\ inst' = [inst EXCEPT ![d] = None]
  /\ UNCHANGED <<current, children, session, jobs, lib, code, codeBy, cached, mutex>>

\* device_finalize, on the code all handles share.
finalize(d) ==
  /\ At(d, "finalize")
  /\ lib' = [lib EXCEPT ![inst[d]] = "finalized"]
  /\ code' = "finalized"
  /\ codeBy' = inst[d]
  /\ Goto(d, "close")
  /\ UNCHANGED <<inst, current, children, session, jobs, refs, cached, mutex>>

\* DL_CLOSE.
close(d) ==
  /\ At(d, "close")
  /\ CloseHandle(inst[d])
  /\ inst' = [inst EXCEPT ![d] = None]
  /\ Goto(d, "idle")
  /\ UNCHANGED <<current, children, session, jobs, refs, cached, mutex>>

-----------------------------------------------------------------------------
Step(d) ==
  \/ reuse(d) \/ load(d) \/ loadFails(d) \/ initialize(d) \/ initializeFails(d)
  \/ sessionAlloc(d) \/ setParameters(d) \/ sessionInit(d) \/ queryChildren(d)
  \/ \E k \in Wrappers : clearJob(d, k) \/ sessionFree(d, k)
  \/ release(d) \/ finalize(d) \/ close(d)

Next == \E d \in Devices :
  \/ lookup(d) \/ destroy(d)
  \/ \E k \in Wrappers : createJob(d, k) \/ freeJob(d, k)
  \/ Step(d)

Spec == Init /\ [][Next]_vars

\* A thread inside a constructor or a destructor keeps running; nothing is
\* assumed about who gets the mutex next.
FairSpec == Spec /\ \A d \in Devices : WF_vars(Step(d))

-----------------------------------------------------------------------------
(* Properties.                                                             *)

\* Part of OneLibraryInUse.
TypeOK ==
  /\ pc \in [Devices -> {"idle", "lookup", "load", "alloc", "params", "init",
                         "query", "alive", "unwind", "release", "finalize",
                         "close"}]
  /\ inst \in [Devices -> Instances \cup {None}]
  /\ current \in [Devices -> Wrappers]
  /\ children \in [Devices -> Wrappers]
  /\ session \in [Devices -> [Wrappers -> {"none", "allocated", "initialized"}]]
  /\ jobs \in [Devices -> [Wrappers -> 0..MaxJobs]]
  /\ lib \in [Instances -> {"none", "open", "initialized", "finalized"}]
  /\ code \in {"unloaded", "loaded", "initialized", "finalized"}
  /\ codeBy \in Instances \cup {None}
  /\ refs \in [Instances -> SUBSET Devices]
  /\ cached \in Instances \cup {None}
  /\ mutex \in Devices \cup {None}

\* The cache makes all devices share one library object: two of them are never
\* in use, whatever the interleaving of openings and of last releases.
OneLibraryInUse ==
  /\ TypeOK
  /\ \A i, j \in Instances : refs[i] # {} /\ refs[j] # {} => i = j

\* What a session of object i runs on: code that i initialized last, and that i
\* has not finalized.  An object that expired before i was made may have, late
\* (~DynamicDeviceLibrary holds no lock): the code does not exclude it.
UsableCode(i) ==
  /\ lib[i] = "initialized"
  /\ \/ code = "initialized" /\ codeBy = i
     \/ code = "finalized" /\ codeBy \in Instances \ {i} /\ refs[codeBy] = {}

\* Everything is freed inside out: a session belongs to a library object that
\* the device still holds; the library it runs on stays loaded and is the one
\* its own object has initialized, finalized at most by an object that had lost
\* its last device before; it outlives the jobs created in it, and the session
\* of a device outlives those of its children.
FreedInsideOut ==
  \A d \in Devices : \A k \in Wrappers :
    /\ session[d][k] # "none" => /\ inst[d] # None
                                 /\ d \in refs[inst[d]]
                                 /\ UsableCode(inst[d])
                                 /\ session[d][0] # "none"
    /\ jobs[d][k] > 0 => session[d][k] = "initialized"

\* Wherever a constructor fails, and after a destructor, nothing is left: no
\* session, no job and no share of a library; and a library object exists only
\* while some device holds, loads or destroys it.
NothingLeaks ==
  /\ \A d \in Devices : pc[d] \in {"idle", "lookup", "release", "finalize", "close"} =>
       \A k \in Wrappers : session[d][k] = "none" /\ jobs[d][k] = 0
  /\ \A d \in Devices : pc[d] \in {"idle", "lookup"} =>
       inst[d] = None /\ \A i \in Instances : d \notin refs[i]
  /\ \A i \in Instances : lib[i] # "none" => \E d \in Devices : inst[d] = i

\* Every constructor and every destructor comes to an end, also when a call
\* into the library fails, and never keeps the mutex.
OpeningEnds ==
  \A d \in Devices :
    (pc[d] \notin {"idle", "alive"} \/ mutex = d)
      ~> (pc[d] \in {"idle", "alive"} /\ mutex # d)

=============================================================================
