----------------------------- MODULE DDSIMDevice -----------------------------
(***************************************************************************)
(* The DDSIM QDMI device (src/src/qdmi/devices/dd/Device.cpp): sessions,   *)
(* jobs, the client threads that call the C interface and the worker       *)
(* thread std::async starts for every submitted job.                       *)
(*                                                                         *)
(* Every access to one of the device's atomics (a job's status_, the       *)
(* device's runningJobs_ and status_) and every access to a job's future   *)
(* is a step of its own, so calls of several threads interleave exactly    *)
(* where the code lets them.  Null arguments and malformed enum values,    *)
(* which only make a call return INVALIDARGUMENT, and the read-only calls  *)
(* (check, the property queries) are left out.                             *)
(***************************************************************************)
EXTENDS Naturals, FiniteSets

CONSTANTS
  Clients,    \* threads calling the device
  Sessions,   \* device sessions that may be allocated
  Jobs,       \* jobs that may be created
  Formats,    \* program formats the clients use
  Contract,   \* what the clients promise (see below)
  NoArg       \* no session, job or client

AllFormats == {"QASM", "BASESTRING", "BASEMODULE",
               "ADAPTIVESTRING", "ADAPTIVEMODULE"}

(***************************************************************************)
(* The clients always honour the life time of handles (no call on a handle *)
(* that is freed or being freed), and the thread that created a job is the *)
(* one that configures, submits and frees it.  Two further promises are    *)
(* parameters:                                                             *)
(*   ownerCancels    only that thread cancels the job;                     *)
(*   jobsFreedFirst  a session is freed after its jobs (what the QDMI      *)
(*                   driver does).                                         *)
(***************************************************************************)
ASSUME ConstantsAssumption ==
  /\ IsFiniteSet(Jobs)
  /\ Formats \subseteq AllFormats
  /\ Contract \subseteq {"ownerCancels", "jobsFreedFirst"}
  /\ NoArg \notin Clients \cup Sessions \cup Jobs
  /\ Sessions \cap Jobs = {}

VARIABLES
  session,      \* session[s]: life and Status of a device session
  sessionsMutex,\* the client that holds Device::sessionsMutex_, or NoArg
  home,         \* home[j]: the session in whose jobs_ map j lives
  owner,        \* owner[j]: the client that created j
  life,         \* life[j]: is the job object allocated
  status,       \* status[j]: the atomic status_ of job j
  format, program, sampling,   \* the parameters; sampling[j]: numShots_ > 0
  handle,       \* handle[j]: jobHandle_.valid()
  result,       \* result[j]: what the worker left in counts_ / stateVecDD_
  worker,       \* worker[j]: where the job's worker thread is
  runningJobs,  \* Device::runningJobs_
  devStatus,    \* Device::status_
  pc, arg, ret  \* per client: where in which call, on what, last return code

sessionVars == <<session, sessionsMutex>>
paramVars   == <<format, program, sampling>>
jobVars     == <<home, owner, life, status, handle, result>>
deviceVars  == <<runningJobs, devStatus>>
clientVars  == <<pc, arg, ret>>
vars == <<sessionVars, paramVars, jobVars, deviceVars, clientVars, worker>>

JobStatus    == {"CREATED", "SUBMITTED", "RUNNING", "DONE", "FAILED", "CANCELED"}
Finished     == {"DONE", "FAILED", "CANCELED"}
DeviceStatus == {"OFFLINE", "IDLE", "BUSY"}
WorkerPC     == {"none", "increase", "setBusy", "setRunning", "body", "setDone",
                 "setFailed", "decrease", "setIdle", "ended"}
ClientPC     == {"idle", "submitStore", "submitSpawn", "submitAssign",
                 "cancelValid", "cancelWait", "cancelStore", "waitValid",
                 "waitBlock", "waitTimed", "readHistogram", "readState",
                 "freeWait", "freeErase", "sessionFree"}
ReturnCode   == {"NONE", "SUCCESS", "BADSTATE", "INVALIDARGUMENT", "TIMEOUT",
                 "NOTSUPPORTED"}

TextFormats     == {"QASM", "BASESTRING", "ADAPTIVESTRING"}
AdaptiveFormats == {"ADAPTIVESTRING", "ADAPTIVEMODULE"}

Init ==
  /\ session = [s \in Sessions |-> "NONE"]
  /\ sessionsMutex = NoArg
  /\ home = [j \in Jobs |-> NoArg]
  /\ owner = [j \in Jobs |-> NoArg]
  /\ life = [j \in Jobs |-> "none"]
  /\ status = [j \in Jobs |-> "CREATED"]
  /\ format = [j \in Jobs |-> "QASM"]
  /\ program = [j \in Jobs |-> "text"]
  /\ sampling = [j \in Jobs |-> TRUE]
  /\ handle = [j \in Jobs |-> FALSE]
  /\ result = [j \in Jobs |-> "none"]
  /\ worker = [j \in Jobs |-> "none"]
  /\ runningJobs = 0
  /\ devStatus = "OFFLINE"
  /\ pc = [c \in Clients |-> "idle"]
  /\ arg = [c \in Clients |-> NoArg]
  /\ ret = [c \in Clients |-> "NONE"]

-----------------------------------------------------------------------------
(* Calls: one is entered from idle, moves through labels and returns.      *)

Enter(c, x, to) ==
  /\ pc' = [pc EXCEPT ![c] = to]
  /\ arg' = [arg EXCEPT ![c] = x]
  /\ ret' = [ret EXCEPT ![c] = "NONE"]

Goto(c, to) ==
  /\ pc' = [pc EXCEPT ![c] = to]
  /\ UNCHANGED <<arg, ret>>

Return(c, code) ==
  /\ pc' = [pc EXCEPT ![c] = "idle"]
  /\ arg' = [arg EXCEPT ![c] = NoArg]
  /\ ret' = [ret EXCEPT ![c] = code]

JobsOf(s) == {j \in Jobs : home[j] = s /\ life[j] \in {"alive", "destroying"}}

\* A client may start a call on j: the handle is alive and nobody frees it.
MayCall(c, j) ==
  /\ pc[c] = "idle"
  /\ life[j] = "alive"
  /\ session[home[j]] = "INITIALIZED"
  /\ \A d \in Clients : arg[d] = j => pc[d] \notin {"freeWait", "freeErase"}

MayOwn(c, j) == MayCall(c, j) /\ owner[j] = c

-----------------------------------------------------------------------------
(* Sessions.                                                               *)

sessionAlloc(c, s) ==
  /\ pc[c] = "idle"
  /\ session[s] = "NONE"
  /\ sessionsMutex = NoArg
  /\ session' = [session EXCEPT ![s] = "ALLOCATED"]
  /\ Return(c, "SUCCESS")
  /\ UNCHANGED <<sessionsMutex, paramVars, jobVars, deviceVars, worker>>

init(c, s) ==
  /\ pc[c] = "idle"
  /\ \/ /\ session[s] = "ALLOCATED"
        /\ session' = [session EXCEPT ![s] = "INITIALIZED"]
        /\ Return(c, "SUCCESS")
     \/ /\ session[s] = "INITIALIZED"
        /\ Return(c, "BADSTATE")
        /\ UNCHANGED session
  /\ UNCHANGED <<sessionsMutex, paramVars, jobVars, deviceVars, worker>>

\* The destructor of the session runs under sessionsMutex_ and destroys the
\* jobs one after the other.
sessionFree(c, s) ==
  /\ pc[c] = "idle"
  /\ session[s] \in {"ALLOCATED", "INITIALIZED"}
  /\ sessionsMutex = NoArg
  /\ \A d \in Clients : arg[d] \notin JobsOf(s) \cup {s}
  /\ "jobsFreedFirst" \in Contract => JobsOf(s) = {}
  /\ sessionsMutex' = c
  /\ session' = [session EXCEPT ![s] = "DESTROYING"]
  /\ Enter(c, s, "sessionFree")
  /\ UNCHANGED <<paramVars, jobVars, deviceVars, worker>>

\* Members are destroyed in reverse order of declaration: the results, which
\* are declared after the future, go first ...
destroyResults(c, j) ==
  /\ pc[c] = "sessionFree"
  /\ home[j] = arg[c]
  /\ life[j] = "alive"
  /\ \A k \in JobsOf(arg[c]) : life[k] = "alive"
  /\ life' = [life EXCEPT ![j] = "destroying"]
  /\ result' = [result EXCEPT ![j] = "destroyed"]
  /\ UNCHANGED <<sessionVars, paramVars, home, owner, status, handle,
                 deviceVars, worker, clientVars>>

\* Mutant: the future's destructor does not block.
Bug_destroyFuture(c, j) ==
  /\ pc[c] = "sessionFree"
  /\ home[j] = arg[c]
  /\ life[j] = "destroying"
  /\ life' = [life EXCEPT ![j] = "freed"]
  /\ UNCHANGED <<sessionVars, paramVars, home, owner, status, handle, result,
                 deviceVars, worker, clientVars>>

\* ... and the destructor of the future then waits for the worker.
destroyFuture(c, j) ==
  /\ pc[c] = "sessionFree"
  /\ home[j] = arg[c]
  /\ life[j] = "destroying"
  /\ handle[j] => worker[j] = "ended"
  /\ life' = [life EXCEPT ![j] = "freed"]
  /\ UNCHANGED <<sessionVars, paramVars, home, owner, status, handle, result,
                 deviceVars, worker, clientVars>>

sessionFreed(c) ==
  /\ pc[c] = "sessionFree"
  /\ JobsOf(arg[c]) = {}
  /\ session' = [session EXCEPT ![arg[c]] = "FREED"]
  /\ sessionsMutex' = NoArg
  /\ Return(c, "SUCCESS")
  /\ UNCHANGED <<paramVars, jobVars, deviceVars, worker>>

createDeviceJob(c, s, j) ==
  /\ pc[c] = "idle"
  /\ \/ /\ session[s] = "INITIALIZED"
        /\ life[j] = "none"
        /\ life' = [life EXCEPT ![j] = "alive"]
        /\ home' = [home EXCEPT ![j] = s]
        /\ owner' = [owner EXCEPT ![j] = c]
        /\ Return(c, "SUCCESS")
     \/ /\ session[s] = "ALLOCATED"
        /\ Return(c, "BADSTATE")
        /\ UNCHANGED <<life, home, owner>>
  /\ UNCHANGED <<sessionVars, paramVars, status, handle, result, deviceVars,
                 worker>>

-----------------------------------------------------------------------------
(* Job parameters: refused once the job has left CREATED.                  *)

setFormat(c, j, f) ==
  /\ MayOwn(c, j)
  /\ \/ /\ status[j] = "CREATED"
        /\ format' = [format EXCEPT ![j] = f]
        /\ Return(c, "SUCCESS")
     \/ /\ status[j] # "CREATED"
        /\ Return(c, "BADSTATE")
        /\ UNCHANGED format
  /\ UNCHANGED <<sessionVars, program, sampling, jobVars, deviceVars, worker>>

\* The current format decides whether the payload is text, which must end in
\* a null byte, or bytes.
setProgram(c, j, nullTerminated) ==
  /\ MayOwn(c, j)
  /\ \/ /\ status[j] # "CREATED"
        /\ Return(c, "BADSTATE")
        /\ UNCHANGED program
     \/ /\ status[j] = "CREATED"
        /\ format[j] \in TextFormats /\ ~nullTerminated
        /\ Return(c, "INVALIDARGUMENT")
        /\ UNCHANGED program
     \/ /\ status[j] = "CREATED"
        /\ format[j] \in TextFormats => nullTerminated
        /\ program' = [program EXCEPT ![j] =
                         IF format[j] \in TextFormats THEN "text" ELSE "bytes"]
        /\ Return(c, "SUCCESS")
  /\ UNCHANGED <<sessionVars, format, sampling, jobVars, deviceVars, worker>>

setShots(c, j, positive) ==
  /\ MayOwn(c, j)
  /\ \/ /\ status[j] = "CREATED"
        /\ sampling' = [sampling EXCEPT ![j] = positive]
        /\ Return(c, "SUCCESS")
     \/ /\ status[j] # "CREATED"
        /\ Return(c, "BADSTATE")
        /\ UNCHANGED sampling
  /\ UNCHANGED <<sessionVars, format, program, jobVars, deviceVars, worker>>

-----------------------------------------------------------------------------
(* submit: load status_, store SUBMITTED, dispatch, start the worker and   *)
(* only then store its future in jobHandle_.                               *)

submitLoad(c, j) ==
  /\ MayOwn(c, j)
  /\ \/ status[j] = "CREATED" /\ Enter(c, j, "submitStore")
     \/ status[j] # "CREATED" /\ Return(c, "BADSTATE")
  /\ UNCHANGED <<sessionVars, paramVars, jobVars, deviceVars, worker>>

\* State extraction is refused for adaptive QIR after SUBMITTED is stored.
submitStore(c, j) ==
  /\ pc[c] = "submitStore" /\ arg[c] = j
  /\ status' = [status EXCEPT ![j] = "SUBMITTED"]
  /\ IF format[j] \in AdaptiveFormats /\ ~sampling[j]
       THEN Return(c, "NOTSUPPORTED")
       ELSE Goto(c, "submitSpawn")
  /\ UNCHANGED <<sessionVars, paramVars, home, owner, life, handle, result,
                 deviceVars, worker>>

submitSpawn(c, j) ==
  /\ pc[c] = "submitSpawn" /\ arg[c] = j
  /\ worker' = [worker EXCEPT ![j] = "increase"]
  /\ Goto(c, "submitAssign")
  /\ UNCHANGED <<sessionVars, paramVars, jobVars, deviceVars>>

submitAssign(c, j) ==
  /\ pc[c] = "submitAssign" /\ arg[c] = j
  /\ handle' = [handle EXCEPT ![j] = TRUE]
  /\ Return(c, "SUCCESS")
  /\ UNCHANGED <<sessionVars, paramVars, home, owner, life, status, result,
                 deviceVars, worker>>

-----------------------------------------------------------------------------
(* The worker thread of job j (submitProgramAsync).                        *)

\* increaseRunningJobs: the counter and the status are two atomics.
increase(j) ==
  /\ worker[j] = "increase"
  /\ runningJobs' = runningJobs + 1
  /\ worker' = [worker EXCEPT ![j] =
                  IF runningJobs = 0 THEN "setBusy" ELSE "setRunning"]
  /\ UNCHANGED <<sessionVars, paramVars, jobVars, devStatus, clientVars>>

setBusy(j) ==
  /\ worker[j] = "setBusy"
  /\ devStatus' = "BUSY"
  /\ worker' = [worker EXCEPT ![j] = "setRunning"]
  /\ UNCHANGED <<sessionVars, paramVars, jobVars, runningJobs, clientVars>>

setRunning(j) ==
  /\ worker[j] = "setRunning"
  /\ status' = [status EXCEPT ![j] = "RUNNING"]
  /\ worker' = [worker EXCEPT ![j] = "body"]
  /\ UNCHANGED <<sessionVars, paramVars, home, owner, life, handle, result,
                 deviceVars, clientVars>>

\* The body parses and simulates the program, may throw, and throws always
\* when an OpenQASM job holds bytes (std::get on the variant).
body(j) ==
  /\ worker[j] = "body"
  /\ \/ /\ ~(format[j] = "QASM" /\ program[j] = "bytes")
        /\ result' = [result EXCEPT ![j] =
                        CASE life[j] = "destroying" -> "destroyed"
                          [] sampling[j]            -> "counts"
                          [] OTHER                  -> "state"]
        /\ worker' = [worker EXCEPT ![j] = "setDone"]
     \/ /\ worker' = [worker EXCEPT ![j] = "setFailed"]
        /\ UNCHANGED result
  /\ UNCHANGED <<sessionVars, paramVars, home, owner, life, status, handle,
                 deviceVars, clientVars>>

\* Mutant: a failing body leaves the worker without decreasing the counter.
Bug_setFinishedNoDecrease(j) ==
  /\ \/ /\ worker[j] = "setDone"
        /\ status' = [status EXCEPT ![j] = "DONE"]
        /\ worker' = [worker EXCEPT ![j] = "decrease"]
     \/ /\ worker[j] = "setFailed"
        /\ status' = [status EXCEPT ![j] = "FAILED"]
        /\ worker' = [worker EXCEPT ![j] = "ended"]
  /\ UNCHANGED <<sessionVars, paramVars, home, owner, life, handle, result,
                 deviceVars, clientVars>>

\* Mutant: a failing body does not report FAILED.
Bug_setFinishedSilent(j) ==
  /\ \/ /\ worker[j] = "setDone"
        /\ status' = [status EXCEPT ![j] = "DONE"]
     \/ /\ worker[j] = "setFailed"
        /\ UNCHANGED status
  /\ worker' = [worker EXCEPT ![j] = "decrease"]
  /\ UNCHANGED <<sessionVars, paramVars, home, owner, life, handle, result,
                 deviceVars, clientVars>>

setFinished(j) ==
  /\ \/ /\ worker[j] = "setDone"
        /\ status' = [status EXCEPT ![j] = "DONE"]
     \/ /\ worker[j] = "setFailed"
        /\ status' = [status EXCEPT ![j] = "FAILED"]
  /\ worker' = [worker EXCEPT ![j] = "decrease"]
  /\ UNCHANGED <<sessionVars, paramVars, home, owner, life, handle, result,
                 deviceVars, clientVars>>

\* decreaseRunningJobs.
decrease(j) ==
  /\ worker[j] = "decrease"
  /\ runningJobs' = runningJobs - 1
  /\ worker' = [worker EXCEPT ![j] =
                  IF runningJobs = 1 THEN "setIdle" ELSE "ended"]
  /\ UNCHANGED <<sessionVars, paramVars, jobVars, devStatus, clientVars>>

setIdle(j) ==
  /\ worker[j] = "setIdle"
  /\ devStatus' = "IDLE"
  /\ worker' = [worker EXCEPT ![j] = "ended"]
  /\ UNCHANGED <<sessionVars, paramVars, jobVars, runningJobs, clientVars>>

-----------------------------------------------------------------------------
(* cancel waits for a started worker and then overwrites the status.       *)

cancelLoad(c, j) ==
  /\ MayCall(c, j)
  /\ "ownerCancels" \in Contract => owner[j] = c
  /\ \/ status[j] \in {"DONE", "FAILED"} /\ Return(c, "INVALIDARGUMENT")
     \/ status[j] = "CREATED" /\ Enter(c, j, "cancelStore")
     \/ /\ status[j] \in {"SUBMITTED", "RUNNING", "CANCELED"}
        /\ Enter(c, j, "cancelValid")
  /\ UNCHANGED <<sessionVars, paramVars, jobVars, deviceVars, worker>>

\* Mutant: a running worker is not waited for.
Bug_cancelValid(c, j) ==
  /\ pc[c] = "cancelValid" /\ arg[c] = j
  /\ Goto(c, "cancelStore")
  /\ UNCHANGED <<sessionVars, paramVars, jobVars, deviceVars, worker>>

cancelValid(c, j) ==
  /\ pc[c] = "cancelValid" /\ arg[c] = j
  /\ Goto(c, IF handle[j] THEN "cancelWait" ELSE "cancelStore")
  /\ UNCHANGED <<sessionVars, paramVars, jobVars, deviceVars, worker>>

cancelWait(c, j) ==
  /\ pc[c] = "cancelWait" /\ arg[c] = j
  /\ worker[j] = "ended"
  /\ Goto(c, "cancelStore")
  /\ UNCHANGED <<sessionVars, paramVars, jobVars, deviceVars, worker>>

cancelStore(c, j) ==
  /\ pc[c] = "cancelStore" /\ arg[c] = j
  /\ status' = [status EXCEPT ![j] = "CANCELED"]
  /\ Return(c, "SUCCESS")
  /\ UNCHANGED <<sessionVars, paramVars, home, owner, life, handle, result,
                 deviceVars, worker>>

-----------------------------------------------------------------------------
(* wait, with or without a timeout.                                        *)

waitLoad(c, j) ==
  /\ MayCall(c, j)
  /\ \/ status[j] \in Finished /\ Return(c, "SUCCESS")
     \/ status[j] = "CREATED" /\ Return(c, "BADSTATE")
     \/ status[j] \in {"SUBMITTED", "RUNNING"} /\ Enter(c, j, "waitValid")
  /\ UNCHANGED <<sessionVars, paramVars, jobVars, deviceVars, worker>>

waitValid(c, j) ==
  /\ pc[c] = "waitValid" /\ arg[c] = j
  /\ \/ handle[j] /\ \E to \in {"waitBlock", "waitTimed"} : Goto(c, to)
     \/ ~handle[j] /\ Return(c, "BADSTATE")
  /\ UNCHANGED <<sessionVars, paramVars, jobVars, deviceVars, worker>>

\* Mutant: a timeout is reported as success.
Bug_waitReturn(c, j) ==
  /\ pc[c] \in {"waitBlock", "waitTimed"} /\ arg[c] = j
  /\ pc[c] = "waitBlock" => worker[j] = "ended"
  /\ Return(c, "SUCCESS")
  /\ UNCHANGED <<sessionVars, paramVars, jobVars, deviceVars, worker>>

waitReturn(c, j) ==
  /\ pc[c] \in {"waitBlock", "waitTimed"} /\ arg[c] = j
  /\ worker[j] = "ended"
  /\ Return(c, "SUCCESS")
  /\ UNCHANGED <<sessionVars, paramVars, jobVars, deviceVars, worker>>

waitTimeout(c, j) ==
  /\ pc[c] = "waitTimed" /\ arg[c] = j
  /\ worker[j] # "ended"
  /\ Return(c, "TIMEOUT")
  /\ UNCHANGED <<sessionVars, paramVars, jobVars, deviceVars, worker>>

-----------------------------------------------------------------------------
(* getResults: histogram or state, checked against the number of shots.    *)

\* Mutant: results of any finished job are handed out.
Bug_getResults(c, j, read) ==
  /\ MayCall(c, j)
  /\ \/ status[j] \notin Finished /\ Return(c, "BADSTATE")
     \/ /\ status[j] \in Finished
        /\ IF (read = "readHistogram") = sampling[j]
             THEN Enter(c, j, read)
             ELSE Return(c, "INVALIDARGUMENT")
  /\ UNCHANGED <<sessionVars, paramVars, jobVars, deviceVars, worker>>

getResults(c, j, read) ==
  /\ MayCall(c, j)
  /\ \/ status[j] # "DONE" /\ Return(c, "BADSTATE")
     \/ /\ status[j] = "DONE"
        /\ IF (read = "readHistogram") = sampling[j]
             THEN Enter(c, j, read)
             ELSE Return(c, "INVALIDARGUMENT")
  /\ UNCHANGED <<sessionVars, paramVars, jobVars, deviceVars, worker>>

readResults(c, j) ==
  /\ pc[c] \in {"readHistogram", "readState"} /\ arg[c] = j
  /\ Return(c, "SUCCESS")
  /\ UNCHANGED <<sessionVars, paramVars, jobVars, deviceVars, worker>>

-----------------------------------------------------------------------------
(* free waits for the worker before the session erases the job.            *)

\* Mutant: the job is erased without waiting for the worker.
Bug_freeNoWait(c, j) ==
  /\ MayOwn(c, j)
  /\ \A d \in Clients : arg[d] # j
  /\ Enter(c, j, "freeErase")
  /\ UNCHANGED <<sessionVars, paramVars, jobVars, deviceVars, worker>>

\* Mutant: the future is waited for even if no worker was ever started.
Bug_freeAlwaysWaits(c, j) ==
  /\ MayOwn(c, j)
  /\ \A d \in Clients : arg[d] # j
  /\ Enter(c, j, "freeWait")
  /\ UNCHANGED <<sessionVars, paramVars, jobVars, deviceVars, worker>>

free(c, j) ==
  /\ MayOwn(c, j)
  /\ \A d \in Clients : arg[d] # j
  /\ Enter(c, j, IF handle[j] THEN "freeWait" ELSE "freeErase")
  /\ UNCHANGED <<sessionVars, paramVars, jobVars, deviceVars, worker>>

freeWait(c, j) ==
  /\ pc[c] = "freeWait" /\ arg[c] = j
  /\ worker[j] = "ended"
  /\ Goto(c, "freeErase")
  /\ UNCHANGED <<sessionVars, paramVars, jobVars, deviceVars, worker>>

freeErase(c, j) ==
  /\ pc[c] = "freeErase" /\ arg[c] = j
  /\ life' = [life EXCEPT ![j] = "freed"]
  /\ result' = [result EXCEPT ![j] = "destroyed"]
  /\ Return(c, "SUCCESS")
  /\ UNCHANGED <<sessionVars, paramVars, home, owner, status, handle,
                 deviceVars, worker>>

-----------------------------------------------------------------------------
Worker(j) ==
  \/ increase(j) \/ setBusy(j) \/ setRunning(j) \/ body(j)
  \/ setFinished(j) \/ decrease(j) \/ setIdle(j)

\* Steps of a call that has been entered.
Continue(c, j) ==
  \/ submitStore(c, j) \/ submitSpawn(c, j) \/ submitAssign(c, j)
  \/ cancelValid(c, j) \/ cancelWait(c, j) \/ cancelStore(c, j)
  \/ waitValid(c, j) \/ waitReturn(c, j) \/ waitTimeout(c, j)
  \/ readResults(c, j)
  \/ freeWait(c, j) \/ freeErase(c, j)
  \/ destroyResults(c, j) \/ destroyFuture(c, j)

\* Calls that a client may make on a job.
Call(c, j) ==
  \/ \E f \in Formats : setFormat(c, j, f)
  \/ \E nullTerminated \in BOOLEAN : setProgram(c, j, nullTerminated)
  \/ \E positive \in BOOLEAN : setShots(c, j, positive)
  \/ submitLoad(c, j)
  \/ cancelLoad(c, j)
  \/ waitLoad(c, j)
  \/ \E read \in {"readHistogram", "readState"} : getResults(c, j, read)
  \/ free(c, j)

SessionCall(c, s) ==
  \/ sessionAlloc(c, s)
  \/ init(c, s)
  \/ sessionFree(c, s)
  \/ \E j \in Jobs : createDeviceJob(c, s, j)

Next ==
  \/ \E j \in Jobs : Worker(j)
  \/ \E c \in Clients : sessionFreed(c)
  \/ \E c \in Clients, j \in Jobs : Continue(c, j) \/ Call(c, j)
  \/ \E c \in Clients, s \in Sessions : SessionCall(c, s)

Spec == Init /\ [][Next]_vars

\* The operating system schedules every started thread; a client need not
\* make another call, but a call it has made runs on.
Fairness ==
  /\ \A j \in Jobs : WF_vars(Worker(j))
  /\ \A c \in Clients :
       WF_vars(sessionFreed(c) \/ \E j \in Jobs : Continue(c, j))

FairSpec == Spec /\ Fairness

-----------------------------------------------------------------------------
(* Properties.                                                             *)

TypeOK ==
  /\ session \in [Sessions -> {"NONE", "ALLOCATED", "INITIALIZED",
                               "DESTROYING", "FREED"}]
  /\ sessionsMutex \in Clients \cup {NoArg}
  /\ home \in [Jobs -> Sessions \cup {NoArg}]
  /\ owner \in [Jobs -> Clients \cup {NoArg}]
  /\ life \in [Jobs -> {"none", "alive", "destroying", "freed"}]
  /\ status \in [Jobs -> JobStatus]
  /\ format \in [Jobs -> AllFormats]
  /\ program \in [Jobs -> {"text", "bytes"}]
  /\ sampling \in [Jobs -> BOOLEAN]
  /\ handle \in [Jobs -> BOOLEAN]
  /\ result \in [Jobs -> {"none", "counts", "state", "destroyed"}]
  /\ worker \in [Jobs -> WorkerPC]
  /\ runningJobs \in Nat
  /\ devStatus \in DeviceStatus
  /\ pc \in [Clients -> ClientPC]
  /\ arg \in [Clients -> Sessions \cup Jobs \cup {NoArg}]
  /\ ret \in [Clients -> ReturnCode]

\* Workers between their fetch_add and their fetch_sub.
Counted == {j \in Jobs : worker[j] \in {"setBusy", "setRunning", "body",
                                        "setDone", "setFailed", "decrease"}}

\* The atomic counter agrees with the workers, whichever way they end: a
\* worker that fails, or whose job was cancelled under it, leaves it too.
RunningJobsExact == runningJobs = Cardinality(Counted)

\* The device never stays BUSY: when it reports BUSY, some worker is counted
\* or is about to store IDLE, in every interleaving of the two-step updates
\* of increaseRunningJobs and decreaseRunningJobs.
BusyOnlyWithWork ==
  devStatus = "BUSY" => \E j \in Jobs : j \in Counted \/ worker[j] = "setIdle"

\* A client that getResults let through finds the kind of result it asked for
\* completely written, however status_ was changed by the others meanwhile.
ReadersFindResults ==
  \A c \in Clients, j \in Jobs :
    arg[c] = j =>
      /\ pc[c] = "readHistogram" => result[j] = "counts"
      /\ pc[c] = "readState" => result[j] = "state"

\* State extraction strips measurements, which only preserves the meaning of
\* base-profile programs: no adaptive program is run that way, although the
\* format, the program and the shots are set one by one and in any order.
NoAdaptiveExtraction ==
  \A j \in Jobs :
    /\ worker[j] # "none" /\ ~sampling[j] => format[j] \notin AdaptiveFormats
    /\ result[j] = "state" => format[j] \notin AdaptiveFormats

\* A job object disappears only when no worker uses it any more.
FreedAfterWorker ==
  \A j \in Jobs : life[j] = "freed" => worker[j] \in {"none", "ended"}

\* The fields the worker writes its results to are alive while it runs
\* ("avoid freeing job while the asynchronous operation is still running").
WorkerOwnsResults == \A j \in Jobs : worker[j] = "body" => life[j] = "alive"

\* The refinement: the status a client polls follows the life cycle of an
\* abstract QDMI job.
polled == [j \in Jobs |-> CASE life[j] = "none"  -> "NONE"
                            [] life[j] = "freed" -> "FREED"
                            [] OTHER             -> status[j]]
Job == INSTANCE QDMIJob WITH status <- polled
JobLifeCycle == Job!Spec

\* A wait that blocked and returned SUCCESS leaves a finished job behind.
WaitSound ==
  [][\A c \in Clients, j \in Jobs :
       /\ pc[c] \in {"waitValid", "waitBlock", "waitTimed"} /\ arg[c] = j
       /\ ret'[c] = "SUCCESS"
       => status[j] \in Finished]_vars

\* A job whose worker was started finishes, and no call blocks for ever:
\* wait, cancel, free and the destructor of the session all come back.
StartedFinishes ==
  \A j \in Jobs : (worker[j] # "none") ~> (status[j] \in Finished)
CallsReturn == \A c \in Clients : (pc[c] # "idle") ~> (pc[c] = "idle")
=============================================================================
