-------------------------- MODULE DDSIMDevice_proofs --------------------------
(***************************************************************************)
(* Invariance proofs for the DDSIM device, for every set of clients,       *)
(* sessions, formats, every finite set of jobs and every contract.         *)
(***************************************************************************)
EXTENDS DDSIMDevice, FiniteSetTheorems, TLAPS

\* TypeOK without the counter, whose type is a consequence of RunningJobsExact.
TypeInv ==
  /\ session \in [Sessions -> {"NONE", "ALLOCATED", "INITIALIZED",
                               "DESTROYING", "FREED"}]
  /\ sessionsMutex \in Clients \cup {NoArg}
  /\ home \in [Jobs -> Sessions \cup {NoArg}]
  /\ owner \in [Jobs -> Clients \cup {NoArg}]
  /\ life \in [Jobs -> {"none", "alive", "destroying", "freed"}]
  /\ status \in [Jobs -> JobStatus]
  /\ format \in [Jobs -> AllFormats]
  /\ program \in [Jobs -> {"text", "bytes"}]
  /\ sampling \in [Jobs -> BOOLEAN]
  /\ handle \in [Jobs -> BOOLEAN]
  /\ result \in [Jobs -> {"none", "counts", "state", "destroyed"}]
  /\ worker \in [Jobs -> WorkerPC]
  /\ devStatus \in DeviceStatus
  /\ pc \in [Clients -> ClientPC]
  /\ arg \in [Clients -> Sessions \cup Jobs \cup {NoArg}]
  /\ ret \in [Clients -> ReturnCode]

SubmitPC == {"submitStore", "submitSpawn", "submitAssign"}
CancelPC == {"cancelValid", "cancelWait", "cancelStore"}
FreePC   == {"freeWait", "freeErase"}
OtherPC  == {"waitValid", "waitBlock", "waitTimed", "readHistogram", "readState"}
JobPC    == SubmitPC \cup CancelPC \cup FreePC \cup OtherPC

\* A call keeps its argument alive: nobody frees a job, or the session it
\* lives in, under a client that is in a call on it.
CallInv ==
  /\ \A c \in Clients : pc[c] = "sessionFree" =>
       arg[c] \in Sessions /\ session[arg[c]] = "DESTROYING"
  /\ \A c \in Clients : pc[c] \in JobPC =>
       /\ arg[c] \in Jobs
       /\ life[arg[c]] = "alive"
       /\ session[home[arg[c]]] = "INITIALIZED"
  /\ \A c \in Clients : pc[c] = "idle" => arg[c] = NoArg
  /\ \A c \in Clients : pc[c] \in SubmitPC \cup FreePC => owner[arg[c]] = c
  /\ \A j \in Jobs : life[j] \in {"alive", "destroying"} => home[j] \in Sessions
  /\ \A j \in Jobs : life[j] = "destroying" => session[home[j]] = "DESTROYING"
  /\ \A c, d \in Clients :
       pc[c] \in FreePC /\ pc[d] \in JobPC /\ arg[c] = arg[d] => c = d
  /\ \A c, d \in Clients :
       pc[c] = "sessionFree" /\ pc[d] = "sessionFree" /\ arg[c] = arg[d] => c = d

\* A worker is started once, by the owner, and the future is valid as soon as
\* submit has returned.
HandleInv ==
  /\ \A j \in Jobs : worker[j] = "none" => ~handle[j]
  /\ \A j \in Jobs : life[j] = "none" => worker[j] = "none"
  /\ \A j \in Jobs : worker[j] # "none" /\ ~handle[j] =>
       /\ owner[j] \in Clients
       /\ pc[owner[j]] = "submitAssign"
       /\ arg[owner[j]] = j
  /\ \A c \in Clients : pc[c] \in {"submitStore", "submitSpawn"} =>
       worker[arg[c]] = "none"
  /\ \A c \in Clients : pc[c] = "submitAssign" => worker[arg[c]] # "none"
  /\ \A j \in Jobs : worker[j] # "none" => status[j] # "CREATED"
  /\ \A c \in Clients : pc[c] = "submitSpawn" => status[arg[c]] # "CREATED"
  /\ \A c \in Clients : pc[c] \in {"freeWait", "cancelWait"} => handle[arg[c]]
  /\ \A c \in Clients : pc[c] = "freeErase" => worker[arg[c]] \in {"none", "ended"}

\* The status follows the worker when only the owner cancels.
StatusInv == "ownerCancels" \in Contract =>
  /\ \A c \in Clients : pc[c] \in CancelPC => owner[arg[c]] = c
  /\ \A c \in Clients : pc[c] = "submitStore" => status[arg[c]] = "CREATED"
  /\ \A c \in Clients : pc[c] = "submitSpawn" => status[arg[c]] = "SUBMITTED"
  /\ \A c \in Clients : pc[c] = "cancelStore" => worker[arg[c]] \in {"none", "ended"}
  /\ \A j \in Jobs : worker[j] = "none" =>
       status[j] \in {"CREATED", "SUBMITTED", "CANCELED"}
  /\ \A j \in Jobs : worker[j] \in {"increase", "setBusy", "setRunning"} =>
       status[j] = "SUBMITTED"
  /\ \A j \in Jobs : worker[j] \in {"body", "setDone", "setFailed"} =>
       status[j] = "RUNNING"
  /\ \A j \in Jobs : worker[j] \in {"decrease", "setIdle", "ended"} =>
       status[j] \in Finished
  /\ \A j \in Jobs : life[j] = "none" => status[j] = "CREATED"

Kind(j) == IF sampling[j] THEN "counts" ELSE "state"
PastBody(j) == worker[j] \in {"decrease", "setIdle", "ended"}

\* Results are complete before DONE is stored and parameters are frozen by
\* then, whoever cancels and however the session is freed.
ResultInv ==
  /\ \A j \in Jobs : worker[j] = "setDone" /\ life[j] = "alive" =>
       result[j] = Kind(j)
  /\ \A j \in Jobs : status[j] = "DONE" => PastBody(j)
  /\ \A j \in Jobs : status[j] = "DONE" /\ life[j] = "alive" => result[j] = Kind(j)
  /\ \A c \in Clients : pc[c] \in {"readHistogram", "readState"} =>
       PastBody(arg[c])
  /\ \A c \in Clients : pc[c] = "readHistogram" => result[arg[c]] = "counts"
  /\ \A c \in Clients : pc[c] = "readState" => result[arg[c]] = "state"

\* An adaptive program without shots never gets past submitStore.
ExtractionInv ==
  /\ \A j \in Jobs : worker[j] # "none" /\ ~sampling[j] =>
       format[j] \notin AdaptiveFormats
  /\ \A c \in Clients : pc[c] = "submitSpawn" /\ ~sampling[arg[c]] =>
       format[arg[c]] \notin AdaptiveFormats
  /\ \A j \in Jobs : result[j] = "state" => worker[j] # "none" /\ ~sampling[j]

\* A session whose jobs were freed first has none left to destroy.
AliveInv == "jobsFreedFirst" \in Contract =>
  /\ \A j \in Jobs : life[j] # "destroying"
  /\ \A c \in Clients, j \in Jobs :
       pc[c] = "sessionFree" /\ home[j] = arg[c] => life[j] # "alive"

IInv ==
  /\ TypeInv /\ CallInv /\ HandleInv
  /\ RunningJobsExact /\ BusyOnlyWithWork /\ FreedAfterWorker
  /\ StatusInv /\ ResultInv /\ ExtractionInv /\ AliveInv

-----------------------------------------------------------------------------
\* Every step keeps the types.
LEMMA TypeStep ==
  ASSUME TypeInv, [Next]_vars
  PROVE  TypeInv'
<1> USE ConstantsAssumption DEF TypeInv, JobStatus, DeviceStatus, WorkerPC, ClientPC, ReturnCode, AllFormats,
           vars, sessionVars, paramVars, jobVars, deviceVars, clientVars
<1>1. ASSUME NEW j \in Jobs, increase(j)  PROVE TypeInv'
  BY <1>1 DEF increase
<1>2. ASSUME NEW j \in Jobs, setBusy(j)  PROVE TypeInv'
  BY <1>2 DEF setBusy
<1>3. ASSUME NEW j \in Jobs, setRunning(j)  PROVE TypeInv'
  BY <1>3 DEF setRunning
<1>4. ASSUME NEW j \in Jobs, body(j)  PROVE TypeInv'
  BY <1>4 DEF body
<1>5. ASSUME NEW j \in Jobs, setFinished(j)  PROVE TypeInv'
  BY <1>5 DEF setFinished
<1>6. ASSUME NEW j \in Jobs, decrease(j)  PROVE TypeInv'
  BY <1>6 DEF decrease
<1>7. ASSUME NEW j \in Jobs, setIdle(j)  PROVE TypeInv'
  BY <1>7 DEF setIdle
<1>8. ASSUME NEW c \in Clients, NEW j \in Jobs, submitStore(c, j)
      PROVE  TypeInv'
  BY <1>8 DEF submitStore, Return, Goto
<1>9. ASSUME NEW c \in Clients, NEW j \in Jobs, submitSpawn(c, j)
      PROVE  TypeInv'
  BY <1>9 DEF submitSpawn, Goto
<1>10. ASSUME NEW c \in Clients, NEW j \in Jobs, submitAssign(c, j)
      PROVE  TypeInv'
  BY <1>10 DEF submitAssign, Return
<1>11. ASSUME NEW c \in Clients, NEW j \in Jobs, cancelValid(c, j)
      PROVE  TypeInv'
  BY <1>11 DEF cancelValid, Goto
<1>12. ASSUME NEW c \in Clients, NEW j \in Jobs, cancelWait(c, j)
      PROVE  TypeInv'
  BY <1>12 DEF cancelWait, Goto
<1>13. ASSUME NEW c \in Clients, NEW j \in Jobs, cancelStore(c, j)
      PROVE  TypeInv'
  BY <1>13 DEF cancelStore, Return
<1>14. ASSUME NEW c \in Clients, NEW j \in Jobs, waitValid(c, j)  PROVE TypeInv'
  BY <1>14 DEF waitValid, Goto, Return
<1>15. ASSUME NEW c \in Clients, NEW j \in Jobs, waitReturn(c, j)
      PROVE  TypeInv'
  BY <1>15 DEF waitReturn, Return
<1>16. ASSUME NEW c \in Clients, NEW j \in Jobs, waitTimeout(c, j)
      PROVE  TypeInv'
  BY <1>16 DEF waitTimeout, Return
<1>17. ASSUME NEW c \in Clients, NEW j \in Jobs, readResults(c, j)
      PROVE  TypeInv'
  BY <1>17 DEF readResults, Return
<1>18. ASSUME NEW c \in Clients, NEW j \in Jobs, freeWait(c, j)  PROVE TypeInv'
  BY <1>18 DEF freeWait, Goto
<1>19. ASSUME NEW c \in Clients, NEW j \in Jobs, freeErase(c, j)  PROVE TypeInv'
  BY <1>19 DEF freeErase, Return
<1>20. ASSUME NEW c \in Clients, NEW j \in Jobs, destroyResults(c, j)
      PROVE  TypeInv'
  BY <1>20 DEF destroyResults, JobsOf
<1>21. ASSUME NEW c \in Clients, NEW j \in Jobs, destroyFuture(c, j)
      PROVE  TypeInv'
  BY <1>21 DEF destroyFuture
<1>22. ASSUME NEW c \in Clients, NEW j \in Jobs, NEW f \in Formats, setFormat(c, j, f)
      PROVE  TypeInv'
  BY <1>22 DEF setFormat, MayOwn, MayCall, Return
<1>23. ASSUME NEW c \in Clients, NEW j \in Jobs, NEW n \in BOOLEAN, setProgram(c, j, n)
      PROVE  TypeInv'
  BY <1>23 DEF setProgram, MayOwn, MayCall, Return
<1>24. ASSUME NEW c \in Clients, NEW j \in Jobs, NEW p \in BOOLEAN, setShots(c, j, p)
      PROVE  TypeInv'
  BY <1>24 DEF setShots, MayOwn, MayCall, Return
<1>25. ASSUME NEW c \in Clients, NEW j \in Jobs, submitLoad(c, j)
      PROVE  TypeInv'
  BY <1>25 DEF submitLoad, MayOwn, MayCall, Enter, Return
<1>26. ASSUME NEW c \in Clients, NEW j \in Jobs, cancelLoad(c, j)
      PROVE  TypeInv'
  BY <1>26 DEF cancelLoad, MayCall, Enter, Return
<1>27. ASSUME NEW c \in Clients, NEW j \in Jobs, waitLoad(c, j)  PROVE TypeInv'
  BY <1>27 DEF waitLoad, MayCall, Enter, Return
<1>28. ASSUME NEW c \in Clients, NEW j \in Jobs, NEW r \in {"readHistogram", "readState"}, getResults(c, j, r)
      PROVE  TypeInv'
  BY <1>28 DEF getResults, MayCall, Enter, Return
<1>29. ASSUME NEW c \in Clients, NEW j \in Jobs, free(c, j)  PROVE TypeInv'
  BY <1>29 DEF free, MayOwn, MayCall, Enter
<1>30. ASSUME NEW c \in Clients, sessionFreed(c)  PROVE TypeInv'
  BY <1>30 DEF sessionFreed, Return, JobsOf
<1>31. ASSUME NEW c \in Clients, NEW s \in Sessions, sessionAlloc(c, s)
      PROVE  TypeInv'
  BY <1>31 DEF sessionAlloc, Return
<1>32. ASSUME NEW c \in Clients, NEW s \in Sessions, init(c, s)  PROVE TypeInv'
  BY <1>32 DEF init, Return
<1>33. ASSUME NEW c \in Clients, NEW s \in Sessions, sessionFree(c, s)
      PROVE  TypeInv'
  BY <1>33 DEF sessionFree, Enter, JobsOf
<1>34. ASSUME NEW c \in Clients, NEW s \in Sessions, NEW j \in Jobs, createDeviceJob(c, s, j)
      PROVE  TypeInv'
  BY <1>34 DEF createDeviceJob, Return
<1>35. CASE UNCHANGED vars
  BY <1>35 DEF vars
<1> HIDE DEF TypeInv, JobStatus, DeviceStatus, WorkerPC, ClientPC, ReturnCode, AllFormats,
           vars, sessionVars, paramVars, jobVars, deviceVars, clientVars
<1> QED
  BY <1>1, <1>2, <1>3, <1>4, <1>5, <1>6, <1>7, <1>8, <1>9, <1>10, 
     <1>11, <1>12, <1>13, <1>14, <1>15, <1>16, <1>17, <1>18, <1>19, 
     <1>20, <1>21, <1>22, <1>23, <1>24, <1>25, <1>26, <1>27, <1>28, 
     <1>29, <1>30, <1>31, <1>32, <1>33, <1>34, <1>35
     DEF Next, Worker, Continue, Call, SessionCall

\* Every step respects the life times that the calls rely on.
LEMMA CallStep ==
  ASSUME TypeInv, CallInv, [Next]_vars
  PROVE  CallInv'
<1> USE ConstantsAssumption DEF TypeInv, CallInv, SubmitPC, CancelPC, FreePC, OtherPC, JobPC,
           JobStatus, DeviceStatus, WorkerPC, ClientPC, ReturnCode, AllFormats,
           vars, sessionVars, paramVars, jobVars, deviceVars, clientVars
<1>1. ASSUME NEW j \in Jobs, increase(j)  PROVE CallInv'
  BY <1>1, SMTT(40) DEF increase
<1>2. ASSUME NEW j \in Jobs, setBusy(j)  PROVE CallInv'
  BY <1>2, SMTT(40) DEF setBusy
<1>3. ASSUME NEW j \in Jobs, setRunning(j)  PROVE CallInv'
  BY <1>3, SMTT(40) DEF setRunning
<1>4. ASSUME NEW j \in Jobs, body(j)  PROVE CallInv'
  BY <1>4, SMTT(40) DEF body
<1>5. ASSUME NEW j \in Jobs, setFinished(j)  PROVE CallInv'
  BY <1>5, SMTT(40) DEF setFinished
<1>6. ASSUME NEW j \in Jobs, decrease(j)  PROVE CallInv'
  BY <1>6, SMTT(40) DEF decrease
<1>7. ASSUME NEW j \in Jobs, setIdle(j)  PROVE CallInv'
  BY <1>7, SMTT(40) DEF setIdle
<1>8. ASSUME NEW c \in Clients, NEW j \in Jobs, submitStore(c, j)
      PROVE  CallInv'
  BY <1>8, SMTT(40) DEF submitStore, Return, Goto
<1>9. ASSUME NEW c \in Clients, NEW j \in Jobs, submitSpawn(c, j)
      PROVE  CallInv'
  BY <1>9, SMTT(40) DEF submitSpawn, Goto
<1>10. ASSUME NEW c \in Clients, NEW j \in Jobs, submitAssign(c, j)
      PROVE  CallInv'
  BY <1>10, SMTT(40) DEF submitAssign, Return
<1>11. ASSUME NEW c \in Clients, NEW j \in Jobs, cancelValid(c, j)
      PROVE  CallInv'
  BY <1>11, SMTT(40) DEF cancelValid, Goto
<1>12. ASSUME NEW c \in Clients, NEW j \in Jobs, cancelWait(c, j)
      PROVE  CallInv'
  BY <1>12, SMTT(40) DEF cancelWait, Goto
<1>13. ASSUME NEW c \in Clients, NEW j \in Jobs, cancelStore(c, j)
      PROVE  CallInv'
  BY <1>13, SMTT(40) DEF cancelStore, Return
<1>14. ASSUME NEW c \in Clients, NEW j \in Jobs, waitValid(c, j)  PROVE CallInv'
  BY <1>14, SMTT(40) DEF waitValid, Goto, Return
<1>15. ASSUME NEW c \in Clients, NEW j \in Jobs, waitReturn(c, j)
      PROVE  CallInv'
  BY <1>15, SMTT(40) DEF waitReturn, Return
<1>16. ASSUME NEW c \in Clients, NEW j \in Jobs, waitTimeout(c, j)
      PROVE  CallInv'
  BY <1>16, SMTT(40) DEF waitTimeout, Return
<1>17. ASSUME NEW c \in Clients, NEW j \in Jobs, readResults(c, j)
      PROVE  CallInv'
  BY <1>17, SMTT(40) DEF readResults, Return
<1>18. ASSUME NEW c \in Clients, NEW j \in Jobs, freeWait(c, j)  PROVE CallInv'
  BY <1>18, SMTT(40) DEF freeWait, Goto
<1>19. ASSUME NEW c \in Clients, NEW j \in Jobs, freeErase(c, j)  PROVE CallInv'
  BY <1>19, SMTT(40) DEF freeErase, Return
<1>20. ASSUME NEW c \in Clients, NEW j \in Jobs, destroyResults(c, j)
      PROVE  CallInv'
  BY <1>20, SMTT(40) DEF destroyResults, JobsOf
<1>21. ASSUME NEW c \in Clients, NEW j \in Jobs, destroyFuture(c, j)
      PROVE  CallInv'
  BY <1>21, SMTT(40) DEF destroyFuture
<1>22. ASSUME NEW c \in Clients, NEW j \in Jobs, NEW f \in Formats, setFormat(c, j, f)
      PROVE  CallInv'
  BY <1>22, SMTT(40) DEF setFormat, MayOwn, MayCall, Return
<1>23. ASSUME NEW c \in Clients, NEW j \in Jobs, NEW n \in BOOLEAN, setProgram(c, j, n)
      PROVE  CallInv'
  BY <1>23, SMTT(40) DEF setProgram, MayOwn, MayCall, Return
<1>24. ASSUME NEW c \in Clients, NEW j \in Jobs, NEW p \in BOOLEAN, setShots(c, j, p)
      PROVE  CallInv'
  BY <1>24, SMTT(40) DEF setShots, MayOwn, MayCall, Return
<1>25. ASSUME NEW c \in Clients, NEW j \in Jobs, submitLoad(c, j)
      PROVE  CallInv'
  BY <1>25, SMTT(40) DEF submitLoad, MayOwn, MayCall, Enter, Return
<1>26. ASSUME NEW c \in Clients, NEW j \in Jobs, cancelLoad(c, j)
      PROVE  CallInv'
  BY <1>26, SMTT(40) DEF cancelLoad, MayCall, Enter, Return
<1>27. ASSUME NEW c \in Clients, NEW j \in Jobs, waitLoad(c, j)  PROVE CallInv'
  BY <1>27, SMTT(40) DEF waitLoad, MayCall, Enter, Return
<1>28. ASSUME NEW c \in Clients, NEW j \in Jobs, NEW r \in {"readHistogram", "readState"}, getResults(c, j, r)
      PROVE  CallInv'
  BY <1>28, SMTT(40) DEF getResults, MayCall, Enter, Return
<1>29. ASSUME NEW c \in Clients, NEW j \in Jobs, free(c, j)  PROVE CallInv'
  BY <1>29, SMTT(40) DEF free, MayOwn, MayCall, Enter
<1>30. ASSUME NEW c \in Clients, sessionFreed(c)  PROVE CallInv'
  BY <1>30, SMTT(40) DEF sessionFreed, Return, JobsOf
<1>31. ASSUME NEW c \in Clients, NEW s \in Sessions, sessionAlloc(c, s)
      PROVE  CallInv'
  BY <1>31, SMTT(40) DEF sessionAlloc, Return
<1>32. ASSUME NEW c \in Clients, NEW s \in Sessions, init(c, s)  PROVE CallInv'
  BY <1>32, SMTT(40) DEF init, Return
<1>33. ASSUME NEW c \in Clients, NEW s \in Sessions, sessionFree(c, s)
      PROVE  CallInv'
  BY <1>33, SMTT(40) DEF sessionFree, Enter, JobsOf
<1>34. ASSUME NEW c \in Clients, NEW s \in Sessions, NEW j \in Jobs, createDeviceJob(c, s, j)
      PROVE  CallInv'
  BY <1>34, SMTT(40) DEF createDeviceJob, Return
<1>35. CASE UNCHANGED vars
  BY <1>35 DEF vars
<1> HIDE DEF TypeInv, CallInv, SubmitPC, CancelPC, FreePC, OtherPC, JobPC,
           JobStatus, DeviceStatus, WorkerPC, ClientPC, ReturnCode, AllFormats,
           vars, sessionVars, paramVars, jobVars, deviceVars, clientVars
<1> QED
  BY <1>1, <1>2, <1>3, <1>4, <1>5, <1>6, <1>7, <1>8, <1>9, <1>10, 
     <1>11, <1>12, <1>13, <1>14, <1>15, <1>16, <1>17, <1>18, <1>19, 
     <1>20, <1>21, <1>22, <1>23, <1>24, <1>25, <1>26, <1>27, <1>28, 
     <1>29, <1>30, <1>31, <1>32, <1>33, <1>34, <1>35
     DEF Next, Worker, Continue, Call, SessionCall

\* Every step keeps the worker and its future in agreement.
LEMMA HandleStep ==
  ASSUME TypeInv, CallInv, HandleInv, [Next]_vars
  PROVE  HandleInv'
<1> USE ConstantsAssumption DEF TypeInv, CallInv, HandleInv, SubmitPC, CancelPC, FreePC, OtherPC, JobPC,
           JobStatus, DeviceStatus, WorkerPC, ClientPC, ReturnCode, AllFormats,
           vars, sessionVars, paramVars, jobVars, deviceVars, clientVars
<1>1. ASSUME NEW j \in Jobs, increase(j)  PROVE HandleInv'
  BY <1>1, SMTT(40) DEF increase
<1>2. ASSUME NEW j \in Jobs, setBusy(j)  PROVE HandleInv'
  BY <1>2, SMTT(40) DEF setBusy
<1>3. ASSUME NEW j \in Jobs, setRunning(j)  PROVE HandleInv'
  BY <1>3, SMTT(40) DEF setRunning
<1>4. ASSUME NEW j \in Jobs, body(j)  PROVE HandleInv'
  BY <1>4, SMTT(40) DEF body
<1>5. ASSUME NEW j \in Jobs, setFinished(j)  PROVE HandleInv'
  BY <1>5, SMTT(40) DEF setFinished
<1>6. ASSUME NEW j \in Jobs, decrease(j)  PROVE HandleInv'
  BY <1>6, SMTT(40) DEF decrease
<1>7. ASSUME NEW j \in Jobs, setIdle(j)  PROVE HandleInv'
  BY <1>7, SMTT(40) DEF setIdle
<1>8. ASSUME NEW c \in Clients, NEW j \in Jobs, submitStore(c, j)
      PROVE  HandleInv'
  BY <1>8, SMTT(40) DEF submitStore, Return, Goto
<1>9. ASSUME NEW c \in Clients, NEW j \in Jobs, submitSpawn(c, j)
      PROVE  HandleInv'
  BY <1>9, SMTT(40) DEF submitSpawn, Goto
<1>10. ASSUME NEW c \in Clients, NEW j \in Jobs, submitAssign(c, j)
      PROVE  HandleInv'
  BY <1>10, SMTT(40) DEF submitAssign, Return
<1>11. ASSUME NEW c \in Clients, NEW j \in Jobs, cancelValid(c, j)
      PROVE  HandleInv'
  BY <1>11, SMTT(40) DEF cancelValid, Goto
<1>12. ASSUME NEW c \in Clients, NEW j \in Jobs, cancelWait(c, j)
      PROVE  HandleInv'
  BY <1>12, SMTT(40) DEF cancelWait, Goto
<1>13. ASSUME NEW c \in Clients, NEW j \in Jobs, cancelStore(c, j)
      PROVE  HandleInv'
  BY <1>13, SMTT(40) DEF cancelStore, Return
<1>14. ASSUME NEW c \in Clients, NEW j \in Jobs, waitValid(c, j)
      PROVE  HandleInv'
  BY <1>14, SMTT(40) DEF waitValid, Goto, Return
<1>15. ASSUME NEW c \in Clients, NEW j \in Jobs, waitReturn(c, j)
      PROVE  HandleInv'
  BY <1>15, SMTT(40) DEF waitReturn, Return
<1>16. ASSUME NEW c \in Clients, NEW j \in Jobs, waitTimeout(c, j)
      PROVE  HandleInv'
  BY <1>16, SMTT(40) DEF waitTimeout, Return
<1>17. ASSUME NEW c \in Clients, NEW j \in Jobs, readResults(c, j)
      PROVE  HandleInv'
  BY <1>17, SMTT(40) DEF readResults, Return
<1>18. ASSUME NEW c \in Clients, NEW j \in Jobs, freeWait(c, j)
      PROVE  HandleInv'
  BY <1>18, SMTT(40) DEF freeWait, Goto
<1>19. ASSUME NEW c \in Clients, NEW j \in Jobs, freeErase(c, j)
      PROVE  HandleInv'
  BY <1>19, SMTT(40) DEF freeErase, Return
<1>20. ASSUME NEW c \in Clients, NEW j \in Jobs, destroyResults(c, j)
      PROVE  HandleInv'
  BY <1>20, SMTT(40) DEF destroyResults, JobsOf
<1>21. ASSUME NEW c \in Clients, NEW j \in Jobs, destroyFuture(c, j)
      PROVE  HandleInv'
  BY <1>21, SMTT(40) DEF destroyFuture
<1>22. ASSUME NEW c \in Clients, NEW j \in Jobs, NEW f \in Formats, setFormat(c, j, f)
      PROVE  HandleInv'
  BY <1>22, SMTT(40) DEF setFormat, MayOwn, MayCall, Return
<1>23. ASSUME NEW c \in Clients, NEW j \in Jobs, NEW n \in BOOLEAN, setProgram(c, j, n)
      PROVE  HandleInv'
  BY <1>23, SMTT(40) DEF setProgram, MayOwn, MayCall, Return
<1>24. ASSUME NEW c \in Clients, NEW j \in Jobs, NEW p \in BOOLEAN, setShots(c, j, p)
      PROVE  HandleInv'
  BY <1>24, SMTT(40) DEF setShots, MayOwn, MayCall, Return
<1>25. ASSUME NEW c \in Clients, NEW j \in Jobs, submitLoad(c, j)
      PROVE  HandleInv'
  BY <1>25, SMTT(40) DEF submitLoad, MayOwn, MayCall, Enter, Return
<1>26. ASSUME NEW c \in Clients, NEW j \in Jobs, cancelLoad(c, j)
      PROVE  HandleInv'
  BY <1>26, SMTT(40) DEF cancelLoad, MayCall, Enter, Return
<1>27. ASSUME NEW c \in Clients, NEW j \in Jobs, waitLoad(c, j)
      PROVE  HandleInv'
  BY <1>27, SMTT(40) DEF waitLoad, MayCall, Enter, Return
<1>28. ASSUME NEW c \in Clients, NEW j \in Jobs, NEW r \in {"readHistogram", "readState"}, getResults(c, j, r)
      PROVE  HandleInv'
  BY <1>28, SMTT(40) DEF getResults, MayCall, Enter, Return
<1>29. ASSUME NEW c \in Clients, NEW j \in Jobs, free(c, j)  PROVE HandleInv'
  BY <1>29, SMTT(40) DEF free, MayOwn, MayCall, Enter
<1>30. ASSUME NEW c \in Clients, sessionFreed(c)  PROVE HandleInv'
  BY <1>30, SMTT(40) DEF sessionFreed, Return, JobsOf
<1>31. ASSUME NEW c \in Clients, NEW s \in Sessions, sessionAlloc(c, s)
      PROVE  HandleInv'
  BY <1>31, SMTT(40) DEF sessionAlloc, Return
<1>32. ASSUME NEW c \in Clients, NEW s \in Sessions, init(c, s)
      PROVE  HandleInv'
  BY <1>32, SMTT(40) DEF init, Return
<1>33. ASSUME NEW c \in Clients, NEW s \in Sessions, sessionFree(c, s)
      PROVE  HandleInv'
  BY <1>33, SMTT(40) DEF sessionFree, Enter, JobsOf
<1>34. ASSUME NEW c \in Clients, NEW s \in Sessions, NEW j \in Jobs, createDeviceJob(c, s, j)
      PROVE  HandleInv'
  BY <1>34, SMTT(40) DEF createDeviceJob, Return
<1>35. CASE UNCHANGED vars
  BY <1>35 DEF vars
<1> HIDE DEF TypeInv, CallInv, HandleInv, SubmitPC, CancelPC, FreePC, OtherPC, JobPC,
           JobStatus, DeviceStatus, WorkerPC, ClientPC, ReturnCode, AllFormats,
           vars, sessionVars, paramVars, jobVars, deviceVars, clientVars
<1> QED
  BY <1>1, <1>2, <1>3, <1>4, <1>5, <1>6, <1>7, <1>8, <1>9, <1>10, 
     <1>11, <1>12, <1>13, <1>14, <1>15, <1>16, <1>17, <1>18, <1>19, 
     <1>20, <1>21, <1>22, <1>23, <1>24, <1>25, <1>26, <1>27, <1>28, 
     <1>29, <1>30, <1>31, <1>32, <1>33, <1>34, <1>35
     DEF Next, Worker, Continue, Call, SessionCall

\* Every step frees a job only after its worker.
LEMMA FreedStep ==
  ASSUME TypeInv, CallInv, HandleInv, FreedAfterWorker, [Next]_vars
  PROVE  FreedAfterWorker'
<1> USE ConstantsAssumption DEF TypeInv, CallInv, HandleInv, FreedAfterWorker, SubmitPC, CancelPC, FreePC, OtherPC, JobPC,
           JobStatus, DeviceStatus, WorkerPC, ClientPC, ReturnCode, AllFormats,
           vars, sessionVars, paramVars, jobVars, deviceVars, clientVars
<1>1. ASSUME NEW j \in Jobs, increase(j)  PROVE FreedAfterWorker'
  BY <1>1, SMTT(40) DEF increase
<1>2. ASSUME NEW j \in Jobs, setBusy(j)  PROVE FreedAfterWorker'
  BY <1>2, SMTT(40) DEF setBusy
<1>3. ASSUME NEW j \in Jobs, setRunning(j)  PROVE FreedAfterWorker'
  BY <1>3, SMTT(40) DEF setRunning
<1>4. ASSUME NEW j \in Jobs, body(j)  PROVE FreedAfterWorker'
  BY <1>4, SMTT(40) DEF body
<1>5. ASSUME NEW j \in Jobs, setFinished(j)  PROVE FreedAfterWorker'
  BY <1>5, SMTT(40) DEF setFinished
<1>6. ASSUME NEW j \in Jobs, decrease(j)  PROVE FreedAfterWorker'
  BY <1>6, SMTT(40) DEF decrease
<1>7. ASSUME NEW j \in Jobs, setIdle(j)  PROVE FreedAfterWorker'
  BY <1>7, SMTT(40) DEF setIdle
<1>8. ASSUME NEW c \in Clients, NEW j \in Jobs, submitStore(c, j)
      PROVE  FreedAfterWorker'
  BY <1>8, SMTT(40) DEF submitStore, Return, Goto
<1>9. ASSUME NEW c \in Clients, NEW j \in Jobs, submitSpawn(c, j)
      PROVE  FreedAfterWorker'
  BY <1>9, SMTT(40) DEF submitSpawn, Goto
<1>10. ASSUME NEW c \in Clients, NEW j \in Jobs, submitAssign(c, j)
      PROVE  FreedAfterWorker'
  BY <1>10, SMTT(40) DEF submitAssign, Return
<1>11. ASSUME NEW c \in Clients, NEW j \in Jobs, cancelValid(c, j)
      PROVE  FreedAfterWorker'
  BY <1>11, SMTT(40) DEF cancelValid, Goto
<1>12. ASSUME NEW c \in Clients, NEW j \in Jobs, cancelWait(c, j)
      PROVE  FreedAfterWorker'
  BY <1>12, SMTT(40) DEF cancelWait, Goto
<1>13. ASSUME NEW c \in Clients, NEW j \in Jobs, cancelStore(c, j)
      PROVE  FreedAfterWorker'
  BY <1>13, SMTT(40) DEF cancelStore, Return
<1>14. ASSUME NEW c \in Clients, NEW j \in Jobs, waitValid(c, j)
      PROVE  FreedAfterWorker'
  BY <1>14, SMTT(40) DEF waitValid, Goto, Return
<1>15. ASSUME NEW c \in Clients, NEW j \in Jobs, waitReturn(c, j)
      PROVE  FreedAfterWorker'
  BY <1>15, SMTT(40) DEF waitReturn, Return
<1>16. ASSUME NEW c \in Clients, NEW j \in Jobs, waitTimeout(c, j)
      PROVE  FreedAfterWorker'
  BY <1>16, SMTT(40) DEF waitTimeout, Return
<1>17. ASSUME NEW c \in Clients, NEW j \in Jobs, readResults(c, j)
      PROVE  FreedAfterWorker'
  BY <1>17, SMTT(40) DEF readResults, Return
<1>18. ASSUME NEW c \in Clients, NEW j \in Jobs, freeWait(c, j)
      PROVE  FreedAfterWorker'
  BY <1>18, SMTT(40) DEF freeWait, Goto
<1>19. ASSUME NEW c \in Clients, NEW j \in Jobs, freeErase(c, j)
      PROVE  FreedAfterWorker'
  BY <1>19, SMTT(40) DEF freeErase, Return
<1>20. ASSUME NEW c \in Clients, NEW j \in Jobs, destroyResults(c, j)
      PROVE  FreedAfterWorker'
  BY <1>20, SMTT(40) DEF destroyResults, JobsOf
<1>21. ASSUME NEW c \in Clients, NEW j \in Jobs, destroyFuture(c, j)
      PROVE  FreedAfterWorker'
  BY <1>21, SMTT(40) DEF destroyFuture
<1>22. ASSUME NEW c \in Clients, NEW j \in Jobs, NEW f \in Formats, setFormat(c, j, f)
      PROVE  FreedAfterWorker'
  BY <1>22, SMTT(40) DEF setFormat, MayOwn, MayCall, Return
<1>23. ASSUME NEW c \in Clients, NEW j \in Jobs, NEW n \in BOOLEAN, setProgram(c, j, n)
      PROVE  FreedAfterWorker'
  BY <1>23, SMTT(40) DEF setProgram, MayOwn, MayCall, Return
<1>24. ASSUME NEW c \in Clients, NEW j \in Jobs, NEW p \in BOOLEAN, setShots(c, j, p)
      PROVE  FreedAfterWorker'
  BY <1>24, SMTT(40) DEF setShots, MayOwn, MayCall, Return
<1>25. ASSUME NEW c \in Clients, NEW j \in Jobs, submitLoad(c, j)
      PROVE  FreedAfterWorker'
  BY <1>25, SMTT(40) DEF submitLoad, MayOwn, MayCall, Enter, Return
<1>26. ASSUME NEW c \in Clients, NEW j \in Jobs, cancelLoad(c, j)
      PROVE  FreedAfterWorker'
  BY <1>26, SMTT(40) DEF cancelLoad, MayCall, Enter, Return
<1>27. ASSUME NEW c \in Clients, NEW j \in Jobs, waitLoad(c, j)
      PROVE  FreedAfterWorker'
  BY <1>27, SMTT(40) DEF waitLoad, MayCall, Enter, Return
<1>28. ASSUME NEW c \in Clients, NEW j \in Jobs, NEW r \in {"readHistogram", "readState"}, getResults(c, j, r)
      PROVE  FreedAfterWorker'
  BY <1>28, SMTT(40) DEF getResults, MayCall, Enter, Return
<1>29. ASSUME NEW c \in Clients, NEW j \in Jobs, free(c, j)
      PROVE  FreedAfterWorker'
  BY <1>29, SMTT(40) DEF free, MayOwn, MayCall, Enter
<1>30. ASSUME NEW c \in Clients, sessionFreed(c)  PROVE FreedAfterWorker'
  BY <1>30, SMTT(40) DEF sessionFreed, Return, JobsOf
<1>31. ASSUME NEW c \in Clients, NEW s \in Sessions, sessionAlloc(c, s)
      PROVE  FreedAfterWorker'
  BY <1>31, SMTT(40) DEF sessionAlloc, Return
<1>32. ASSUME NEW c \in Clients, NEW s \in Sessions, init(c, s)
      PROVE  FreedAfterWorker'
  BY <1>32, SMTT(40) DEF init, Return
<1>33. ASSUME NEW c \in Clients, NEW s \in Sessions, sessionFree(c, s)
      PROVE  FreedAfterWorker'
  BY <1>33, SMTT(40) DEF sessionFree, Enter, JobsOf
<1>34. ASSUME NEW c \in Clients, NEW s \in Sessions, NEW j \in Jobs, createDeviceJob(c, s, j)
      PROVE  FreedAfterWorker'
  BY <1>34, SMTT(40) DEF createDeviceJob, Return
<1>35. CASE UNCHANGED vars
  BY <1>35 DEF vars
<1> HIDE DEF TypeInv, CallInv, HandleInv, FreedAfterWorker, SubmitPC, CancelPC, FreePC, OtherPC, JobPC,
           JobStatus, DeviceStatus, WorkerPC, ClientPC, ReturnCode, AllFormats,
           vars, sessionVars, paramVars, jobVars, deviceVars, clientVars
<1> QED
  BY <1>1, <1>2, <1>3, <1>4, <1>5, <1>6, <1>7, <1>8, <1>9, <1>10, 
     <1>11, <1>12, <1>13, <1>14, <1>15, <1>16, <1>17, <1>18, <1>19, 
     <1>20, <1>21, <1>22, <1>23, <1>24, <1>25, <1>26, <1>27, <1>28, 
     <1>29, <1>30, <1>31, <1>32, <1>33, <1>34, <1>35
     DEF Next, Worker, Continue, Call, SessionCall

\* Every step keeps status and worker in agreement.
LEMMA StatusStep ==
  ASSUME TypeInv, CallInv, HandleInv, StatusInv, [Next]_vars
  PROVE  StatusInv'
<1> USE ConstantsAssumption DEF TypeInv, CallInv, HandleInv, StatusInv, SubmitPC, CancelPC, FreePC, OtherPC, JobPC,
           JobStatus, DeviceStatus, WorkerPC, ClientPC, ReturnCode, AllFormats, Finished,
           vars, sessionVars, paramVars, jobVars, deviceVars, clientVars
<1>1. ASSUME NEW j \in Jobs, increase(j)  PROVE StatusInv'
  BY <1>1, SMTT(40) DEF increase
<1>2. ASSUME NEW j \in Jobs, setBusy(j)  PROVE StatusInv'
  BY <1>2, SMTT(40) DEF setBusy
<1>3. ASSUME NEW j \in Jobs, setRunning(j)  PROVE StatusInv'
  BY <1>3, SMTT(40) DEF setRunning
<1>4. ASSUME NEW j \in Jobs, body(j)  PROVE StatusInv'
  BY <1>4, SMTT(40) DEF body
<1>5. ASSUME NEW j \in Jobs, setFinished(j)  PROVE StatusInv'
  BY <1>5, SMTT(40) DEF setFinished
<1>6. ASSUME NEW j \in Jobs, decrease(j)  PROVE StatusInv'
  BY <1>6, SMTT(40) DEF decrease
<1>7. ASSUME NEW j \in Jobs, setIdle(j)  PROVE StatusInv'
  BY <1>7, SMTT(40) DEF setIdle
<1>8. ASSUME NEW c \in Clients, NEW j \in Jobs, submitStore(c, j)
      PROVE  StatusInv'
  BY <1>8, SMTT(40) DEF submitStore, Return, Goto
<1>9. ASSUME NEW c \in Clients, NEW j \in Jobs, submitSpawn(c, j)
      PROVE  StatusInv'
  BY <1>9, SMTT(40) DEF submitSpawn, Goto
<1>10. ASSUME NEW c \in Clients, NEW j \in Jobs, submitAssign(c, j)
      PROVE  StatusInv'
  BY <1>10, SMTT(40) DEF submitAssign, Return
<1>11. ASSUME NEW c \in Clients, NEW j \in Jobs, cancelValid(c, j)
      PROVE  StatusInv'
  BY <1>11, SMTT(40) DEF cancelValid, Goto
<1>12. ASSUME NEW c \in Clients, NEW j \in Jobs, cancelWait(c, j)
      PROVE  StatusInv'
  BY <1>12, SMTT(40) DEF cancelWait, Goto
<1>13. ASSUME NEW c \in Clients, NEW j \in Jobs, cancelStore(c, j)
      PROVE  StatusInv'
  BY <1>13, SMTT(40) DEF cancelStore, Return
<1>14. ASSUME NEW c \in Clients, NEW j \in Jobs, waitValid(c, j)
      PROVE  StatusInv'
  BY <1>14, SMTT(40) DEF waitValid, Goto, Return
<1>15. ASSUME NEW c \in Clients, NEW j \in Jobs, waitReturn(c, j)
      PROVE  StatusInv'
  BY <1>15, SMTT(40) DEF waitReturn, Return
<1>16. ASSUME NEW c \in Clients, NEW j \in Jobs, waitTimeout(c, j)
      PROVE  StatusInv'
  BY <1>16, SMTT(40) DEF waitTimeout, Return
<1>17. ASSUME NEW c \in Clients, NEW j \in Jobs, readResults(c, j)
      PROVE  StatusInv'
  BY <1>17, SMTT(40) DEF readResults, Return
<1>18. ASSUME NEW c \in Clients, NEW j \in Jobs, freeWait(c, j)
      PROVE  StatusInv'
  BY <1>18, SMTT(40) DEF freeWait, Goto
<1>19. ASSUME NEW c \in Clients, NEW j \in Jobs, freeErase(c, j)
      PROVE  StatusInv'
  BY <1>19, SMTT(40) DEF freeErase, Return
<1>20. ASSUME NEW c \in Clients, NEW j \in Jobs, destroyResults(c, j)
      PROVE  StatusInv'
  BY <1>20, SMTT(40) DEF destroyResults, JobsOf
<1>21. ASSUME NEW c \in Clients, NEW j \in Jobs, destroyFuture(c, j)
      PROVE  StatusInv'
  BY <1>21, SMTT(40) DEF destroyFuture
<1>22. ASSUME NEW c \in Clients, NEW j \in Jobs, NEW f \in Formats, setFormat(c, j, f)
      PROVE  StatusInv'
  BY <1>22, SMTT(40) DEF setFormat, MayOwn, MayCall, Return
<1>23. ASSUME NEW c \in Clients, NEW j \in Jobs, NEW n \in BOOLEAN, setProgram(c, j, n)
      PROVE  StatusInv'
  BY <1>23, SMTT(40) DEF setProgram, MayOwn, MayCall, Return
<1>24. ASSUME NEW c \in Clients, NEW j \in Jobs, NEW p \in BOOLEAN, setShots(c, j, p)
      PROVE  StatusInv'
  BY <1>24, SMTT(40) DEF setShots, MayOwn, MayCall, Return
<1>25. ASSUME NEW c \in Clients, NEW j \in Jobs, submitLoad(c, j)
      PROVE  StatusInv'
  BY <1>25, SMTT(40) DEF submitLoad, MayOwn, MayCall, Enter, Return
<1>26. ASSUME NEW c \in Clients, NEW j \in Jobs, cancelLoad(c, j)
      PROVE  StatusInv'
  BY <1>26, SMTT(40) DEF cancelLoad, MayCall, Enter, Return
<1>27. ASSUME NEW c \in Clients, NEW j \in Jobs, waitLoad(c, j)
      PROVE  StatusInv'
  BY <1>27, SMTT(40) DEF waitLoad, MayCall, Enter, Return
<1>28. ASSUME NEW c \in Clients, NEW j \in Jobs, NEW r \in {"readHistogram", "readState"}, getResults(c, j, r)
      PROVE  StatusInv'
  BY <1>28, SMTT(40) DEF getResults, MayCall, Enter, Return
<1>29. ASSUME NEW c \in Clients, NEW j \in Jobs, free(c, j)  PROVE StatusInv'
  BY <1>29, SMTT(40) DEF free, MayOwn, MayCall, Enter
<1>30. ASSUME NEW c \in Clients, sessionFreed(c)  PROVE StatusInv'
  BY <1>30, SMTT(40) DEF sessionFreed, Return, JobsOf
<1>31. ASSUME NEW c \in Clients, NEW s \in Sessions, sessionAlloc(c, s)
      PROVE  StatusInv'
  BY <1>31, SMTT(40) DEF sessionAlloc, Return
<1>32. ASSUME NEW c \in Clients, NEW s \in Sessions, init(c, s)
      PROVE  StatusInv'
  BY <1>32, SMTT(40) DEF init, Return
<1>33. ASSUME NEW c \in Clients, NEW s \in Sessions, sessionFree(c, s)
      PROVE  StatusInv'
  BY <1>33, SMTT(40) DEF sessionFree, Enter, JobsOf
<1>34. ASSUME NEW c \in Clients, NEW s \in Sessions, NEW j \in Jobs, createDeviceJob(c, s, j)
      PROVE  StatusInv'
  BY <1>34, SMTT(40) DEF createDeviceJob, Return
<1>35. CASE UNCHANGED vars
  BY <1>35 DEF vars
<1> HIDE DEF TypeInv, CallInv, HandleInv, StatusInv, SubmitPC, CancelPC, FreePC, OtherPC, JobPC,
           JobStatus, DeviceStatus, WorkerPC, ClientPC, ReturnCode, AllFormats, Finished,
           vars, sessionVars, paramVars, jobVars, deviceVars, clientVars
<1> QED
  BY <1>1, <1>2, <1>3, <1>4, <1>5, <1>6, <1>7, <1>8, <1>9, <1>10, 
     <1>11, <1>12, <1>13, <1>14, <1>15, <1>16, <1>17, <1>18, <1>19, 
     <1>20, <1>21, <1>22, <1>23, <1>24, <1>25, <1>26, <1>27, <1>28, 
     <1>29, <1>30, <1>31, <1>32, <1>33, <1>34, <1>35
     DEF Next, Worker, Continue, Call, SessionCall

\* Every step keeps the results that readers rely on.
LEMMA ResultStep ==
  ASSUME TypeInv, CallInv, HandleInv, ResultInv, [Next]_vars
  PROVE  ResultInv'
<1> USE ConstantsAssumption DEF TypeInv, CallInv, HandleInv, ResultInv, Kind, PastBody, SubmitPC, CancelPC, FreePC, OtherPC, JobPC,
           JobStatus, DeviceStatus, WorkerPC, ClientPC, ReturnCode, AllFormats, Finished,
           vars, sessionVars, paramVars, jobVars, deviceVars, clientVars
<1>1. ASSUME NEW j \in Jobs, increase(j)  PROVE ResultInv'
  BY <1>1, SMTT(40) DEF increase
<1>2. ASSUME NEW j \in Jobs, setBusy(j)  PROVE ResultInv'
  BY <1>2, SMTT(40) DEF setBusy
<1>3. ASSUME NEW j \in Jobs, setRunning(j)  PROVE ResultInv'
  BY <1>3, SMTT(40) DEF setRunning
<1>4. ASSUME NEW j \in Jobs, body(j)  PROVE ResultInv'
  BY <1>4, SMTT(40) DEF body
<1>5. ASSUME NEW j \in Jobs, setFinished(j)  PROVE ResultInv'
  BY <1>5, SMTT(40) DEF setFinished
<1>6. ASSUME NEW j \in Jobs, decrease(j)  PROVE ResultInv'
  BY <1>6, SMTT(40) DEF decrease
<1>7. ASSUME NEW j \in Jobs, setIdle(j)  PROVE ResultInv'
  BY <1>7, SMTT(40) DEF setIdle
<1>8. ASSUME NEW c \in Clients, NEW j \in Jobs, submitStore(c, j)
      PROVE  ResultInv'
  BY <1>8, SMTT(40) DEF submitStore, Return, Goto
<1>9. ASSUME NEW c \in Clients, NEW j \in Jobs, submitSpawn(c, j)
      PROVE  ResultInv'
  BY <1>9, SMTT(40) DEF submitSpawn, Goto
<1>10. ASSUME NEW c \in Clients, NEW j \in Jobs, submitAssign(c, j)
      PROVE  ResultInv'
  BY <1>10, SMTT(40) DEF submitAssign, Return
<1>11. ASSUME NEW c \in Clients, NEW j \in Jobs, cancelValid(c, j)
      PROVE  ResultInv'
  BY <1>11, SMTT(40) DEF cancelValid, Goto
<1>12. ASSUME NEW c \in Clients, NEW j \in Jobs, cancelWait(c, j)
      PROVE  ResultInv'
  BY <1>12, SMTT(40) DEF cancelWait, Goto
<1>13. ASSUME NEW c \in Clients, NEW j \in Jobs, cancelStore(c, j)
      PROVE  ResultInv'
  BY <1>13, SMTT(40) DEF cancelStore, Return
<1>14. ASSUME NEW c \in Clients, NEW j \in Jobs, waitValid(c, j)
      PROVE  ResultInv'
  BY <1>14, SMTT(40) DEF waitValid, Goto, Return
<1>15. ASSUME NEW c \in Clients, NEW j \in Jobs, waitReturn(c, j)
      PROVE  ResultInv'
  BY <1>15, SMTT(40) DEF waitReturn, Return
<1>16. ASSUME NEW c \in Clients, NEW j \in Jobs, waitTimeout(c, j)
      PROVE  ResultInv'
  BY <1>16, SMTT(40) DEF waitTimeout, Return
<1>17. ASSUME NEW c \in Clients, NEW j \in Jobs, readResults(c, j)
      PROVE  ResultInv'
  BY <1>17, SMTT(40) DEF readResults, Return
<1>18. ASSUME NEW c \in Clients, NEW j \in Jobs, freeWait(c, j)
      PROVE  ResultInv'
  BY <1>18, SMTT(40) DEF freeWait, Goto
<1>19. ASSUME NEW c \in Clients, NEW j \in Jobs, freeErase(c, j)
      PROVE  ResultInv'
  BY <1>19, SMTT(40) DEF freeErase, Return
<1>20. ASSUME NEW c \in Clients, NEW j \in Jobs, destroyResults(c, j)
      PROVE  ResultInv'
  BY <1>20, SMTT(40) DEF destroyResults, JobsOf
<1>21. ASSUME NEW c \in Clients, NEW j \in Jobs, destroyFuture(c, j)
      PROVE  ResultInv'
  BY <1>21, SMTT(40) DEF destroyFuture
<1>22. ASSUME NEW c \in Clients, NEW j \in Jobs, NEW f \in Formats, setFormat(c, j, f)
      PROVE  ResultInv'
  BY <1>22, SMTT(40) DEF setFormat, MayOwn, MayCall, Return
<1>23. ASSUME NEW c \in Clients, NEW j \in Jobs, NEW n \in BOOLEAN, setProgram(c, j, n)
      PROVE  ResultInv'
  BY <1>23, SMTT(40) DEF setProgram, MayOwn, MayCall, Return
<1>24. ASSUME NEW c \in Clients, NEW j \in Jobs, NEW p \in BOOLEAN, setShots(c, j, p)
      PROVE  ResultInv'
  BY <1>24, SMTT(40) DEF setShots, MayOwn, MayCall, Return
<1>25. ASSUME NEW c \in Clients, NEW j \in Jobs, submitLoad(c, j)
      PROVE  ResultInv'
  BY <1>25, SMTT(40) DEF submitLoad, MayOwn, MayCall, Enter, Return
<1>26. ASSUME NEW c \in Clients, NEW j \in Jobs, cancelLoad(c, j)
      PROVE  ResultInv'
  BY <1>26, SMTT(40) DEF cancelLoad, MayCall, Enter, Return
<1>27. ASSUME NEW c \in Clients, NEW j \in Jobs, waitLoad(c, j)
      PROVE  ResultInv'
  BY <1>27, SMTT(40) DEF waitLoad, MayCall, Enter, Return
<1>28. ASSUME NEW c \in Clients, NEW j \in Jobs, NEW r \in {"readHistogram", "readState"}, getResults(c, j, r)
      PROVE  ResultInv'
  BY <1>28, SMTT(40) DEF getResults, MayCall, Enter, Return
<1>29. ASSUME NEW c \in Clients, NEW j \in Jobs, free(c, j)  PROVE ResultInv'
  BY <1>29, SMTT(40) DEF free, MayOwn, MayCall, Enter
<1>30. ASSUME NEW c \in Clients, sessionFreed(c)  PROVE ResultInv'
  BY <1>30, SMTT(40) DEF sessionFreed, Return, JobsOf
<1>31. ASSUME NEW c \in Clients, NEW s \in Sessions, sessionAlloc(c, s)
      PROVE  ResultInv'
  BY <1>31, SMTT(40) DEF sessionAlloc, Return
<1>32. ASSUME NEW c \in Clients, NEW s \in Sessions, init(c, s)
      PROVE  ResultInv'
  BY <1>32, SMTT(40) DEF init, Return
<1>33. ASSUME NEW c \in Clients, NEW s \in Sessions, sessionFree(c, s)
      PROVE  ResultInv'
  BY <1>33, SMTT(40) DEF sessionFree, Enter, JobsOf
<1>34. ASSUME NEW c \in Clients, NEW s \in Sessions, NEW j \in Jobs, createDeviceJob(c, s, j)
      PROVE  ResultInv'
  BY <1>34, SMTT(40) DEF createDeviceJob, Return
<1>35. CASE UNCHANGED vars
  BY <1>35 DEF vars
<1> HIDE DEF TypeInv, CallInv, HandleInv, ResultInv, Kind, PastBody, SubmitPC, CancelPC, FreePC, OtherPC, JobPC,
           JobStatus, DeviceStatus, WorkerPC, ClientPC, ReturnCode, AllFormats, Finished,
           vars, sessionVars, paramVars, jobVars, deviceVars, clientVars
<1> QED
  BY <1>1, <1>2, <1>3, <1>4, <1>5, <1>6, <1>7, <1>8, <1>9, <1>10, 
     <1>11, <1>12, <1>13, <1>14, <1>15, <1>16, <1>17, <1>18, <1>19, 
     <1>20, <1>21, <1>22, <1>23, <1>24, <1>25, <1>26, <1>27, <1>28, 
     <1>29, <1>30, <1>31, <1>32, <1>33, <1>34, <1>35
     DEF Next, Worker, Continue, Call, SessionCall

\* Every step keeps adaptive programs out of state extraction.
LEMMA ExtractionStep ==
  ASSUME TypeInv, CallInv, HandleInv, ExtractionInv, [Next]_vars
  PROVE  ExtractionInv'
<1> USE ConstantsAssumption DEF TypeInv, CallInv, HandleInv, ExtractionInv, AdaptiveFormats, SubmitPC, CancelPC, FreePC, OtherPC, JobPC,
           JobStatus, DeviceStatus, WorkerPC, ClientPC, ReturnCode, AllFormats,
           vars, sessionVars, paramVars, jobVars, deviceVars, clientVars
<1>1. ASSUME NEW j \in Jobs, increase(j)  PROVE ExtractionInv'
  BY <1>1, SMTT(40) DEF increase
<1>2. ASSUME NEW j \in Jobs, setBusy(j)  PROVE ExtractionInv'
  BY <1>2, SMTT(40) DEF setBusy
<1>3. ASSUME NEW j \in Jobs, setRunning(j)  PROVE ExtractionInv'
  BY <1>3, SMTT(40) DEF setRunning
<1>4. ASSUME NEW j \in Jobs, body(j)  PROVE ExtractionInv'
  BY <1>4, SMTT(40) DEF body
<1>5. ASSUME NEW j \in Jobs, setFinished(j)  PROVE ExtractionInv'
  BY <1>5, SMTT(40) DEF setFinished
<1>6. ASSUME NEW j \in Jobs, decrease(j)  PROVE ExtractionInv'
  BY <1>6, SMTT(40) DEF decrease
<1>7. ASSUME NEW j \in Jobs, setIdle(j)  PROVE ExtractionInv'
  BY <1>7, SMTT(40) DEF setIdle
<1>8. ASSUME NEW c \in Clients, NEW j \in Jobs, submitStore(c, j)
      PROVE  ExtractionInv'
  BY <1>8, SMTT(40) DEF submitStore, Return, Goto
<1>9. ASSUME NEW c \in Clients, NEW j \in Jobs, submitSpawn(c, j)
      PROVE  ExtractionInv'
  BY <1>9, SMTT(40) DEF submitSpawn, Goto
<1>10. ASSUME NEW c \in Clients, NEW j \in Jobs, submitAssign(c, j)
      PROVE  ExtractionInv'
  BY <1>10, SMTT(40) DEF submitAssign, Return
<1>11. ASSUME NEW c \in Clients, NEW j \in Jobs, cancelValid(c, j)
      PROVE  ExtractionInv'
  BY <1>11, SMTT(40) DEF cancelValid, Goto
<1>12. ASSUME NEW c \in Clients, NEW j \in Jobs, cancelWait(c, j)
      PROVE  ExtractionInv'
  BY <1>12, SMTT(40) DEF cancelWait, Goto
<1>13. ASSUME NEW c \in Clients, NEW j \in Jobs, cancelStore(c, j)
      PROVE  ExtractionInv'
  BY <1>13, SMTT(40) DEF cancelStore, Return
<1>14. ASSUME NEW c \in Clients, NEW j \in Jobs, waitValid(c, j)
      PROVE  ExtractionInv'
  BY <1>14, SMTT(40) DEF waitValid, Goto, Return
<1>15. ASSUME NEW c \in Clients, NEW j \in Jobs, waitReturn(c, j)
      PROVE  ExtractionInv'
  BY <1>15, SMTT(40) DEF waitReturn, Return
<1>16. ASSUME NEW c \in Clients, NEW j \in Jobs, waitTimeout(c, j)
      PROVE  ExtractionInv'
  BY <1>16, SMTT(40) DEF waitTimeout, Return
<1>17. ASSUME NEW c \in Clients, NEW j \in Jobs, readResults(c, j)
      PROVE  ExtractionInv'
  BY <1>17, SMTT(40) DEF readResults, Return
<1>18. ASSUME NEW c \in Clients, NEW j \in Jobs, freeWait(c, j)
      PROVE  ExtractionInv'
  BY <1>18, SMTT(40) DEF freeWait, Goto
<1>19. ASSUME NEW c \in Clients, NEW j \in Jobs, freeErase(c, j)
      PROVE  ExtractionInv'
  BY <1>19, SMTT(40) DEF freeErase, Return
<1>20. ASSUME NEW c \in Clients, NEW j \in Jobs, destroyResults(c, j)
      PROVE  ExtractionInv'
  BY <1>20, SMTT(40) DEF destroyResults, JobsOf
<1>21. ASSUME NEW c \in Clients, NEW j \in Jobs, destroyFuture(c, j)
      PROVE  ExtractionInv'
  BY <1>21, SMTT(40) DEF destroyFuture
<1>22. ASSUME NEW c \in Clients, NEW j \in Jobs, NEW f \in Formats, setFormat(c, j, f)
      PROVE  ExtractionInv'
  BY <1>22, SMTT(40) DEF setFormat, MayOwn, MayCall, Return
<1>23. ASSUME NEW c \in Clients, NEW j \in Jobs, NEW n \in BOOLEAN, setProgram(c, j, n)
      PROVE  ExtractionInv'
  BY <1>23, SMTT(40) DEF setProgram, MayOwn, MayCall, Return
<1>24. ASSUME NEW c \in Clients, NEW j \in Jobs, NEW p \in BOOLEAN, setShots(c, j, p)
      PROVE  ExtractionInv'
  BY <1>24, SMTT(40) DEF setShots, MayOwn, MayCall, Return
<1>25. ASSUME NEW c \in Clients, NEW j \in Jobs, submitLoad(c, j)
      PROVE  ExtractionInv'
  BY <1>25, SMTT(40) DEF submitLoad, MayOwn, MayCall, Enter, Return
<1>26. ASSUME NEW c \in Clients, NEW j \in Jobs, cancelLoad(c, j)
      PROVE  ExtractionInv'
  BY <1>26, SMTT(40) DEF cancelLoad, MayCall, Enter, Return
<1>27. ASSUME NEW c \in Clients, NEW j \in Jobs, waitLoad(c, j)
      PROVE  ExtractionInv'
  BY <1>27, SMTT(40) DEF waitLoad, MayCall, Enter, Return
<1>28. ASSUME NEW c \in Clients, NEW j \in Jobs, NEW r \in {"readHistogram", "readState"}, getResults(c, j, r)
      PROVE  ExtractionInv'
  BY <1>28, SMTT(40) DEF getResults, MayCall, Enter, Return
<1>29. ASSUME NEW c \in Clients, NEW j \in Jobs, free(c, j)
      PROVE  ExtractionInv'
  BY <1>29, SMTT(40) DEF free, MayOwn, MayCall, Enter
<1>30. ASSUME NEW c \in Clients, sessionFreed(c)  PROVE ExtractionInv'
  BY <1>30, SMTT(40) DEF sessionFreed, Return, JobsOf
<1>31. ASSUME NEW c \in Clients, NEW s \in Sessions, sessionAlloc(c, s)
      PROVE  ExtractionInv'
  BY <1>31, SMTT(40) DEF sessionAlloc, Return
<1>32. ASSUME NEW c \in Clients, NEW s \in Sessions, init(c, s)
      PROVE  ExtractionInv'
  BY <1>32, SMTT(40) DEF init, Return
<1>33. ASSUME NEW c \in Clients, NEW s \in Sessions, sessionFree(c, s)
      PROVE  ExtractionInv'
  BY <1>33, SMTT(40) DEF sessionFree, Enter, JobsOf
<1>34. ASSUME NEW c \in Clients, NEW s \in Sessions, NEW j \in Jobs, createDeviceJob(c, s, j)
      PROVE  ExtractionInv'
  BY <1>34, SMTT(40) DEF createDeviceJob, Return
<1>35. CASE UNCHANGED vars
  BY <1>35 DEF vars
<1> HIDE DEF TypeInv, CallInv, HandleInv, ExtractionInv, AdaptiveFormats, SubmitPC, CancelPC, FreePC, OtherPC, JobPC,
           JobStatus, DeviceStatus, WorkerPC, ClientPC, ReturnCode, AllFormats,
           vars, sessionVars, paramVars, jobVars, deviceVars, clientVars
<1> QED
  BY <1>1, <1>2, <1>3, <1>4, <1>5, <1>6, <1>7, <1>8, <1>9, <1>10, 
     <1>11, <1>12, <1>13, <1>14, <1>15, <1>16, <1>17, <1>18, <1>19, 
     <1>20, <1>21, <1>22, <1>23, <1>24, <1>25, <1>26, <1>27, <1>28, 
     <1>29, <1>30, <1>31, <1>32, <1>33, <1>34, <1>35
     DEF Next, Worker, Continue, Call, SessionCall

\* The counted workers are finitely many, because jobs are.
LEMMA CountedFinite == IsFiniteSet(Counted) /\ Cardinality(Counted) \in Nat
  BY ConstantsAssumption, FS_Subset, FS_CardinalityType DEF Counted

\* Every step keeps runningJobs_ equal to the number of counted workers.
LEMMA CounterStep ==
  ASSUME TypeInv, HandleInv, RunningJobsExact, [Next]_vars
  PROVE  RunningJobsExact'
<1>1. ASSUME NEW j \in Jobs, increase(j)  PROVE RunningJobsExact'
  <2>1. Counted' = Counted \cup {j} /\ j \notin Counted
    BY <1>1 DEF increase, Counted, TypeInv, WorkerPC
  <2>2. Cardinality(Counted \cup {j}) = Cardinality(Counted) + 1
    BY <2>1, CountedFinite, FS_AddElement
  <2> QED
    BY <1>1, <2>1, <2>2 DEF increase, RunningJobsExact
<1>2. ASSUME NEW j \in Jobs, setBusy(j)  PROVE RunningJobsExact'
  BY <1>2 DEF setBusy,
         TypeInv, RunningJobsExact, Counted, WorkerPC, sessionVars, paramVars, jobVars,
         deviceVars, clientVars
<1>3. ASSUME NEW j \in Jobs, setRunning(j)  PROVE RunningJobsExact'
  BY <1>3 DEF setRunning,
         TypeInv, RunningJobsExact, Counted, WorkerPC, sessionVars, paramVars, jobVars,
         deviceVars, clientVars
<1>4. ASSUME NEW j \in Jobs, body(j)  PROVE RunningJobsExact'
  BY <1>4 DEF body,
         TypeInv, RunningJobsExact, Counted, WorkerPC, sessionVars, paramVars, jobVars,
         deviceVars, clientVars
<1>5. ASSUME NEW j \in Jobs, setFinished(j)  PROVE RunningJobsExact'
  BY <1>5 DEF setFinished,
         TypeInv, RunningJobsExact, Counted, WorkerPC, sessionVars, paramVars, jobVars,
         deviceVars, clientVars
<1>6. ASSUME NEW j \in Jobs, decrease(j)  PROVE RunningJobsExact'
  <2>1. Counted' = Counted \ {j} /\ j \in Counted
    BY <1>6 DEF decrease, Counted, TypeInv, WorkerPC
  <2>2. Cardinality(Counted \ {j}) = Cardinality(Counted) - 1
    BY <2>1, CountedFinite, FS_RemoveElement
  <2> QED
    BY <1>6, <2>1, <2>2 DEF decrease, RunningJobsExact
<1>7. ASSUME NEW j \in Jobs, setIdle(j)  PROVE RunningJobsExact'
  BY <1>7 DEF setIdle,
         TypeInv, RunningJobsExact, Counted, WorkerPC, sessionVars, paramVars, jobVars,
         deviceVars, clientVars
<1>8. ASSUME NEW c \in Clients, NEW j \in Jobs, submitStore(c, j)
      PROVE  RunningJobsExact'
  BY <1>8 DEF submitStore, Return, Goto,
         TypeInv, RunningJobsExact, Counted, WorkerPC, sessionVars, paramVars, jobVars,
         deviceVars, clientVars
<1>9. ASSUME NEW c \in Clients, NEW j \in Jobs, submitSpawn(c, j)
      PROVE  RunningJobsExact'
  BY <1>9 DEF submitSpawn, Goto, HandleInv,
         TypeInv, RunningJobsExact, Counted, WorkerPC, sessionVars, paramVars, jobVars,
         deviceVars, clientVars
<1>10. ASSUME NEW c \in Clients, NEW j \in Jobs, submitAssign(c, j)
      PROVE  RunningJobsExact'
  BY <1>10 DEF submitAssign, Return,
         TypeInv, RunningJobsExact, Counted, WorkerPC, sessionVars, paramVars, jobVars,
         deviceVars, clientVars
<1>11. ASSUME NEW c \in Clients, NEW j \in Jobs, cancelValid(c, j)
      PROVE  RunningJobsExact'
  BY <1>11 DEF cancelValid, Goto,
         TypeInv, RunningJobsExact, Counted, WorkerPC, sessionVars, paramVars, jobVars,
         deviceVars, clientVars
<1>12. ASSUME NEW c \in Clients, NEW j \in Jobs, cancelWait(c, j)
      PROVE  RunningJobsExact'
  BY <1>12 DEF cancelWait, Goto,
         TypeInv, RunningJobsExact, Counted, WorkerPC, sessionVars, paramVars, jobVars,
         deviceVars, clientVars
<1>13. ASSUME NEW c \in Clients, NEW j \in Jobs, cancelStore(c, j)
      PROVE  RunningJobsExact'
  BY <1>13 DEF cancelStore, Return,
         TypeInv, RunningJobsExact, Counted, WorkerPC, sessionVars, paramVars, jobVars,
         deviceVars, clientVars
<1>14. ASSUME NEW c \in Clients, NEW j \in Jobs, waitValid(c, j)
      PROVE  RunningJobsExact'
  BY <1>14 DEF waitValid, Goto, Return,
         TypeInv, RunningJobsExact, Counted, WorkerPC, sessionVars, paramVars, jobVars,
         deviceVars, clientVars
<1>15. ASSUME NEW c \in Clients, NEW j \in Jobs, waitReturn(c, j)
      PROVE  RunningJobsExact'
  BY <1>15 DEF waitReturn, Return,
         TypeInv, RunningJobsExact, Counted, WorkerPC, sessionVars, paramVars, jobVars,
         deviceVars, clientVars
<1>16. ASSUME NEW c \in Clients, NEW j \in Jobs, waitTimeout(c, j)
      PROVE  RunningJobsExact'
  BY <1>16 DEF waitTimeout, Return,
         TypeInv, RunningJobsExact, Counted, WorkerPC, sessionVars, paramVars, jobVars,
         deviceVars, clientVars
<1>17. ASSUME NEW c \in Clients, NEW j \in Jobs, readResults(c, j)
      PROVE  RunningJobsExact'
  BY <1>17 DEF readResults, Return,
         TypeInv, RunningJobsExact, Counted, WorkerPC, sessionVars, paramVars, jobVars,
         deviceVars, clientVars
<1>18. ASSUME NEW c \in Clients, NEW j \in Jobs, freeWait(c, j)
      PROVE  RunningJobsExact'
  BY <1>18 DEF freeWait, Goto,
         TypeInv, RunningJobsExact, Counted, WorkerPC, sessionVars, paramVars, jobVars,
         deviceVars, clientVars
<1>19. ASSUME NEW c \in Clients, NEW j \in Jobs, freeErase(c, j)
      PROVE  RunningJobsExact'
  BY <1>19 DEF freeErase, Return,
         TypeInv, RunningJobsExact, Counted, WorkerPC, sessionVars, paramVars, jobVars,
         deviceVars, clientVars
<1>20. ASSUME NEW c \in Clients, NEW j \in Jobs, destroyResults(c, j)
      PROVE  RunningJobsExact'
  BY <1>20 DEF destroyResults, JobsOf,
         TypeInv, RunningJobsExact, Counted, WorkerPC, sessionVars, paramVars, jobVars,
         deviceVars, clientVars
<1>21. ASSUME NEW c \in Clients, NEW j \in Jobs, destroyFuture(c, j)
      PROVE  RunningJobsExact'
  BY <1>21 DEF destroyFuture,
         TypeInv, RunningJobsExact, Counted, WorkerPC, sessionVars, paramVars, jobVars,
         deviceVars, clientVars
<1>22. ASSUME NEW c \in Clients, NEW j \in Jobs, NEW f \in Formats, setFormat(c, j, f)
      PROVE  RunningJobsExact'
  BY <1>22 DEF setFormat, MayOwn, MayCall, Return,
         TypeInv, RunningJobsExact, Counted, WorkerPC, sessionVars, paramVars, jobVars,
         deviceVars, clientVars
<1>23. ASSUME NEW c \in Clients, NEW j \in Jobs, NEW n \in BOOLEAN, setProgram(c, j, n)
      PROVE  RunningJobsExact'
  BY <1>23 DEF setProgram, MayOwn, MayCall, Return,
         TypeInv, RunningJobsExact, Counted, WorkerPC, sessionVars, paramVars, jobVars,
         deviceVars, clientVars
<1>24. ASSUME NEW c \in Clients, NEW j \in Jobs, NEW p \in BOOLEAN, setShots(c, j, p)
      PROVE  RunningJobsExact'
  BY <1>24 DEF setShots, MayOwn, MayCall, Return,
         TypeInv, RunningJobsExact, Counted, WorkerPC, sessionVars, paramVars, jobVars,
         deviceVars, clientVars
<1>25. ASSUME NEW c \in Clients, NEW j \in Jobs, submitLoad(c, j)
      PROVE  RunningJobsExact'
  BY <1>25 DEF submitLoad, MayOwn, MayCall, Enter, Return,
         TypeInv, RunningJobsExact, Counted, WorkerPC, sessionVars, paramVars, jobVars,
         deviceVars, clientVars
<1>26. ASSUME NEW c \in Clients, NEW j \in Jobs, cancelLoad(c, j)
      PROVE  RunningJobsExact'
  BY <1>26 DEF cancelLoad, MayCall, Enter, Return,
         TypeInv, RunningJobsExact, Counted, WorkerPC, sessionVars, paramVars, jobVars,
         deviceVars, clientVars
<1>27. ASSUME NEW c \in Clients, NEW j \in Jobs, waitLoad(c, j)
      PROVE  RunningJobsExact'
  BY <1>27 DEF waitLoad, MayCall, Enter, Return,
         TypeInv, RunningJobsExact, Counted, WorkerPC, sessionVars, paramVars, jobVars,
         deviceVars, clientVars
<1>28. ASSUME NEW c \in Clients, NEW j \in Jobs, NEW r \in {"readHistogram", "readState"}, getResults(c, j, r)
      PROVE  RunningJobsExact'
  BY <1>28 DEF getResults, MayCall, Enter, Return,
         TypeInv, RunningJobsExact, Counted, WorkerPC, sessionVars, paramVars, jobVars,
         deviceVars, clientVars
<1>29. ASSUME NEW c \in Clients, NEW j \in Jobs, free(c, j)
      PROVE  RunningJobsExact'
  BY <1>29 DEF free, MayOwn, MayCall, Enter,
         TypeInv, RunningJobsExact, Counted, WorkerPC, sessionVars, paramVars, jobVars,
         deviceVars, clientVars
<1>30. ASSUME NEW c \in Clients, sessionFreed(c)  PROVE RunningJobsExact'
  BY <1>30 DEF sessionFreed, Return, JobsOf,
         TypeInv, RunningJobsExact, Counted, WorkerPC, sessionVars, paramVars, jobVars,
         deviceVars, clientVars
<1>31. ASSUME NEW c \in Clients, NEW s \in Sessions, sessionAlloc(c, s)
      PROVE  RunningJobsExact'
  BY <1>31 DEF sessionAlloc, Return,
         TypeInv, RunningJobsExact, Counted, WorkerPC, sessionVars, paramVars, jobVars,
         deviceVars, clientVars
<1>32. ASSUME NEW c \in Clients, NEW s \in Sessions, init(c, s)
      PROVE  RunningJobsExact'
  BY <1>32 DEF init, Return,
         TypeInv, RunningJobsExact, Counted, WorkerPC, sessionVars, paramVars, jobVars,
         deviceVars, clientVars
<1>33. ASSUME NEW c \in Clients, NEW s \in Sessions, sessionFree(c, s)
      PROVE  RunningJobsExact'
  BY <1>33 DEF sessionFree, Enter, JobsOf,
         TypeInv, RunningJobsExact, Counted, WorkerPC, sessionVars, paramVars, jobVars,
         deviceVars, clientVars
<1>34. ASSUME NEW c \in Clients, NEW s \in Sessions, NEW j \in Jobs, createDeviceJob(c, s, j)
      PROVE  RunningJobsExact'
  BY <1>34 DEF createDeviceJob, Return,
         TypeInv, RunningJobsExact, Counted, WorkerPC, sessionVars, paramVars, jobVars,
         deviceVars, clientVars
<1>35. CASE UNCHANGED vars
  BY <1>35 DEF vars,
         TypeInv, RunningJobsExact, Counted, WorkerPC, sessionVars, paramVars, jobVars,
         deviceVars, clientVars
<1> QED
  BY <1>1, <1>2, <1>3, <1>4, <1>5, <1>6, <1>7, <1>8, <1>9, <1>10, 
     <1>11, <1>12, <1>13, <1>14, <1>15, <1>16, <1>17, <1>18, <1>19, 
     <1>20, <1>21, <1>22, <1>23, <1>24, <1>25, <1>26, <1>27, <1>28, 
     <1>29, <1>30, <1>31, <1>32, <1>33, <1>34, <1>35
     DEF Next, Worker, Continue, Call, SessionCall

\* Every step keeps a worker behind the status BUSY.
LEMMA BusyStep ==
  ASSUME TypeInv, HandleInv, RunningJobsExact, BusyOnlyWithWork, [Next]_vars
  PROVE  BusyOnlyWithWork'
<1>1. ASSUME NEW j \in Jobs, increase(j)  PROVE BusyOnlyWithWork'
  BY <1>1 DEF increase,
         TypeInv, BusyOnlyWithWork, Counted, WorkerPC, sessionVars, paramVars, jobVars,
         deviceVars, clientVars
<1>2. ASSUME NEW j \in Jobs, setBusy(j)  PROVE BusyOnlyWithWork'
  BY <1>2 DEF setBusy,
         TypeInv, BusyOnlyWithWork, Counted, WorkerPC, sessionVars, paramVars, jobVars,
         deviceVars, clientVars
<1>3. ASSUME NEW j \in Jobs, setRunning(j)  PROVE BusyOnlyWithWork'
  BY <1>3 DEF setRunning,
         TypeInv, BusyOnlyWithWork, Counted, WorkerPC, sessionVars, paramVars, jobVars,
         deviceVars, clientVars
<1>4. ASSUME NEW j \in Jobs, body(j)  PROVE BusyOnlyWithWork'
  BY <1>4 DEF body,
         TypeInv, BusyOnlyWithWork, Counted, WorkerPC, sessionVars, paramVars, jobVars,
         deviceVars, clientVars
<1>5. ASSUME NEW j \in Jobs, setFinished(j)  PROVE BusyOnlyWithWork'
  BY <1>5 DEF setFinished,
         TypeInv, BusyOnlyWithWork, Counted, WorkerPC, sessionVars, paramVars, jobVars,
         deviceVars, clientVars
<1>6. ASSUME NEW j \in Jobs, decrease(j)  PROVE BusyOnlyWithWork'
  <2> SUFFICES ASSUME devStatus' = "BUSY"
               PROVE  \E k \in Jobs : k \in Counted' \/ worker'[k] = "setIdle"
    BY DEF BusyOnlyWithWork
  <2>1. CASE runningJobs = 1
    BY <1>6, <2>1 DEF decrease, TypeInv
  <2>2. CASE runningJobs # 1
    <3>1. Counted' = Counted \ {j} /\ j \in Counted
      BY <1>6, <2>2 DEF decrease, Counted, TypeInv, WorkerPC
    <3>2. Cardinality(Counted \ {j}) # 0
      BY <2>2, <3>1, CountedFinite, FS_RemoveElement DEF RunningJobsExact
    <3>3. Counted \ {j} # {}
      BY <3>2, FS_EmptySet
    <3>4. PICK k \in Counted \ {j} : TRUE
      BY <3>3
    <3> QED
      BY <3>1, <3>4 DEF Counted
  <2> QED
    BY <2>1, <2>2
<1>7. ASSUME NEW j \in Jobs, setIdle(j)  PROVE BusyOnlyWithWork'
  BY <1>7 DEF setIdle,
         TypeInv, BusyOnlyWithWork, Counted, WorkerPC, sessionVars, paramVars, jobVars,
         deviceVars, clientVars
<1>8. ASSUME NEW c \in Clients, NEW j \in Jobs, submitStore(c, j)
      PROVE  BusyOnlyWithWork'
  BY <1>8 DEF submitStore, Return, Goto,
         TypeInv, BusyOnlyWithWork, Counted, WorkerPC, sessionVars, paramVars, jobVars,
         deviceVars, clientVars
<1>9. ASSUME NEW c \in Clients, NEW j \in Jobs, submitSpawn(c, j)
      PROVE  BusyOnlyWithWork'
  BY <1>9 DEF submitSpawn, Goto, HandleInv,
         TypeInv, BusyOnlyWithWork, Counted, WorkerPC, sessionVars, paramVars, jobVars,
         deviceVars, clientVars
<1>10. ASSUME NEW c \in Clients, NEW j \in Jobs, submitAssign(c, j)
      PROVE  BusyOnlyWithWork'
  BY <1>10 DEF submitAssign, Return,
         TypeInv, BusyOnlyWithWork, Counted, WorkerPC, sessionVars, paramVars, jobVars,
         deviceVars, clientVars
<1>11. ASSUME NEW c \in Clients, NEW j \in Jobs, cancelValid(c, j)
      PROVE  BusyOnlyWithWork'
  BY <1>11 DEF cancelValid, Goto,
         TypeInv, BusyOnlyWithWork, Counted, WorkerPC, sessionVars, paramVars, jobVars,
         deviceVars, clientVars
<1>12. ASSUME NEW c \in Clients, NEW j \in Jobs, cancelWait(c, j)
      PROVE  BusyOnlyWithWork'
  BY <1>12 DEF cancelWait, Goto,
         TypeInv, BusyOnlyWithWork, Counted, WorkerPC, sessionVars, paramVars, jobVars,
         deviceVars, clientVars
<1>13. ASSUME NEW c \in Clients, NEW j \in Jobs, cancelStore(c, j)
      PROVE  BusyOnlyWithWork'
  BY <1>13 DEF cancelStore, Return,
         TypeInv, BusyOnlyWithWork, Counted, WorkerPC, sessionVars, paramVars, jobVars,
         deviceVars, clientVars
<1>14. ASSUME NEW c \in Clients, NEW j \in Jobs, waitValid(c, j)
      PROVE  BusyOnlyWithWork'
  BY <1>14 DEF waitValid, Goto, Return,
         TypeInv, BusyOnlyWithWork, Counted, WorkerPC, sessionVars, paramVars, jobVars,
         deviceVars, clientVars
<1>15. ASSUME NEW c \in Clients, NEW j \in Jobs, waitReturn(c, j)
      PROVE  BusyOnlyWithWork'
  BY <1>15 DEF waitReturn, Return,
         TypeInv, BusyOnlyWithWork, Counted, WorkerPC, sessionVars, paramVars, jobVars,
         deviceVars, clientVars
<1>16. ASSUME NEW c \in Clients, NEW j \in Jobs, waitTimeout(c, j)
      PROVE  BusyOnlyWithWork'
  BY <1>16 DEF waitTimeout, Return,
         TypeInv, BusyOnlyWithWork, Counted, WorkerPC, sessionVars, paramVars, jobVars,
         deviceVars, clientVars
<1>17. ASSUME NEW c \in Clients, NEW j \in Jobs, readResults(c, j)
      PROVE  BusyOnlyWithWork'
  BY <1>17 DEF readResults, Return,
         TypeInv, BusyOnlyWithWork, Counted, WorkerPC, sessionVars, paramVars, jobVars,
         deviceVars, clientVars
<1>18. ASSUME NEW c \in Clients, NEW j \in Jobs, freeWait(c, j)
      PROVE  BusyOnlyWithWork'
  BY <1>18 DEF freeWait, Goto,
         TypeInv, BusyOnlyWithWork, Counted, WorkerPC, sessionVars, paramVars, jobVars,
         deviceVars, clientVars
<1>19. ASSUME NEW c \in Clients, NEW j \in Jobs, freeErase(c, j)
      PROVE  BusyOnlyWithWork'
  BY <1>19 DEF freeErase, Return,
         TypeInv, BusyOnlyWithWork, Counted, WorkerPC, sessionVars, paramVars, jobVars,
         deviceVars, clientVars
<1>20. ASSUME NEW c \in Clients, NEW j \in Jobs, destroyResults(c, j)
      PROVE  BusyOnlyWithWork'
  BY <1>20 DEF destroyResults, JobsOf,
         TypeInv, BusyOnlyWithWork, Counted, WorkerPC, sessionVars, paramVars, jobVars,
         deviceVars, clientVars
<1>21. ASSUME NEW c \in Clients, NEW j \in Jobs, destroyFuture(c, j)
      PROVE  BusyOnlyWithWork'
  BY <1>21 DEF destroyFuture,
         TypeInv, BusyOnlyWithWork, Counted, WorkerPC, sessionVars, paramVars, jobVars,
         deviceVars, clientVars
<1>22. ASSUME NEW c \in Clients, NEW j \in Jobs, NEW f \in Formats, setFormat(c, j, f)
      PROVE  BusyOnlyWithWork'
  BY <1>22 DEF setFormat, MayOwn, MayCall, Return,
         TypeInv, BusyOnlyWithWork, Counted, WorkerPC, sessionVars, paramVars, jobVars,
         deviceVars, clientVars
<1>23. ASSUME NEW c \in Clients, NEW j \in Jobs, NEW n \in BOOLEAN, setProgram(c, j, n)
      PROVE  BusyOnlyWithWork'
  BY <1>23 DEF setProgram, MayOwn, MayCall, Return,
         TypeInv, BusyOnlyWithWork, Counted, WorkerPC, sessionVars, paramVars, jobVars,
         deviceVars, clientVars
<1>24. ASSUME NEW c \in Clients, NEW j \in Jobs, NEW p \in BOOLEAN, setShots(c, j, p)
      PROVE  BusyOnlyWithWork'
  BY <1>24 DEF setShots, MayOwn, MayCall, Return,
         TypeInv, BusyOnlyWithWork, Counted, WorkerPC, sessionVars, paramVars, jobVars,
         deviceVars, clientVars
<1>25. ASSUME NEW c \in Clients, NEW j \in Jobs, submitLoad(c, j)
      PROVE  BusyOnlyWithWork'
  BY <1>25 DEF submitLoad, MayOwn, MayCall, Enter, Return,
         TypeInv, BusyOnlyWithWork, Counted, WorkerPC, sessionVars, paramVars, jobVars,
         deviceVars, clientVars
<1>26. ASSUME NEW c \in Clients, NEW j \in Jobs, cancelLoad(c, j)
      PROVE  BusyOnlyWithWork'
  BY <1>26 DEF cancelLoad, MayCall, Enter, Return,
         TypeInv, BusyOnlyWithWork, Counted, WorkerPC, sessionVars, paramVars, jobVars,
         deviceVars, clientVars
<1>27. ASSUME NEW c \in Clients, NEW j \in Jobs, waitLoad(c, j)
      PROVE  BusyOnlyWithWork'
  BY <1>27 DEF waitLoad, MayCall, Enter, Return,
         TypeInv, BusyOnlyWithWork, Counted, WorkerPC, sessionVars, paramVars, jobVars,
         deviceVars, clientVars
<1>28. ASSUME NEW c \in Clients, NEW j \in Jobs, NEW r \in {"readHistogram", "readState"}, getResults(c, j, r)
      PROVE  BusyOnlyWithWork'
  BY <1>28 DEF getResults, MayCall, Enter, Return,
         TypeInv, BusyOnlyWithWork, Counted, WorkerPC, sessionVars, paramVars, jobVars,
         deviceVars, clientVars
<1>29. ASSUME NEW c \in Clients, NEW j \in Jobs, free(c, j)
      PROVE  BusyOnlyWithWork'
  BY <1>29 DEF free, MayOwn, MayCall, Enter,
         TypeInv, BusyOnlyWithWork, Counted, WorkerPC, sessionVars, paramVars, jobVars,
         deviceVars, clientVars
<1>30. ASSUME NEW c \in Clients, sessionFreed(c)  PROVE BusyOnlyWithWork'
  BY <1>30 DEF sessionFreed, Return, JobsOf,
         TypeInv, BusyOnlyWithWork, Counted, WorkerPC, sessionVars, paramVars, jobVars,
         deviceVars, clientVars
<1>31. ASSUME NEW c \in Clients, NEW s \in Sessions, sessionAlloc(c, s)
      PROVE  BusyOnlyWithWork'
  BY <1>31 DEF sessionAlloc, Return,
         TypeInv, BusyOnlyWithWork, Counted, WorkerPC, sessionVars, paramVars, jobVars,
         deviceVars, clientVars
<1>32. ASSUME NEW c \in Clients, NEW s \in Sessions, init(c, s)
      PROVE  BusyOnlyWithWork'
  BY <1>32 DEF init, Return,
         TypeInv, BusyOnlyWithWork, Counted, WorkerPC, sessionVars, paramVars, jobVars,
         deviceVars, clientVars
<1>33. ASSUME NEW c \in Clients, NEW s \in Sessions, sessionFree(c, s)
      PROVE  BusyOnlyWithWork'
  BY <1>33 DEF sessionFree, Enter, JobsOf,
         TypeInv, BusyOnlyWithWork, Counted, WorkerPC, sessionVars, paramVars, jobVars,
         deviceVars, clientVars
<1>34. ASSUME NEW c \in Clients, NEW s \in Sessions, NEW j \in Jobs, createDeviceJob(c, s, j)
      PROVE  BusyOnlyWithWork'
  BY <1>34 DEF createDeviceJob, Return,
         TypeInv, BusyOnlyWithWork, Counted, WorkerPC, sessionVars, paramVars, jobVars,
         deviceVars, clientVars
<1>35. CASE UNCHANGED vars
  BY <1>35 DEF vars,
         TypeInv, BusyOnlyWithWork, Counted, WorkerPC, sessionVars, paramVars, jobVars,
         deviceVars, clientVars
<1> QED
  BY <1>1, <1>2, <1>3, <1>4, <1>5, <1>6, <1>7, <1>8, <1>9, <1>10, 
     <1>11, <1>12, <1>13, <1>14, <1>15, <1>16, <1>17, <1>18, <1>19, 
     <1>20, <1>21, <1>22, <1>23, <1>24, <1>25, <1>26, <1>27, <1>28, 
     <1>29, <1>30, <1>31, <1>32, <1>33, <1>34, <1>35
     DEF Next, Worker, Continue, Call, SessionCall

\* Every step keeps jobs out of the destructor of their session.
LEMMA AliveStep ==
  ASSUME TypeInv, CallInv, AliveInv, [Next]_vars
  PROVE  AliveInv'
<1> USE ConstantsAssumption DEF TypeInv, CallInv, AliveInv, SubmitPC, CancelPC, FreePC, OtherPC, JobPC,
           JobStatus, DeviceStatus, WorkerPC, ClientPC, ReturnCode, AllFormats,
           vars, sessionVars, paramVars, jobVars, deviceVars, clientVars
<1>1. ASSUME NEW j \in Jobs, increase(j)  PROVE AliveInv'
  BY <1>1, SMTT(40) DEF increase
<1>2. ASSUME NEW j \in Jobs, setBusy(j)  PROVE AliveInv'
  BY <1>2, SMTT(40) DEF setBusy
<1>3. ASSUME NEW j \in Jobs, setRunning(j)  PROVE AliveInv'
  BY <1>3, SMTT(40) DEF setRunning
<1>4. ASSUME NEW j \in Jobs, body(j)  PROVE AliveInv'
  BY <1>4, SMTT(40) DEF body
<1>5. ASSUME NEW j \in Jobs, setFinished(j)  PROVE AliveInv'
  BY <1>5, SMTT(40) DEF setFinished
<1>6. ASSUME NEW j \in Jobs, decrease(j)  PROVE AliveInv'
  BY <1>6, SMTT(40) DEF decrease
<1>7. ASSUME NEW j \in Jobs, setIdle(j)  PROVE AliveInv'
  BY <1>7, SMTT(40) DEF setIdle
<1>8. ASSUME NEW c \in Clients, NEW j \in Jobs, submitStore(c, j)
      PROVE  AliveInv'
  BY <1>8, SMTT(40) DEF submitStore, Return, Goto
<1>9. ASSUME NEW c \in Clients, NEW j \in Jobs, submitSpawn(c, j)
      PROVE  AliveInv'
  BY <1>9, SMTT(40) DEF submitSpawn, Goto
<1>10. ASSUME NEW c \in Clients, NEW j \in Jobs, submitAssign(c, j)
      PROVE  AliveInv'
  BY <1>10, SMTT(40) DEF submitAssign, Return
<1>11. ASSUME NEW c \in Clients, NEW j \in Jobs, cancelValid(c, j)
      PROVE  AliveInv'
  BY <1>11, SMTT(40) DEF cancelValid, Goto
<1>12. ASSUME NEW c \in Clients, NEW j \in Jobs, cancelWait(c, j)
      PROVE  AliveInv'
  BY <1>12, SMTT(40) DEF cancelWait, Goto
<1>13. ASSUME NEW c \in Clients, NEW j \in Jobs, cancelStore(c, j)
      PROVE  AliveInv'
  BY <1>13, SMTT(40) DEF cancelStore, Return
<1>14. ASSUME NEW c \in Clients, NEW j \in Jobs, waitValid(c, j)
      PROVE  AliveInv'
  BY <1>14, SMTT(40) DEF waitValid, Goto, Return
<1>15. ASSUME NEW c \in Clients, NEW j \in Jobs, waitReturn(c, j)
      PROVE  AliveInv'
  BY <1>15, SMTT(40) DEF waitReturn, Return
<1>16. ASSUME NEW c \in Clients, NEW j \in Jobs, waitTimeout(c, j)
      PROVE  AliveInv'
  BY <1>16, SMTT(40) DEF waitTimeout, Return
<1>17. ASSUME NEW c \in Clients, NEW j \in Jobs, readResults(c, j)
      PROVE  AliveInv'
  BY <1>17, SMTT(40) DEF readResults, Return
<1>18. ASSUME NEW c \in Clients, NEW j \in Jobs, freeWait(c, j)  PROVE AliveInv'
  BY <1>18, SMTT(40) DEF freeWait, Goto
<1>19. ASSUME NEW c \in Clients, NEW j \in Jobs, freeErase(c, j)
      PROVE  AliveInv'
  BY <1>19, SMTT(40) DEF freeErase, Return
<1>20. ASSUME NEW c \in Clients, NEW j \in Jobs, destroyResults(c, j)
      PROVE  AliveInv'
  BY <1>20, SMTT(40) DEF destroyResults, JobsOf
<1>21. ASSUME NEW c \in Clients, NEW j \in Jobs, destroyFuture(c, j)
      PROVE  AliveInv'
  BY <1>21, SMTT(40) DEF destroyFuture
<1>22. ASSUME NEW c \in Clients, NEW j \in Jobs, NEW f \in Formats, setFormat(c, j, f)
      PROVE  AliveInv'
  BY <1>22, SMTT(40) DEF setFormat, MayOwn, MayCall, Return
<1>23. ASSUME NEW c \in Clients, NEW j \in Jobs, NEW n \in BOOLEAN, setProgram(c, j, n)
      PROVE  AliveInv'
  BY <1>23, SMTT(40) DEF setProgram, MayOwn, MayCall, Return
<1>24. ASSUME NEW c \in Clients, NEW j \in Jobs, NEW p \in BOOLEAN, setShots(c, j, p)
      PROVE  AliveInv'
  BY <1>24, SMTT(40) DEF setShots, MayOwn, MayCall, Return
<1>25. ASSUME NEW c \in Clients, NEW j \in Jobs, submitLoad(c, j)
      PROVE  AliveInv'
  BY <1>25, SMTT(40) DEF submitLoad, MayOwn, MayCall, Enter, Return
<1>26. ASSUME NEW c \in Clients, NEW j \in Jobs, cancelLoad(c, j)
      PROVE  AliveInv'
  BY <1>26, SMTT(40) DEF cancelLoad, MayCall, Enter, Return
<1>27. ASSUME NEW c \in Clients, NEW j \in Jobs, waitLoad(c, j)  PROVE AliveInv'
  BY <1>27, SMTT(40) DEF waitLoad, MayCall, Enter, Return
<1>28. ASSUME NEW c \in Clients, NEW j \in Jobs, NEW r \in {"readHistogram", "readState"}, getResults(c, j, r)
      PROVE  AliveInv'
  BY <1>28, SMTT(40) DEF getResults, MayCall, Enter, Return
<1>29. ASSUME NEW c \in Clients, NEW j \in Jobs, free(c, j)  PROVE AliveInv'
  BY <1>29, SMTT(40) DEF free, MayOwn, MayCall, Enter
<1>30. ASSUME NEW c \in Clients, sessionFreed(c)  PROVE AliveInv'
  BY <1>30, SMTT(40) DEF sessionFreed, Return, JobsOf
<1>31. ASSUME NEW c \in Clients, NEW s \in Sessions, sessionAlloc(c, s)
      PROVE  AliveInv'
  BY <1>31, SMTT(40) DEF sessionAlloc, Return
<1>32. ASSUME NEW c \in Clients, NEW s \in Sessions, init(c, s)  PROVE AliveInv'
  BY <1>32, SMTT(40) DEF init, Return
<1>33. ASSUME NEW c \in Clients, NEW s \in Sessions, sessionFree(c, s)
      PROVE  AliveInv'
  BY <1>33, SMTT(40) DEF sessionFree, Enter, JobsOf
<1>34. ASSUME NEW c \in Clients, NEW s \in Sessions, NEW j \in Jobs, createDeviceJob(c, s, j)
      PROVE  AliveInv'
  BY <1>34, SMTT(40) DEF createDeviceJob, Return
<1>35. CASE UNCHANGED vars
  BY <1>35 DEF vars
<1> HIDE DEF TypeInv, CallInv, AliveInv, SubmitPC, CancelPC, FreePC, OtherPC, JobPC,
           JobStatus, DeviceStatus, WorkerPC, ClientPC, ReturnCode, AllFormats,
           vars, sessionVars, paramVars, jobVars, deviceVars, clientVars
<1> QED
  BY <1>1, <1>2, <1>3, <1>4, <1>5, <1>6, <1>7, <1>8, <1>9, <1>10, 
     <1>11, <1>12, <1>13, <1>14, <1>15, <1>16, <1>17, <1>18, <1>19, 
     <1>20, <1>21, <1>22, <1>23, <1>24, <1>25, <1>26, <1>27, <1>28, 
     <1>29, <1>30, <1>31, <1>32, <1>33, <1>34, <1>35
     DEF Next, Worker, Continue, Call, SessionCall

-----------------------------------------------------------------------------
\* The initial states satisfy the inductive invariant.
LEMMA InitIInv == Init => IInv
<1> SUFFICES ASSUME Init
             PROVE  IInv
  OBVIOUS
<1>1. Counted = {} /\ Cardinality(Counted) = 0
  BY FS_EmptySet DEF Init, Counted
<1>2. TypeInv
  BY DEF Init, TypeInv, JobStatus, DeviceStatus, WorkerPC, ClientPC,
         ReturnCode, AllFormats
<1>3. RunningJobsExact
  BY <1>1 DEF Init, RunningJobsExact
<1>4. CallInv /\ HandleInv
  BY DEF Init, CallInv, HandleInv, SubmitPC, CancelPC, FreePC, OtherPC, JobPC
<1>5. BusyOnlyWithWork /\ FreedAfterWorker
  BY DEF Init, BusyOnlyWithWork, FreedAfterWorker
<1>6. StatusInv /\ ResultInv /\ ExtractionInv /\ AliveInv
  BY DEF Init, StatusInv, ResultInv, ExtractionInv, AliveInv, CancelPC,
         PastBody
<1> QED
  BY <1>2, <1>3, <1>4, <1>5, <1>6 DEF IInv

\* The conjunction of all parts is inductive.
THEOREM Invariance == Spec => []IInv
<1>1. IInv /\ [Next]_vars => IInv'
  BY TypeStep, CallStep, HandleStep, FreedStep, StatusStep, ResultStep,
     ExtractionStep, CounterStep, BusyStep, AliveStep DEF IInv
<1> QED
  BY InitIInv, <1>1, PTL DEF Spec

\* The variables keep their types: in particular the unsigned counter of
\* running jobs is never decreased below zero.
THEOREM TypeCorrect == Spec => []TypeOK
<1>1. IInv => TypeOK
  BY CountedFinite DEF IInv, TypeInv, TypeOK, RunningJobsExact
<1> QED
  BY Invariance, <1>1, PTL

\* increaseRunningJobs and decreaseRunningJobs count exactly the workers that
\* are between them, whatever the clients do.
THEOREM CounterExact == Spec => []RunningJobsExact
<1>1. IInv => RunningJobsExact
  BY DEF IInv
<1> QED
  BY Invariance, <1>1, PTL

\* The device is never left BUSY: the last worker to leave stores IDLE after
\* every store of BUSY.
THEOREM NeverStuckBusy == Spec => []BusyOnlyWithWork
<1>1. IInv => BusyOnlyWithWork
  BY DEF IInv
<1> QED
  BY Invariance, <1>1, PTL

\* free and the destructor of a session reclaim a job only after its worker
\* has ended.
THEOREM FreeSafe == Spec => []FreedAfterWorker
<1>1. IInv => FreedAfterWorker
  BY DEF IInv
<1> QED
  BY Invariance, <1>1, PTL

\* getResults hands out complete results only.
THEOREM ReadersSafe == Spec => []ReadersFindResults
<1>1. IInv => ReadersFindResults
  <2> SUFFICES ASSUME IInv, NEW c \in Clients, NEW j \in Jobs, arg[c] = j
               PROVE  /\ pc[c] = "readHistogram" => result[j] = "counts"
                      /\ pc[c] = "readState" => result[j] = "state"
    BY DEF ReadersFindResults
  <2> QED
    BY DEF IInv, ResultInv
<1> QED
  BY Invariance, <1>1, PTL

\* No adaptive QIR program is run without its measurements.
THEOREM AdaptiveSafe == Spec => []NoAdaptiveExtraction
<1>1. IInv => NoAdaptiveExtraction
  BY DEF IInv, ExtractionInv, NoAdaptiveExtraction
<1> QED
  BY Invariance, <1>1, PTL

\* When a session is freed after its jobs, the results a worker writes to are
\* alive as long as it runs.
THEOREM WorkerSafe ==
  "jobsFreedFirst" \in Contract => (Spec => []WorkerOwnsResults)
<1>1. "jobsFreedFirst" \in Contract /\ IInv => WorkerOwnsResults
  <2> SUFFICES ASSUME "jobsFreedFirst" \in Contract, IInv,
                      NEW j \in Jobs, worker[j] = "body"
               PROVE  life[j] = "alive"
    BY DEF WorkerOwnsResults
  <2>1. life[j] \notin {"none", "destroying", "freed"}
    BY DEF IInv, HandleInv, AliveInv, FreedAfterWorker
  <2> QED
    BY <2>1 DEF IInv, TypeInv
<1>2. CASE "jobsFreedFirst" \in Contract
  BY <1>1, <1>2, Invariance, PTL
<1> QED
  BY <1>2

-----------------------------------------------------------------------------
(* wait.                                                                   *)

\* A worker that has left the body of the job has finished the job, also when
\* somebody cancels it meanwhile, and a call has no return code before it
\* returns.
WaitInv ==
  /\ \A j \in Jobs : PastBody(j) => status[j] \in Finished
  /\ \A c \in Clients : pc[c] # "idle" => ret[c] = "NONE"

\* Every step keeps finished jobs finished (cancel, the lambda of submit).
LEMMA WaitStep ==
  ASSUME TypeInv, CallInv, HandleInv, WaitInv, [Next]_vars
  PROVE  WaitInv'
<1> USE ConstantsAssumption DEF TypeInv, CallInv, HandleInv, WaitInv, PastBody, SubmitPC, CancelPC, FreePC, OtherPC, JobPC,
           JobStatus, DeviceStatus, WorkerPC, ClientPC, ReturnCode, AllFormats, Finished,
           vars, sessionVars, paramVars, jobVars, deviceVars, clientVars
<1>1. ASSUME NEW j \in Jobs, increase(j)  PROVE WaitInv'
  BY <1>1, SMTT(40) DEF increase
<1>2. ASSUME NEW j \in Jobs, setBusy(j)  PROVE WaitInv'
  BY <1>2, SMTT(40) DEF setBusy
<1>3. ASSUME NEW j \in Jobs, setRunning(j)  PROVE WaitInv'
  BY <1>3, SMTT(40) DEF setRunning
<1>4. ASSUME NEW j \in Jobs, body(j)  PROVE WaitInv'
  BY <1>4, SMTT(40) DEF body
<1>5. ASSUME NEW j \in Jobs, setFinished(j)  PROVE WaitInv'
  BY <1>5, SMTT(40) DEF setFinished
<1>6. ASSUME NEW j \in Jobs, decrease(j)  PROVE WaitInv'
  BY <1>6, SMTT(40) DEF decrease
<1>7. ASSUME NEW j \in Jobs, setIdle(j)  PROVE WaitInv'
  BY <1>7, SMTT(40) DEF setIdle
<1>8. ASSUME NEW c \in Clients, NEW j \in Jobs, submitStore(c, j)
      PROVE  WaitInv'
  BY <1>8, SMTT(40) DEF submitStore, Return, Goto
<1>9. ASSUME NEW c \in Clients, NEW j \in Jobs, submitSpawn(c, j)
      PROVE  WaitInv'
  BY <1>9, SMTT(40) DEF submitSpawn, Goto
<1>10. ASSUME NEW c \in Clients, NEW j \in Jobs, submitAssign(c, j)
      PROVE  WaitInv'
  BY <1>10, SMTT(40) DEF submitAssign, Return
<1>11. ASSUME NEW c \in Clients, NEW j \in Jobs, cancelValid(c, j)
      PROVE  WaitInv'
  BY <1>11, SMTT(40) DEF cancelValid, Goto
<1>12. ASSUME NEW c \in Clients, NEW j \in Jobs, cancelWait(c, j)
      PROVE  WaitInv'
  BY <1>12, SMTT(40) DEF cancelWait, Goto
<1>13. ASSUME NEW c \in Clients, NEW j \in Jobs, cancelStore(c, j)
      PROVE  WaitInv'
  BY <1>13, SMTT(40) DEF cancelStore, Return
<1>14. ASSUME NEW c \in Clients, NEW j \in Jobs, waitValid(c, j)
      PROVE  WaitInv'
  BY <1>14, SMTT(40) DEF waitValid, Goto, Return
<1>15. ASSUME NEW c \in Clients, NEW j \in Jobs, waitReturn(c, j)
      PROVE  WaitInv'
  BY <1>15, SMTT(40) DEF waitReturn, Return
<1>16. ASSUME NEW c \in Clients, NEW j \in Jobs, waitTimeout(c, j)
      PROVE  WaitInv'
  BY <1>16, SMTT(40) DEF waitTimeout, Return
<1>17. ASSUME NEW c \in Clients, NEW j \in Jobs, readResults(c, j)
      PROVE  WaitInv'
  BY <1>17, SMTT(40) DEF readResults, Return
<1>18. ASSUME NEW c \in Clients, NEW j \in Jobs, freeWait(c, j)
      PROVE  WaitInv'
  BY <1>18, SMTT(40) DEF freeWait, Goto
<1>19. ASSUME NEW c \in Clients, NEW j \in Jobs, freeErase(c, j)
      PROVE  WaitInv'
  BY <1>19, SMTT(40) DEF freeErase, Return
<1>20. ASSUME NEW c \in Clients, NEW j \in Jobs, destroyResults(c, j)
      PROVE  WaitInv'
  BY <1>20, SMTT(40) DEF destroyResults, JobsOf
<1>21. ASSUME NEW c \in Clients, NEW j \in Jobs, destroyFuture(c, j)
      PROVE  WaitInv'
  BY <1>21, SMTT(40) DEF destroyFuture
<1>22. ASSUME NEW c \in Clients, NEW j \in Jobs, NEW f \in Formats, setFormat(c, j, f)
      PROVE  WaitInv'
  BY <1>22, SMTT(40) DEF setFormat, MayOwn, MayCall, Return
<1>23. ASSUME NEW c \in Clients, NEW j \in Jobs, NEW n \in BOOLEAN, setProgram(c, j, n)
      PROVE  WaitInv'
  BY <1>23, SMTT(40) DEF setProgram, MayOwn, MayCall, Return
<1>24. ASSUME NEW c \in Clients, NEW j \in Jobs, NEW p \in BOOLEAN, setShots(c, j, p)
      PROVE  WaitInv'
  BY <1>24, SMTT(40) DEF setShots, MayOwn, MayCall, Return
<1>25. ASSUME NEW c \in Clients, NEW j \in Jobs, submitLoad(c, j)
      PROVE  WaitInv'
  BY <1>25, SMTT(40) DEF submitLoad, MayOwn, MayCall, Enter, Return
<1>26. ASSUME NEW c \in Clients, NEW j \in Jobs, cancelLoad(c, j)
      PROVE  WaitInv'
  BY <1>26, SMTT(40) DEF cancelLoad, MayCall, Enter, Return
<1>27. ASSUME NEW c \in Clients, NEW j \in Jobs, waitLoad(c, j)
      PROVE  WaitInv'
  BY <1>27, SMTT(40) DEF waitLoad, MayCall, Enter, Return
<1>28. ASSUME NEW c \in Clients, NEW j \in Jobs, NEW r \in {"readHistogram", "readState"}, getResults(c, j, r)
      PROVE  WaitInv'
  BY <1>28, SMTT(40) DEF getResults, MayCall, Enter, Return
<1>29. ASSUME NEW c \in Clients, NEW j \in Jobs, free(c, j)  PROVE WaitInv'
  BY <1>29, SMTT(40) DEF free, MayOwn, MayCall, Enter
<1>30. ASSUME NEW c \in Clients, sessionFreed(c)  PROVE WaitInv'
  BY <1>30, SMTT(40) DEF sessionFreed, Return, JobsOf
<1>31. ASSUME NEW c \in Clients, NEW s \in Sessions, sessionAlloc(c, s)
      PROVE  WaitInv'
  BY <1>31, SMTT(40) DEF sessionAlloc, Return
<1>32. ASSUME NEW c \in Clients, NEW s \in Sessions, init(c, s)
      PROVE  WaitInv'
  BY <1>32, SMTT(40) DEF init, Return
<1>33. ASSUME NEW c \in Clients, NEW s \in Sessions, sessionFree(c, s)
      PROVE  WaitInv'
  BY <1>33, SMTT(40) DEF sessionFree, Enter, JobsOf
<1>34. ASSUME NEW c \in Clients, NEW s \in Sessions, NEW j \in Jobs, createDeviceJob(c, s, j)
      PROVE  WaitInv'
  BY <1>34, SMTT(40) DEF createDeviceJob, Return
<1>35. CASE UNCHANGED vars
  BY <1>35 DEF vars
<1> HIDE DEF TypeInv, CallInv, HandleInv, WaitInv, PastBody, SubmitPC, CancelPC, FreePC, OtherPC, JobPC,
           JobStatus, DeviceStatus, WorkerPC, ClientPC, ReturnCode, AllFormats, Finished,
           vars, sessionVars, paramVars, jobVars, deviceVars, clientVars
<1> QED
  BY <1>1, <1>2, <1>3, <1>4, <1>5, <1>6, <1>7, <1>8, <1>9, <1>10, 
     <1>11, <1>12, <1>13, <1>14, <1>15, <1>16, <1>17, <1>18, <1>19, 
     <1>20, <1>21, <1>22, <1>23, <1>24, <1>25, <1>26, <1>27, <1>28, 
     <1>29, <1>30, <1>31, <1>32, <1>33, <1>34, <1>35
     DEF Next, Worker, Continue, Call, SessionCall

\* wait returns SUCCESS after it blocked only if the job has finished, whoever
\* cancels the job and however long the wait was (wait).
THEOREM WaitCorrect == Spec => WaitSound
<1>1. Init => WaitInv
  BY DEF Init, WaitInv, PastBody
<1>2. IInv /\ WaitInv /\ [Next]_vars => WaitInv'
  BY WaitStep DEF IInv
<1>3. IInv /\ WaitInv /\ [Next]_vars =>
        [\A c \in Clients, j \in Jobs :
           /\ pc[c] \in {"waitValid", "waitBlock", "waitTimed"} /\ arg[c] = j
           /\ ret'[c] = "SUCCESS"
           => status[j] \in Finished]_vars
  <2> SUFFICES ASSUME IInv, WaitInv, Next, NEW c \in Clients, NEW j \in Jobs,
                      pc[c] \in {"waitValid", "waitBlock", "waitTimed"}, arg[c] = j,
                      ret'[c] = "SUCCESS"
               PROVE  status[j] \in Finished
    OBVIOUS
  <2>1. /\ ret[c] # "SUCCESS" /\ ret \in [Clients -> ReturnCode]
        /\ pc[c] \notin {"idle", "sessionFree"}
    BY DEF WaitInv, IInv, TypeInv
  <2>2. ASSUME NEW k \in Jobs PROVE ~Worker(k)
    BY <2>1 DEF Worker, increase, setBusy, setRunning, body, setFinished, decrease, setIdle,
                clientVars, deviceVars, paramVars, jobVars, sessionVars
  <2>3. ASSUME NEW d \in Clients PROVE ~sessionFreed(d)
    BY <2>1 DEF sessionFreed, Return
  <2>4. ASSUME NEW d \in Clients, NEW k \in Jobs PROVE ~Call(d, k)
    BY <2>1 DEF Call, setFormat, setProgram, setShots, submitLoad, cancelLoad, waitLoad,
                getResults, free, MayOwn, MayCall, Enter, Return
  <2>5. ASSUME NEW d \in Clients, NEW t \in Sessions PROVE ~SessionCall(d, t)
    BY <2>1 DEF SessionCall, sessionAlloc, init, sessionFree, createDeviceJob, Enter, Return
  <2>6. ASSUME NEW d \in Clients, NEW k \in Jobs, Continue(d, k)
        PROVE  waitReturn(c, j)
    <3>1. CASE \/ waitValid(d, k) \/ waitTimeout(d, k) \/ submitStore(d, k)
               \/ submitSpawn(d, k) \/ submitAssign(d, k)
               \/ cancelValid(d, k) \/ cancelWait(d, k) \/ cancelStore(d, k)
      BY <2>1, <3>1 DEF waitValid, waitTimeout, submitStore, submitSpawn, submitAssign,
                        cancelValid, cancelWait, cancelStore, Goto, Return
    <3>2. CASE \/ readResults(d, k) \/ freeWait(d, k) \/ freeErase(d, k)
               \/ destroyResults(d, k) \/ destroyFuture(d, k)
      BY <2>1, <3>2 DEF readResults, freeWait, freeErase, destroyResults, destroyFuture,
                        clientVars, Goto, Return
    <3>3. CASE waitReturn(d, k)
      BY <2>1, <3>3 DEF waitReturn, Return
    <3> QED
      BY <2>6, <3>1, <3>2, <3>3 DEF Continue
  <2>7. waitReturn(c, j)
    BY <2>2, <2>3, <2>4, <2>5, <2>6 DEF Next
  <2> QED
    BY <2>7 DEF waitReturn, WaitInv, PastBody
<1> QED
  BY <1>1, <1>2, <1>3, Invariance, PTL DEF Spec, WaitSound

-----------------------------------------------------------------------------
(* The device implements the life cycle of an abstract QDMI job.           *)

\* A step that changes neither status_ nor the life of a job is invisible.
LEMMA Invisible == UNCHANGED <<life, status>> => UNCHANGED polled
  BY DEF polled

\* How polled changes when one job changes.
LEMMA PolledUpdate ==
  ASSUME TypeInv, NEW j \in Jobs, NEW s, NEW from,
         polled[j] \in from, polled'[j] = s,
         \A k \in Jobs \ {j} : life'[k] = life[k] /\ status'[k] = status[k]
  PROVE  Job!Move(j, from, s)
<1>1. polled' = [polled EXCEPT ![j] = s]
  BY DEF polled
<1> QED
  BY <1>1 DEF Job!Move

\* Every step of the device is a step of a job's life cycle or invisible.
LEMMA JobStep ==
  ASSUME "ownerCancels" \in Contract, IInv, [Next]_vars
  PROVE  [Job!Next]_polled
<1>1. ASSUME NEW j \in Jobs, increase(j)  PROVE [Job!Next]_polled
  BY <1>1, Invisible DEF increase, jobVars, clientVars
<1>2. ASSUME NEW j \in Jobs, setBusy(j)  PROVE [Job!Next]_polled
  BY <1>2, Invisible DEF setBusy, jobVars, clientVars
<1>3. ASSUME NEW j \in Jobs, setRunning(j)  PROVE [Job!Next]_polled
  <2>1. polled[j] \in {"SUBMITTED"} /\ polled'[j] = "RUNNING"
    BY <1>3 DEF setRunning, polled, IInv, TypeInv, CallInv, HandleInv, StatusInv,
           JobStatus, Finished, SubmitPC, CancelPC, FreePC, OtherPC, JobPC,
           jobVars, WorkerPC, AliveInv, FreedAfterWorker
  <2>2. \A k \in Jobs \ {j} : life'[k] = life[k] /\ status'[k] = status[k]
    BY <1>3 DEF setRunning, IInv, TypeInv, jobVars
  <2>3. Job!Move(j, {"SUBMITTED"}, "RUNNING")
    BY <2>1, <2>2, PolledUpdate DEF IInv, Job!JobStatus
  <2> QED
    BY <2>3 DEF Job!Next, Job!Start
<1>4. ASSUME NEW j \in Jobs, body(j)  PROVE [Job!Next]_polled
  BY <1>4, Invisible DEF body, jobVars, clientVars
<1>5. ASSUME NEW j \in Jobs, setFinished(j)  PROVE [Job!Next]_polled
  <2>1. PICK s \in {"DONE", "FAILED"} : status' = [status EXCEPT ![j] = s]
    BY <1>5 DEF setFinished
  <2>2. polled[j] \in {"RUNNING"} /\ polled'[j] = s
    BY <1>5, <2>1 DEF setFinished, polled, IInv, TypeInv, HandleInv, StatusInv,
           FreedAfterWorker
  <2>3. \A k \in Jobs \ {j} : life'[k] = life[k] /\ status'[k] = status[k]
    BY <1>5, <2>1 DEF setFinished, IInv, TypeInv
  <2>4. Job!Move(j, {"RUNNING"}, s)
    BY <2>2, <2>3, PolledUpdate DEF IInv
  <2> QED
    BY <2>4 DEF Job!Next, Job!Finish
<1>6. ASSUME NEW j \in Jobs, decrease(j)  PROVE [Job!Next]_polled
  BY <1>6, Invisible DEF decrease, jobVars, clientVars
<1>7. ASSUME NEW j \in Jobs, setIdle(j)  PROVE [Job!Next]_polled
  BY <1>7, Invisible DEF setIdle, jobVars, clientVars
<1>8. ASSUME NEW c \in Clients, NEW j \in Jobs, submitStore(c, j)  PROVE [Job!Next]_polled
  <2>1. polled[j] \in {"CREATED"} /\ polled'[j] = "SUBMITTED"
    BY <1>8 DEF submitStore, Return, Goto, polled, IInv, TypeInv, CallInv, HandleInv, StatusInv,
           JobStatus, Finished, SubmitPC, CancelPC, FreePC, OtherPC, JobPC,
           jobVars, WorkerPC, AliveInv, FreedAfterWorker
  <2>2. \A k \in Jobs \ {j} : life'[k] = life[k] /\ status'[k] = status[k]
    BY <1>8 DEF submitStore, Return, Goto, IInv, TypeInv, jobVars
  <2>3. Job!Move(j, {"CREATED"}, "SUBMITTED")
    BY <2>1, <2>2, PolledUpdate DEF IInv, Job!JobStatus
  <2> QED
    BY <2>3 DEF Job!Next, Job!Submit
<1>9. ASSUME NEW c \in Clients, NEW j \in Jobs, submitSpawn(c, j)  PROVE [Job!Next]_polled
  BY <1>9, Invisible DEF submitSpawn, Goto, jobVars, clientVars
<1>10. ASSUME NEW c \in Clients, NEW j \in Jobs, submitAssign(c, j)  PROVE [Job!Next]_polled
  BY <1>10, Invisible DEF submitAssign, Return, jobVars, clientVars
<1>11. ASSUME NEW c \in Clients, NEW j \in Jobs, cancelValid(c, j)  PROVE [Job!Next]_polled
  BY <1>11, Invisible DEF cancelValid, Goto, jobVars, clientVars
<1>12. ASSUME NEW c \in Clients, NEW j \in Jobs, cancelWait(c, j)  PROVE [Job!Next]_polled
  BY <1>12, Invisible DEF cancelWait, Goto, jobVars, clientVars
<1>13. ASSUME NEW c \in Clients, NEW j \in Jobs, cancelStore(c, j)  PROVE [Job!Next]_polled
  <2>1. polled[j] \in (Job!JobStatus \ {"RUNNING"}) /\ polled'[j] = "CANCELED"
    BY <1>13 DEF cancelStore, Return, Job!JobStatus, polled, IInv, TypeInv, CallInv, HandleInv, StatusInv,
           JobStatus, Finished, SubmitPC, CancelPC, FreePC, OtherPC, JobPC,
           jobVars, WorkerPC, AliveInv, FreedAfterWorker
  <2>2. \A k \in Jobs \ {j} : life'[k] = life[k] /\ status'[k] = status[k]
    BY <1>13 DEF cancelStore, Return, Job!JobStatus, IInv, TypeInv, jobVars
  <2>3. Job!Move(j, (Job!JobStatus \ {"RUNNING"}), "CANCELED")
    BY <2>1, <2>2, PolledUpdate DEF IInv, Job!JobStatus
  <2> QED
    BY <2>3 DEF Job!Next, Job!Cancel
<1>14. ASSUME NEW c \in Clients, NEW j \in Jobs, waitValid(c, j)  PROVE [Job!Next]_polled
  BY <1>14, Invisible DEF waitValid, Goto, Return, jobVars, clientVars
<1>15. ASSUME NEW c \in Clients, NEW j \in Jobs, waitReturn(c, j)  PROVE [Job!Next]_polled
  BY <1>15, Invisible DEF waitReturn, Return, jobVars, clientVars
<1>16. ASSUME NEW c \in Clients, NEW j \in Jobs, waitTimeout(c, j)  PROVE [Job!Next]_polled
  BY <1>16, Invisible DEF waitTimeout, Return, jobVars, clientVars
<1>17. ASSUME NEW c \in Clients, NEW j \in Jobs, readResults(c, j)  PROVE [Job!Next]_polled
  BY <1>17, Invisible DEF readResults, Return, jobVars, clientVars
<1>18. ASSUME NEW c \in Clients, NEW j \in Jobs, freeWait(c, j)  PROVE [Job!Next]_polled
  BY <1>18, Invisible DEF freeWait, Goto, jobVars, clientVars
<1>19. ASSUME NEW c \in Clients, NEW j \in Jobs, freeErase(c, j)  PROVE [Job!Next]_polled
  <2>1. polled[j] \in (Job!JobStatus \ {"RUNNING"}) /\ polled'[j] = "FREED"
    BY <1>19 DEF freeErase, Return, Job!JobStatus, polled, IInv, TypeInv, CallInv, HandleInv, StatusInv,
           JobStatus, Finished, SubmitPC, CancelPC, FreePC, OtherPC, JobPC,
           jobVars, WorkerPC, AliveInv, FreedAfterWorker
  <2>2. \A k \in Jobs \ {j} : life'[k] = life[k] /\ status'[k] = status[k]
    BY <1>19 DEF freeErase, Return, Job!JobStatus, IInv, TypeInv, jobVars
  <2>3. Job!Move(j, (Job!JobStatus \ {"RUNNING"}), "FREED")
    BY <2>1, <2>2, PolledUpdate DEF IInv, Job!JobStatus
  <2> QED
    BY <2>3 DEF Job!Next, Job!Free
<1>20. ASSUME NEW c \in Clients, NEW j \in Jobs, destroyResults(c, j)
      PROVE  [Job!Next]_polled
  BY <1>20 DEF destroyResults, polled
<1>21. ASSUME NEW c \in Clients, NEW j \in Jobs, destroyFuture(c, j)  PROVE [Job!Next]_polled
  <2>1. polled[j] \in (Job!JobStatus \ {"RUNNING"}) /\ polled'[j] = "FREED"
    BY <1>21 DEF destroyFuture, Job!JobStatus, polled, IInv, TypeInv, CallInv, HandleInv, StatusInv,
           JobStatus, Finished, SubmitPC, CancelPC, FreePC, OtherPC, JobPC,
           jobVars, WorkerPC, AliveInv, FreedAfterWorker
  <2>2. \A k \in Jobs \ {j} : life'[k] = life[k] /\ status'[k] = status[k]
    BY <1>21 DEF destroyFuture, Job!JobStatus, IInv, TypeInv, jobVars
  <2>3. Job!Move(j, (Job!JobStatus \ {"RUNNING"}), "FREED")
    BY <2>1, <2>2, PolledUpdate DEF IInv, Job!JobStatus
  <2> QED
    BY <2>3 DEF Job!Next, Job!Free
<1>22. ASSUME NEW c \in Clients, NEW j \in Jobs, NEW f \in Formats, setFormat(c, j, f)
      PROVE  [Job!Next]_polled
  BY <1>22, Invisible DEF setFormat, MayOwn, MayCall, Return, jobVars, clientVars
<1>23. ASSUME NEW c \in Clients, NEW j \in Jobs, NEW n \in BOOLEAN, setProgram(c, j, n)
      PROVE  [Job!Next]_polled
  BY <1>23, Invisible DEF setProgram, MayOwn, MayCall, Return, jobVars, clientVars
<1>24. ASSUME NEW c \in Clients, NEW j \in Jobs, NEW p \in BOOLEAN, setShots(c, j, p)
      PROVE  [Job!Next]_polled
  BY <1>24, Invisible DEF setShots, MayOwn, MayCall, Return, jobVars, clientVars
<1>25. ASSUME NEW c \in Clients, NEW j \in Jobs, submitLoad(c, j)  PROVE [Job!Next]_polled
  BY <1>25, Invisible DEF submitLoad, MayOwn, MayCall, Enter, Return, jobVars, clientVars
<1>26. ASSUME NEW c \in Clients, NEW j \in Jobs, cancelLoad(c, j)  PROVE [Job!Next]_polled
  BY <1>26, Invisible DEF cancelLoad, MayCall, Enter, Return, jobVars, clientVars
<1>27. ASSUME NEW c \in Clients, NEW j \in Jobs, waitLoad(c, j)  PROVE [Job!Next]_polled
  BY <1>27, Invisible DEF waitLoad, MayCall, Enter, Return, jobVars, clientVars
<1>28. ASSUME NEW c \in Clients, NEW j \in Jobs, NEW r \in {"readHistogram", "readState"}, getResults(c, j, r)
      PROVE  [Job!Next]_polled
  BY <1>28, Invisible DEF getResults, MayCall, Enter, Return, jobVars, clientVars
<1>29. ASSUME NEW c \in Clients, NEW j \in Jobs, free(c, j)  PROVE [Job!Next]_polled
  BY <1>29, Invisible DEF free, MayOwn, MayCall, Enter, jobVars, clientVars
<1>30. ASSUME NEW c \in Clients, sessionFreed(c)  PROVE [Job!Next]_polled
  BY <1>30, Invisible DEF sessionFreed, Return, JobsOf, jobVars, clientVars
<1>31. ASSUME NEW c \in Clients, NEW s \in Sessions, sessionAlloc(c, s)
      PROVE  [Job!Next]_polled
  BY <1>31, Invisible DEF sessionAlloc, Return, jobVars, clientVars
<1>32. ASSUME NEW c \in Clients, NEW s \in Sessions, init(c, s)  PROVE [Job!Next]_polled
  BY <1>32, Invisible DEF init, Return, jobVars, clientVars
<1>33. ASSUME NEW c \in Clients, NEW s \in Sessions, sessionFree(c, s)
      PROVE  [Job!Next]_polled
  BY <1>33, Invisible DEF sessionFree, Enter, JobsOf, jobVars, clientVars
<1>34. ASSUME NEW c \in Clients, NEW s \in Sessions, NEW j \in Jobs, createDeviceJob(c, s, j)
      PROVE  [Job!Next]_polled
  <2>1. CASE UNCHANGED life
    BY <1>34, <2>1, Invisible DEF createDeviceJob
  <2>2. CASE life[j] = "none" /\ life' = [life EXCEPT ![j] = "alive"]
    <3>1. polled[j] \in {"NONE"} /\ polled'[j] = "CREATED"
      BY <1>34, <2>2 DEF createDeviceJob, polled, IInv, TypeInv, StatusInv
    <3>2. \A k \in Jobs \ {j} : life'[k] = life[k] /\ status'[k] = status[k]
      BY <1>34, <2>2 DEF createDeviceJob, IInv, TypeInv
    <3>3. Job!Move(j, {"NONE"}, "CREATED")
      BY <3>1, <3>2, PolledUpdate DEF IInv
    <3> QED
      BY <3>3 DEF Job!Next, Job!Create
  <2> QED
    BY <1>34, <2>1, <2>2 DEF createDeviceJob
<1>35. CASE UNCHANGED vars
  BY <1>35, Invisible DEF vars, jobVars, clientVars
<1> QED
  BY <1>1, <1>2, <1>3, <1>4, <1>5, <1>6, <1>7, <1>8, <1>9, <1>10, 
     <1>11, <1>12, <1>13, <1>14, <1>15, <1>16, <1>17, <1>18, <1>19, 
     <1>20, <1>21, <1>22, <1>23, <1>24, <1>25, <1>26, <1>27, <1>28, 
     <1>29, <1>30, <1>31, <1>32, <1>33, <1>34, <1>35
     DEF Next, Worker, Continue, Call, SessionCall

\* The status a client polls follows the documented life cycle: a job is run at
\* most once, CANCELED is final, nothing but a cancellation leaves DONE or
\* FAILED and no job disappears while it runs.
THEOREM Refinement ==
  "ownerCancels" \in Contract => (Spec => JobLifeCycle)
<1>1. Init => Job!Init
  BY DEF Init, Job!Init, polled
<1>2. CASE "ownerCancels" \in Contract
  <2>1. IInv /\ [Next]_vars => [Job!Next]_polled
    BY <1>2, JobStep
  <2> QED
    BY <1>1, <2>1, Invariance, PTL DEF Spec, JobLifeCycle, Job!Spec
<1> QED
  BY <1>2
=============================================================================
