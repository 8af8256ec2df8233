------------------------------- MODULE QDMIJob -------------------------------
(***************************************************************************)
(* What a QDMI job promises to the client that polls it: the life cycle of *)
(* its status, one variable per job and nothing else.  The device behind   *)
(* the job (worker threads, futures, counters, sessions) is invisible here. *)
(*                                                                         *)
(*   NONE --> CREATED --> SUBMITTED --> RUNNING --> DONE or FAILED         *)
(*              |             |            |             |                 *)
(*              +-------------+------------+-------------+--> CANCELED     *)
(*                                                                         *)
(* A job is started at most once, CANCELED is final, and the only way out  *)
(* of DONE or FAILED is a cancellation that was under way when the job     *)
(* finished.                                                               *)
(***************************************************************************)
CONSTANT Jobs

VARIABLE status     \* status[j]: what QDMI_job_check reports, or NONE/FREED

JobStatus == {"CREATED", "SUBMITTED", "RUNNING", "DONE", "FAILED", "CANCELED"}

Finished == {"DONE", "FAILED", "CANCELED"}

Move(j, from, to) ==
  /\ status[j] \in from
  /\ status' = [status EXCEPT ![j] = to]

Create(j) == Move(j, {"NONE"}, "CREATED")
Submit(j) == Move(j, {"CREATED"}, "SUBMITTED")
Start(j)  == Move(j, {"SUBMITTED"}, "RUNNING")
Finish(j) == \E outcome \in {"DONE", "FAILED"} : Move(j, {"RUNNING"}, outcome)
\* A running job is never cut short: it is cancelled before it starts or
\* after it has finished.
Cancel(j) == Move(j, JobStatus \ {"RUNNING"}, "CANCELED")
Free(j)   == Move(j, JobStatus \ {"RUNNING"}, "FREED")

Init == status = [j \in Jobs |-> "NONE"]

Next == \E j \in Jobs :
          \/ Create(j)
          \/ Submit(j)
          \/ Start(j)
          \/ Finish(j)
          \/ Cancel(j)
          \/ Free(j)

Spec == Init /\ [][Next]_status

TypeOK == status \in [Jobs -> JobStatus \cup {"NONE", "FREED"}]
=============================================================================
