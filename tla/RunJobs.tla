------------------------------- MODULE RunJobs -------------------------------
(***************************************************************************)
(* What the run controller promises to those who ask it for water, with    *)
(* the valves, the timers and the travel left out.  Jobs are served one at *)
(* a time in the order they were accepted.  A job opens its path, is given *)
(* water at most once and in one stretch, closes its path and ends with a  *)
(* verdict.  A cancel ends the job and drops those waiting, an abort ends  *)
(* the job alone, a failure ends everything at once.                       *)
(***************************************************************************)
EXTENDS Naturals, Sequences

CONSTANTS
  Jobs,             \* the jobs that may be accepted
  NoJob,            \* the value of job while nothing is served
  MaxWaiting        \* how many jobs may wait

VARIABLES
  phase,            \* "rest", or how far the job in service has come
  job,              \* the job in service
  waiting,          \* accepted jobs, oldest first
  verdict           \* how the job in service will be recorded

jobVars == <<phase, job, waiting, verdict>>

Serve(j) ==
  /\ phase' = "opening"
  /\ job' = j
  /\ verdict' = "Completed"

JobInit ==
  /\ phase = "rest"
  /\ job = NoJob
  /\ waiting = <<>>
  /\ verdict = "None"

Accept(j) ==
  \/ /\ phase = "rest"
     /\ Serve(j)
     /\ UNCHANGED waiting
  \/ /\ phase # "rest"
     /\ Len(waiting) < MaxWaiting
     /\ waiting' = Append(waiting, j)
     /\ UNCHANGED <<phase, job, verdict>>

Water ==
  /\ phase = "opening"
  /\ phase' = "wet"
  /\ UNCHANGED <<job, waiting, verdict>>

Dry ==
  /\ phase = "wet"
  /\ phase' = "closing"
  /\ UNCHANGED <<job, waiting, verdict>>

\* Ends the job in service and no other.
Abort ==
  /\ phase # "rest"
  /\ phase' = "closing"
  /\ verdict' = "Faulted"
  /\ UNCHANGED <<job, waiting>>

Cancel ==
  /\ phase # "rest"
  /\ phase' = "closing"
  /\ verdict' = "Stopped"
  /\ waiting' = <<>>
  /\ UNCHANGED job

Finish ==
  /\ phase = "closing"
  /\ IF waiting = <<>>
       THEN phase' = "rest" /\ job' = NoJob /\ verdict' = "None" /\ UNCHANGED waiting
       ELSE Serve(Head(waiting)) /\ waiting' = Tail(waiting)

Fail ==
  /\ phase' = "rest"
  /\ job' = NoJob
  /\ verdict' = "None"
  /\ waiting' = <<>>

JobNext ==
  \/ \E j \in Jobs : Accept(j)
  \/ Water \/ Dry \/ Abort \/ Cancel \/ Finish \/ Fail

JobSpec == JobInit /\ [][JobNext]_jobVars
=============================================================================
