---------------------------- MODULE JobDispatch ----------------------------
(***************************************************************************)
(* The life of an insurance pipeline job:                                   *)
(*   api/main.py              _dispatch_insurance_job, _run_pipeline_task   *)
(*   tasks/pipeline_tasks.py  the Celery task run_pipeline                  *)
(*   tasks/dispatch.py        where a job runs, and the in-process slots    *)
(*                                                                          *)
(* The API saves the request, sends the job to Celery or keeps it for a     *)
(* background thread, and writes the job record.  The run, wherever it      *)
(* happens, writes the same record (progress, then completed or failed) and *)
(* hands the case to the underwriters on the way.  Celery acknowledges a    *)
(* task late, so a task whose worker is gone is delivered again.            *)
(*                                                                          *)
(* Abstracted: the results, the queue a job goes to, live event streams,    *)
(* retry delays, and the legacy pipeline, which asks for no review.  A      *)
(* retried job (retry_job) is a new job with the same request.              *)
(***************************************************************************)
EXTENDS Naturals, FiniteSets

CONSTANTS
    Jobs,
    Backends,      \* what should_use_celery may answer: "celery", "in_process"
    Faults,        \* which faults happen: "send", "store", "worker", "child", "api"
    MaxInProcess,  \* INSURANCE_MAX_INPROCESS_JOBS
    MaxRetries,    \* max_retries of the Celery task
    MaxDeaths      \* bound: deliveries of one task lost with their worker

ASSUME DispatchAssumption ==
    /\ Backends \subseteq {"celery", "in_process"}
    /\ Faults \subseteq {"send", "store", "worker", "child", "api"}
    /\ MaxInProcess \in Nat \ {0}
    /\ MaxRetries \in Nat
    /\ MaxDeaths \in Nat

VARIABLES
    api,      \* api[j]: how far the request that dispatches j has come
    request,  \* request[j]: the submission is saved for a retry
    record,   \* record[j]: status of the job record
    message,  \* message[j]: the Celery task in the broker
    retries,  \* retries[j]: how often the task has been retried
    deaths,   \* deaths[j]: how often a worker died holding the task
    run,      \* run[j][place]: the pipeline run of j at that place
    review    \* review[j]: the workflow of the submission

vars == <<api, request, record, message, retries, deaths, run, review>>

Places == {"celery", "in_process"}
Settled == {"completed", "failed"}

Set(f, j, v) == [f EXCEPT ![j] = v]
SetRun(j, place, v) == run' = [run EXCEPT ![j][place] = v]

-----------------------------------------------------------------------------

Init ==
    /\ api = [j \in Jobs |-> "new"]
    /\ request = [j \in Jobs |-> FALSE]
    /\ record = [j \in Jobs |-> "absent"]
    /\ message = [j \in Jobs |-> "none"]
    /\ retries = [j \in Jobs |-> 0]
    /\ deaths = [j \in Jobs |-> 0]
    /\ run = [j \in Jobs |-> [place \in Places |-> "idle"]]
    /\ review = [j \in Jobs |-> "none"]

\* mutant: the request is not saved
ForgetRequest(j) ==
    /\ api[j] = "new"
    /\ api' = Set(api, j, "saved")
    /\ UNCHANGED <<request, record, message, retries, deaths, run, review>>

SaveRequest(j) ==
    /\ api[j] = "new"
    /\ request' = Set(request, j, TRUE)
    /\ api' = Set(api, j, "saved")
    /\ UNCHANGED <<record, message, retries, deaths, run, review>>

Send(j) ==
    /\ api[j] = "saved"
    /\ "celery" \in Backends
    /\ message' = Set(message, j, "queued")
    /\ api' = Set(api, j, "sent")
    /\ UNCHANGED <<request, record, retries, deaths, run, review>>

\* send_task raises, whether or not the broker took the message.
SendFails(j) ==
    /\ "send" \in Faults
    /\ api[j] = "saved"
    /\ "celery" \in Backends
    /\ message' \in {message, Set(message, j, "queued")}
    /\ api' = Set(api, j, "fallback")
    /\ UNCHANGED <<request, record, retries, deaths, run, review>>

KeepInProcess(j) ==
    /\ api[j] = "saved"
    /\ "in_process" \in Backends
    /\ api' = Set(api, j, "fallback")
    /\ UNCHANGED <<request, record, message, retries, deaths, run, review>>

\* The record of a sent job is written after the task was sent.
RecordSent(j) ==
    /\ api[j] = "sent"
    /\ record' = Set(record, j, "processing")
    /\ api' = Set(api, j, "done")
    /\ UNCHANGED <<request, message, retries, deaths, run, review>>

\* mutant: the background task is added before the record is written
AddTaskFirst(j) ==
    /\ api[j] = "fallback"
    /\ \/ /\ run[j]["in_process"] = "idle"
          /\ SetRun(j, "in_process", "waiting")
          /\ UNCHANGED <<record, api>>
       \/ /\ run[j]["in_process"] # "idle"
          /\ record' = Set(record, j, "processing")
          /\ api' = Set(api, j, "done")
          /\ UNCHANGED run
    /\ UNCHANGED <<request, message, retries, deaths, review>>

\* Background tasks start once the response is out.
RecordFallback(j) ==
    /\ api[j] = "fallback"
    /\ record' = Set(record, j, "processing")
    /\ SetRun(j, "in_process", "waiting")
    /\ api' = Set(api, j, "done")
    /\ UNCHANGED <<request, message, retries, deaths, review>>

-----------------------------------------------------------------------------
\* The run

Active == {"running", "reviewed", "raised"}
Running(place) == {j \in Jobs : run[j][place] \in Active}

SlotFree == Cardinality(Running("in_process")) < MaxInProcess

\* in_process_job_slot blocks until a slot is free.
TakeSlot(j) ==
    /\ run[j]["in_process"] = "waiting"
    /\ SlotFree
    /\ SetRun(j, "in_process", "running")
    /\ UNCHANGED <<api, request, record, message, retries, deaths, review>>

Deliver(j) ==
    /\ message[j] = "queued"
    /\ message' = Set(message, j, "held")
    /\ SetRun(j, "celery", "running")
    /\ UNCHANGED <<api, request, record, retries, deaths, review>>

Progress(j, place) ==
    /\ run[j][place] = "running"
    /\ record' = Set(record, j, "processing")
    /\ UNCHANGED <<api, request, message, retries, deaths, run, review>>

\* mutant: the run skips the underwriters
SkipReview(j, place) ==
    /\ run[j][place] = "running"
    /\ SetRun(j, place, "reviewed")
    /\ UNCHANGED <<api, request, record, message, retries, deaths, review>>

\* submit_for_review raises on a case that was accepted meanwhile.
SubmitForReview(j, place) ==
    /\ run[j][place] = "running"
    /\ IF review[j] = "accepted"
       THEN SetRun(j, place, "raised") /\ UNCHANGED review
       ELSE SetRun(j, place, "reviewed") /\ review' = Set(review, j, "pending")
    /\ UNCHANGED <<api, request, record, message, retries, deaths>>

\* Anything else the run raises, before or after the review is asked for; the
\* soft time limit is one such exception.
Raise(j, place) ==
    /\ run[j][place] \in {"running", "reviewed"}
    /\ SetRun(j, place, "raised")
    /\ UNCHANGED <<api, request, record, message, retries, deaths, review>>

Complete(j, place) ==
    /\ run[j][place] = "reviewed"
    /\ record' = Set(record, j, "completed")
    /\ SetRun(j, place, "ended")
    /\ UNCHANGED <<api, request, message, retries, deaths, review>>

\* mutant: the exception is not recorded
DropFailure(j, place) ==
    /\ run[j][place] = "raised"
    /\ SetRun(j, place, "ended")
    /\ UNCHANGED <<api, request, record, message, retries, deaths, review>>

RecordFailure(j, place) ==
    /\ run[j][place] = "raised"
    /\ record' = Set(record, j, "failed")
    /\ SetRun(j, place, "ended")
    /\ UNCHANGED <<api, request, message, retries, deaths, review>>

\* mutant: the task is acknowledged when it is delivered
AckEarly(j) ==
    /\ message[j] = "held"
    /\ message' = Set(message, j, "acked")
    /\ UNCHANGED <<api, request, record, retries, deaths, run, review>>

\* acks_late: the task is acknowledged when it has returned.
Ack(j) ==
    /\ message[j] = "held"
    /\ run[j]["celery"] = "ended"
    /\ message' = Set(message, j, "acked")
    /\ UNCHANGED <<api, request, record, retries, deaths, run, review>>

-----------------------------------------------------------------------------
\* Faults

\* mutant: one retry more than allowed
RetryOnceMore(j) ==
    /\ "store" \in Faults
    /\ run[j]["celery"] \in {"running", "reviewed"}
    /\ IF retries[j] <= MaxRetries
       THEN /\ retries' = Set(retries, j, retries[j] + 1)
            /\ message' = Set(message, j, "queued")
            /\ SetRun(j, "celery", "idle")
       ELSE SetRun(j, "celery", "raised") /\ UNCHANGED <<retries, message>>
    /\ UNCHANGED <<api, request, record, deaths, review>>

\* Redis is lost: the Celery task retries twice, with a new message.
StoreLost(j) ==
    /\ "store" \in Faults
    /\ run[j]["celery"] \in {"running", "reviewed"}
    /\ IF retries[j] < MaxRetries
       THEN /\ retries' = Set(retries, j, retries[j] + 1)
            /\ message' = Set(message, j, "queued")
            /\ SetRun(j, "celery", "idle")
       ELSE SetRun(j, "celery", "raised") /\ UNCHANGED <<retries, message>>
    /\ UNCHANGED <<api, request, record, deaths, review>>

\* Redis is lost: an in-process run does not retry, and the failure itself
\* cannot be recorded.
FailureLost(j, place) ==
    /\ "store" \in Faults
    /\ run[j][place] = "raised"
    /\ SetRun(j, place, "ended")
    /\ UNCHANGED <<api, request, record, message, retries, deaths, review>>

\* mutant: the task dies with its worker
LoseTask(j) ==
    /\ "worker" \in Faults
    /\ message[j] = "held"
    /\ deaths[j] < MaxDeaths
    /\ deaths' = Set(deaths, j, deaths[j] + 1)
    /\ SetRun(j, "celery", "idle")
    /\ UNCHANGED <<api, request, record, message, retries, review>>

\* The worker dies: its unacknowledged task is delivered to another.
WorkerDies(j) ==
    /\ "worker" \in Faults
    /\ message[j] = "held"
    /\ deaths[j] < MaxDeaths
    /\ deaths' = Set(deaths, j, deaths[j] + 1)
    /\ message' = Set(message, j, "queued")
    /\ SetRun(j, "celery", "idle")
    /\ UNCHANGED <<api, request, record, retries, review>>

\* The worker's child is killed (hard time limit, memory): the task counts as
\* failed and is acknowledged.
ChildKilled(j) ==
    /\ "child" \in Faults
    /\ run[j]["celery"] \in Active
    /\ SetRun(j, "celery", "ended")
    /\ message' = Set(message, j, "acked")
    /\ UNCHANGED <<api, request, record, retries, deaths, review>>

\* The API process restarts: its requests and background threads are gone.
ApiDies ==
    /\ "api" \in Faults
    /\ api' = [j \in Jobs |-> IF api[j] = "new" THEN "new" ELSE "done"]
    /\ run' = [j \in Jobs |-> [run[j] EXCEPT !["in_process"] = IF @ = "idle" THEN @ ELSE "ended"]]
    /\ UNCHANGED <<request, record, message, retries, deaths, review>>

-----------------------------------------------------------------------------
\* The users

\* An underwriter accepts the case: WorkflowService.sign_off.
Accept(j) ==
    /\ review[j] = "pending"
    /\ review' = Set(review, j, "accepted")
    /\ UNCHANGED <<api, request, record, message, retries, deaths, run>>

DeleteJob(j) ==
    /\ record' = Set(record, j, "absent")
    /\ UNCHANGED <<api, request, message, retries, deaths, run, review>>

-----------------------------------------------------------------------------

Dispatch(j) ==
    SaveRequest(j) \/ Send(j) \/ KeepInProcess(j) \/ RecordSent(j) \/ RecordFallback(j)

Work(j, place) ==
    SubmitForReview(j, place) \/ Raise(j, place) \/ Complete(j, place) \/ RecordFailure(j, place)

Fault(j) ==
    \/ SendFails(j) \/ StoreLost(j) \/ WorkerDies(j) \/ ChildKilled(j)
    \/ \E place \in Places : FailureLost(j, place)

Next ==
    \/ ApiDies
    \/ \E j \in Jobs :
          \/ Dispatch(j) \/ TakeSlot(j) \/ Deliver(j) \/ Ack(j) \/ Fault(j)
          \/ Accept(j) \/ DeleteJob(j)
          \/ \E place \in Places : Progress(j, place) \/ Work(j, place)

Spec == Init /\ [][Next]_vars

\* Requests are served, the broker delivers to its workers, a run makes
\* progress (and reports it finitely often), freed slots are taken in turn.
Fairness == \A j \in Jobs :
    /\ WF_vars(Dispatch(j))
    /\ WF_vars(Deliver(j))
    /\ WF_vars(Ack(j))
    /\ SF_vars(TakeSlot(j))
    /\ \A place \in Places : WF_vars(Work(j, place))

FairSpec == Spec /\ Fairness

-----------------------------------------------------------------------------
\* Properties

\* Every part of a job is in one of the states the code gives it.
TypeOK ==
    /\ api \in [Jobs -> {"new", "saved", "sent", "fallback", "done"}]
    /\ request \in [Jobs -> BOOLEAN]
    /\ record \in [Jobs -> Settled \cup {"absent", "processing"}]
    /\ message \in [Jobs -> {"none", "queued", "held", "acked"}]
    /\ retries \in [Jobs -> 0 .. MaxRetries]
    /\ deaths \in [Jobs -> 0 .. MaxDeaths]
    /\ run \in [Jobs -> [Places -> Active \cup {"idle", "waiting", "ended"}]]
    /\ review \in [Jobs -> {"none", "pending", "accepted"}]

\* A job that shows as completed has reached the underwriters' desk.
CompletedIsReviewable ==
    \A j \in Jobs : record[j] = "completed" => review[j] # "none"

\* Whatever runs, and whatever is on the jobs list, can be run again from its
\* saved request (retry_job).
RetryPossible ==
    \A j \in Jobs :
        (record[j] # "absent" \/ \E place \in Places : run[j][place] # "idle") => request[j]

\* A task is never forgotten while its run has not come to an end: it is in
\* the broker, or held by a worker that is running it (acks_late).
TaskNotForgotten ==
    \A j \in Jobs :
        /\ message[j] = "acked" => run[j]["celery"] = "ended"
        /\ run[j]["celery"] \in Active => message[j] = "held"

\* Every task the broker took is run to its end, whatever workers die.
TaskRuns == \A j \in Jobs : message[j] # "none" ~> message[j] = "acked"

\* The outcome of a job is final: it is replaced neither by "processing" nor
\* by another outcome, only deleted with the job.
OutcomeIsFinal ==
    [][\A j \in Jobs : record[j] \in Settled => record'[j] \in {record[j], "absent"}]_record

\* No job is left "processing" forever: dispatch.py prefers Celery only where
\* a task would not "leave the job 'processing' forever".
JobSettles == \A j \in Jobs : record[j] = "processing" ~> record[j] # "processing"
=============================================================================
