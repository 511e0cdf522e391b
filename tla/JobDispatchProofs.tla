------------------------- MODULE JobDispatchProofs -------------------------
(***************************************************************************)
(* Theorems about JobDispatch for every set of jobs, every choice of        *)
(* backends and faults, and every bound on retries and lost workers.        *)
(*                                                                          *)
(* The argument: a job is dispatched in one direction only, so that what    *)
(* the API has not done yet leaves no trace (Undispatched); and whatever    *)
(* has begun keeps its request (Kept) and, once reviewed, its case          *)
(* (Submitted), because nothing takes these back.                           *)
(***************************************************************************)
EXTENDS JobDispatch, TLAPS

\* A job whose task is not sent yet has no task, and a new one nothing at all.
Undispatched ==
    \A j \in Jobs :
        /\ api[j] \in {"new", "saved"} => message[j] = "none"
        /\ api[j] = "new" => record[j] = "absent" /\ \A place \in Places : run[j][place] = "idle"

Kept == \A j \in Jobs : api[j] # "new" => request[j]

Submitted == \A j \in Jobs : \A place \in Places : run[j][place] = "reviewed" => review[j] # "none"

Inv == TypeOK /\ Undispatched /\ Kept /\ Submitted /\ CompletedIsReviewable /\ RetryPossible /\ TaskNotForgotten

-----------------------------------------------------------------------------

LEMMA InitInv == Init => Inv
BY DispatchAssumption
   DEF Init, Inv, TypeOK, Undispatched, Kept, Submitted, CompletedIsReviewable, RetryPossible, TaskNotForgotten,
       Places, Settled, Active

LEMMA StepInv == Inv /\ [Next]_vars => Inv'
<1> SUFFICES ASSUME Inv, [Next]_vars PROVE Inv'
  OBVIOUS
<1> USE DispatchAssumption
    DEF Inv, TypeOK, Undispatched, Kept, Submitted, CompletedIsReviewable, RetryPossible, TaskNotForgotten,
        Places, Settled, Active, Set, SetRun
<1>1. ASSUME NEW j \in Jobs, Dispatch(j)
      PROVE  Inv'
  <2>1. CASE SaveRequest(j)
    BY <2>1 DEF SaveRequest
  <2>2. CASE Send(j)
    BY <2>2 DEF Send
  <2>3. CASE KeepInProcess(j)
    BY <2>3 DEF KeepInProcess
  <2>4. CASE RecordSent(j)
    BY <2>4 DEF RecordSent
  <2>5. CASE RecordFallback(j)
    BY <2>5 DEF RecordFallback
  <2> QED BY <1>1, <2>1, <2>2, <2>3, <2>4, <2>5 DEF Dispatch
<1>2. ASSUME NEW j \in Jobs, TakeSlot(j) \/ Deliver(j) \/ Ack(j)
      PROVE  Inv'
  <2>1. CASE TakeSlot(j)
    BY <2>1 DEF TakeSlot
  <2>2. CASE Deliver(j)
    BY <2>2 DEF Deliver
  <2>3. CASE Ack(j)
    BY <2>3 DEF Ack
  <2> QED BY <1>2, <2>1, <2>2, <2>3
<1>3. ASSUME NEW j \in Jobs, NEW place \in Places, Progress(j, place) \/ Work(j, place)
      PROVE  Inv'
  <2>1. CASE Progress(j, place)
    BY <2>1 DEF Progress
  <2>2. CASE SubmitForReview(j, place)
    <3>1. CASE review[j] = "accepted"
      <4>1. /\ run' = [run EXCEPT ![j][place] = "raised"] /\ run[j][place] = "running"
            /\ UNCHANGED <<api, request, record, message, retries, deaths, review>>
        BY <2>2, <3>1 DEF SubmitForReview
      <4>2. TypeOK'
        BY <4>1
      <4>3. Undispatched' /\ Kept' /\ Submitted'
        BY <4>1
      <4>4. CompletedIsReviewable' /\ RetryPossible' /\ TaskNotForgotten'
        BY <4>1
      <4> HIDE DEF TypeOK, Undispatched, Kept, Submitted, CompletedIsReviewable, RetryPossible, TaskNotForgotten
      <4> QED BY <4>2, <4>3, <4>4
    <3>2. CASE review[j] # "accepted"
      <4>1. /\ run' = [run EXCEPT ![j][place] = "reviewed"] /\ run[j][place] = "running"
            /\ review' = [review EXCEPT ![j] = "pending"]
            /\ UNCHANGED <<api, request, record, message, retries, deaths>>
        BY <2>2, <3>2 DEF SubmitForReview
      <4>2. TypeOK'
        BY <4>1
      <4>3. Undispatched' /\ Kept' /\ Submitted'
        BY <4>1
      <4>4. CompletedIsReviewable' /\ RetryPossible' /\ TaskNotForgotten'
        BY <4>1
      <4> HIDE DEF TypeOK, Undispatched, Kept, Submitted, CompletedIsReviewable, RetryPossible, TaskNotForgotten
      <4> QED BY <4>2, <4>3, <4>4
    <3> QED BY <3>1, <3>2
  <2>3. CASE Raise(j, place)
    BY <2>3 DEF Raise
  <2>4. CASE Complete(j, place)
    BY <2>4 DEF Complete
  <2>5. CASE RecordFailure(j, place)
    BY <2>5 DEF RecordFailure
  <2> QED BY <1>3, <2>1, <2>2, <2>3, <2>4, <2>5 DEF Work
<1>4. ASSUME NEW j \in Jobs, Fault(j)
      PROVE  Inv'
  <2>1. CASE SendFails(j)
    BY <2>1 DEF SendFails
  <2>2. CASE StoreLost(j)
    <3>1. CASE retries[j] < MaxRetries
      <4>1. /\ run[j]["celery"] \in {"running", "reviewed"} /\ run' = [run EXCEPT ![j]["celery"] = "idle"]
            /\ message' = [message EXCEPT ![j] = "queued"]
            /\ retries' = [retries EXCEPT ![j] = retries[j] + 1] /\ retries[j] + 1 \in 0 .. MaxRetries
            /\ UNCHANGED <<api, request, record, deaths, review>>
        BY <2>2, <3>1 DEF StoreLost
      <4>2. TypeOK'
        BY <4>1
      <4>3. Undispatched' /\ Kept' /\ Submitted'
        BY <4>1
      <4>4. CompletedIsReviewable' /\ RetryPossible' /\ TaskNotForgotten'
        BY <4>1
      <4> HIDE DEF TypeOK, Undispatched, Kept, Submitted, CompletedIsReviewable, RetryPossible, TaskNotForgotten
      <4> QED BY <4>2, <4>3, <4>4
    <3>2. CASE ~(retries[j] < MaxRetries)
      <4>1. /\ run[j]["celery"] \in {"running", "reviewed"} /\ run' = [run EXCEPT ![j]["celery"] = "raised"]
            /\ UNCHANGED <<api, request, record, message, retries, deaths, review>>
        BY <2>2, <3>2 DEF StoreLost
      <4>2. TypeOK'
        BY <4>1
      <4>3. Undispatched' /\ Kept' /\ Submitted'
        BY <4>1
      <4>4. CompletedIsReviewable' /\ RetryPossible' /\ TaskNotForgotten'
        BY <4>1
      <4> HIDE DEF TypeOK, Undispatched, Kept, Submitted, CompletedIsReviewable, RetryPossible, TaskNotForgotten
      <4> QED BY <4>2, <4>3, <4>4
    <3> QED BY <3>1, <3>2
  <2>3. CASE WorkerDies(j)
    BY <2>3 DEF WorkerDies
  <2>4. CASE ChildKilled(j)
    BY <2>4 DEF ChildKilled
  <2>5. CASE \E place \in Places : FailureLost(j, place)
    BY <2>5 DEF FailureLost
  <2> QED BY <1>4, <2>1, <2>2, <2>3, <2>4, <2>5 DEF Fault
<1>5. ASSUME NEW j \in Jobs, Accept(j) \/ DeleteJob(j)
      PROVE  Inv'
  <2>1. CASE Accept(j)
    BY <2>1 DEF Accept
  <2>2. CASE DeleteJob(j)
    BY <2>2 DEF DeleteJob
  <2> QED BY <1>5, <2>1, <2>2
<1>6. CASE ApiDies
  BY <1>6 DEF ApiDies
<1>7. CASE UNCHANGED vars
  BY <1>7 DEF vars
<1> HIDE DEF Inv
<1> QED BY <1>1, <1>2, <1>3, <1>4, <1>5, <1>6, <1>7 DEF Next

\* What is on record of a job, its task, its runs and its case agree in every reachable state.
THEOREM Invariance == Spec => []Inv
BY InitInv, StepInv, PTL DEF Spec

\* Every part of a job is in one of the states the code gives it.
THEOREM TypeCorrect == Spec => []TypeOK
<1>1. Inv => TypeOK
  BY DEF Inv
<1> QED BY <1>1, Invariance, PTL

\* Whatever is lost or repeated, a job that shows as completed has reached the underwriters' desk.
THEOREM CompletedIsReviewableHolds == Spec => []CompletedIsReviewable
<1>1. Inv => CompletedIsReviewable
  BY DEF Inv
<1> QED BY <1>1, Invariance, PTL

\* Whatever runs or is on the jobs list can be run again from its saved request.
THEOREM RetryPossibleHolds == Spec => []RetryPossible
<1>1. Inv => RetryPossible
  BY DEF Inv
<1> QED BY <1>1, Invariance, PTL

\* acks_late: a task whose run has not ended is in the broker or held by the worker that runs it.
THEOREM TaskNotForgottenHolds == Spec => []TaskNotForgotten
<1>1. Inv => TaskNotForgotten
  BY DEF Inv
<1> QED BY <1>1, Invariance, PTL

-----------------------------------------------------------------------------
(* Without Celery a record is written by one run, once *)

\* An outcome is on record only when the request is answered and the run has ended.
OneRun ==
    \A j \in Jobs :
        /\ message[j] = "none" /\ run[j]["celery"] = "idle"
        /\ api[j] \in {"new", "saved", "fallback"} => run[j]["in_process"] = "idle"
        /\ api[j] # "sent"
        /\ record[j] \in Settled => api[j] = "done" /\ run[j]["in_process"] = "ended"
        /\ run[j]["in_process"] = "idle" => record[j] = "absent" \/ api[j] = "done"

LEMMA OneRunStep ==
    ASSUME "celery" \notin Backends, Inv, OneRun, [Next]_vars
    PROVE  OneRun' /\ (\A j \in Jobs : record[j] \in Settled => record'[j] \in {record[j], "absent"})
<1> DEFINE Goal == OneRun' /\ \A j \in Jobs : record[j] \in Settled => record'[j] \in {record[j], "absent"}
<1>0. /\ api \in [Jobs -> {"new", "saved", "sent", "fallback", "done"}]
      /\ record \in [Jobs -> Settled \cup {"absent", "processing"}]
      /\ message \in [Jobs -> {"none", "queued", "held", "acked"}]
      /\ run \in [Jobs -> [Places -> Active \cup {"idle", "waiting", "ended"}]]
  BY DEF Inv, TypeOK
<1> USE DEF OneRun, Places, Settled, Active, Set, SetRun
<1>1. ASSUME NEW j \in Jobs, Dispatch(j)
      PROVE  Goal
  <2>1. CASE SaveRequest(j)
    BY <1>0, <2>1 DEF SaveRequest
  <2>2. CASE KeepInProcess(j)
    BY <1>0, <2>2 DEF KeepInProcess
  <2>3. CASE RecordFallback(j)
    BY <1>0, <2>3 DEF RecordFallback
  <2>4. ~Send(j) /\ ~RecordSent(j)
    BY DEF Send, RecordSent
  <2> QED BY <1>1, <2>1, <2>2, <2>3, <2>4 DEF Dispatch
<1>2. ASSUME NEW j \in Jobs, TakeSlot(j)
      PROVE  Goal
  BY <1>0, <1>2 DEF TakeSlot
<1>3. ASSUME NEW j \in Jobs
      PROVE  ~Deliver(j) /\ ~Ack(j) /\ ~SendFails(j) /\ ~StoreLost(j) /\ ~WorkerDies(j) /\ ~ChildKilled(j)
  BY DEF Deliver, Ack, SendFails, StoreLost, WorkerDies, ChildKilled
<1>4. ASSUME NEW j \in Jobs, NEW place \in Places, Progress(j, place) \/ Work(j, place) \/ FailureLost(j, place)
      PROVE  Goal
  <2>1. place = "in_process"
    BY <1>4 DEF Progress, Work, FailureLost, SubmitForReview, Raise, Complete, RecordFailure
  <2>2. CASE Progress(j, place)
    BY <1>0, <2>1, <2>2 DEF Progress
  <2>3. CASE SubmitForReview(j, place)
    <3>1. /\ run[j]["in_process"] = "running" /\ UNCHANGED <<api, record, message>>
          /\ \E v \in {"raised", "reviewed"} : run' = [run EXCEPT ![j]["in_process"] = v]
      BY <2>1, <2>3 DEF SubmitForReview
    <3> QED BY <1>0, <3>1
  <2>4. CASE Raise(j, place)
    BY <1>0, <2>1, <2>4 DEF Raise
  <2>5. CASE Complete(j, place)
    BY <1>0, <2>1, <2>5 DEF Complete
  <2>6. CASE RecordFailure(j, place)
    BY <1>0, <2>1, <2>6 DEF RecordFailure
  <2>7. CASE FailureLost(j, place)
    BY <1>0, <2>1, <2>7 DEF FailureLost
  <2> QED BY <1>4, <2>2, <2>3, <2>4, <2>5, <2>6, <2>7 DEF Work
<1>5. ASSUME NEW j \in Jobs, Accept(j)
      PROVE  Goal
  BY <1>0, <1>5 DEF Accept
<1>6. ASSUME NEW j \in Jobs, DeleteJob(j)
      PROVE  Goal
  BY <1>0, <1>6 DEF DeleteJob
<1>7. ASSUME ApiDies
      PROVE  Goal
  BY <1>0, <1>7 DEF ApiDies
<1>8. ASSUME UNCHANGED vars
      PROVE  Goal
  BY <1>0, <1>8 DEF vars
<1>9. Goal
  <2> HIDE DEF Goal, OneRun, Places, Settled, Active, Set, SetRun
  <2>1. CASE Next
    <3>1. CASE \E j \in Jobs : Fault(j)
      <4>1. PICK j \in Jobs, place \in Places : FailureLost(j, place)
        BY <1>3, <3>1 DEF Fault
      <4> QED BY <1>4, <4>1
    <3>2. CASE ~\E j \in Jobs : Fault(j)
      BY <1>1, <1>2, <1>3, <1>4, <1>5, <1>6, <1>7, <2>1, <3>2 DEF Next
    <3> QED BY <3>1, <3>2
  <2> QED BY <1>8, <2>1
<1> QED BY <1>9

\* An in-process outcome is final, whatever of the API or of Redis fails: only a delete takes it away.
THEOREM OutcomeIsFinalInProcess ==
    ASSUME "celery" \notin Backends
    PROVE  Spec => OutcomeIsFinal
<1>1. Init => OneRun
  BY DEF Init, OneRun, Places, Settled
<1>2. Inv /\ OneRun /\ [Next]_vars => OneRun'
  BY OneRunStep
<1>3. Inv /\ OneRun /\ [Next]_vars
      => [\A j \in Jobs : record[j] \in Settled => record'[j] \in {record[j], "absent"}]_record
  BY OneRunStep
<1> QED BY <1>1, <1>2, <1>3, Invariance, PTL DEF Spec, OutcomeIsFinal
=============================================================================
