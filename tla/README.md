# Rytera (insureflow): formal model

TLA+ modules, TLC configurations and TLAPS proofs for the part of Rytera that is hard to
test: the human decision workflow of a submission and everything that races with it, the
workbench that decides what is sent to a carrier, and what concurrent agents do to the model
provider's breaker and budget. All source paths below are relative to `src/src/insureflow/`
unless they start with `src/`; `uwp/` stands for `src/underwriting_pipeline/`.

* [1 The system](#1-the-system)
* [2 The modules](#2-the-modules)
* [3 The runs](#3-the-runs)
* [4 The proofs](#4-the-proofs)
* [5 What the code does against its own words](#5-what-the-code-does-against-its-own-words)
* [6 Not modelled](#6-not-modelled)
* [7 Plan](#7-plan)

To check: `tlc -config MCWorkflow.cfg MCWorkflow` (and so on for every run of section 3),
`tlapm WorkflowProofs.tla` (and so on for every module of section 4).

## 1 The system

Rytera takes the documents of an insurance (or mortgage, or lending) submission, runs a
pipeline of parsers, rules, models and agents over them, and hands the result to a licensed
underwriter, who decides; an accepted case is bound through a policy admin system. It runs
as several uvicorn workers (`src/entrypoint.sh`), each with a thread pool for its endpoints
and for in-process jobs, and as Celery workers; all share Redis (job store, locks, broker),
and some state lives in JSON files or in one process's memory.

Beside it stands the underwriting pipeline (`src/underwriting_pipeline`): an extraction reads
the documents of a submission's folder into a saved run, and a small web server on threads
(`uwp/app/workbench.py`) shows it to an underwriter, who corrects, decides and sends the
package to the carrier that the match has found. Everything it keeps is in files.

### Components with state and concurrency

| Component | State it keeps | Operations | Hard behaviour | What makes it correct |
|---|---|---|---|---|
| Workflow service (`workflow/service.py`, `workflow/models.py`, `underwriting/cosign.py`) | one versioned `WorkflowRecord` per submission: state, sign-offs, co-sign, policy, terms | start, submit_for_review, assign, escalate, sign_off, request_cosign, resolve_cosign_request, mark_bound; the validate-terms endpoint | every operation reads, changes a copy and saves it later; the pipeline, two underwriters or two tabs interleave | no save drops another's work; what is bound was decided, with a reason against the AI and with a second signature where one was asked for |
| Workflow store (`workflow/store.py` on `storage/job_store.py`) | the record, its index entry, a lock key with a lease | get, save | lock, version check, two writes and unlock are separate Redis calls; the process can die between any two, the lease can run out | a save is a compare-and-swap; an acknowledged one stays, a refused one left no trace, nobody waits forever |
| Pipeline dispatch (`tasks/dispatch.py`, `tasks/pipeline_tasks.py`, `api/main.py` 3624–3675) | the job record, the saved request, the Celery message, in-process slots | dispatch, run in a worker or in a background thread, progress, retry, delete | late acknowledgement and redelivery, lost Redis, killed children, restart of the API, a worker faster than its dispatcher | every job settles, its outcome is final, a completed job has a case to review, nothing accepted is lost |
| Bind endpoint (`api/main.py` 4482–4772, `integration/policy_admin_service.py`, `issuance/service.py`) | the workflow record, issued policies, the portfolio | bind | a chain of remote calls and saves on a record read once, failures and crashes in between; the rating engine takes over when no policy was issued | one bind per case, a bound case has a policy that was issued for it by a system the plan accepts, booked implies bound |
| Draft bundles (`storage/draft_bundle_store.py`, `storage/object_storage.py`) | the bundle record in Redis, uploaded objects in S3 | add_documents, confirm (unlocking a file with its password, add_object_reference), remove_document, delete, run | concurrent pulls into one bundle, repeated confirmations of a file that changes under them, deletion and the run's write without the lock, two stores without a transaction | limits and no duplicates under concurrency, no document vanishes under the lock, references resolve |
| Authority matrix (`underwriting/authority.py`) | limits per user and organisation in the job store, cached per process | upsert, remove, evaluate | one cache for all threads and organisations, several processes | edits survive and are seen; organisations stay apart |
| Portfolio store (`portfolio/store.py`) | one JSON file, a copy per process | add_policy, concentration | whole-file writes by several processes | no written policy is lost |
| Webhooks and broker shares (`webhooks/dispatcher.py`) | subscriptions, deliveries, shares cached per process | dispatch with retries, share, revoke | retries of what was delivered; a revoked share in another process's cache | at least once, bounded; revoked means revoked |
| Registry (`registry/service.py`) | versions of prompts, rules and configurations on disk | draft, review, approve, reject, roll back | approvals interleave without a lock | one active version of a component |
| Review queue (`trust/review_queue.py`) | items in memory | add, assign, complete | numbers derived from the length | no item replaces another |
| Workbench decisions and send gate (`uwp/app/workbench.py`, `uwp/app/package.py`, `uwp/ai/prepare.py`) | the folder, the saved run, the decision log, market confirms, packages, send log: all files | approve, edit, decline, resolve, confirm_market, send_to_carrier | one thread per request; an extraction replaces the run at any time; a send passes its gates one by one without a lock and reads everything again to build the package; the server restarts | what is sent was approved, with its conflicts resolved, and names nothing prohibited; nothing is sent twice by accident |
| Carrier match (`uwp/app/workbench.py` 124–358) | none | match | some twenty rules whose order decides | a riskier file is never easier to place |
| Circuit breaker (`verification/circuit_breaker.py`) | state, failures, time of the last failure | state (a read that may change it), record_success, record_failure | shared by all agent threads without a lock | it opens, is probed again and decides the probe |
| LLM client, agent loop, budget (`llm/client.py`, `agents/react_agent.py`, `llm/budget.py`, `llm/tracker.py`) | the costs recorded today | complete with retries and fallback, enforce | the limit is checked before a call and spent after it, by several agents at once; of some providers' answers nothing is recorded, and old records leave the window | what the check sees goes over the limit by no more than the calls in flight |
| Audit (`audit/`) | JSON per bundle; a hash chain | append, verify, export | – | a changed record is found |
| Live events (`api/job_events.py`) | Redis pub/sub | publish, subscribe | the record is read before the subscription | clients poll as well |

How they interact: an endpoint of `api/main.py` saves the submission's documents in a draft
bundle, dispatches a job, and the pipeline run (in Celery or in a thread) writes the job
record and calls `WorkflowService.submit_for_review`. Underwriters call `sign_off`, the
validate-terms endpoint and the co-sign endpoints; `bind_policy` reads the record, asks the
authority matrix, calls the policy admin system, `mark_bound`, the portfolio and the issuance
service. Shared state is what the job store holds; there are no callbacks into a component.

### Components without such behaviour

The extraction of a pack (`uwp/ai/prepare.py` and its prompts, of which the send gate sees
only the run that was saved), document ingestion, agents' heuristics, rating, the underwriting rules of the lines of business, life,
health, commercial, mortgage and lending engines, ML and RAG, oracles, verification,
provenance, reconciliation, regulation, AML, fraud, privacy and redaction are computations
over one submission: parsers, tables, floating-point formulas, LLM calls. Authentication,
billing, observability, pilot tooling, the command line and the React frontend complete the
repository. `PROJECT.json` lists each with the reason why it is left out.

## 2 The modules

```
UnderwritingCase  <-- implemented by --  Workflow  <-- extended by --  BindPolicy
CasRegister       <-- implemented by --  RecordStore
                                         JobDispatch
                                         DraftBundle
                  CarrierMatch  <-- extended by --  SendGate
                                         LlmCalls
```

**Workflow** models every operation of the service that changes the record. `disk` is the
stored record (version 0: none), `work[c]` the copy that caller `c` has read and changed. An
operation is two actions, as in the code: the operation itself (read, guards, the new record)
and `Save`, which stores it with the next version or ends in `Conflict`
(`WorkflowConflictError`); `Abandon` is `WorkflowStoreBusyError` or a caller that dies. What
an operation demands and makes of a record are operators (`CanSignOff`, `SignedOff`, ...)
that the proofs reuse. `final_decision` is assigned only by `sign_off` and therefore read
off the last sign-off; a policy number stands for the user that bound it.

**UnderwritingCase** is what the service promises about one case with neither versions nor
concurrency: state, decisions and co-sign, one step per operation. `Workflow` implements it.

**RecordStore** looks into the `Save` that Workflow takes to be atomic: get, lock, compare,
write, index, unlock, each a Redis call, for any number of callers that may die anywhere. A
record's content is the set of saves it contains, which is all that lost updates need.
`LeaseMayExpire` says whether a *live* holder can outlive its 30 s lease; dead holders
always leave the lock to the lease. **CasRegister** is a compare-and-swap register;
RecordStore implements it while live holders keep their leases.

**JobDispatch** models a pipeline job from the request to its outcome in both places where
it can run. `Faults` selects what goes wrong: "send" (the broker's answer is lost), "store"
(Redis is lost under a run), "worker", "child" (hard time limit), "api" (restart). The
record, the broker's message, the run in each place and the review are separate, since the
races are between them. The user's sign-off and `delete_job` are actions as well.

**BindPolicy** extends Workflow with the bind endpoint: from the first read through authority,
issue, mark_bound, save, booking and documents, with every early return, a policy admin
system whose answer can get lost, and a crash between any two steps. When no policy was issued,
or none that the endpoint knows of, the rating engine binds (`RatedBind`) and the plan decides
whether that counts; `BindInit` chooses the plan. A policy is known by the bind that obtained it
and not by its number, since a number that the client sends instead (`api/main.py:4665`) is
stored and looked at by nobody. One `Issue` stands for the whole round over the adapters; one
without credentials answers with a simulated policy, which the endpoint takes for the system's
own, so that "pas" says which system answered and not that a carrier stands behind it. Other
callers go on working on the same record with Workflow's own operations. Because no endpoint but bind itself
calls `request_cosign`, and bind calls it only when a co-sign already exists, the co-sign part
of the workflow cannot be reached through the API alone; `ServiceCoSigns` adds requests made
through the service directly.

**DraftBundle** models the bundle record in the job store and the objects in S3 as the two
stores that they are. Operations under the bundle's lock are an `Enter` (lock, read, new
document list) and a `Store` (write, unlock); objects are deleted afterwards, one at a time;
`delete` takes no lock, as in the code. The loop of `add_documents` is one `AppendDocument` for
each document that is kept, under the lock; a skipped one changes nothing. A confirmation is
`head_object`, `unlock` and `put_object` when the client sent the password, and
`add_object_reference`: the ETag that it compares and stores is the one it read before the file
was written anew, while the size is the new one's. `opened` holds what the object's ETag is since
then, which may be any of `Opened`, that of another file included. A run is
`to_pipeline_documents`, `get_bundle` and `Submit`, three steps without the lock, the last of which
stores what the second read. `left` is history: the documents that have been out of the bundle.
`Total` counts the bytes of the documents (`Bytes`), which is their sum written so that it can be
reasoned about.

**CarrierMatch** is `match` as operators. A text is the set of the kinds of words in it, one
kind for each word list (or group of an allow-list) that the rules look for, so that the
overlap of the lists, the softening of bar words beside a restaurant, and the order of the
rules are all there, while spelling and negation are not. `MatchGated` is `_match`, `Match`
and `Provisional` what `match` returns of it.

**SendGate** extends it with the workbench. A saved run is the record of its content, and is
its own hash. Each thread `th[t]` carries what `send_to_carrier` has read; each gate is a step
(`StartSend`, `CheckScope`, `CheckDecision`, `CheckReview`, `CheckResend`, `ChooseName`,
`Build`, `Write`, `LogSend`), and each reads again what the code reads again. `AppendRow` is
one step because `record_decision` holds a lock. `Extract`, `Receive`, `ConfirmMarket` and
edits and declines of other requests come between any two of them; `Restart` ends all
requests, `LogFails` is the row that could not be written after the package was. `seen` and
`since` are history: what the folder and the log held when the request came in. A run whose line
of business is held for a human has documents out of scope and the other way round
(`SendGateAssumption`); the code also knows a run that only a later version of its detector would
put out of scope, which is left out, and no property is about scope.

**LlmCalls** models runs of agents at one provider: the look at the breaker, every call of
the agent's loop with the check of the budget before it, its retries and its fallback, and
what is counted of the run at the end. `Metered` says whose answers leave a record at all:
`_track_usage` reads the usage attributes of OpenAI's answers (`llm/client.py:125`), so a Claude
model, which `src/.env.example:30` suggests as the fallback, is never charged for. A property of Python that looks at the breaker's state
may change it, and each attribute is read and written on its own, so `Wake`, `Count`,
`Stamp`, `Open` and `Lower` are steps of their own (`Lower` writes what it computed from a
count read earlier).

The `MC*` modules give users, tiers, verdicts, sizes, saved runs and corrections for TLC;
`MCCarrierMatch` also makes a state machine of the match (a step is one more or less word,
or another answer), so that "riskier" is a relation between two states. The `*Proofs` modules
are those of section 4.

## 3 The runs

| Run | Instance | Asks |
|---|---|---|
| `workflow` | 2 callers; a junior, a senior, the CUO; 5 saves; 1.8 M states | Do concurrent callers lose each other's work? Is whatever is bound decided, reasoned and co-signed? Is the service as good as one-step operations? |
| `record_store` | 4 saves, each may die at any step; fair | Is a save a compare-and-swap, is every save answered, does a dead holder's lock come free? |
| `job_dispatch` | 1 job, both backends, every fault, 2 retries, 1 death; fair | Are request, review and task ever lost? Is a task run to its end? |
| `job_local` | 3 jobs in process on 2 slots; fair | Do all jobs settle, once and for all, within the slots? |
| `bind` | 2 callers, the senior (needs a co-sign) and the CUO; from a decided case (version 2) to version 5; both kinds of plan; 2 policies; 0.7 M states | Can two binds both succeed? Does a bound case have a policy that its plan accepts, is a booked policy bound? |
| `draft_bundle` | 2 callers, 2 contents (one above the document limit), 2 uploads (one with a password, and opened the same as the other), total limit 5; 3 document ids; 1.9 M states | Do limits, deduplication and everyone's documents survive concurrency, deaths and a run? |
| `carrier_match` | every file with up to two kinds of words in the operations and one in the line of business, every answer | Is the order of the rules right: what reaches a carrier, what a hold promises, and does a hazard ever open a route? |
| `send_gate` | 2 threads, 3 runs, 2 contents of the folder, 2 corrections, 2 decisions, 1 confirm, 2 packages | Is what is sent approved, resolved and permitted, whatever comes between the gates, and is a second send always meant? |
| `llm_calls` | 2 agents, 2 attempts, 2 steps, a fallback that is not metered, threshold 2, limit 6, costs up to 2, a window of 5 answers; fair | How far can the limit be overspent? Does an open breaker always come to a probe, and the probe to a decision? |
| `bound_after_decline`, `confirmed_twice`, `unapproved_run_sent` | small | Section 5. |

**Properties.** `NothingLost`, `NoLostUpdate` and `NothingVanishes` are action properties:
what no step of any caller may take away; `NothingVanishes` names the one step that does, a run's
write, and says that it is the only one. `SoloBindJustified`, `BoundWithSecondSignature` and
`ApprovalOnFile` relate the state of a case to the decisions that led to it, over any
detour (escalation, re-run of the pipeline, return to review). `SavedIsKept` and
`RefusedLeavesNoTrace` are about what a caller may conclude from its answer, `BoundOnce` and
`BookedWasBound` about a bind that shares its record with other requests, and
`BoundCaseHasPolicy` says of the policy whom it was issued to, and by which system.
`CompletedIsReviewable`, `RetryPossible` and `TaskNotForgotten` tie the parts of a job
together that different processes write. `SendsWereApproved` says how much of an approval
survives the time between reading and sending: the run that the log names stood approved, as
the last word, at some moment of the request (not at its end: the code looks once).
`ConflictsWereResolved` and `NothingProhibitedSent` hold of what was *sent*, not of what was
checked. `DirectRouteExactly` states the allow-list without the rules' order, and
`HazardNeverOpens` compares two files. `OverspendBounded` is about what the budget sees,
the recorded answers of its window, and counts one call in flight for each agent, with its
fallback as far as they are metered. `NoDuplicates` says when a file may be in the bundle twice:
only if it was decrypted in between. The type invariant of Workflow also says that nobody holds a
record newer than the stored one, that of DraftBundle that of those who edit the list of documents
only the lock's holder is about to store it (a run and a deletion hold no lock), that of LlmCalls that the failure count stays within its range.

**Bounds.** `MaxVersion` stops new operations once that version is stored; five saves are
enough for decision, co-sign request, answer, bind and one interfering save, and any race is
between two callers, since a third sees one of the two results. Four saves in `record_store`
let two stale copies meet two live ones (with three, a missing version check would not show
in the type invariant). In `job_dispatch` the jobs share nothing but slots, which `job_local`
covers with more jobs than slots. `MaxIds` (one call may add as many documents), `MaxPolicies`
and `MaxDeaths` only keep the state space finite. Two policies are one lost and one
rated in its place, or those of two requests at once; the proofs have no such bound. In `bind` the AI does not decline and decisions carry reasons,
which mark_bound never looks at; `workflow` covers both. `MaxLog` of two rows lets a
resolution or a decline come before an approve; with `MaxConfirms` of one and `MaxFiles` of
two a referral is sent and sent again. `MaxWords` of two is where every rule that combines two
words is reached; the proofs have no such bound. `MaxRecords` (7 answers of a day) is two more
than the `Window` of 5 (10,000 in the code), so that records leave the window while calls are
open; five answers of the lowest cost stay below the limit of 6, so that such a day goes on for
ever, and three of the highest cost reach it. `MaxFailures` is one above the threshold, beyond
which counts are not told apart. `CHECK_DEADLOCK FALSE` is set where a component only reacts: with no request left
it rightly stops.

**Symmetry** of callers and threads is used in `workflow`, `bind`, `draft_bundle` and
`send_gate`, which have no liveness property; the runs with liveness have none.

**Fairness.** `record_store`: weak fairness of each call's next step (a request that does not
die runs on, a lock attempt ends after `blocking_timeout`) and of lease expiry (Redis expires
keys). `job_dispatch`, `job_local`: weak fairness of a request's next step, of the broker's
delivery, of the acknowledgement and of a run's next step; strong fairness of taking a free
slot, because a semaphore wakes its waiters in turn. `llm_calls`: weak fairness of each run's next
step (calls to a provider time out), of the breaker's rest and of new runs (submissions keep
coming; without one nobody looks at the breaker). No fault, death, retry or user action is
ever assumed to happen.

## 4 The proofs

TLAPS proves, for any number of callers, users, saves and versions:

**`WorkflowProofs`.** `Applied(r, n)` says that record `n` is what some operation makes of
record `r`. The inductive invariant is `Inv == TypeOK /\ AbsentIsFresh /\ Linked`: an absent
record is a fresh one, and `Linked` says of every busy caller that, *if its version still
matches*, its prepared record is `Applied` to the stored one. `TypeOK` alone is not inductive:
without `Linked` nothing relates a prepared record to the record it will replace. From it
follow `NothingLostHolds` (what every operation extends; the step itself is the lemma
`StepExtends`), and with `DecisionRules`, the
strengthening of the three rules about bind, `SoloBindJustifiedHolds`,
`ApprovalOnFileHolds` and `BoundWithSecondSignatureHolds`; each operation's effect on each
rule is a lemma about records, with no state in it. `ImplementsCaseHolds` maps each save to a
step of UnderwritingCase and every other step to a stutter. Assumption: `WorkflowAssumption`
(the types of the constants).

**`RecordStoreProofs`.** Assuming `LeaseMayExpire = FALSE`, the inductive invariant adds to
`TypeOK`: `Exclusive` (inside the lock means holding it), `Versioned` (absent is empty),
`Compared` (behind the check the copy is the stored record), `Outdated` (a refused save's
copy differs from it) and `Traced` (which steps leave the save in the record). From it
`SavedIsKeptHolds`, `RefusedLeavesNoTraceHolds`, `NoLostUpdateHolds` and
`ImplementsRegisterHolds`. The condition is needed: past its lease a live holder writes over
what was saved meanwhile, since `workflow/store.py:117` is not fenced by the lock.

`TypeCorrect` is the type invariant under the same assumption.

**`BindPolicyProofs`** builds on Workflow's invariant: `BindStepIsStep` shows that every step of
a bind, and of the requests beside it, is a step of Workflow or a stutter, so `Inv` carries
over. `Good(p, u)` is a policy for user `u` from a system that the plan accepts. `Policies` says
what the record tells of policies (bound exactly when it names one, one saved bind at most, and
that one good for the named user); it is inductive only with `Requests`, which says of every
prepared record *of the stored version* that it either leaves the policy alone (`Alike`) or is the
save of a bind that has a good policy (`Binds`). That the plan is looked at after the rating
engine was asked, and that an answer may be lost with its policy, are steps of the specification
and no assumptions. No
operation leads from bound to bound, so `BoundOnceHolds` follows. Workflow's promises carry over
(`BindNextIsNext`): `BindLosesNothing`, `BindFollowsCase` (a bind request makes steps of
UnderwritingCase) and `PolicyIsDecidedHolds`, where both invariants meet: a policy on a record was
obtained for the user that the record names, from the policy admin system or, where the plan does
not insist on it, from the rating engine, and rests on a decision that stands or on the signature
of somebody else.

**`JobDispatchProofs`.** `Undispatched` (what the API has not done yet left no trace), `Kept`
(what was dispatched has its request) and `Submitted` (a run past its review step has a case)
make `CompletedIsReviewable`, `RetryPossible` and `TaskNotForgotten` inductive, for all faults
at once. `OutcomeIsFinalInProcess` needs one run of a job at a time, which holds without
Celery (`"celery" \notin Backends`) and not with it: section 5.

**`CarrierMatchProofs`.** No order of rules has to be followed by hand: of all that comes after
the first rules only `ByClass` reaches a carrier (`CarrierFromClass`) or can be overridden
(`OverridableFromClass`), and `Passes` is what the rules before it leave. The three
properties of the run follow for files with any number of words, two of them from `file \in
File` alone and `HazardNeverOpens` for any two files.

**`SendGateProofs`.** The decision log and the folder only grow, and approval as of *some* moment
of the request is monotone in the log, approval as of now is not. `Facts(x, l, f)` is what a
thread in state `x` knows of log `l` and packages `f`; `FactsKept` shows that it survives any
growth, so that the steps of other threads need no case of their own, and every gate adds the
part that the next one needs. `PackagesWell` is built from a second reading of the run, and
holds because `Buildable` asks the match again; `NoGap` makes the next number a new one.

**`DraftBundleProofs`.** What the bundle holds was the draft of whoever stored it, so
`BundleInv` says `Sound` (within the limits, no ETag and no inline content twice, ids handed out,
finitely many bytes) of the bundle *and* of every draft, those of runs included: what a run stores
again is an earlier list, which was sound. `LacksOnlyGone` says of the lock's holder that its draft
lacks no stored document but those it removes and those that have left before, `StoresAgain` of a
run that its draft holds nothing beyond the bundle but what has left since. `WithinLimits` and
`NoDuplicates` say nothing of drafts and are not inductive; `NothingVanishes` needs `LacksOnlyGone`
and that the lock is exclusive (`TypeOK`). `LockMoves` is the argument about the lock, once for all
actions, and `SoundMore` the one about a document: its id is new, so that its bytes were not
counted before (`TotalAdd`). That a file referenced twice was decrypted is a second invariant,
`EtagInv`: whatever a request has looked up, and whatever a reference holds, is the ETag that the
file was uploaded with or the file is open (`Known`), and no step closes one again. `LimitsHold`,
`NeverDuplicated`, `NoLostDocument` and `TypeCorrect` follow. That no live holder outlives its
lease is part of the model: RecordStore treats the lease.

**`LlmCallsProofs`.** `TypeOK` is inductive: what a thread will write back of the failure count
was a count when it was read. `OverspendBounded` is not: it forgets who may still spend. `Due`
counts the answers that open calls may still have to pay for, the fallback's included, and
`Covered` is the bound with all of them paid at the highest cost. An answer turns one that is due
into one that is spent (`DueDrops`); a call begins only while something of the limit is left, and
then even all agents at once stay within the bound (`DueIsBounded`). Only what is metered is due
(`CallCharge`, `FallbackCharge`). A record that leaves the window takes from the sum what it
brought, so that one more answer costs `MaxCost` at most (`SeenAppend`). The theorem
`OverspendIsBounded` has no hypothesis: it speaks of what the check sees, and what it does not see
is section 5.

Sums (`Seen` of costs, `Total` of sizes) are the cardinality of a set of units, so that one more
summand is one disjoint union and needs no induction, and a loop over a batch is a step for each
element: induction over data is what the installed provers cannot instantiate.

Only model-checked: liveness (`SaveAnswered`, `LockComesFree`, `TaskRuns`, `JobSettles`,
`OpenIsProbed`, `ProbeDecides`), which is out of the prover's reach. Every invariant and action
property of the passing runs is a theorem.

The assumptions of all theorems are the named ones of the modules (`WorkflowAssumption`,
`DispatchAssumption`, `SendGateAssumption`, `LlmAssumption`, ...), the types of the constants;
TLC evaluates them on every run.

## 5 What the code does against its own words

| Run | What happens | The words |
|---|---|---|
| `bound_after_decline` | approve, request co-sign, decline, co-sign approved, bind: `resolve_cosign_request` restores an approved state whatever was decided since | `workflow/service.py:311` "Policy can only be bound after UW quote/approval" |
| `confirmed_twice` | a repeated confirmation of an upload takes its own reference for a second copy and deletes the object | `storage/draft_bundle_store.py:220` "the second copy is never referenced" |
| `unapproved_run_sent` | an extraction between the gates and `build_package`: the package holds a run that nobody approved, and the log names the other one | `uwp/app/package.py:512` "every send is logged (history panel), with the run it was built from" |

What else the models showed, each within the behaviour of a module above and without a run:

* *Bind without a co-sign.* The bind endpoint asks `cosign_allows_bind`, for which no co-sign
  on file means none required (`api/main.py:4590`; `src/docs/product/PRODUCT_GUIDE.md:117`
  "need a higher-tier co-sign before bind").
* *A policy issued for a bound case.* The state is checked once (`api/main.py:4499`) and the
  policy issued later; `BoundOnce` holds of what is saved, not of what is issued.
* *Bound without the policy that was issued.* When the answer of the policy admin system is lost,
  the policy exists; the endpoint asks the rating engine and binds the case with that one's
  (`api/main.py:4641`). `billing/plan.py:63` says of the desk plan "live PAS required at bind",
  while the same entry has `require_live_pas=False`, so only book and enterprise refuse.
  `BoundCaseHasPolicy` claims a policy of the policy admin system for these two alone.
* *A run without the lock.* `run_draft_bundle` stores the bundle that it read before the dispatch,
  for lending before the whole pipeline (`api/main.py:3232`, `3252`, `3266`, `3296`). What was added
  meanwhile is lost, what was removed comes back with its object deleted, and a deleted bundle
  exists again. It is what `_bundle_lock` was written against; `NothingVanishes` shows that no other
  step does it.
* *A file twice.* Confirming with a password stores the ETag that was read before the file was
  written anew (`api/main.py:3085` and `3054`); a repeated confirmation sees another one and
  references the same key again. An upload is never compared with inline documents.
* *`escalate` has no state guard*, so a bound case can go back to review and be bound again;
  the invariants show that every such bind is justified anew.
* *Busy after the write.* A lease that runs out before the unlock is reported as busy
  although the record is stored (`workflow/store.py:22` the lock "can't be acquired"), and a
  live holder past its lease writes over what was saved meanwhile.
* *A job "processing" for ever.* The record is written after the task was sent
  (`api/main.py:3649`), over the outcome of a fast worker; `JobSettles` and `OutcomeIsFinal`
  are therefore checked in process only.
* *Two sends of one package.* `ResendIsExplicit` protects a package that was there when the
  request came in. Two requests that overlap both find the folder empty and write the same
  file; and since the folder is looked at twice (`uwp/app/package.py:498` and `502`), the
  slower one can also write a numbered resend that nobody gave a reason for.
* *What the budget does not see.* `check_budget` adds up the last 10,000 records
  (`llm/budget.py:54`). When so many calls cost less than the limit, no spending ever reaches it,
  and a day goes on for ever. Nothing is recorded of an answer whose usage has other names than
  OpenAI's (`llm/client.py:125`): those of Anthropic models, which the repository suggests as
  the fallback (`src/.env.example:30`). `OverspendBounded` is about the rest. The singletons of
  tracker and budget are created without a lock, and two threads that come first can hold one
  each.
* *"3 failures in a row"* (`src/docs/architecture/commercial_property_course.html:800`). A
  success lowers the count by one instead of clearing it, so that the failures need not be in a
  row; and a failure counted between the two halves of a success is forgotten. A refusal of
  the budget counts as a failure of the provider, an answer of the fallback as a success of
  the failing one. A thread that saw the rest end can wake a breaker that another has opened
  again in between; `OpenIsProbed` and `ProbeDecides` hold all the same.

## 6 Not modelled

Within the modelled components: the file mode of the workflow store (tests only),
`check_overdue` and `reassign_if_overdue` (they ask the store for a method that does not
exist and find nothing), the expiry of Redis records after seven days, the in-memory job store
(it hands out the stored record itself and not a copy; one process, for development), the legacy
pipeline (asks for no review), the agent and mortgage tasks, and the answers' lists of skipped
files. A wrong password, or a file too large to be decrypted, ends the confirmation like its
death. `CoSignStatus.CANCELLED` and `EXPIRED` are never assigned by the code and do not
occur. Of the workbench: the assist-only mode of the pilot, the request to the producer, code
marks, sign-in and the page. Of the model client: `stream`, which checks no budget and which
the pipeline does not call, `CircuitBreaker.reset`, which nothing calls, alerts, the monthly
limit (the same check over a longer period), and prices.

Most of the repository is not a matter for these tools. Of its 190,000 lines the greater part
are rule tables of the lines of business, parsers, prompts, rating and actuarial formulas over
floating-point numbers, scripts that build pages and data, demos and tests of models: functions
of one submission, whose transcription into TLA+ would restate the tables and could only be
checked against itself. The modules cover the code that keeps shared state across requests,
threads and processes, in the order of what a wrong step costs.

Of that code the authority matrix and the portfolio (a cache per process over one stored
document), webhooks and shares, the registry and the review queue are left. For the first two
what one would want to state (an edit is seen, no written policy is lost) is what the code
does not do with more than one worker, as the hazard list says; the others are small and on
the plan. Everything else is in the table of section 1 or in `PROJECT.json` with its reason.

## 7 Plan

Done, in the order of what is at stake: the decisions (`UnderwritingCase`, `Workflow`), their
storage (`CasRegister`, `RecordStore`), what feeds and uses them (`JobDispatch`,
`BindPolicy`, `DraftBundle`), what is sent to a carrier (`CarrierMatch`, `SendGate`), the
model provider (`LlmCalls`), and the proofs of section 4.

Left:

1. The results in the job record next to the workflow record (sign-off and validate-terms
   write both): a module that composes Workflow and the unlocked job record.
2. `Registry` (two approvals at once), `ReviewQueue`, `WebhookDelivery` (retries, shares and
   their caches), each small.
3. `AuthorityMatrix` and the portfolio with one cache per process, for one worker and for two.
4. The hash chain's `verify` against a reference definition.
