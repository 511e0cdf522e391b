------------------------------ MODULE LlmCalls ------------------------------
(***************************************************************************)
(* The agents of the underwriting pipeline and the model provider:         *)
(*   agents/react_agent.py            run and _react_loop                  *)
(*   verification/circuit_breaker.py  the breaker of one provider          *)
(*   llm/client.py                    complete, its retries and fallback   *)
(*   llm/budget.py, llm/tracker.py    the limit on what is spent           *)
(*                                                                         *)
(* The supervisor runs several agents at once in a thread pool, and a      *)
(* process runs several submissions; all of them share one breaker, one    *)
(* budget and one tracker, without a lock but the tracker's own.  A thread *)
(* can lose its turn at every call it makes, which is where the steps here *)
(* are cut.                                                                *)
(*                                                                         *)
(* Abstracted: prompts and answers; the analysis by rules that a refused   *)
(* or failed run ends with, which touches nothing shared; alerts; the      *)
(* self-review of an agent, which is off; the monthly limit, which is the  *)
(* same check over a longer period.  A cost is what the tracker records of *)
(* an answer, in cents or the like: what the budget knows of the money, not *)
(* the money itself.  The process is one, and its singletons exist before  *)
(* its threads.                                                            *)
(***************************************************************************)
EXTENDS Integers, Sequences, FiniteSets

CONSTANTS
    Agent,        \* agent runs that go on at the same time
    Threshold,    \* failure_threshold of the breaker
    Limit,        \* daily_limit
    MaxCost,      \* the most one answer costs
    Window,       \* how many records check_budget looks at
    MaxAttempts,  \* max_retries of complete
    MaxSteps,     \* max_steps of _react_loop
    Fallback,     \* a fallback provider is configured
    Metered,      \* whose usage is read: the provider's ("call"), the fallback's ("fallback")
    MaxRecords,   \* bound: answers that are recorded, in one day
    MaxFailures   \* bound: more failures than these are not told apart

ASSUME LlmAssumption ==
    /\ IsFiniteSet(Agent)
    /\ {Threshold, Limit, MaxCost, Window, MaxAttempts, MaxSteps} \subseteq Nat \ {0}
    /\ Fallback \in BOOLEAN /\ Metered \subseteq {"call", "fallback"} /\ MaxRecords \in Nat
    /\ MaxFailures \in Nat /\ MaxFailures > Threshold

VARIABLES
    state,     \* _state of the breaker
    failures,  \* _failure_count
    cooled,    \* recovery_timeout has passed since _last_failure_time
    records,   \* today's costs in the tracker, in order
    th         \* where each agent is in its run

vars == <<state, failures, cooled, records, th>>
breaker == <<state, failures, cooled>>

Idle == [pc |-> "idle", step |-> 0, attempt |-> 0, held |-> 0]

Init ==
    /\ state = "closed" /\ failures = 0 /\ cooled = TRUE
    /\ records = << >>
    /\ th = [a \in Agent |-> Idle]

Go(a, pc) == th' = [th EXCEPT ![a].pc = pc]
\* Out of the loop: to the end of the run, or to what is counted of it.
Leave(a) == th' = [th EXCEPT ![a] = Idle]
End(a, pc) == th' = [th EXCEPT ![a] = [Idle EXCEPT !.pc = pc]]
At(a, pc) == th[a].pc = pc
-----------------------------------------------------------------------------
(* run: is_available, which may wake the breaker *)

Resting == state = "open" /\ ~cooled

\* mutant: an open breaker is not looked at again
NeverAsksOpen(a) ==
    /\ At(a, "idle") /\ state # "open"
    /\ Go(a, "check")
    /\ UNCHANGED <<breaker, records>>
\* A resting breaker sends the run to its rules; one that has rested is to be woken first.
Ask(a) ==
    /\ At(a, "idle") /\ ~Resting
    /\ Go(a, IF state = "open" THEN "wake" ELSE "check")
    /\ UNCHANGED <<breaker, records>>

\* The transition follows a look at the state that may be out of date by now.
Wake(a) ==
    /\ th[a].pc \in {"wake", "wakelog"}
    /\ state' = "half_open"
    /\ IF At(a, "wake") THEN Go(a, "woken") ELSE Leave(a)
    /\ UNCHANGED <<failures, cooled, records>>
Admit(a) ==
    /\ At(a, "woken")
    /\ IF state = "open" THEN Leave(a) ELSE Go(a, "check")
    /\ UNCHANGED <<breaker, records>>
-----------------------------------------------------------------------------
(* complete, once for each step of the loop *)

\* The records that check_budget adds up, every unit of their costs, and the sum: to add up is to count
\* units.  What was recorded before the last Window answers is not seen any more.
Recent(costs) == {i \in DOMAIN costs : i > Len(costs) - Window}
Units(costs) == {u \in Recent(costs) \X (1..MaxCost) : u[2] <= costs[u[1]]}
Seen(costs) == Cardinality(Units(costs))

\* mutant: the limit itself may still be spent
Overdrawn == Seen(records) > Limit
Exceeded == Seen(records) >= Limit
\* enforce raises BudgetExceededError, which counts as a failure of the provider.
Enforce(a) ==
    /\ At(a, "check")
    /\ IF Exceeded THEN End(a, "failed") ELSE th' = [th EXCEPT ![a].pc = "call", ![a].attempt = 1]
    /\ UNCHANGED <<breaker, records>>

\* _track_usage reads the usage attributes of OpenAI's answers only: nothing is recorded of an answer that
\* has none, nor of any answer of an Anthropic model, whatever it costs.
Track(a, cost) == records' = IF cost = 0 \/ th[a].pc \notin Metered THEN records ELSE Append(records, cost)
\* Neither a transient error on the last attempt nor a permanent one is retried; the fallback is asked once.
FallBack(a) ==
    IF At(a, "call") /\ Fallback THEN th' = [th EXCEPT ![a].pc = "fallback", ![a].attempt = 0] ELSE End(a, "failed")

\* The provider answers; the answer may be one that cannot be used.
Answer(a) ==
    /\ th[a].pc \in {"call", "fallback"} /\ Len(records) < MaxRecords
    /\ \E cost \in 0..MaxCost : Track(a, cost)
    /\ th' = [th EXCEPT ![a].pc = "answered", ![a].attempt = 0] \/ FallBack(a)
    /\ UNCHANGED breaker
Retry(a) ==
    /\ At(a, "call") /\ th[a].attempt < MaxAttempts
    /\ th' = [th EXCEPT ![a].attempt = @ + 1]
    /\ UNCHANGED <<breaker, records>>
GiveUp(a) ==
    /\ th[a].pc \in {"call", "fallback"}
    /\ FallBack(a)
    /\ UNCHANGED <<breaker, records>>

\* The answer calls a tool, is final, or breaks the loop with an exception.
NextStep(a) ==
    /\ At(a, "answered")
    /\ \/ th[a].step + 1 < MaxSteps /\ th' = [th EXCEPT ![a].pc = "check", ![a].step = @ + 1]
       \/ End(a, "succeeded")
       \/ End(a, "failed")
    /\ UNCHANGED <<breaker, records>>
-----------------------------------------------------------------------------
(* record_success and record_failure *)

\* With half_open_max_calls = 1 the first success of a probe closes the breaker.
Succeed(a) ==
    /\ At(a, "succeeded")
    /\ \/ state = "open" /\ Leave(a) /\ UNCHANGED failures
       \/ state = "half_open" /\ Go(a, "close") /\ failures' = 0
       \/ state = "closed" /\ th' = [th EXCEPT ![a].pc = "lower", ![a].held = failures] /\ UNCHANGED failures
    /\ UNCHANGED <<state, cooled, records>>
Close(a) ==
    /\ At(a, "close")
    /\ state' = "closed"
    /\ Leave(a)
    /\ UNCHANGED <<failures, cooled, records>>
\* mutant: the count is lowered below zero
LowerAnyway(a) ==
    /\ At(a, "lower")
    /\ failures' = th[a].held - 1
    /\ Leave(a)
    /\ UNCHANGED <<state, cooled, records>>
\* The count was read before max() was called: a failure counted in between is forgotten.
Lower(a) ==
    /\ At(a, "lower")
    /\ failures' = IF th[a].held = 0 THEN 0 ELSE th[a].held - 1
    /\ Leave(a)
    /\ UNCHANGED <<state, cooled, records>>

Count(a) ==
    /\ At(a, "failed")
    /\ failures' = IF failures = MaxFailures THEN failures ELSE failures + 1
    /\ Go(a, "stamp")
    /\ UNCHANGED <<state, cooled, records>>
\* mutant: a failed probe leaves the breaker as it is
OpensClosedOnly == state = "closed" /\ failures >= Threshold
Opens == state = "half_open" \/ (state = "closed" /\ failures >= Threshold)
Stamp(a) ==
    /\ At(a, "stamp")
    /\ cooled' = FALSE
    /\ Go(a, IF Opens THEN "open" ELSE "log")
    /\ UNCHANGED <<state, failures, records>>
Open(a) ==
    /\ At(a, "open")
    /\ state' = "open"
    /\ Go(a, "log")
    /\ UNCHANGED <<failures, cooled, records>>
\* The warning names breaker.state, and looking at it may wake the breaker.
Log(a) ==
    /\ At(a, "log")
    /\ IF state = "open" /\ cooled THEN Go(a, "wakelog") ELSE Leave(a)
    /\ UNCHANGED <<breaker, records>>
-----------------------------------------------------------------------------
Elapse ==
    /\ ~cooled /\ cooled' = TRUE
    /\ UNCHANGED <<state, failures, records, th>>
\* Yesterday's records no longer count.
Midnight ==
    /\ records # << >> /\ records' = << >>
    /\ UNCHANGED <<breaker, th>>

Step(a) == \/ Wake(a) \/ Admit(a) \/ Enforce(a) \/ Answer(a) \/ Retry(a) \/ GiveUp(a) \/ NextStep(a)
           \/ Succeed(a) \/ Close(a) \/ Lower(a) \/ Count(a) \/ Stamp(a) \/ Open(a) \/ Log(a)

Next == Elapse \/ Midnight \/ \E a \in Agent : Ask(a) \/ Step(a)

Spec == Init /\ [][Next]_vars

\* A run goes on to its end (calls to a provider time out), time passes, and submissions keep coming.
Fairness == WF_vars(Elapse) /\ \A a \in Agent : WF_vars(Step(a)) /\ WF_vars(Ask(a))

FairSpec == Spec /\ Fairness
-----------------------------------------------------------------------------
(* What the breaker and the budget promise *)

\* The breaker is in one of its states, no count falls below zero, and every cost is a cost.
TypeOK ==
    /\ state \in {"closed", "open", "half_open"}
    /\ failures \in 0..MaxFailures /\ cooled \in BOOLEAN
    /\ records \in Seq(1..MaxCost)
    /\ th \in [Agent -> [pc: {"idle", "wake", "wakelog", "woken", "check", "call", "fallback", "answered",
                              "succeeded", "close", "lower", "failed", "stamp", "open", "log"},
                         step: 0..(MaxSteps - 1), attempt: 0..MaxAttempts, held: 0..MaxFailures]]

\* How many answers of one call can be recorded: the provider's, unusable perhaps, and its fallback's.
CallCharge == IF "call" \in Metered THEN 1 ELSE 0
FallbackCharge == IF Fallback /\ "fallback" \in Metered THEN 1 ELSE 0

\* The limit is checked before a call and the cost recorded after it, by all agents at once; still what
\* the budget sees (the day's records, the last Window of them) goes beyond the limit by no more than
\* one call of every agent, however they interleave and at whatever hour.  Of what it does not see, the
\* answers that are not metered and those before the window, nothing is promised.
OverspendBounded == Seen(records) <= Limit - 1 + Cardinality(Agent) * (CallCharge + FallbackCharge) * MaxCost

\* An open breaker is probed again: late failures of runs that began before it opened start its rest
\* anew, but not for ever.
OpenIsProbed == state = "open" ~> state # "open"

\* A probe is decided: the breaker does not stay half open, whoever changes its state in between.
ProbeDecides == state = "half_open" ~> state # "half_open"
=============================================================================
