----------------------------- MODULE BindPolicy -----------------------------
(***************************************************************************)
(* Binding one case through the API (api/main.py, bind_policy) while other  *)
(* requests work on the same case.  The request reads the case and checks   *)
(* every gate, asks the authority matrix for a verdict on the binder, has   *)
(* the policy admin system issue a policy or, when that fails, the rating   *)
(* engine on plans that allow it, marks the workflow record bound, books    *)
(* the policy in the portfolio and issues the documents, which saves the    *)
(* record once more.  Nothing is locked in between.                         *)
(*                                                                          *)
(* A policy is known by the bind that obtained it: what number the client   *)
(* names in its request instead, if any, is not looked at by anybody.  One  *)
(* Issue stands for a round over the adapters of the policy admin system;   *)
(* an adapter without credentials answers with a simulated policy, and the  *)
(* endpoint does not tell it from a live one.                               *)
(*                                                                          *)
(* The record, its saves and their conflicts are those of module Workflow;  *)
(* of its operations only those that the API reaches occur here.  No        *)
(* endpoint but this one requests a co-sign; ServiceCoSigns adds requests   *)
(* made through WorkflowService itself.                                     *)
(*                                                                          *)
(* Abstracted: the gates on the quote, the holds and the checkpoints, which *)
(* are read once from the audit store (a refusal there is a bind that does  *)
(* not begin; so is a plan that requires a live system where none is        *)
(* configured); the outcome record, the monitoring and the producer's       *)
(* notice, which follow the booking and read nothing here.                  *)
(***************************************************************************)
EXTENDS Workflow, FiniteSets

CONSTANTS
    Verdict,         \* the authority matrix' verdict on each user for this case
    ServiceCoSigns,  \* co-signs are also requested from the service directly
    MaxPolicies      \* bound: policies that are issued

ASSUME BindAssumption ==
    /\ Verdict \in [Users -> {"approved", "needs_co_sign", "denied"}]
    /\ ServiceCoSigns \in BOOLEAN
    /\ MaxPolicies \in Nat

VARIABLES
    step,      \* step[c]: where the bind request of caller c stands
    binder,    \* binder[c]: its user
    number,    \* number[c]: the policy issued for it, as an index of issued
    requireLivePas,  \* require_live_pas of the plan: book and enterprise, not pilot and desk
    issued,    \* the policies: for whom, and by which system
    marked,    \* the policies whose number was saved on the workflow record
    booked     \* the policies in the portfolio

bindVars == <<requireLivePas, step, binder, number, issued, marked, booked>>
allVars == <<vars, bindVars>>

\* Steps at which the caller holds a record that it is about to save.
Saving == {"asking", "marking", "documenting"}
Steps == Saving \cup {"none", "unsigned", "cleared", "unissued", "issued", "bound", "booked"}
Policy == [to: Users, by: {"pas", "rating"}]

Goto(c, label) == step' = [step EXCEPT ![c] = label] /\ UNCHANGED <<binder, number>>
\* The request is answered, or lost with its process.
Return(c) ==
    /\ step' = [step EXCEPT ![c] = "none"]
    /\ binder' = [binder EXCEPT ![c] = NoUser]
    /\ number' = [number EXCEPT ![c] = 0]

-----------------------------------------------------------------------------

\* The case starts with its first decision, an approval or a quote, on file:
\* the pipeline's save and the underwriter's.
Decided(a) ==
    SignedOff([Reviewed(Fresh, FALSE) EXCEPT !.version = 2], a, TRUE)

BindInit ==
    /\ disk \in {Decided(a) : a \in Accepting}
    /\ busy = [c \in Callers |-> FALSE]
    /\ work = [c \in Callers |-> Fresh]
    /\ step = [c \in Callers |-> "none"]
    /\ binder = [c \in Callers |-> NoUser]
    /\ number = [c \in Callers |-> 0]
    /\ requireLivePas \in BOOLEAN
    /\ issued = << >>
    /\ marked = {}
    /\ booked = {}

\* The co-sign is looked up only when the verdict asks for one.
Authorized(u) ==
    \/ Verdict[u] = "approved"
    \/ Verdict[u] = "needs_co_sign" /\ cosign_allows_bind(disk.cosign, u)

\* One read of the record decides all the gates.
BeginBind(c, u) ==
    /\ step[c] = "none" /\ ~busy[c]
    /\ disk.version < MaxVersion
    /\ disk.state \in BINDABLE_STATES
    /\ Verdict[u] # "denied"
    /\ step' = [step EXCEPT ![c] = IF Authorized(u) THEN "cleared" ELSE "unsigned"]
    /\ binder' = [binder EXCEPT ![c] = u]
    /\ UNCHANGED <<vars, number, issued, marked, booked>>

\* The binder needs a co-sign that the record does not have: 409, after
\* request_cosign has saved a request, unless it refuses or has one approved.
AskCoSign(c) ==
    /\ step[c] = "unsigned"
    /\ \/ request_cosign(c, binder[c]) /\ Goto(c, "asking")
       \/ ~CanRequestCoSign(disk) /\ Return(c) /\ UNCHANGED vars
    /\ UNCHANGED <<issued, marked, booked>>

Gets(c, system) ==
    /\ Len(issued) < MaxPolicies
    /\ issued' = Append(issued, [to |-> binder[c], by |-> system])
\* The request goes on with the policy that it just got.
GoesOn(c) ==
    /\ step' = [step EXCEPT ![c] = "issued"]
    /\ number' = [number EXCEPT ![c] = Len(issued')]
    /\ UNCHANGED binder

\* The policy admin system issues a policy; it takes no idempotency key.
Issue(c) ==
    /\ step[c] = "cleared"
    /\ Gets(c, "pas") /\ GoesOn(c)
    /\ UNCHANGED <<vars, marked, booked>>

\* No adapter succeeds, or the answer of one that did is lost on the way.
IssueFails(c) ==
    /\ step[c] = "cleared"
    /\ UNCHANGED issued \/ Gets(c, "pas")
    /\ Goto(c, "unissued")
    /\ UNCHANGED <<vars, marked, booked>>

\* mutant: the fallback is used on every plan
FallBackAlways(c) ==
    /\ step[c] = "unissued"
    /\ \/ Gets(c, "rating") /\ GoesOn(c)
       \/ UNCHANGED issued /\ Return(c)
    /\ UNCHANGED <<vars, marked, booked>>

\* The rating engine binds instead, before the plan is looked at; 502 if it fails, which hardened
\* deployments make of every simulated bind, or if the plan refuses what it gave.
RatedBind(c) ==
    /\ step[c] = "unissued"
    /\ \/ Gets(c, "rating") /\ IF requireLivePas THEN Return(c) ELSE GoesOn(c)
       \/ UNCHANGED issued /\ Return(c)
    /\ UNCHANGED <<vars, marked, booked>>

MarkBound(c) ==
    /\ step[c] = "issued"
    /\ \/ mark_bound(c, binder[c]) /\ Goto(c, "marking")
       \/ ~CanMarkBound(disk, binder[c]) /\ Return(c) /\ UNCHANGED vars
    /\ UNCHANGED <<issued, marked, booked>>

\* mutant: a conflict at the end does not stop the bind
BookAnyway(c) ==
    /\ step[c] = "marking"
    /\ Save(c) \/ Conflict(c) \/ Abandon(c)
    /\ marked' = IF disk' # disk THEN marked \cup {number[c]} ELSE marked
    /\ Goto(c, "bound")
    /\ UNCHANGED <<issued, booked>>

\* WorkflowConflictError and WorkflowStoreBusyError are answered with 409.
SaveBound(c) ==
    /\ step[c] = "marking"
    /\ \/ Save(c) /\ marked' = marked \cup {number[c]} /\ Goto(c, "bound")
       \/ (Conflict(c) \/ Abandon(c)) /\ Return(c) /\ UNCHANGED marked
    /\ UNCHANGED <<issued, booked>>

\* A failure to book is logged, and the bind goes on.
Book(c) ==
    /\ step[c] = "bound"
    /\ booked' \in {booked, booked \cup {number[c]}}
    /\ Goto(c, "booked")
    /\ UNCHANGED <<vars, issued, marked>>

\* IssuanceService.issue adds the documents to the record.
Document(c) ==
    /\ step[c] = "booked"
    /\ Exists(disk) /\ Prepare(c, disk)
    /\ Goto(c, "documenting")
    /\ UNCHANGED <<issued, marked, booked>>

\* The end of every other save; issue() ignores a conflict.
EndSave(c) ==
    /\ step[c] \in {"none", "asking", "documenting"}
    /\ Save(c) \/ Conflict(c) \/ Abandon(c)
    /\ Return(c)
    /\ UNCHANGED <<issued, marked, booked>>

\* The API process dies with the request.
Crash(c) ==
    /\ step[c] \notin {"none"} \cup Saving
    /\ Return(c)
    /\ UNCHANGED <<vars, issued, marked, booked>>

\* What else the API and the pipeline do to the case: here the AI does not
\* decline and underwriters give reasons, which mark_bound never looks at.
DeskWork(c) ==
    /\ step[c] = "none"
    /\ \/ submit_for_review(c, FALSE)
       \/ \E a \in Actions : sign_off(c, a, TRUE)
       \/ \E u \in Users, approve \in BOOLEAN : resolve_cosign_request(c, u, approve)
       \/ validate_uw_terms(c)
       \/ ServiceCoSigns /\ \E u \in Users : request_cosign(c, u)
    /\ UNCHANGED bindVars

Bind(c) ==
    \/ \E u \in Users : BeginBind(c, u)
    \/ AskCoSign(c) \/ Issue(c) \/ IssueFails(c) \/ RatedBind(c) \/ MarkBound(c) \/ SaveBound(c)
    \/ Book(c) \/ Document(c) \/ Crash(c)

\* The plan is read from the environment; a deployment keeps it.
BindNext == UNCHANGED requireLivePas /\ \E c \in Callers : DeskWork(c) \/ Bind(c) \/ EndSave(c)

BindSpec == BindInit /\ [][BindNext]_allVars

-----------------------------------------------------------------------------
\* Properties

\* A bound case has a policy that was really issued, and to the very user the
\* record names, whatever answers were lost and whoever else was binding the
\* case; and where the plan requires a live policy admin system it is never the
\* fallback's ("refusing simulated fallback that would force Guidewire re-work").
BoundCaseHasPolicy ==
    disk.policy # NoUser =>
        \E n \in marked \cap DOMAIN issued :
            issued[n].to = disk.policy /\ (requireLivePas => issued[n].by = "pas")

\* The portfolio counts only policies of cases that were marked bound ("Record
\* in portfolio only after successful bind").
BookedWasBound == booked \subseteq marked

\* However many requests bind the case at the same time, one policy at most is
\* saved on it and counted in the portfolio.
BoundOnce == Cardinality(marked) <= 1
=============================================================================
