-------------------------- MODULE UnderwritingCase --------------------------
(***************************************************************************)
(* What the human-decision workflow promises about one submission, with no  *)
(* storage, no versions and no concurrency: every operation of              *)
(* WorkflowService happens in one step on the current case.  Module         *)
(* Workflow, where an operation is a read followed by a later save that     *)
(* may conflict, is shown to implement this specification.                  *)
(***************************************************************************)
EXTENDS Sequences

VARIABLES
    state,      \* where the case stands
    decisions,  \* the sign-offs made so far, oldest first
    clearance   \* status of the co-sign request, "none" before the first

caseVars == <<state, decisions, clearance>>

Deciding == {"pending_review", "pending_co_sign"}
Bindable == {"approved", "quoted"}

\* The state a licensed underwriter's decision leads to.
OutcomeState(action) ==
    CASE action = "approve"  -> "approved"
      [] action = "quote"    -> "quoted"
      [] action = "no_quote" -> "no_quote"
      [] action = "decline"  -> "declined"
      [] OTHER               -> "pending_review"

CaseInit ==
    /\ state = "received"
    /\ decisions = << >>
    /\ clearance = "none"

\* Analysis starts on a case nobody has touched.
Open ==
    /\ state = "received"
    /\ state' = "analyzing"
    /\ UNCHANGED <<decisions, clearance>>

\* The pipeline hands the case to a human unless a human already accepted it.
Review ==
    /\ state \notin Bindable \cup {"bound"}
    /\ state' = "pending_review"
    /\ UNCHANGED <<decisions, clearance>>

\* A licensed underwriter decides; the decision joins the trail.
Decide ==
    /\ state \in Deciding
    /\ \E d \in [action : {"approve", "quote", "no_quote", "decline", "refer", "request_info"},
                 reasoned : BOOLEAN] :
          /\ decisions' = Append(decisions, d)
          /\ state' = OutcomeState(d.action)
    /\ UNCHANGED clearance

\* A second signature is asked for; an approved one is never reopened.
AskCoSign ==
    /\ state \in Bindable \cup {"pending_co_sign"}
    /\ clearance # "approved"
    /\ state' = "pending_co_sign"
    /\ clearance' = "pending"
    /\ UNCHANGED decisions

\* The second signature arrives: a pending request is settled for good.
AnswerCoSign ==
    /\ clearance = "pending"
    /\ clearance' \in {"approved", "rejected"}
    /\ state' \in Bindable
    /\ UNCHANGED decisions

\* The policy is bound, never past an unsettled or refused co-sign.
Bind ==
    /\ state \in Bindable
    /\ clearance \in {"none", "approved"}
    /\ state' = "bound"
    /\ UNCHANGED <<decisions, clearance>>

\* A supervisor takes the case over, whatever its state.
Escalate ==
    /\ state # "received"
    /\ state' = "escalated"
    /\ UNCHANGED <<decisions, clearance>>

CaseNext ==
    \/ Open \/ Review \/ Decide \/ AskCoSign \/ AnswerCoSign \/ Bind \/ Escalate

CaseSpec == CaseInit /\ [][CaseNext]_caseVars
=============================================================================
