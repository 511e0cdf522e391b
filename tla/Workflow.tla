------------------------------ MODULE Workflow ------------------------------
(***************************************************************************)
(* The human-decision workflow of one submission bundle:                    *)
(*   workflow/service.py  the operations of WorkflowService                 *)
(*   workflow/store.py    WorkflowStore.get / save with its version check   *)
(*   workflow/models.py   WorkflowRecord and the states it goes through     *)
(*   underwriting/cosign.py  the second signature                           *)
(*                                                                          *)
(* Every operation of the service reads the stored record, changes its own  *)
(* copy and saves it.  Callers (API requests, two tabs of one underwriter,  *)
(* the pipeline's worker) interleave between the read and the save, so an   *)
(* operation is two actions: the operation itself, which reads, checks its  *)
(* guards and prepares the new record, and Save, which stores it or finds   *)
(* that the record has moved on.  That Save is atomic is what module        *)
(* RecordStore examines.                                                    *)
(*                                                                          *)
(* Abstracted: names, notes, licences, SLA clocks and assignees.            *)
(* final_decision is assigned only by sign_off, from the action, so it is   *)
(* read off the last sign-off.  A policy number stands for the user that    *)
(* bound it.                                                                *)
(***************************************************************************)
EXTENDS Naturals, Sequences

CONSTANTS
    Callers,      \* concurrent requests
    Users,        \* underwriters
    NoUser,       \* the empty user name
    TierOf,       \* authority tier of each user, "none" without a record
    MaxVersion    \* bound: no operation starts once this version is stored

Tiers == {"none", "junior", "mga", "senior", "cuo"}

ASSUME WorkflowAssumption ==
    /\ NoUser \notin Users
    /\ TierOf \in [Users -> Tiers]
    /\ MaxVersion \in Nat

VARIABLES
    disk,   \* the stored record; version 0 stands for "no record"
    busy,   \* busy[c]: caller c holds a record it has read and changed
    work    \* work[c]: that record

vars == <<disk, busy, work>>

-----------------------------------------------------------------------------
\* The data

States == {"received", "analyzing", "pending_review", "pending_co_sign",
           "approved", "quoted", "declined", "no_quote", "bound", "escalated"}

Actions == {"approve", "quote", "no_quote", "decline", "refer", "request_info"}
Accepting == {"approve", "quote"}

BINDABLE_STATES == {"approved", "quoted"}

\* reasoned: override_reason (or notes, for a no-quote) was given.
SignOffs == [action : Actions, reasoned : BOOLEAN]

CoSigns == [status       : {"none", "pending", "approved", "rejected"},
            requested_by : Users \cup {NoUser},
            required     : Tiers,
            signed_by    : Users \cup {NoUser}]

NoCoSign == [status |-> "none", requested_by |-> NoUser,
             required |-> "none", signed_by |-> NoUser]

Records == [version     : Nat,
            state       : States,
            aiDeclined  : BOOLEAN,
            signOffs    : Seq(SignOffs),
            escalations : Nat,
            cosign      : CoSigns,
            policy      : Users \cup {NoUser},
            terms       : BOOLEAN]

\* A WorkflowRecord as its constructor makes it.
Fresh == [version |-> 0, state |-> "received", aiDeclined |-> FALSE,
          signOffs |-> << >>, escalations |-> 0, cosign |-> NoCoSign,
          policy |-> NoUser, terms |-> FALSE]

Exists(r) == r.version # 0

LastAction(r) == IF r.signOffs = << >> THEN "none"
                 ELSE r.signOffs[Len(r.signOffs)].action

-----------------------------------------------------------------------------
\* Co-sign rules (underwriting/cosign.py)

_TIER_RANK == [none |-> 0, junior |-> 1, mga |-> 2, senior |-> 3, cuo |-> 4]

\* A requester without an authority record counts as a junior.
required_cosigner_tier(t) == IF t \in {"none", "junior", "mga"} THEN "senior" ELSE "cuo"

can_cosign(u, req) ==
    /\ u # req.requested_by
    /\ TierOf[u] # "none"
    /\ _TIER_RANK[TierOf[u]] >= _TIER_RANK[req.required]

create_cosign_request(u) ==
    [status |-> "pending", requested_by |-> u,
     required |-> required_cosigner_tier(TierOf[u]), signed_by |-> NoUser]

\* mutant: the co-signer may also bind
AnyApprovedCoSign(req, u) == req.status \in {"none", "approved"}

cosign_allows_bind(req, u) ==
    \/ req.status = "none"
    \/ req.status = "approved" /\ req.signed_by # u

-----------------------------------------------------------------------------
\* What each operation demands of the record it read, and makes of it

\* mutant: the "cannot reopen" check is gone
CanAlwaysReview(r) == TRUE

Opened(ai) == [Fresh EXCEPT !.state = "analyzing", !.aiDeclined = ai]

CanReview(r) == r.state \notin {"approved", "quoted", "bound"}

Reviewed(r, ai) == [r EXCEPT !.state = "pending_review", !.aiDeclined = ai]

\* mutant: accepting what the AI declined needs no reason
CanSignOffUnreasoned(r, a, reasoned) ==
    Exists(r) /\ r.state \in {"pending_review", "pending_co_sign"}

CanSignOff(r, a, reasoned) ==
    /\ Exists(r)
    /\ r.state \in {"pending_review", "pending_co_sign"}
    /\ (a \in Accepting /\ r.aiDeclined) => reasoned
    /\ a = "no_quote" => reasoned

StateAfter(a) ==
    CASE a = "approve"  -> "approved"
      [] a = "quote"    -> "quoted"
      [] a = "no_quote" -> "no_quote"
      [] a = "decline"  -> "declined"
      [] OTHER          -> "pending_review"

SignedOff(r, a, reasoned) ==
    [r EXCEPT !.signOffs = Append(@, [action |-> a, reasoned |-> reasoned]),
              !.state = StateAfter(a)]

\* mutant: a co-sign can be asked for in any state
CanRequestCoSignAnytime(r) == Exists(r) /\ r.cosign.status # "approved"

CanRequestCoSign(r) ==
    /\ Exists(r)
    /\ r.state \in {"approved", "quoted", "pending_co_sign"}
    /\ r.cosign.status # "approved"

CoSignRequested(r, u) ==
    [r EXCEPT !.cosign = create_cosign_request(u), !.state = "pending_co_sign"]

CanResolveCoSign(r, u) ==
    /\ Exists(r)
    /\ r.cosign.status = "pending"
    /\ can_cosign(u, r.cosign)

CoSignResolved(r, u, approve) ==
    [r EXCEPT !.cosign.status = IF approve THEN "approved" ELSE "rejected",
              !.cosign.signed_by = u,
              !.state = IF LastAction(r) = "quote" THEN "quoted" ELSE "approved"]

CanMarkBound(r, u) ==
    /\ Exists(r)
    /\ r.state \in BINDABLE_STATES
    /\ cosign_allows_bind(r.cosign, u)

MarkedBound(r, u) == [r EXCEPT !.state = "bound", !.policy = u]

Escalated(r) == [r EXCEPT !.escalations = @ + 1, !.state = "escalated"]

\* The validate-terms endpoint stores the underwriter's terms in the metadata.
TermsValidated(r) == [r EXCEPT !.terms = TRUE]

-----------------------------------------------------------------------------
\* The operations: read, check, prepare the record that Save will store

Prepare(c, r) ==
    /\ ~busy[c]
    /\ disk.version < MaxVersion
    /\ busy' = [busy EXCEPT ![c] = TRUE]
    /\ work' = [work EXCEPT ![c] = r]
    /\ UNCHANGED disk

\* start never reads: it prepares a record of version 0.
start(c, ai) == Prepare(c, Opened(ai))

submit_for_review(c, ai) == CanReview(disk) /\ Prepare(c, Reviewed(disk, ai))

\* The assignee and the SLA clock are abstracted; the save is not.
assign(c) == Exists(disk) /\ Prepare(c, disk)

\* There is no guard on the state.
escalate(c) == Exists(disk) /\ Prepare(c, Escalated(disk))

sign_off(c, a, reasoned) ==
    CanSignOff(disk, a, reasoned) /\ Prepare(c, SignedOff(disk, a, reasoned))

\* With an approved co-sign on file the call returns without saving.
request_cosign(c, u) ==
    CanRequestCoSign(disk) /\ Prepare(c, CoSignRequested(disk, u))

resolve_cosign_request(c, u, approve) ==
    CanResolveCoSign(disk, u) /\ Prepare(c, CoSignResolved(disk, u, approve))

mark_bound(c, u) == CanMarkBound(disk, u) /\ Prepare(c, MarkedBound(disk, u))

validate_uw_terms(c) == Exists(disk) /\ Prepare(c, TermsValidated(disk))

-----------------------------------------------------------------------------
\* The end of every operation

Finish(c) ==
    /\ busy' = [busy EXCEPT ![c] = FALSE]
    /\ work' = [work EXCEPT ![c] = Fresh]

\* mutant: the last writer wins
LastWriterWins(c) == TRUE

\* on_disk is None or has the version the caller read.
VersionAllows(c) == Exists(disk) => disk.version = work[c].version

Save(c) ==
    /\ busy[c]
    /\ VersionAllows(c)
    /\ disk' = [work[c] EXCEPT !.version = @ + 1]
    /\ Finish(c)

\* WorkflowConflictError
Conflict(c) ==
    /\ busy[c]
    /\ ~VersionAllows(c)
    /\ Finish(c)
    /\ UNCHANGED disk

\* WorkflowStoreBusyError, or the process dies between the read and the save.
Abandon(c) ==
    /\ busy[c]
    /\ Finish(c)
    /\ UNCHANGED disk

-----------------------------------------------------------------------------

Init ==
    /\ disk = Fresh
    /\ busy = [c \in Callers |-> FALSE]
    /\ work = [c \in Callers |-> Fresh]

Operation(c) ==
    \/ \E ai \in BOOLEAN : start(c, ai) \/ submit_for_review(c, ai)
    \/ assign(c)
    \/ escalate(c)
    \/ \E a \in Actions, reasoned \in BOOLEAN : sign_off(c, a, reasoned)
    \/ \E u \in Users : request_cosign(c, u) \/ mark_bound(c, u)
    \/ \E u \in Users, approve \in BOOLEAN : resolve_cosign_request(c, u, approve)
    \/ validate_uw_terms(c)

Next == \E c \in Callers : Operation(c) \/ Save(c) \/ Conflict(c) \/ Abandon(c)

Spec == Init /\ [][Next]_vars

-----------------------------------------------------------------------------
\* Properties

\* Every record, stored or in a caller's hands, is a well-formed
\* WorkflowRecord, and no prepared record is newer than the stored one.
TypeOK ==
    /\ disk \in Records
    /\ busy \in [Callers -> BOOLEAN]
    /\ work \in [Callers -> Records]
    /\ \A c \in Callers : work[c].version <= disk.version

\* A saved record extends the stored one: however callers interleave, no
\* sign-off, escalation, set of validated terms or approved co-sign of
\* another caller is overwritten (the promise of WorkflowStore.save).
NothingLost ==
    [][/\ Len(disk.signOffs) <= Len(disk'.signOffs)
       /\ SubSeq(disk'.signOffs, 1, Len(disk.signOffs)) = disk.signOffs
       /\ disk.escalations <= disk'.escalations
       /\ disk.terms => disk'.terms
       /\ disk.cosign.status = "approved" => disk'.cosign = disk.cosign]_disk

\* Without a co-sign on file, a case is quoted, approved or bound only on the
\* latest human decision, and against the AI's decline only with a reason.
\* Escalations, re-runs of the pipeline and returns to review between the
\* decision and the bind do not get around it.
SoloBindJustified ==
    (disk.state \in BINDABLE_STATES \cup {"bound"} /\ disk.cosign.status = "none")
    => /\ LastAction(disk) \in Accepting
       /\ disk.aiDeclined => disk.signOffs[Len(disk.signOffs)].reasoned

\* A case that carries a policy and is bound, with a co-sign on file, has it
\* approved, by a user of sufficient tier who is neither the one that asked
\* nor the one that bound.
BoundWithSecondSignature ==
    (disk.state = "bound" /\ disk.cosign.status # "none")
    => /\ disk.cosign.status = "approved"
       /\ disk.cosign.signed_by \notin {disk.policy, disk.cosign.requested_by}
       /\ _TIER_RANK[TierOf[disk.cosign.signed_by]] >= _TIER_RANK["senior"]

\* Nothing gets near a bind, and no second signature is even asked for, before
\* some underwriter's quote or approval is in the trail.
ApprovalOnFile ==
    (\/ disk.state \in BINDABLE_STATES \cup {"pending_co_sign", "bound"}
     \/ disk.cosign.status # "none")
    => \E i \in 1 .. Len(disk.signOffs) : disk.signOffs[i].action \in Accepting

\* Read-then-save with a version check behaves as if every operation were
\* atomic: the interleaved service implements the one-step case.
Case == INSTANCE UnderwritingCase WITH
            state <- disk.state,
            decisions <- disk.signOffs,
            clearance <- disk.cosign.status

ImplementsCase == Case!CaseSpec

-----------------------------------------------------------------------------
\* Statements of the code that its behaviour contradicts

\* mark_bound: "Policy can only be bound after UW quote/approval (and co-sign
\* if required)", read as: the underwriter's standing decision accepts.
BoundOnStandingApproval ==
    disk.state = "bound" => LastAction(disk) \in Accepting
=============================================================================
