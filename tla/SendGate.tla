------------------------------ MODULE SendGate ------------------------------
(***************************************************************************)
(* The underwriting workbench (underwriting_pipeline): one submission from *)
(* its documents to the packages written for a carrier.                    *)
(*                                                                         *)
(* The web server runs every request on a thread of its own, and the       *)
(* extraction (write_drafts) is run beside it by hand.  What they share is *)
(* on disk: the documents, the saved run, the append-only decision log,    *)
(* the market confirms, the packages and the log of sends.  A send passes  *)
(* its gates one after the other, reads again what it builds the package   *)
(* from, and holds no lock: each gate is a step here.  Decisions are       *)
(* appended under a lock, which makes the append one step.                 *)
(*                                                                         *)
(* A saved run is the record of its content, and is its own hash.  Two of  *)
(* its fields are kept: the operations, which decide the carrier, and the  *)
(* building value; what the match reads beside them (the cited text of the *)
(* operations, the line of business, the cooking facts) is part of the     *)
(* run.                                                                    *)
(***************************************************************************)
EXTENDS CarrierMatch, Sequences

CONSTANTS
    Thread,      \* threads that answer requests
    Docs,        \* contents of the submission's folder
    InScope,     \* those that scope.detect finds within the pilot's scope
    Run,         \* the contents an extraction may save
    Edit,        \* the corrections an underwriter may log: the value of one field
    Market,      \* the carriers that people name, in an override or a confirm
    None,        \* no run, no row, no package
    MaxLog, MaxConfirms, MaxFiles   \* bounds

Field == {"operations", "tiv_building"}
Value == [operations: SUBSET Kind, tiv_building: Tiv]
Status == {"complete", "review_pending", "incomplete", "extraction_failed", "all_values_rejected", "manual_intake"}
RefusedStatus == {"extraction_failed", "all_values_rejected", "manual_intake"}

\* prepare._saved_payload: what is saved of an extraction, under its hash.
SavedRun == [status: Status, docs: Docs, value: Value, cited: SUBSET Kind, line: SUBSET Kind,
             cooking: BOOLEAN, sprinklers: Sprinklers, review: SUBSET Field, conflicts: SUBSET Field,
             unread: BOOLEAN, excluded: SUBSET Carrier]

VARIABLES
    inbox,     \* the documents in the folder
    saved,     \* the last saved run
    log,       \* DECISIONS_LOG, this submission's rows in the order of seq
    confirms,  \* market_confirms.jsonl
    files,     \* the packages in to-carrier: 1 is SUB.md, n is SUB-resend-n.md
    sends,     \* SENDS_LOG, as a set
    th         \* where each thread is in its request

vars == <<inbox, saved, log, confirms, files, sends, th>>

Names == 1..MaxFiles
Row == [action: {"approve", "edit", "decline", "resolve"}, run: Run \union {None},
        reason: BOOLEAN, acknowledged: SUBSET Field, edit: Edit \union {None}]
Confirm == [run: Run, value: Value, carrier: Carrier]
Package == [run: Run, value: Value, carrier: Carrier]
Send == [run: Run, name: Names]

ASSUME SendGateAssumption ==
    /\ InScope \subseteq Docs
    /\ Run \subseteq SavedRun /\ None \notin Run
    /\ \A r \in Run : (r.status = "manual_intake") <=> (r.docs \notin InScope)
    /\ Edit \subseteq [field: Field, value: Value] /\ None \notin Edit \union Row \union Package
    /\ \A e \in Edit : IF e.field = "operations" THEN e.value.operations # {} ELSE e.value.tiv_building # "missing"
    /\ Market \subseteq Carrier
    /\ MaxLog \in Nat /\ MaxConfirms \in Nat /\ MaxFiles \in Nat \ {0}
-----------------------------------------------------------------------------
(* What the log says of a run *)

Rows(action) == {i \in DOMAIN log : log[i].action = action}
Last == log[Len(log)]
Highest(s) == CHOOSE i \in s : \A j \in s : j <= i

\* _edits: the latest correction of a field counts, whatever run it was made on.
EditsOf(field) == {i \in Rows("edit") : log[i].edit.field = field}
\* resolutions: of a field of this run only.
ResolutionsOf(run, field) == {i \in Rows("resolve") : log[i].run = run /\ log[i].edit.field = field}
\* mutant: a correction of the field settles its conflict too
SettledByEdit(run) == {c \in run.conflicts : ResolutionsOf(run, c) = {} /\ EditsOf(c) = {}}
OpenConflicts(run) == {c \in run.conflicts : ResolutionsOf(run, c) = {}}

\* with_resolutions, then reviewed.
Resolved(run) ==
    [operations   |-> IF ResolutionsOf(run, "operations") = {} THEN run.value.operations
                      ELSE log[Highest(ResolutionsOf(run, "operations"))].edit.value.operations,
     tiv_building |-> IF ResolutionsOf(run, "tiv_building") = {} THEN run.value.tiv_building
                      ELSE log[Highest(ResolutionsOf(run, "tiv_building"))].edit.value.tiv_building]
Reviewed(run) ==
    [operations   |-> IF EditsOf("operations") = {} THEN Resolved(run).operations
                      ELSE log[Highest(EditsOf("operations"))].edit.value.operations,
     tiv_building |-> IF EditsOf("tiv_building") = {} THEN Resolved(run).tiv_building
                      ELSE log[Highest(EditsOf("tiv_building"))].edit.value.tiv_building]

Filled(value) == value.operations # {} /\ value.tiv_building # "missing"

\* mutant: only the value is read, not the text that it was read from
ValueAlone(run, value) == value.operations
\* The cited text stays with the operations whatever their value is corrected to (_ops).
Operations(run, value) == IF value.operations = {} THEN {} ELSE value.operations \union run.cited
FileOf(run, value, complete) ==
    [manual |-> run.status = "manual_intake",
     ready  |-> complete \/ (run.status = "review_pending" /\ OpenConflicts(run) = {}),
     ops    |-> Operations(run, value), line |-> run.line, cooking |-> run.cooking,
     tiv    |-> value.tiv_building, sprinklers |-> run.sprinklers]
\* The gates read the run with its resolutions, the package is built from the reviewed one.
GateFile(run) == FileOf(run, Resolved(run), run.status = "complete")
ReviewedFile(run) == FileOf(run, Reviewed(run), Filled(Reviewed(run)))

\* confirm_problem is empty: a senior may name a market for this (reviewed) file.
Confirmable(run, f) ==
    /\ run.status \notin RefusedStatus
    /\ RouteOf(f) = "senior_referral"
    /\ ClassText(f) \intersect Prohibited = {} /\ Match(f).rule # "R2"
    /\ "vacant" \notin f.ops
    /\ ~run.unread /\ OpenConflicts(run) = {}

\* market_confirmation: the confirms of this run and of the values as they are reviewed now.
ConfirmsOf(run) ==
    {i \in DOMAIN confirms : /\ confirms[i].run = run
                             /\ saved # None /\ confirms[i].value = Reviewed(saved)
                             /\ confirms[i].carrier \notin saved.excluded}
\* senior_confirm_problem is empty.
SeniorConfirmed(run) ==
    RouteOf(GateFile(run)) = "senior_referral" =>
        saved # None /\ Confirmable(saved, ReviewedFile(saved)) /\ ConfirmsOf(run) # {}

\* mutant: the approve of any run counts
ApprovedOnce(run) == log # <<>> /\ Last.action = "approve" /\ (Last.reason \/ Rows("decline") = {})
\* _decision_problem is empty: the latest decision approves this very run.
Approved(run) ==
    /\ log # <<>> /\ Last.action = "approve"
    /\ Last.reason \/ Rows("decline") = {}
    /\ Last.run = run
\* ack_problem is empty.
Acknowledged(run) ==
    run.review \subseteq (IF log # <<>> /\ Last.run = run THEN Last.acknowledged ELSE {})
\* agency_problem is empty; it reads the saved run for itself.
AgencyReady ==
    /\ saved # None /\ saved.status \notin RefusedStatus /\ ~saved.unread
    /\ OpenConflicts(saved) = {}
    /\ GateFile(saved).ready
    /\ SeniorConfirmed(saved)
    /\ RouteOf(GateFile(saved)) \in Carrier \union {"senior_referral"}
-----------------------------------------------------------------------------
(* Requests *)

\* What a thread carries from one read to the next.  seen and since are not in the code: the packages
\* and the length of the decision log when the request began.
Idle == [pc |-> "idle", run |-> None, row |-> None, manager |-> FALSE, resend |-> FALSE,
         since |-> 0, seen |-> {}, name |-> 1, package |-> None]

Existing == {n \in Names : files[n] # None}

Init ==
    /\ inbox \in Docs /\ saved = None
    /\ log = <<>> /\ confirms = <<>> /\ sends = {}
    /\ files = [n \in Names |-> None]
    /\ th = [t \in Thread |-> Idle]

\* A refusal changes nothing but the thread.
Answer(t) == th' = [th EXCEPT ![t] = Idle]
Go(t, pc) == th' = [th EXCEPT ![t].pc = pc]
\* One gate: passed, or the request is refused.
Gate(t, from, ok, to) ==
    /\ th[t].pc = from
    /\ IF ok THEN Go(t, to) ELSE Answer(t)
    /\ UNCHANGED <<inbox, saved, log, confirms, files, sends>>

\* Documents of the submission are added or replaced.
Receive ==
    /\ \E d \in Docs \ {inbox} : inbox' = d
    /\ UNCHANGED <<saved, log, confirms, files, sends, th>>

\* write_drafts: the run saved before is replaced.
Extract ==
    /\ \E r \in Run : r.docs = inbox /\ r # saved /\ saved' = r
    /\ UNCHANGED <<inbox, log, confirms, files, sends, th>>

\* record_decision, edit and decline: with a reason; no edit of a manual-intake file.
LogEdit ==
    /\ Len(log) < MaxLog
    /\ ~(saved \in Run /\ saved.status = "manual_intake")
    /\ \E e \in Edit : log' = Append(log, [action |-> "edit", run |-> None, reason |-> TRUE,
                                           acknowledged |-> {}, edit |-> e])
    /\ UNCHANGED <<inbox, saved, confirms, files, sends, th>>
LogDecline ==
    /\ Len(log) < MaxLog
    /\ log' = Append(log, [action |-> "decline", run |-> None, reason |-> TRUE, acknowledged |-> {}, edit |-> None])
    /\ UNCHANGED <<inbox, saved, confirms, files, sends, th>>

\* An approve and a resolve read the saved run first; the row is appended later, and carries what was read.
Begin(t, row) ==
    /\ th[t].pc = "idle" /\ saved # None
    /\ th' = [th EXCEPT ![t].pc = "append", ![t].row = row]
    /\ UNCHANGED <<inbox, saved, log, confirms, files, sends>>
Approve(t) ==
    /\ saved # None /\ saved.status \notin RefusedStatus
    /\ \E reason \in BOOLEAN :
         Begin(t, [action |-> "approve", run |-> saved, reason |-> reason, acknowledged |-> saved.review, edit |-> None])
Resolve(t) ==
    /\ saved # None
    /\ \E e \in Edit : /\ e.field \in saved.conflicts
                       /\ Begin(t, [action |-> "resolve", run |-> saved, reason |-> FALSE, acknowledged |-> {}, edit |-> e])

\* mutant: the reason is asked for only when the approve begins
NeedsNoReason(row) == FALSE
\* Under _LOG_LOCK: the rows are read again for a decline, then the row gets the next seq.  A reason
\* that answers no decline is a note that nothing reads.
NeedsReason(row) == row.action = "approve" /\ ~row.reason /\ Rows("decline") # {}
AppendRow(t) ==
    /\ th[t].pc = "append" /\ Len(log) < MaxLog
    /\ log' = IF NeedsReason(th[t].row) THEN log
              ELSE Append(log, [th[t].row EXCEPT !.reason = @ /\ Rows("decline") # {}])
    /\ Answer(t)
    /\ UNCHANGED <<inbox, saved, confirms, files, sends>>

\* confirm_market, by a listed senior and with a reason; appended without a lock.
ConfirmMarket ==
    /\ Len(confirms) < MaxConfirms
    /\ saved # None /\ Confirmable(saved, ReviewedFile(saved))
    /\ \E c \in Market \ saved.excluded :
         confirms' = Append(confirms, [run |-> saved, value |-> Reviewed(saved), carrier |-> c])
    /\ UNCHANGED <<inbox, saved, log, files, sends, th>>
-----------------------------------------------------------------------------
(* send_to_carrier, one step for each gate.  Who sends, the reason to send again and the carrier that the *)
(* user names come with the request; each is chosen at the step that first looks at it.                   *)

StartSend(t) ==
    /\ th[t].pc = "idle" /\ Cardinality(Existing) < MaxFiles
    /\ saved # None /\ saved.status \notin RefusedStatus
    /\ th' = [th EXCEPT ![t].pc = "scope", ![t].run = saved, ![t].since = Len(log), ![t].seen = Existing]
    /\ UNCHANGED <<inbox, saved, log, confirms, files, sends>>

\* manifest_problem and scope_problem read the saved run and the folder again.
CheckScope(t) ==
    Gate(t, "scope", saved # None /\ saved.docs = inbox /\ inbox \in InScope /\ SeniorConfirmed(th[t].run), "decision")
CheckDecision(t) ==
    /\ th[t].pc = "decision"
    /\ \E manager \in BOOLEAN :
         IF Approved(th[t].run) /\ (manager => AgencyReady)
         THEN th' = [th EXCEPT ![t].pc = "review", ![t].manager = manager] ELSE Answer(t)
    /\ UNCHANGED <<inbox, saved, log, confirms, files, sends>>
CheckReview(t) ==
    Gate(t, "review", Acknowledged(th[t].run) /\ OpenConflicts(th[t].run) = {}, "resend")

\* mutant: a second send is always allowed
AlwaysAllowed(resend) == TRUE
\* A second send is refused unless a reason to send again is given; then the folder is looked at again:
\* the first package, or the next number.
ResendAllowed(resend) == files[1] # None => resend
CheckResend(t) ==
    /\ th[t].pc = "resend"
    /\ \E resend \in BOOLEAN :
         IF ResendAllowed(resend) THEN th' = [th EXCEPT ![t].pc = "name", ![t].resend = resend] ELSE Answer(t)
    /\ UNCHANGED <<inbox, saved, log, confirms, files, sends>>
NextName == Cardinality(Existing) + 1
ChooseName(t) ==
    /\ th[t].pc = "name" /\ Cardinality(Existing) < MaxFiles
    /\ th' = [th EXCEPT ![t].pc = "build", ![t].name = IF files[1] = None THEN 1 ELSE NextName]
    /\ UNCHANGED <<inbox, saved, log, confirms, files, sends>>

\* build_package reads the saved run and the logs anew.  Nothing looks at the sender after it.
PackageFor(carrier) == [run |-> saved, value |-> Reviewed(saved), carrier |-> carrier]
Placed(f) == RouteOf(f) \in Carrier
Overridden(f) == RouteOf(f) = "no_match" /\ Match(f).overridable
Confirmed(f) == RouteOf(f) = "senior_referral" /\ Confirmable(saved, f) /\ ConfirmsOf(saved) # {}
Complete == saved # None /\ saved.status # "manual_intake" /\ Filled(Reviewed(saved))
\* mutant: the carrier stays the route, whatever was confirmed
RoutedBody(named) == PackageFor(IF named # NoCarrier THEN named ELSE RouteOf(ReviewedFile(saved)))
Body(named) ==
    IF named # NoCarrier THEN PackageFor(named)
    ELSE IF Placed(ReviewedFile(saved)) THEN PackageFor(RouteOf(ReviewedFile(saved)))
    ELSE PackageFor(confirms[Highest(ConfirmsOf(saved))].carrier)
Buildable(named) ==
    IF named # NoCarrier THEN Overridden(ReviewedFile(saved)) ELSE Placed(ReviewedFile(saved)) \/ Confirmed(ReviewedFile(saved))
Build(t) ==
    /\ th[t].pc = "build"
    /\ \E named \in Market \union {NoCarrier} :
         /\ th[t].manager => named = NoCarrier
         /\ IF Complete /\ Buildable(named)
            THEN th' = [th EXCEPT ![t].pc = "write", ![t].package = Body(named), ![t].manager = FALSE]
            ELSE Answer(t)
    /\ UNCHANGED <<inbox, saved, log, confirms, files, sends>>

Write(t) ==
    /\ th[t].pc = "write"
    /\ files' = [files EXCEPT ![th[t].name] = th[t].package]
    /\ th' = [th EXCEPT ![t].pc = "log", ![t].package = None, ![t].resend = FALSE, ![t].seen = {}]
    /\ UNCHANGED <<inbox, saved, log, confirms, sends>>
LogSend(t) ==
    /\ th[t].pc = "log"
    /\ sends' = sends \union {[run |-> th[t].run, name |-> th[t].name]}
    /\ Answer(t)
    /\ UNCHANGED <<inbox, saved, log, confirms, files>>

\* The row of the send cannot be written (OSError), or the server is restarted: the package stays.
LogFails(t) ==
    /\ th[t].pc = "log" /\ Answer(t)
    /\ UNCHANGED <<inbox, saved, log, confirms, files, sends>>
Restart ==
    /\ \E t \in Thread : th[t].pc # "idle"
    /\ th' = [t \in Thread |-> Idle]
    /\ UNCHANGED <<inbox, saved, log, confirms, files, sends>>
-----------------------------------------------------------------------------
Desk == Receive \/ Extract \/ LogEdit \/ LogDecline \/ ConfirmMarket \/ Restart
Decide(t) == Approve(t) \/ Resolve(t) \/ AppendRow(t)
SendStep(t) == \/ StartSend(t) \/ CheckScope(t) \/ CheckDecision(t) \/ CheckReview(t) \/ CheckResend(t) \/ ChooseName(t)
               \/ Build(t) \/ Write(t) \/ LogSend(t) \/ LogFails(t)
Next == Desk \/ \E t \in Thread : Decide(t) \/ SendStep(t)

Spec == Init /\ [][Next]_vars
-----------------------------------------------------------------------------
(* What the workbench promises *)

\* Every stored row, package and thread is one the program can write.
TypeOK ==
    /\ inbox \in Docs /\ saved \in Run \union {None}
    /\ log \in Seq(Row) /\ confirms \in Seq(Confirm) /\ sends \subseteq Send
    /\ files \in [Names -> Package \union {None}]
    /\ th \in [Thread -> [pc: {"idle", "append", "scope", "decision", "review", "resend", "name", "build", "write", "log"},
                          run: Run \union {None}, row: Row \union {None},
                          manager: BOOLEAN, resend: BOOLEAN, since: Nat,
                          seen: SUBSET Names, name: Names, package: Package \union {None}]]

(***************************************************************************)
(* D-053, P-026: every send that is logged went out on an approve of its   *)
(* very run that was the latest decision at some moment of the request,    *)
(* with every value under review acknowledged and, after a decline, with a *)
(* reason.  The request reads the run, the decision and the                *)
(* acknowledgments one after the other while others decide, correct and    *)
(* extract: an approve that was no longer the latest when the request came *)
(* in is never enough.                                                     *)
(***************************************************************************)
StandingApprove(run, i) ==
    /\ log[i].action = "approve" /\ log[i].run = run /\ run.review \subseteq log[i].acknowledged
    /\ log[i].reason \/ \A j \in 1..i : log[j].action # "decline"
ApprovedSince(run, since) == \E i \in DOMAIN log : since <= i /\ StandingApprove(run, i)
Past(pc) == pc \in {"resend", "name", "build", "write", "log"}
SendsWereApproved ==
    /\ \A t \in Thread : Past(th[t].pc) => ApprovedSince(th[t].run, th[t].since)
    /\ \A s \in sends : ApprovedSince(s.run, 0)

\* B-324: every conflict of the run that was sent was resolved on that run, none by an edit or on a run before it.
ConflictsWereResolved ==
    \A s \in sends : \A c \in s.run.conflicts :
        \E i \in Rows("resolve") : log[i].run = s.run /\ log[i].edit.field = c

\* D-053: in the log itself an approve after a decline always has its reason, whatever two threads append.
ApproveAfterDeclineHasReason ==
    \A i, j \in DOMAIN log : i < j /\ log[i].action = "decline" /\ log[j].action = "approve" => log[j].reason

(***************************************************************************)
(* W1: no package names a prohibited operation to a carrier: not by an     *)
(* edit that rewords what the application says, nor by an override, a      *)
(* confirm, or a run that is replaced while the package is built.          *)
(***************************************************************************)
NothingProhibitedSent ==
    \A n \in Existing :
        (files[n].value.operations \union files[n].run.cited \union files[n].run.line) \intersect Prohibited = {}

(***************************************************************************)
(* B-233, B-247: a request that came in after the first package was        *)
(* written writes another only with a reason to send again, and never over *)
(* a package that was there when it came in, however many requests run,    *)
(* fail between the package and its row, or are cut off by a restart.      *)
(***************************************************************************)
Named(pc) == pc \in {"build", "write"}
ResendIsExplicit ==
    \A t \in Thread : Named(th[t].pc) => /\ th[t].seen # {} => th[t].resend
                                        /\ th[t].name \notin th[t].seen

\* P-026, D-069: "every send is logged ..., with the run it was built from".
LoggedRunIsBuiltFrom == [][\A t \in Thread : Write(t) => th[t].package.run = th[t].run]_vars
=============================================================================
