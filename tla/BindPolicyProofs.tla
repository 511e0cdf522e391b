-------------------------- MODULE BindPolicyProofs --------------------------
(***************************************************************************)
(* Theorems about BindPolicy for every set of callers and users, every      *)
(* verdict of the authority matrix and every bound.                         *)
(*                                                                          *)
(* Every step of a bind is a step of Workflow (BindStepIsStep), so that its *)
(* invariant holds here too.  To it comes what the record says of policies: *)
(* bound is the end, reached only by the save of a bind request, and every  *)
(* other prepared record of the stored version leaves the policy alone      *)
(* (Alike).                                                                 *)
(***************************************************************************)
EXTENDS BindPolicy, WorkflowProofs, FiniteSetTheorems

Signable(r) == r.cosign.status \in {"none", "approved"}

\* n leaves what r says of a policy.
Alike(r, n) ==
    /\ n.policy = r.policy
    /\ n.state = "bound" <=> r.state = "bound"
    /\ n.state = "bound" => Signable(n)

\* n binds r to the policy that was issued for caller c.
Binds(c, r, n) ==
    /\ r.state # "bound"
    /\ n.state = "bound" /\ Signable(n)
    /\ n.policy = binder[c]

\* A prepared record of the stored version.
Current(c) == busy[c] /\ work[c].version = disk.version

\* Policy p is what a bind by u rests on: issued to u, and not by the fallback where the plan refuses that.
Good(p, u) == p.to = u /\ (requireLivePas => p.by = "pas")

\* A policy was issued to the binder of c, and c knows its number.
HasPolicy(c) == number[c] \in DOMAIN issued /\ Good(issued[number[c]], binder[c])

Policies ==
    /\ disk.state = "bound" <=> disk.policy # NoUser
    /\ disk.state = "bound" => Signable(disk)
    /\ disk.state # "bound" => marked = {}
    /\ disk.state = "bound" => \E n \in DOMAIN issued : marked = {n} /\ Good(issued[n], disk.policy)
    /\ booked \subseteq marked

Requests ==
    \A c \in Callers :
        /\ busy[c] => step[c] \in Saving \cup {"none"}
        /\ step[c] \in {"unsigned", "cleared", "unissued", "issued", "marking"} => binder[c] \in Users
        /\ step[c] \in {"issued", "marking"} => HasPolicy(c)
        /\ step[c] = "bound" => number[c] \in marked
        /\ (step[c] = "marking" /\ Current(c)) => Binds(c, disk, work[c])
        /\ (step[c] # "marking" /\ Current(c)) => Alike(disk, work[c])

Typed ==
    /\ step \in [Callers -> Steps]
    /\ binder \in [Callers -> Users \cup {NoUser}]
    /\ number \in [Callers -> Nat]
    /\ issued \in Seq(Policy)
    /\ requireLivePas \in BOOLEAN

BInv == Inv /\ Typed /\ Policies /\ Requests

-----------------------------------------------------------------------------

\* Every operation of a bind, and whatever goes on beside it, is an operation of the workflow service.
LEMMA BindStepIsStep ==
    ASSUME BInv, NEW c \in Callers, DeskWork(c) \/ Bind(c) \/ EndSave(c)
    PROVE  [Next]_vars
<1> SUFFICES Operation(c) \/ Save(c) \/ Conflict(c) \/ Abandon(c) \/ UNCHANGED vars
  BY DEF Next
<1>1. CASE DeskWork(c)
  BY <1>1 DEF DeskWork, Operation
<1>2. CASE AskCoSign(c) \/ MarkBound(c)
  <2>1. binder[c] \in Users
    BY <1>2 DEF AskCoSign, MarkBound, BInv, Requests
  <2> QED BY <1>2, <2>1 DEF AskCoSign, MarkBound, Operation
<1>3. CASE Document(c)
  BY <1>3 DEF Document, Operation, assign
<1>4. CASE SaveBound(c) \/ EndSave(c)
  BY <1>4 DEF SaveBound, EndSave
<1>5. CASE (\E u \in Users : BeginBind(c, u)) \/ Issue(c) \/ IssueFails(c) \/ RatedBind(c) \/ Book(c) \/ Crash(c)
  BY <1>5 DEF BeginBind, Issue, IssueFails, RatedBind, Book, Crash
<1> QED BY <1>1, <1>2, <1>3, <1>4, <1>5 DEF Bind

\* The operations of the desk leave the policy alone.
LEMMA DeskIsAlike ==
    ASSUME Inv, NEW c \in Callers, DeskWork(c) \/ (AskCoSign(c) /\ ~UNCHANGED vars) \/ Document(c),
           disk.state = "bound" => Signable(disk)
    PROVE  \E n : Prepare(c, n) /\ Alike(disk, n)
<1>1. disk \in Records
  BY DEF Inv, TypeOK
<1> USE <1>1 DEF Records, Alike, Signable
<1>2. ASSUME NEW ai \in BOOLEAN, submit_for_review(c, ai)
      PROVE  \E n : Prepare(c, n) /\ Alike(disk, n)
  <2>1. disk.state # "bound" /\ Prepare(c, Reviewed(disk, ai))
    BY <1>2 DEF submit_for_review, CanReview
  <2>2. Reviewed(disk, ai).state = "pending_review" /\ Reviewed(disk, ai).policy = disk.policy
    BY DEF Reviewed
  <2> QED BY <2>1, <2>2
<1>3. ASSUME NEW a \in Actions, sign_off(c, a, TRUE)
      PROVE  \E n : Prepare(c, n) /\ Alike(disk, n)
  <2>1. StateAfter(a) # "bound"
    BY DEF StateAfter, Actions
  <2>2. disk.state # "bound" /\ Prepare(c, SignedOff(disk, a, TRUE))
    BY <1>3 DEF sign_off, CanSignOff
  <2>3. SignedOff(disk, a, TRUE).state = StateAfter(a) /\ SignedOff(disk, a, TRUE).policy = disk.policy
    BY DEF SignedOff
  <2> QED BY <2>1, <2>2, <2>3
<1>4. ASSUME NEW u \in Users, NEW approve \in BOOLEAN, resolve_cosign_request(c, u, approve)
      PROVE  \E n : Prepare(c, n) /\ Alike(disk, n)
  <2>1. disk.state # "bound" /\ Prepare(c, CoSignResolved(disk, u, approve))
    BY <1>4 DEF resolve_cosign_request, CanResolveCoSign
  <2>2. /\ CoSignResolved(disk, u, approve).state # "bound"
        /\ CoSignResolved(disk, u, approve).policy = disk.policy
    BY DEF CoSignResolved
  <2> QED BY <2>1, <2>2
<1>5. CASE validate_uw_terms(c)
  BY <1>5 DEF validate_uw_terms, TermsValidated
<1>6. ASSUME NEW u, request_cosign(c, u)
      PROVE  \E n : Prepare(c, n) /\ Alike(disk, n)
  <2>1. disk.state # "bound" /\ Prepare(c, CoSignRequested(disk, u))
    BY <1>6 DEF request_cosign, CanRequestCoSign
  <2>2. CoSignRequested(disk, u).state = "pending_co_sign" /\ CoSignRequested(disk, u).policy = disk.policy
    BY DEF CoSignRequested
  <2> QED BY <2>1, <2>2
<1>7. CASE Document(c)
  BY <1>7 DEF Document
<1>8. CASE AskCoSign(c) /\ ~UNCHANGED vars
  BY <1>6, <1>8 DEF AskCoSign
<1> QED BY <1>2, <1>3, <1>4, <1>5, <1>6, <1>7, <1>8 DEF DeskWork

\* mark_bound prepares the record with the policy of its caller.
LEMMA MarkBinds ==
    ASSUME Inv, NEW c \in Callers, NEW u \in Users, mark_bound(c, u), binder[c] = u
    PROVE  \E n : Prepare(c, n) /\ Binds(c, disk, n)
<1>1. disk \in Records
  BY DEF Inv, TypeOK
<1>2. disk.state # "bound" /\ disk.cosign.status \in {"none", "approved"} /\ Prepare(c, MarkedBound(disk, u))
  BY DEF mark_bound, CanMarkBound, BINDABLE_STATES, cosign_allows_bind
<1>3. /\ MarkedBound(disk, u).state = "bound" /\ MarkedBound(disk, u).policy = u
      /\ MarkedBound(disk, u).cosign = disk.cosign
  BY <1>1 DEF MarkedBound, Records
<1> QED BY <1>2, <1>3 DEF Binds, Signable

-----------------------------------------------------------------------------
(* The steps, by what they do to the record and to what is prepared *)

\* Caller c prepares a record; the stored one stays.
Prepares(c) == disk' = disk /\ \A d \in Callers \ {c} : busy'[d] = busy[d] /\ work'[d] = work[d]

\* Whatever a save stores, no prepared record is of the stored version any more.
LEMMA NothingCurrent ==
    ASSUME Inv, NEW c \in Callers, Save(c)
    PROVE  \A d \in Callers : ~(Current(d)')
<1>1. /\ disk.version \in Nat /\ \A d \in Callers : work[d].version \in Nat /\ work[d].version <= disk.version
      /\ busy \in [Callers -> BOOLEAN] /\ work \in [Callers -> Records]
  BY DEF Inv, TypeOK, Records
<1>2. disk'.version = disk.version + 1
  <2>1. work[c] \in Records /\ disk' = [work[c] EXCEPT !.version = disk.version + 1]
    BY SaveApplies
  <2> QED BY <2>1 DEF Records
<1>3. \A d \in Callers : busy'[d] => busy[d] /\ work'[d] = work[d]
  BY <1>1 DEF Save, Finish
<1> QED BY <1>1, <1>2, <1>3 DEF Current

\* What a save makes of a record that is alike, or that binds.
LEMMA SaveStores ==
    ASSUME Inv, NEW c \in Callers, Save(c)
    PROVE  /\ disk'.policy = work[c].policy /\ disk'.state = work[c].state /\ disk'.cosign = work[c].cosign
           /\ Current(c)
           /\ busy' = [busy EXCEPT ![c] = FALSE]
<1>1. work[c] \in Records /\ work[c].version = disk.version /\ disk' = [work[c] EXCEPT !.version = disk.version + 1]
  BY SaveApplies
<1> QED BY <1>1 DEF Records, Current, Save, Finish

LEMMA StillPolicies ==
    ASSUME Typed, issued' = issued \/ \E p \in Policy : issued' = Append(issued, p)
    PROVE  issued' \in Seq(Policy)
<1>1. issued \in Seq(Policy)
  BY DEF Typed
<1>2. CASE issued' = issued
  BY <1>1, <1>2
<1>3. CASE \E p \in Policy : issued' = Append(issued, p)
  BY <1>1, <1>3
<1> QED BY <1>2, <1>3

\* What holds of the request of one caller.
Request(d) ==
    /\ busy[d] => step[d] \in Saving \cup {"none"}
    /\ step[d] \in {"unsigned", "cleared", "unissued", "issued", "marking"} => binder[d] \in Users
    /\ step[d] \in {"issued", "marking"} => HasPolicy(d)
    /\ step[d] = "bound" => number[d] \in marked
    /\ (step[d] = "marking" /\ Current(d)) => Binds(d, disk, work[d])
    /\ (step[d] # "marking" /\ Current(d)) => Alike(disk, work[d])

\* The requests of other callers: policies are only added, and either the record stays or nothing is current.
LEMMA OthersKeep ==
    ASSUME Typed, Requests, NEW d \in Callers,
           step'[d] = step[d], binder'[d] = binder[d], number'[d] = number[d],
           issued' = issued \/ \E p \in Policy : issued' = Append(issued, p),
           UNCHANGED requireLivePas, marked \subseteq marked',
           \/ disk' = disk /\ busy'[d] = busy[d] /\ work'[d] = work[d]
           \/ (busy'[d] => busy[d]) /\ ~(Current(d)')
    PROVE  Request(d)'
<1>1. HasPolicy(d) => HasPolicy(d)'
  BY DEF Typed, HasPolicy, Good
<1>2. Request(d)
  BY DEF Requests, Request
<1>3. CASE disk' = disk /\ busy'[d] = busy[d] /\ work'[d] = work[d]
  BY <1>1, <1>2, <1>3 DEF Request, Current, Binds
<1>4. CASE (busy'[d] => busy[d]) /\ ~(Current(d)')
  BY <1>1, <1>2, <1>4 DEF Request
<1> QED BY <1>3, <1>4

LEMMA BInvInit == BindInit => BInv
<1> SUFFICES ASSUME BindInit PROVE BInv
  OBVIOUS
<1>1. PICK a \in Accepting : disk = Decided(a)
  BY DEF BindInit
<1>2. /\ disk \in Records /\ disk.state = StateAfter(a) /\ disk.policy = NoUser /\ disk.version = 2
  <2> DEFINE r == [Reviewed(Fresh, FALSE) EXCEPT !.version = 2]
  <2>1. Reviewed(Fresh, FALSE) \in Records /\ Reviewed(Fresh, FALSE).policy = NoUser
    BY FreshTyped DEF Reviewed, Records, States, Fresh
  <2>2. r \in Records /\ r.policy = NoUser /\ r.version = 2
    BY <2>1 DEF Records
  <2>3. StateAfter(a) \in States
    BY DEF StateAfter, States, Accepting
  <2>4. [action |-> a, reasoned |-> TRUE] \in SignOffs
    BY DEF SignOffs, Accepting, Actions
  <2> HIDE DEF r
  <2>5. disk = [r EXCEPT !.signOffs = Append(r.signOffs, [action |-> a, reasoned |-> TRUE]), !.state = StateAfter(a)]
    BY <1>1 DEF Decided, SignedOff, r
  <2>6. Append(r.signOffs, [action |-> a, reasoned |-> TRUE]) \in Seq(SignOffs)
    BY <2>2, <2>4 DEF Records
  <2> QED BY <2>2, <2>3, <2>5, <2>6 DEF Records
<1>3. disk.state # "bound"
  BY <1>2 DEF StateAfter, Accepting
<1>4. Inv
  <2>1. TypeOK
    BY <1>2, FreshTyped DEF TypeOK, BindInit, Fresh
  <2> QED BY <1>2, <2>1 DEF Inv, AbsentIsFresh, Linked, Exists, BindInit
<1> QED BY <1>2, <1>3, <1>4 DEF BindInit, BInv, Typed, Policies, Requests, Current, Steps

LEMMA PolicyStep ==
    ASSUME BInv, NEW c \in Callers, DeskWork(c) \/ Bind(c) \/ EndSave(c), UNCHANGED requireLivePas
    PROVE  Typed' /\ Policies' /\ Requests'
<1> DEFINE Others == \A d \in Callers \ {c} : Request(d)'
           Goal == Typed' /\ Policies' /\ Requests'
<1> USE DEF Good
<1>0. /\ Inv /\ Typed /\ Policies /\ Requests /\ Request(c) /\ \A d \in Callers : Request(d)
      /\ requireLivePas' = requireLivePas
  BY DEF BInv, Requests, Request
<1>1. ASSUME Others, Request(c)', Typed', Policies'
      PROVE  Goal
  BY <1>1 DEF Requests, Request
<1>2. /\ disk \in Records /\ busy \in [Callers -> BOOLEAN] /\ work \in [Callers -> Records]
  BY <1>0 DEF Inv, TypeOK
<1>3. ASSUME NEW n, Prepare(c, n), Alike(disk, n), step[c] # "marking",
             step' = step \/ \E s \in {"asking", "documenting"} : step' = [step EXCEPT ![c] = s],
             step[c] = "none" \/ step' # step,
             UNCHANGED <<binder, number, issued, marked, booked>>
      PROVE  Goal
  <2>1. /\ disk' = disk /\ busy'[c] = TRUE /\ work'[c] = n
        /\ \A d \in Callers \ {c} : busy'[d] = busy[d] /\ work'[d] = work[d] /\ step'[d] = step[d]
    BY <1>0, <1>2, <1>3 DEF Prepare, Typed
  <2>2. Others
    BY <1>0, <1>3, <2>1, OthersKeep
  <2>3. step'[c] \in {"none", "asking", "documenting"}
    BY <1>0, <1>3 DEF Typed
  <2>4. Request(c)'
    BY <1>3, <2>1, <2>3 DEF Request, Current, Saving
  <2>5. Typed'
    BY <1>0, <1>3 DEF Typed, Steps, Saving
  <2>6. Policies'
    BY <1>0, <1>3, <2>1 DEF Policies, Signable
  <2> QED BY <1>1, <2>2, <2>4, <2>5, <2>6
<1>4. CASE DeskWork(c)
  <2>0. disk.state = "bound" => Signable(disk)
    BY <1>0 DEF Policies
  <2>1. PICK n : Prepare(c, n) /\ Alike(disk, n)
    BY <1>0, <1>4, <2>0, DeskIsAlike
  <2> QED BY <1>3, <1>4, <2>1 DEF DeskWork, bindVars
<1>5. CASE Document(c)
  <2>1. PICK n : Prepare(c, n) /\ Alike(disk, n)
    BY <1>0, <1>5, DeskIsAlike DEF Policies
  <2>2. /\ step[c] = "booked" /\ step' = [step EXCEPT ![c] = "documenting"]
        /\ UNCHANGED <<binder, number, issued, marked, booked>>
    BY <1>5 DEF Document, Goto
  <2>3. step' # step
    BY <1>0, <2>2 DEF Typed
  <2> QED BY <1>3, <1>5, <2>1, <2>2, <2>3
\* A step that touches neither the record nor what is prepared, and leaves the caller where it claims nothing.
<1>6. ASSUME UNCHANGED vars, UNCHANGED <<marked, booked>>, Request(c)', Typed',
             \A d \in Callers \ {c} : step'[d] = step[d] /\ binder'[d] = binder[d] /\ number'[d] = number[d],
             issued' = issued \/ \E p \in Policy : issued' = Append(issued, p)
      PROVE  Goal
  <2>1. Others
    <3>1. /\ disk' = disk /\ busy' = busy /\ work' = work /\ marked' = marked
          /\ issued' = issued \/ \E p \in Policy : issued' = Append(issued, p)
      BY <1>6 DEF vars
    <3>2. \A d \in Callers \ {c} : step'[d] = step[d] /\ binder'[d] = binder[d] /\ number'[d] = number[d]
      BY <1>6
    <3>3. ASSUME NEW d \in Callers \ {c}
          PROVE  Request(d)'
      <4>1. /\ step'[d] = step[d] /\ binder'[d] = binder[d] /\ number'[d] = number[d]
            /\ disk' = disk /\ busy'[d] = busy[d] /\ work'[d] = work[d] /\ marked \subseteq marked'
        BY <3>1, <3>2, <3>3
      <4>2. Typed /\ Requests /\ d \in Callers /\ requireLivePas' = requireLivePas
        BY <1>0
      <4> HIDE DEF Others, Goal
      <4> QED BY ONLY <3>1, <4>1, <4>2, OthersKeep
    <3> QED BY <3>3
  <2>2. \A n \in DOMAIN issued : n \in DOMAIN issued' /\ issued'[n] = issued[n]
    <3>1. issued \in Seq(Policy) /\ (issued' = issued \/ \E p \in Policy : issued' = Append(issued, p))
      BY <1>0, <1>6 DEF Typed
    <3>2. CASE issued' = issued
      BY <3>2
    <3>3. ASSUME NEW p \in Policy, issued' = Append(issued, p)
          PROVE  \A n \in DOMAIN issued : n \in DOMAIN issued' /\ issued'[n] = issued[n]
      BY <3>1, <3>3
    <3> QED BY <3>1, <3>2, <3>3
  <2>3. Policies'
    BY <1>0, <1>6, <2>2 DEF Policies, Signable, vars
  <2> QED BY <1>1, <1>6, <2>1, <2>3
<1>7. ASSUME UNCHANGED vars, UNCHANGED <<marked, booked>>, Return(c), step[c] # "marking",
             issued' = issued \/ \E p \in Policy : issued' = Append(issued, p)
      PROVE  Goal
  <2>1. Request(c)'
    BY <1>0, <1>7 DEF Request, Return, Typed, vars, Current
  <2>2. Typed'
    <3>1. issued' \in Seq(Policy)
      BY <1>0, <1>7, StillPolicies
    <3> QED BY <1>0, <1>7, <3>1 DEF Typed, Return, Steps
  <2>3. \A d \in Callers \ {c} : step'[d] = step[d] /\ binder'[d] = binder[d] /\ number'[d] = number[d]
    BY <1>0, <1>7 DEF Return, Typed
  <2> QED BY <1>6, <1>7, <2>1, <2>2, <2>3
<1>8. CASE AskCoSign(c)
  <2>1. step[c] = "unsigned"
    BY <1>8 DEF AskCoSign
  <2>2. CASE UNCHANGED vars
    <3>1. ~request_cosign(c, binder[c])
      BY <1>2, <2>2 DEF request_cosign, Prepare, vars
    <3> QED BY <1>7, <1>8, <2>1, <2>2, <3>1 DEF AskCoSign
  <2>3. CASE ~UNCHANGED vars
    <3>1. PICK n : Prepare(c, n) /\ Alike(disk, n)
      BY <1>0, <1>8, <2>3, DeskIsAlike DEF Policies
    <3>2. step' = [step EXCEPT ![c] = "asking"] /\ UNCHANGED <<binder, number, issued, marked, booked>>
      BY <1>8, <2>3 DEF AskCoSign, Goto
    <3>3. step' # step
      BY <1>0, <2>1, <3>2 DEF Typed
    <3> QED BY <1>3, <2>1, <3>1, <3>2, <3>3
  <2> QED BY <2>2, <2>3
<1>9. CASE MarkBound(c)
  <2>1. step[c] = "issued" /\ binder[c] \in Users /\ HasPolicy(c)
    BY <1>0, <1>9 DEF MarkBound, Request
  <2>2. CASE mark_bound(c, binder[c]) /\ Goto(c, "marking")
    <3>1. PICK n : Prepare(c, n) /\ Binds(c, disk, n)
      BY <1>0, <2>1, <2>2, MarkBinds
    <3>2. /\ disk' = disk /\ busy'[c] = TRUE /\ work'[c] = n /\ step'[c] = "marking"
          /\ \A d \in Callers \ {c} : busy'[d] = busy[d] /\ work'[d] = work[d] /\ step'[d] = step[d]
          /\ UNCHANGED <<binder, number, issued, marked, booked>>
      BY <1>0, <1>2, <1>9, <2>2, <3>1 DEF Prepare, Typed, Goto, MarkBound
    <3>3. Others
      BY <1>0, <3>2, OthersKeep
    <3>4. Request(c)'
      BY <2>1, <3>1, <3>2 DEF Request, Current, Saving, HasPolicy, Binds, Signable
    <3>5. Typed'
      BY <1>0, <2>2, <3>2 DEF Typed, Steps, Saving, Goto
    <3>6. Policies'
      BY <1>0, <3>2 DEF Policies, Signable
    <3> QED BY <1>1, <3>3, <3>4, <3>5, <3>6
  <2>3. CASE Return(c) /\ UNCHANGED vars
    BY <1>7, <1>9, <2>1, <2>3 DEF MarkBound
  <2> QED BY <1>9, <2>2, <2>3 DEF MarkBound
<1>10. ASSUME NEW u \in Users, BeginBind(c, u)
       PROVE  Goal
  <2>1. /\ step[c] = "none" /\ ~busy[c] /\ UNCHANGED <<vars, number, issued, marked, booked>>
        /\ binder' = [binder EXCEPT ![c] = u]
        /\ \E s \in {"cleared", "unsigned"} : step' = [step EXCEPT ![c] = s]
    BY <1>10 DEF BeginBind
  <2>2. /\ step'[c] \in {"cleared", "unsigned"} /\ binder'[c] = u
        /\ \A d \in Callers \ {c} : step'[d] = step[d] /\ binder'[d] = binder[d]
    BY <1>0, <2>1 DEF Typed
  <2>3. Request(c)'
    BY <2>1, <2>2 DEF Request, Current, vars
  <2>4. Typed'
    BY <1>0, <2>1 DEF Typed, Steps
  <2> QED BY <1>6, <2>1, <2>2, <2>3, <2>4
\* A system gives a policy that the plan takes, and the request goes on with it.
<1>11. ASSUME NEW system \in {"pas", "rating"}, Gets(c, system), GoesOn(c), UNCHANGED <<vars, marked, booked>>,
              step[c] \in {"cleared", "unissued"}, requireLivePas => system = "pas"
       PROVE  Goal
  <2> DEFINE p == [to |-> binder[c], by |-> system]
  <2>1. binder[c] \in Users /\ ~busy[c] /\ p \in Policy
    BY <1>0, <1>11 DEF Request, Saving, Policy
  <2>2. /\ UNCHANGED <<vars, binder, marked, booked>>
        /\ issued' = Append(issued, p) /\ issued \in Seq(Policy)
        /\ number' = [number EXCEPT ![c] = Len(issued')]
        /\ step' = [step EXCEPT ![c] = "issued"]
    BY <1>0, <1>11 DEF Gets, GoesOn, Typed
  <2>3. /\ step'[c] = "issued" /\ number'[c] = Len(issued')
        /\ \A d \in Callers \ {c} : step'[d] = step[d] /\ number'[d] = number[d]
    BY <1>0, <2>2 DEF Typed
  <2>a. issued' \in Seq(Policy) /\ Len(issued') \in Nat
    BY <2>1, <2>2
  <2>4. Typed'
    BY <1>0, <2>2, <2>a DEF Typed, Steps
  <2>5. HasPolicy(c)'
    <3>1. Len(issued') \in DOMAIN issued' /\ issued'[Len(issued')] = p
      BY <2>1, <2>2
    <3> QED BY <1>0, <1>11, <2>2, <2>3, <3>1 DEF HasPolicy
  <2>6. Request(c)'
    BY <2>1, <2>2, <2>3, <2>5 DEF Request, Current, vars
  <2> QED BY <1>6, <2>1, <2>2, <2>3, <2>4, <2>6
<1>12. CASE Issue(c)
  BY <1>11, <1>12 DEF Issue
<1>13. CASE IssueFails(c)
  <2>1. /\ step[c] = "cleared" /\ binder[c] \in Users /\ ~busy[c]
    BY <1>0, <1>13 DEF IssueFails, Request, Saving
  <2>2. /\ UNCHANGED <<vars, binder, number, marked, booked>>
        /\ issued' = issued \/ \E p \in Policy : issued' = Append(issued, p)
        /\ step' = [step EXCEPT ![c] = "unissued"]
    BY <1>13, <2>1 DEF IssueFails, Gets, Goto, Policy
  <2>3. step'[c] = "unissued" /\ \A d \in Callers \ {c} : step'[d] = step[d]
    BY <1>0, <2>2 DEF Typed
  <2>4. Typed'
    <3>1. issued' \in Seq(Policy)
      BY <1>0, <2>2, StillPolicies
    <3> QED BY <1>0, <2>2, <3>1 DEF Typed, Steps
  <2>5. Request(c)'
    BY <2>1, <2>2, <2>3 DEF Request, Current, vars
  <2> QED BY <1>6, <2>2, <2>3, <2>4, <2>5
<1>14. CASE RatedBind(c)
  <2>1. step[c] = "unissued" /\ binder[c] \in Users
    BY <1>0, <1>14 DEF RatedBind, Request
  <2>2. CASE Return(c)
    <3>1. issued' = issued \/ \E p \in Policy : issued' = Append(issued, p)
      BY <1>14, <2>1 DEF RatedBind, Gets, Policy
    <3> QED BY <1>7, <1>14, <2>1, <2>2, <3>1 DEF RatedBind
  <2>3. CASE Gets(c, "rating") /\ ~requireLivePas /\ GoesOn(c)
    BY <1>11, <1>14, <2>1, <2>3 DEF RatedBind
  <2> QED BY <1>14, <2>2, <2>3 DEF RatedBind
<1>15. CASE Crash(c)
  BY <1>7, <1>15 DEF Crash, Saving
<1>16. CASE Book(c)
  <2>1. /\ step[c] = "bound" /\ number[c] \in marked /\ ~busy[c]
    BY <1>0, <1>16 DEF Book, Request, Saving
  <2>2. /\ UNCHANGED <<vars, binder, number, issued, marked>>
        /\ booked' \subseteq booked \cup {number[c]}
        /\ step' = [step EXCEPT ![c] = "booked"]
    BY <1>16 DEF Book, Goto
  <2>3. step'[c] = "booked" /\ \A d \in Callers \ {c} : step'[d] = step[d]
    BY <1>0, <2>2 DEF Typed
  <2>4. Others
    BY <1>0, <2>2, <2>3, OthersKeep DEF vars
  <2>5. Typed'
    BY <1>0, <2>2 DEF Typed, Steps
  <2>6. Request(c)'
    BY <2>1, <2>2, <2>3 DEF Request, Current, vars
  <2>7. Policies'
    BY <1>0, <2>1, <2>2 DEF Policies, Signable, vars
  <2> QED BY <1>1, <2>4, <2>5, <2>6, <2>7
\* The end of a save that stores nothing.
<1>17. ASSUME Conflict(c) \/ Abandon(c), Return(c), UNCHANGED <<issued, marked, booked>>
       PROVE  Goal
  <2>1. /\ disk' = disk /\ busy'[c] = FALSE /\ step'[c] = "none"
        /\ \A d \in Callers \ {c} : /\ busy'[d] = busy[d] /\ work'[d] = work[d] /\ step'[d] = step[d]
                                   /\ binder'[d] = binder[d] /\ number'[d] = number[d]
    BY <1>0, <1>2, <1>17 DEF Conflict, Abandon, Finish, Return, Typed
  <2>2. Others
    BY <1>0, <1>17, <2>1, OthersKeep
  <2>3. Request(c)'
    BY <2>1 DEF Request, Current
  <2>4. Typed'
    BY <1>0, <1>17 DEF Typed, Steps, Return
  <2>5. Policies'
    BY <1>0, <1>17, <2>1 DEF Policies, Signable
  <2> QED BY <1>1, <2>2, <2>3, <2>4, <2>5
<1>18. ASSUME Save(c), UNCHANGED <<issued, booked>>, marked \subseteq marked', Policies',
              Return(c) \/ (Goto(c, "bound") /\ number[c] \in marked')
       PROVE  Goal
  <2>1. /\ busy'[c] = FALSE
        /\ step'[c] = "none" \/ (step'[c] = "bound" /\ number'[c] \in marked')
        /\ \A d \in Callers \ {c} : /\ (busy'[d] => busy[d]) /\ step'[d] = step[d]
                                   /\ binder'[d] = binder[d] /\ number'[d] = number[d]
        /\ \A d \in Callers : ~(Current(d)')
    BY <1>0, <1>2, <1>18, NothingCurrent, SaveStores DEF Goto, Return, Typed
  <2>2. Others
    BY <1>0, <1>18, <2>1, OthersKeep
  <2>3. Request(c)'
    BY <1>18, <2>1 DEF Request
  <2>4. Typed'
    <3>1. CASE Return(c)
      BY <1>0, <1>18, <3>1 DEF Typed, Steps, Return
    <3>2. CASE Goto(c, "bound")
      BY <1>0, <1>18, <3>2 DEF Typed, Steps, Goto
    <3> QED BY <1>18, <3>1, <3>2
  <2> QED BY <1>1, <1>18, <2>2, <2>3, <2>4
<1>19. CASE SaveBound(c)
  <2>1. step[c] = "marking" /\ UNCHANGED <<issued, booked>>
    BY <1>19 DEF SaveBound
  <2>2. CASE Save(c) /\ marked' = marked \cup {number[c]} /\ Goto(c, "bound")
    <3>1. /\ disk'.policy = work[c].policy /\ disk'.state = work[c].state /\ disk'.cosign = work[c].cosign /\ Current(c)
      BY <1>0, <2>2, SaveStores
    <3>2. Binds(c, disk, work[c]) /\ HasPolicy(c) /\ binder[c] \in Users
      BY <1>0, <2>1, <3>1 DEF Request
    <3>3. /\ disk'.state = "bound" /\ Signable(disk') /\ disk'.policy = binder[c] /\ disk'.policy # NoUser
          /\ marked = {} /\ booked = {}
      BY <1>0, <3>1, <3>2, WorkflowAssumption DEF Binds, Signable, Policies
    <3>4. Policies'
      BY <2>1, <2>2, <3>2, <3>3 DEF Policies, HasPolicy, Signable
    <3> QED BY <1>18, <2>1, <2>2, <3>4
  <2>3. CASE (Conflict(c) \/ Abandon(c)) /\ Return(c) /\ UNCHANGED marked
    BY <1>17, <2>1, <2>3
  <2> QED BY <1>19, <2>2, <2>3 DEF SaveBound
<1>20. CASE EndSave(c)
  <2>1. /\ step[c] # "marking" /\ Return(c) /\ UNCHANGED <<issued, marked, booked>>
    BY <1>20 DEF EndSave
  <2>2. CASE Save(c)
    <3>1. /\ disk'.policy = work[c].policy /\ disk'.state = work[c].state /\ disk'.cosign = work[c].cosign /\ Current(c)
      BY <1>0, <2>2, SaveStores
    <3>2. Alike(disk, work[c])
      BY <1>0, <2>1, <3>1 DEF Request
    <3>3. Policies'
      BY <1>0, <2>1, <3>1, <3>2 DEF Alike, Policies, Signable
    <3> QED BY <1>18, <2>1, <2>2, <3>3
  <2>3. CASE Conflict(c) \/ Abandon(c)
    BY <1>17, <2>1, <2>3
  <2> QED BY <1>20, <2>2, <2>3 DEF EndSave
<1> HIDE DEF Goal
<1>21. Goal
  <2>1. ASSUME Bind(c) PROVE Goal
    BY <1>5, <1>8, <1>9, <1>10, <1>12, <1>13, <1>14, <1>15, <1>16, <1>19, <2>1 DEF Bind, Goal
  <2> QED BY <1>4, <1>20, <2>1 DEF Goal
<1> QED BY <1>21 DEF Goal

LEMMA BInvNext == BInv /\ [BindNext]_allVars => BInv'
<1> SUFFICES ASSUME BInv, [BindNext]_allVars PROVE BInv'
  OBVIOUS
<1>1. ASSUME NEW c \in Callers, DeskWork(c) \/ Bind(c) \/ EndSave(c), UNCHANGED requireLivePas
      PROVE  BInv'
  <2>1. Inv'
    BY <1>1, BindStepIsStep, InvNext DEF BInv
  <2> QED BY <1>1, <2>1, PolicyStep DEF BInv
<1>2. CASE UNCHANGED allVars
  <2>1. Inv'
    BY <1>2, InvNext DEF allVars, BInv
  <2> QED BY <1>2, <2>1
      DEF BInv, allVars, vars, bindVars, Typed, Policies, Requests, Current, Alike, Binds, Signable, HasPolicy, Good
<1> QED BY <1>1, <1>2 DEF BindNext

\* However binds, co-signs, failures and lost answers interleave, record, requests and policies agree.
THEOREM BInvHolds == BindSpec => []BInv
BY BInvInit, BInvNext, PTL DEF BindSpec

\* A bound case has a policy that was issued to the user that the record names: by an adapter of the
\* policy admin system, or by the fallback of main.py:4640 on plans that do not refuse it.
THEOREM BoundCaseHasPolicyHolds == BindSpec => []BoundCaseHasPolicy
<1>1. BInv => BoundCaseHasPolicy
  BY DEF BInv, Policies, BoundCaseHasPolicy, Good
<1> QED BY <1>1, BInvHolds, PTL

\* The portfolio counts only policies of cases that were marked bound.
THEOREM BookedWasBoundHolds == BindSpec => []BookedWasBound
<1>1. BInv => BookedWasBound
  BY DEF BInv, Policies, BookedWasBound
<1> QED BY <1>1, BInvHolds, PTL

\* Of any number of concurrent binds one policy at most is saved on the case.
THEOREM BoundOnceHolds == BindSpec => []BoundOnce
<1>1. BInv => BoundOnce
  <2> SUFFICES ASSUME BInv PROVE Cardinality(marked) <= 1
    BY DEF BoundOnce
  <2>1. marked = {} \/ \E n : marked = {n}
    BY DEF BInv, Policies
  <2>2. Cardinality({}) = 0 /\ \A n : Cardinality({n}) = 1
    BY FS_EmptySet, FS_Singleton
  <2>3. CASE marked = {}
    BY <2>2, <2>3
  <2>4. CASE \E n : marked = {n}
    <3>1. Cardinality(marked) = 1
      BY <2>2, <2>4
    <3> QED BY <3>1
  <2> QED BY <2>1, <2>3, <2>4
<1> QED BY <1>1, BInvHolds, PTL

-----------------------------------------------------------------------------
(* What Workflow promises, with binds through the API among its callers *)

LEMMA BindNextIsNext == ASSUME BInv, [BindNext]_allVars PROVE [Next]_vars
<1>1. ASSUME NEW c \in Callers, DeskWork(c) \/ Bind(c) \/ EndSave(c) PROVE [Next]_vars
  BY <1>1, BindStepIsStep
<1>2. CASE UNCHANGED allVars
  BY <1>2 DEF allVars
<1> QED BY <1>1, <1>2 DEF BindNext

\* The case that is to be bound starts with a decision on file.
LEMMA DecidedInit == BindInit => DecisionRules
<1> SUFFICES ASSUME BindInit PROVE DecisionRules
  OBVIOUS
<1>1. PICK a \in Accepting : disk = Decided(a)
  BY DEF BindInit
<1> DEFINE r == [Reviewed(Fresh, FALSE) EXCEPT !.version = 2]
           decision == [action |-> a, reasoned |-> TRUE]
<1>2. r.signOffs = << >> /\ r.cosign = NoCoSign /\ r.aiDeclined = FALSE
  BY DEF Reviewed, Fresh
<1>3. r \in Records
  BY FreshTyped DEF Reviewed, Records, States, Fresh
<1> HIDE DEF r
<1>4. disk = [r EXCEPT !.signOffs = Append(r.signOffs, decision), !.state = StateAfter(a)]
  BY <1>1 DEF Decided, SignedOff, r
<1>5. /\ disk.signOffs = << decision >> /\ disk.state = StateAfter(a)
      /\ disk.cosign = NoCoSign /\ disk.aiDeclined = FALSE
  <2>1. Append(r.signOffs, decision) = << decision >>
    BY <1>2
  <2> QED BY <1>2, <1>3, <1>4, <2>1 DEF Records
<1>6. /\ disk.state \in BINDABLE_STATES
      /\ Len(disk.signOffs) = 1 /\ disk.signOffs[1] = decision /\ disk.signOffs # << >>
  BY <1>5 DEF StateAfter, Accepting, BINDABLE_STATES
<1>7. HasApproval(disk)
  BY <1>6 DEF HasApproval
<1>8. Justified(disk)
  BY <1>5, <1>6 DEF Justified, LastAction
<1>9. SecondSignature(disk) /\ Touched(disk)
  BY <1>5, <1>6 DEF SecondSignature, Touched, NoCoSign, BINDABLE_STATES
<1> QED BY <1>7, <1>8, <1>9 DEF DecisionRules

LEMMA BindDecisionRules == BindSpec => []DecisionRules
<1>1. BInv /\ DecisionRules /\ [BindNext]_allVars => DecisionRules'
  BY BindNextIsNext, DecisionRulesNext DEF BInv
<1> QED BY <1>1, DecidedInit, BInvHolds, PTL DEF BindSpec

\* What a policy on the record rests on: it was issued to the user that the record names, by a system
\* that the plan accepts, somebody approved or quoted, the last decision stands or a second person has
\* signed, and that person is not the one that bound.
PolicyIsDecided ==
    disk.policy # NoUser =>
        /\ BoundCaseHasPolicy /\ ApprovalOnFile
        /\ disk.state = "bound" /\ SoloBindJustified /\ BoundWithSecondSignature

\* Whatever the bind requests, the other endpoints, the policy admin system and crashes do between one
\* another's steps: no policy is saved on a case without the decision and the signature it needs.
THEOREM PolicyIsDecidedHolds == BindSpec => []PolicyIsDecided
<1>1. BInv /\ DecisionRules => PolicyIsDecided
  <2> SUFFICES ASSUME BInv, DecisionRules PROVE PolicyIsDecided
    OBVIOUS
  <2>1. BoundCaseHasPolicy /\ (disk.policy # NoUser => disk.state = "bound")
    BY DEF BInv, Policies, BoundCaseHasPolicy, Good
  <2>2. ApprovalOnFile /\ SoloBindJustified
    BY DEF DecisionRules, HasApproval, ApprovalOnFile, Justified, SoloBindJustified
  <2>3. BoundWithSecondSignature
    BY DEF DecisionRules, SecondSignature, BoundWithSecondSignature, Rank
  <2> QED BY <2>1, <2>2, <2>3 DEF PolicyIsDecided
<1> QED BY <1>1, BInvHolds, BindDecisionRules, PTL

\* A bind request overwrites no decision, escalation, terms or approved co-sign that another request has
\* saved since the bind read the case, although it saves up to three times (NothingLost).
THEOREM BindLosesNothing == BindSpec => NothingLost
<1>1. BInv /\ [BindNext]_allVars =>
      [/\ Len(disk.signOffs) <= Len(disk'.signOffs)
       /\ SubSeq(disk'.signOffs, 1, Len(disk.signOffs)) = disk.signOffs
       /\ disk.escalations <= disk'.escalations
       /\ disk.terms => disk'.terms
       /\ disk.cosign.status = "approved" => disk'.cosign = disk.cosign]_disk
  BY BindNextIsNext, StepExtends DEF Extends, BInv
<1> QED BY <1>1, BInvHolds, PTL DEF BindSpec, NothingLost

\* A bind request is made of steps of the abstract case: what it saves is a co-sign request, a bind or
\* nothing that the case can see, and a save of it that comes too late is no step at all.
THEOREM BindFollowsCase == BindSpec => [][Case!CaseNext]_(Case!caseVars)
<1>1. BInv /\ DecisionRules /\ [BindNext]_allVars => [Case!CaseNext]_(Case!caseVars)
  BY BindNextIsNext, StepIsCaseStep DEF BInv
<1> QED BY <1>1, BInvHolds, BindDecisionRules, PTL DEF BindSpec
=============================================================================
