--------------------------- MODULE WorkflowProofs ---------------------------
(***************************************************************************)
(* Theorems about Workflow for every set of callers and users, every        *)
(* assignment of tiers and every bound on versions.                         *)
(*                                                                          *)
(* The argument: a prepared record whose version is the stored one is the   *)
(* result of one operation on the stored record (Linked), because storing   *)
(* anything moves the version on.  Save therefore applies one operation to  *)
(* the record it replaces, and everything else is about single operations.  *)
(***************************************************************************)
EXTENDS Workflow, TLAPS

\* n is what one operation makes of r.
Applied(r, n) ==
    \/ ~Exists(r) /\ \E ai \in BOOLEAN : n = Opened(ai)
    \/ CanReview(r) /\ \E ai \in BOOLEAN : n = Reviewed(r, ai)
    \/ Exists(r) /\ n \in {r, Escalated(r), TermsValidated(r)}
    \/ \E a \in Actions, reasoned \in BOOLEAN :
          CanSignOff(r, a, reasoned) /\ n = SignedOff(r, a, reasoned)
    \/ \E u \in Users : CanRequestCoSign(r) /\ n = CoSignRequested(r, u)
    \/ \E u \in Users : CanMarkBound(r, u) /\ n = MarkedBound(r, u)
    \/ \E u \in Users, approve \in BOOLEAN :
          CanResolveCoSign(r, u) /\ n = CoSignResolved(r, u, approve)

\* A prepared record of the stored version applies one operation to it.
Linked == \A c \in Callers :
    (busy[c] /\ work[c].version = disk.version) => Applied(disk, work[c])

\* No record is stored under version 0.
AbsentIsFresh == ~Exists(disk) => disk = Fresh

Inv == TypeOK /\ AbsentIsFresh /\ Linked

-----------------------------------------------------------------------------

LEMMA FreshTyped == Fresh \in Records
BY WorkflowAssumption DEF Fresh, Records, NoCoSign, CoSigns, States, Tiers

\* An operation keeps the record well formed and its version unchanged.
LEMMA AppliedTyped ==
    ASSUME NEW r \in Records, NEW n, Applied(r, n), ~Exists(r) => r = Fresh
    PROVE  n \in Records /\ n.version = r.version
<1> USE WorkflowAssumption DEF Records
<1>1. CASE ~Exists(r) /\ \E ai \in BOOLEAN : n = Opened(ai)
  <2>1. PICK ai \in BOOLEAN : n = Opened(ai)
    BY <1>1
  <2>2. n = [Fresh EXCEPT !.state = "analyzing", !.aiDeclined = ai]
    BY <2>1 DEF Opened
  <2>3. Fresh.version = 0
    BY DEF Fresh
  <2>4. n \in Records /\ n.version = Fresh.version
    BY <2>2, FreshTyped DEF States
  <2> QED BY <1>1, <2>3, <2>4
<1>2. CASE CanReview(r) /\ \E ai \in BOOLEAN : n = Reviewed(r, ai)
  BY <1>2 DEF Reviewed, States
<1>3. CASE Exists(r) /\ n \in {r, Escalated(r), TermsValidated(r)}
  <2>1. CASE n = r
    BY <2>1
  <2>2. CASE n = Escalated(r)
    <3>1. r.escalations + 1 \in Nat /\ "escalated" \in States
      BY DEF States
    <3>2. n = [r EXCEPT !.escalations = r.escalations + 1, !.state = "escalated"]
      BY <2>2 DEF Escalated
    <3> QED BY <3>1, <3>2
  <2>3. CASE n = TermsValidated(r)
    BY <2>3 DEF TermsValidated, States
  <2> QED BY <1>3, <2>1, <2>2, <2>3
<1>4. CASE \E a \in Actions, reasoned \in BOOLEAN :
              CanSignOff(r, a, reasoned) /\ n = SignedOff(r, a, reasoned)
  <2>1. PICK a \in Actions, reasoned \in BOOLEAN : n = SignedOff(r, a, reasoned)
    BY <1>4
  <2>2. Append(r.signOffs, [action |-> a, reasoned |-> reasoned]) \in Seq(SignOffs)
    BY DEF SignOffs
  <2>3. StateAfter(a) \in States
    BY DEF StateAfter, Actions, States
  <2>4. n = [r EXCEPT !.signOffs = Append(r.signOffs, [action |-> a, reasoned |-> reasoned]),
                      !.state = StateAfter(a)]
    BY <2>1 DEF SignedOff
  <2> HIDE DEF Records
  <2>5. n.version = r.version
    BY <2>4 DEF Records
  <2> QED BY <2>2, <2>3, <2>4, <2>5 DEF Records
<1>5. CASE \E u \in Users : CanRequestCoSign(r) /\ n = CoSignRequested(r, u)
  <2>1. PICK u \in Users : n = CoSignRequested(r, u)
    BY <1>5
  <2> DEFINE cs == create_cosign_request(u)
  <2>2. cs \in CoSigns
    BY DEF create_cosign_request, required_cosigner_tier, CoSigns, Tiers
  <2>3. n = [r EXCEPT !.cosign = cs, !.state = "pending_co_sign"]
    BY <2>1 DEF CoSignRequested
  <2>4. "pending_co_sign" \in States
    BY DEF States
  <2> HIDE DEF cs
  <2> QED BY <2>2, <2>3, <2>4
<1>6. CASE \E u \in Users : CanMarkBound(r, u) /\ n = MarkedBound(r, u)
  BY <1>6 DEF MarkedBound, States
<1>7. CASE \E u \in Users, approve \in BOOLEAN :
              CanResolveCoSign(r, u) /\ n = CoSignResolved(r, u, approve)
  <2>1. PICK u \in Users, approve \in BOOLEAN : n = CoSignResolved(r, u, approve)
    BY <1>7
  <2> DEFINE st == IF LastAction(r) = "quote" THEN "quoted" ELSE "approved"
  <2> DEFINE cs == [r.cosign EXCEPT !.status = IF approve THEN "approved" ELSE "rejected",
                                    !.signed_by = u]
  <2>2. cs \in CoSigns
    BY DEF CoSigns
  <2>3. n = [r EXCEPT !.cosign = cs, !.state = st]
    BY <2>1 DEF CoSignResolved
  <2>4. st \in States
    BY DEF States
  <2> HIDE DEF cs, st
  <2> QED BY <2>2, <2>3, <2>4
<1> QED BY <1>1, <1>2, <1>3, <1>4, <1>5, <1>6, <1>7 DEF Applied

-----------------------------------------------------------------------------
\* What the safety properties say of the stored record, of any record

Justified(r) ==
    (r.state \in BINDABLE_STATES \cup {"bound"} /\ r.cosign.status = "none")
    => /\ LastAction(r) \in Accepting
       /\ r.aiDeclined => r.signOffs[Len(r.signOffs)].reasoned

HasApproval(r) ==
    (\/ r.state \in BINDABLE_STATES \cup {"pending_co_sign", "bound"}
     \/ r.cosign.status # "none")
    => \E i \in 1 .. Len(r.signOffs) : r.signOffs[i].action \in Accepting

Rank(u) == _TIER_RANK[TierOf[u]]

\* The first two conjuncts strengthen the third, the property, to an invariant.
SecondSignature(r) ==
    /\ r.cosign.status # "none" => r.cosign.required \in {"senior", "cuo"}
    /\ r.cosign.status = "approved" =>
          /\ r.cosign.signed_by # r.cosign.requested_by
          /\ Rank(r.cosign.signed_by) >= _TIER_RANK["senior"]
    /\ (r.state = "bound" /\ r.cosign.status # "none") =>
          /\ r.cosign.status = "approved"
          /\ r.cosign.signed_by # r.policy

\* The effect of an operation, field by field, on what those three read.
Effect(r, n) ==
    \/ /\ n.state = "analyzing" /\ n.cosign.status = "none"
    \/ /\ n.state \in {"pending_review", "escalated"}
       /\ n.signOffs = r.signOffs /\ n.cosign = r.cosign
    \/ /\ n.state = r.state /\ n.signOffs = r.signOffs /\ n.cosign = r.cosign
       /\ n.policy = r.policy /\ n.aiDeclined = r.aiDeclined
    \/ \E a \in Actions, reasoned \in BOOLEAN :
       /\ CanSignOff(r, a, reasoned)
       /\ n.signOffs = Append(r.signOffs, [action |-> a, reasoned |-> reasoned])
       /\ n.state = StateAfter(a)
       /\ n.cosign = r.cosign /\ n.aiDeclined = r.aiDeclined
    \/ \E u \in Users :
       /\ CanRequestCoSign(r) /\ n.cosign = create_cosign_request(u)
       /\ n.signOffs = r.signOffs /\ n.state = "pending_co_sign"
    \/ \E u \in Users :
       /\ CanMarkBound(r, u) /\ n.state = "bound" /\ n.policy = u
       /\ n.signOffs = r.signOffs /\ n.cosign = r.cosign
       /\ n.aiDeclined = r.aiDeclined
    \/ \E u \in Users :
       /\ CanResolveCoSign(r, u) /\ n.state \in {"approved", "quoted"}
       /\ n.signOffs = r.signOffs
       /\ n.cosign.status \in {"approved", "rejected"}
       /\ n.cosign.signed_by = u
       /\ n.cosign.requested_by = r.cosign.requested_by
       /\ n.cosign.required = r.cosign.required

LEMMA AppliedEffect ==
    ASSUME NEW r \in Records, NEW n, Applied(r, n)
    PROVE  Effect(r, n)
<1> USE DEF Records
<1>1. ASSUME NEW ai \in BOOLEAN, n = Opened(ai)
      PROVE  n.state = "analyzing" /\ n.cosign.status = "none"
  BY <1>1 DEF Opened, Fresh, NoCoSign
<1>2. ASSUME NEW ai \in BOOLEAN, n = Reviewed(r, ai)
      PROVE  /\ n.state \in {"pending_review", "escalated"}
             /\ n.signOffs = r.signOffs /\ n.cosign = r.cosign
  BY <1>2 DEF Reviewed
<1>3. CASE n = Escalated(r)
  <2>1. /\ n.state \in {"pending_review", "escalated"}
        /\ n.signOffs = r.signOffs /\ n.cosign = r.cosign
    BY <1>3 DEF Escalated
  <2> QED BY <2>1 DEF Effect
<1>4. CASE n \in {r, TermsValidated(r)}
  <2>1. /\ n.state = r.state /\ n.signOffs = r.signOffs /\ n.cosign = r.cosign
        /\ n.policy = r.policy /\ n.aiDeclined = r.aiDeclined
    BY <1>4 DEF TermsValidated
  <2> QED BY <2>1 DEF Effect
<1>5. ASSUME NEW a \in Actions, NEW reasoned \in BOOLEAN, n = SignedOff(r, a, reasoned)
      PROVE  /\ n.signOffs = Append(r.signOffs, [action |-> a, reasoned |-> reasoned])
             /\ n.state = StateAfter(a)
             /\ n.cosign = r.cosign /\ n.aiDeclined = r.aiDeclined
  BY <1>5 DEF SignedOff
<1>6. ASSUME NEW u \in Users, n = CoSignRequested(r, u)
      PROVE  /\ n.cosign = create_cosign_request(u)
             /\ n.signOffs = r.signOffs /\ n.state = "pending_co_sign"
  BY <1>6 DEF CoSignRequested
<1>7. ASSUME NEW u \in Users, n = MarkedBound(r, u)
      PROVE  /\ n.state = "bound" /\ n.policy = u
             /\ n.signOffs = r.signOffs /\ n.cosign = r.cosign
             /\ n.aiDeclined = r.aiDeclined
  BY <1>7 DEF MarkedBound
<1>8. ASSUME NEW u \in Users, NEW approve \in BOOLEAN, n = CoSignResolved(r, u, approve)
      PROVE  /\ n.state \in {"approved", "quoted"}
             /\ n.signOffs = r.signOffs
             /\ n.cosign.status \in {"approved", "rejected"}
             /\ n.cosign.signed_by = u
             /\ n.cosign.requested_by = r.cosign.requested_by
             /\ n.cosign.required = r.cosign.required
  BY <1>8 DEF CoSignResolved, CoSigns
<1> QED BY <1>1, <1>2, <1>3, <1>4, <1>5, <1>6, <1>7, <1>8 DEF Applied, Effect

\* A trail that grows keeps its entries and ends with the new one.
LEMMA TrailGrows ==
    ASSUME NEW s \in Seq(SignOffs), NEW d \in SignOffs
    PROVE  /\ Append(s, d) # << >>
           /\ Len(Append(s, d)) = Len(s) + 1
           /\ Append(s, d)[Len(s) + 1] = d
           /\ \A i \in 1 .. Len(s) : Append(s, d)[i] = s[i]
OBVIOUS

LEMMA AppliedHasApproval ==
    ASSUME NEW r \in Records, NEW n \in Records, Effect(r, n), HasApproval(r)
    PROVE  HasApproval(n)
<1> DEFINE Accepts(x) == \E i \in 1 .. Len(x.signOffs) : x.signOffs[i].action \in Accepting
<1> USE DEF HasApproval, BINDABLE_STATES
<1>1. CASE n.state = "analyzing" /\ n.cosign.status = "none"
  BY <1>1
<1>2. CASE n.signOffs = r.signOffs /\ n.cosign = r.cosign
           /\ n.state \in {"pending_review", "escalated", r.state}
  BY <1>2
<1>3. ASSUME NEW a \in Actions, NEW reasoned \in BOOLEAN,
             n.signOffs = Append(r.signOffs, [action |-> a, reasoned |-> reasoned]),
             n.state = StateAfter(a), n.cosign = r.cosign
      PROVE  HasApproval(n)
  <2> DEFINE d == [action |-> a, reasoned |-> reasoned]
  <2>1. r.signOffs \in Seq(SignOffs) /\ Len(r.signOffs) \in Nat /\ d \in SignOffs
    BY DEF Records, SignOffs
  <2>2. /\ Len(n.signOffs) = Len(r.signOffs) + 1
        /\ n.signOffs[Len(r.signOffs) + 1] = d
        /\ \A i \in 1 .. Len(r.signOffs) : n.signOffs[i] = r.signOffs[i]
    BY <1>3, <2>1, TrailGrows
  <2>3. CASE a \in Accepting
    BY <2>1, <2>2, <2>3
  <2>4. CASE a \notin Accepting
    <3>1. n.state \notin BINDABLE_STATES \cup {"pending_co_sign", "bound"}
      BY <1>3, <2>4 DEF StateAfter, Accepting
    <3>2. Accepts(r) => Accepts(n)
      BY <2>1, <2>2
    <3> QED BY <3>1, <3>2, <1>3
  <2> QED BY <2>3, <2>4
<1>4. CASE r.state \in BINDABLE_STATES \cup {"pending_co_sign"} /\ n.signOffs = r.signOffs
  BY <1>4
<1>5. CASE r.cosign.status # "none" /\ n.signOffs = r.signOffs
  BY <1>5
<1> QED
  BY <1>1, <1>2, <1>3, <1>4, <1>5
     DEF Effect, CanRequestCoSign, CanMarkBound, CanResolveCoSign

LEMMA AppliedJustified ==
    ASSUME NEW r \in Records, NEW n \in Records, Effect(r, n), Justified(r)
    PROVE  Justified(n)
<1> USE DEF Justified, BINDABLE_STATES
<1>1. CASE n.state \in {"analyzing", "pending_review", "escalated", "pending_co_sign"}
  BY <1>1
<1>2. CASE /\ n.signOffs = r.signOffs /\ n.cosign = r.cosign
           /\ n.aiDeclined = r.aiDeclined
           /\ n.state = r.state \/ r.state \in BINDABLE_STATES
  BY <1>2 DEF LastAction
<1>3. ASSUME NEW a \in Actions, NEW reasoned \in BOOLEAN,
             CanSignOff(r, a, reasoned),
             n.signOffs = Append(r.signOffs, [action |-> a, reasoned |-> reasoned]),
             n.state = StateAfter(a), n.aiDeclined = r.aiDeclined
      PROVE  Justified(n)
  <2> DEFINE d == [action |-> a, reasoned |-> reasoned]
  <2>1. r.signOffs \in Seq(SignOffs) /\ Len(r.signOffs) \in Nat /\ d \in SignOffs
    BY DEF Records, SignOffs
  <2>2. n.signOffs # << >> /\ n.signOffs[Len(n.signOffs)] = d
    BY <1>3, <2>1, TrailGrows
  <2>3. CASE a \in Accepting
    BY <1>3, <2>2, <2>3 DEF CanSignOff, LastAction
  <2>4. CASE a \notin Accepting
    BY <1>3, <2>4 DEF StateAfter, Accepting
  <2> QED BY <2>3, <2>4
<1>4. CASE n.cosign.status # "none"
  BY <1>4
<1> QED
  BY <1>1, <1>2, <1>3, <1>4 DEF Effect, CanMarkBound

LEMMA AppliedSecondSignature ==
    ASSUME NEW r \in Records, NEW n \in Records, Effect(r, n), SecondSignature(r)
    PROVE  SecondSignature(n)
<1> USE DEF SecondSignature
<1>1. CASE n.cosign.status = "none"
  BY <1>1
<1>2. CASE /\ n.cosign = r.cosign
           /\ n.state # "bound" \/ (n.state = r.state /\ n.policy = r.policy)
  BY <1>2
<1>3. ASSUME NEW u \in Users, CanRequestCoSign(r), n.state = "pending_co_sign",
             n.cosign = create_cosign_request(u)
      PROVE  SecondSignature(n)
  BY <1>3 DEF create_cosign_request, required_cosigner_tier
<1>4. ASSUME NEW u \in Users, CanMarkBound(r, u), n.policy = u, n.cosign = r.cosign
      PROVE  SecondSignature(n)
  BY <1>4 DEF CanMarkBound, cosign_allows_bind
<1>5. ASSUME NEW u \in Users, CanResolveCoSign(r, u), n.state \in {"approved", "quoted"},
             n.cosign.signed_by = u,
             n.cosign.requested_by = r.cosign.requested_by,
             n.cosign.required = r.cosign.required
      PROVE  SecondSignature(n)
  <2>1. r.cosign.required \in {"senior", "cuo"}
    BY <1>5 DEF CanResolveCoSign
  <2>2. Rank(u) \in {0, 1, 2, 3, 4} /\ Rank(u) >= _TIER_RANK[r.cosign.required]
    BY <1>5, WorkflowAssumption DEF CanResolveCoSign, can_cosign, Rank, _TIER_RANK, Tiers
  <2>3. Rank(u) >= _TIER_RANK["senior"]
    BY <2>1, <2>2 DEF _TIER_RANK
  <2> QED BY <1>5, <2>1, <2>3 DEF CanResolveCoSign, can_cosign
<1>6. ASSUME NEW a \in Actions, n.state = StateAfter(a) PROVE n.state # "bound"
  BY <1>6 DEF StateAfter
<1> QED
  BY <1>1, <1>2, <1>3, <1>4, <1>5, <1>6 DEF Effect

\* Only a record that was never stored is still "received".
Touched(r) == Exists(r) => r.state # "received"

LEMMA AppliedTouched ==
    ASSUME NEW r \in Records, NEW n, Applied(r, n), Touched(r)
    PROVE  n.state # "received"
<1> USE DEF Records
<1>1. ASSUME NEW ai \in BOOLEAN, n = Opened(ai) \/ n = Reviewed(r, ai)
      PROVE  n.state # "received"
  BY <1>1 DEF Opened, Reviewed, Fresh
<1>2. CASE n = Escalated(r)
  BY <1>2 DEF Escalated
<1>3. CASE Exists(r) /\ n \in {r, TermsValidated(r)}
  BY <1>3 DEF TermsValidated, Touched
<1>4. ASSUME NEW a \in Actions, NEW reasoned \in BOOLEAN, n = SignedOff(r, a, reasoned)
      PROVE  n.state # "received"
  <2>1. n.state = StateAfter(a)
    BY <1>4 DEF SignedOff
  <2> QED BY <2>1 DEF StateAfter
<1>5. ASSUME NEW u \in Users, n = CoSignRequested(r, u) \/ n = MarkedBound(r, u)
      PROVE  n.state # "received"
  BY <1>5 DEF CoSignRequested, MarkedBound
<1>6. ASSUME NEW u \in Users, NEW approve \in BOOLEAN, n = CoSignResolved(r, u, approve)
      PROVE  n.state # "received"
  BY <1>6 DEF CoSignResolved
<1> QED BY <1>1, <1>2, <1>3, <1>4, <1>5, <1>6 DEF Applied

-----------------------------------------------------------------------------
\* What an operation never takes away (the step NothingLost allows)

Extends(r, n) ==
    /\ Len(r.signOffs) <= Len(n.signOffs)
    /\ SubSeq(n.signOffs, 1, Len(r.signOffs)) = r.signOffs
    /\ r.escalations <= n.escalations
    /\ r.terms => n.terms
    /\ r.cosign.status = "approved" => n.cosign = r.cosign

LEMMA PrefixOfAppend ==
    ASSUME NEW s \in Seq(SignOffs), NEW d \in SignOffs
    PROVE  /\ SubSeq(s, 1, Len(s)) = s
           /\ SubSeq(Append(s, d), 1, Len(s)) = s
OBVIOUS

LEMMA AppliedExtends ==
    ASSUME NEW r \in Records, NEW n, Applied(r, n), ~Exists(r) => r = Fresh
    PROVE  Extends(r, n)
<1>1. /\ r.signOffs \in Seq(SignOffs) /\ Len(r.signOffs) \in Nat
      /\ r.escalations \in Nat
      /\ SubSeq(r.signOffs, 1, Len(r.signOffs)) = r.signOffs
  BY PrefixOfAppend, FreshTyped DEF Records, SignOffs
<1>2. CASE ~Exists(r) /\ \E ai \in BOOLEAN : n = Opened(ai)
  <2>1. n.signOffs = r.signOffs /\ n.escalations = r.escalations
        /\ n.terms = r.terms /\ n.cosign = r.cosign
    BY <1>2 DEF Opened, Fresh
  <2> QED BY <1>1, <2>1 DEF Extends
<1>3. CASE \/ \E ai \in BOOLEAN : n = Reviewed(r, ai)
           \/ n \in {r, Escalated(r), TermsValidated(r)}
           \/ \E u \in Users : n = MarkedBound(r, u)
  <2>1. n.signOffs = r.signOffs /\ n.cosign = r.cosign
    BY <1>3 DEF Reviewed, Escalated, TermsValidated, MarkedBound, Records
  <2>2. n.escalations \in {r.escalations, r.escalations + 1}
    BY <1>3 DEF Reviewed, Escalated, TermsValidated, MarkedBound, Records
  <2>3. r.terms => n.terms
    BY <1>3 DEF Reviewed, Escalated, TermsValidated, MarkedBound, Records
  <2> QED BY <1>1, <2>1, <2>2, <2>3 DEF Extends
<1>4. ASSUME NEW a \in Actions, NEW reasoned \in BOOLEAN, n = SignedOff(r, a, reasoned)
      PROVE  Extends(r, n)
  <2> DEFINE d == [action |-> a, reasoned |-> reasoned]
  <2>1. d \in SignOffs
    BY DEF SignOffs
  <2>2. n.signOffs = Append(r.signOffs, d) /\ n.escalations = r.escalations
        /\ n.terms = r.terms /\ n.cosign = r.cosign
    BY <1>4 DEF SignedOff, Records
  <2>3. Len(n.signOffs) = Len(r.signOffs) + 1
    BY <1>1, <2>1, <2>2, TrailGrows
  <2> QED BY <1>1, <2>1, <2>2, <2>3, PrefixOfAppend DEF Extends
<1>5. ASSUME \/ \E u \in Users : CanRequestCoSign(r) /\ n = CoSignRequested(r, u)
             \/ \E u \in Users, approve \in BOOLEAN :
                   CanResolveCoSign(r, u) /\ n = CoSignResolved(r, u, approve)
      PROVE  Extends(r, n)
  <2>1. /\ n.signOffs = r.signOffs /\ n.escalations = r.escalations /\ n.terms = r.terms
        /\ r.cosign.status # "approved"
    BY <1>5 DEF CoSignRequested, CoSignResolved, CanRequestCoSign, CanResolveCoSign, Records
  <2> QED BY <1>1, <2>1 DEF Extends
<1> QED BY <1>2, <1>3, <1>4, <1>5 DEF Applied

-----------------------------------------------------------------------------
\* The interleaving: what is prepared, and what Save stores

\* Every operation prepares one application of itself to the stored record,
\* or (start) a record of version 0.
LEMMA OperationPrepares ==
    ASSUME Inv, NEW c \in Callers, Operation(c)
    PROVE  \E n \in Records :
              /\ Prepare(c, n)
              /\ n.version <= disk.version
              /\ n.version = disk.version => Applied(disk, n)
<1>1. disk \in Records /\ disk.version \in Nat /\ (~Exists(disk) => disk = Fresh)
  BY DEF Inv, TypeOK, AbsentIsFresh, Records
<1>2. ASSUME NEW n, Applied(disk, n), Prepare(c, n)
      PROVE  \E m \in Records :
                /\ Prepare(c, m)
                /\ m.version <= disk.version
                /\ m.version = disk.version => Applied(disk, m)
  <2>1. n \in Records /\ n.version = disk.version
    BY <1>1, <1>2, AppliedTyped
  <2> QED BY <1>1, <1>2, <2>1
<1>3. ASSUME NEW ai \in BOOLEAN, start(c, ai)
      PROVE  \E m \in Records :
                /\ Prepare(c, m)
                /\ m.version <= disk.version
                /\ m.version = disk.version => Applied(disk, m)
  <2>1. Opened(ai) \in Records /\ Opened(ai).version = 0
    <3>1. Opened(ai) = [Fresh EXCEPT !.state = "analyzing", !.aiDeclined = ai]
      BY DEF Opened
    <3>2. Fresh.version = 0 /\ "analyzing" \in States
      BY DEF Fresh, States
    <3> QED BY <3>1, <3>2, FreshTyped DEF Records
  <2>2. 0 = disk.version => Applied(disk, Opened(ai))
    BY DEF Applied, Exists
  <2> QED BY <1>1, <1>3, <2>1, <2>2 DEF start
<1>4. CASE \E ai \in BOOLEAN : submit_for_review(c, ai)
  BY <1>2, <1>4 DEF submit_for_review, Applied
<1>5. CASE assign(c) \/ escalate(c) \/ validate_uw_terms(c)
  BY <1>2, <1>5 DEF assign, escalate, validate_uw_terms, Applied
<1>6. CASE \E a \in Actions, reasoned \in BOOLEAN : sign_off(c, a, reasoned)
  BY <1>2, <1>6 DEF sign_off, Applied
<1>7. CASE \E u \in Users : request_cosign(c, u) \/ mark_bound(c, u)
  BY <1>2, <1>7 DEF request_cosign, mark_bound, Applied
<1>8. CASE \E u \in Users, approve \in BOOLEAN : resolve_cosign_request(c, u, approve)
  BY <1>2, <1>8 DEF resolve_cosign_request, Applied
<1> QED BY <1>3, <1>4, <1>5, <1>6, <1>7, <1>8 DEF Operation

\* Save applies one operation to the record it replaces and counts it.
LEMMA SaveApplies ==
    ASSUME Inv, NEW c \in Callers, Save(c)
    PROVE  /\ Applied(disk, work[c])
           /\ work[c] \in Records /\ work[c].version = disk.version
           /\ disk' = [work[c] EXCEPT !.version = disk.version + 1]
<1>1. work[c] \in Records /\ work[c].version \in Nat /\ disk.version \in Nat
      /\ work[c].version <= disk.version
  BY DEF Inv, TypeOK, Records
<1>2. work[c].version = disk.version
  BY <1>1 DEF Save, VersionAllows, Exists
<1>3. Applied(disk, work[c])
  BY <1>2 DEF Save, Inv, Linked
<1>4. disk' = [work[c] EXCEPT !.version = work[c].version + 1]
  BY DEF Save
<1> QED BY <1>1, <1>2, <1>3, <1>4

LEMMA InvInit == Init => Inv
<1> SUFFICES ASSUME Init PROVE Inv
  OBVIOUS
<1>1. TypeOK
  <2>1. Fresh.version = 0
    BY DEF Fresh
  <2> QED BY <2>1, FreshTyped DEF Init, TypeOK
<1>2. AbsentIsFresh /\ Linked
  BY DEF Init, AbsentIsFresh, Linked
<1> QED BY <1>1, <1>2 DEF Inv

LEMMA InvNext == Inv /\ [Next]_vars => Inv'
<1> SUFFICES ASSUME Inv, [Next]_vars PROVE Inv'
  OBVIOUS
<1>1. /\ disk \in Records /\ disk.version \in Nat
      /\ busy \in [Callers -> BOOLEAN] /\ work \in [Callers -> Records]
      /\ \A c \in Callers : work[c].version \in Nat /\ work[c].version <= disk.version
  BY DEF Inv, TypeOK, Records
<1>2. Fresh \in Records /\ Fresh.version = 0
  BY FreshTyped DEF Fresh
<1>3. ASSUME NEW c \in Callers, Operation(c) PROVE Inv'
  <2>1. PICK n \in Records :
           /\ Prepare(c, n)
           /\ n.version <= disk.version
           /\ n.version = disk.version => Applied(disk, n)
    BY <1>3, OperationPrepares
  <2>2. TypeOK'
    BY <1>1, <2>1 DEF Prepare, TypeOK
  <2>3. AbsentIsFresh'
    BY <2>1 DEF Prepare, Inv, AbsentIsFresh
  <2>4. Linked'
    <3> SUFFICES ASSUME NEW d \in Callers, busy'[d], work'[d].version = disk.version
                 PROVE  Applied(disk, work'[d])
      BY <2>1 DEF Prepare, Linked
    <3>1. CASE d = c
      BY <1>1, <2>1, <3>1 DEF Prepare
    <3>2. CASE d # c
      BY <1>1, <2>1, <3>2 DEF Prepare, Inv, Linked
    <3> QED BY <3>1, <3>2
  <2> QED BY <2>2, <2>3, <2>4 DEF Inv
<1>4. ASSUME NEW c \in Callers, Save(c) PROVE Inv'
  <2>1. /\ disk' \in Records /\ disk'.version = disk.version + 1
    <3>1. PICK n \in Records : disk' = [n EXCEPT !.version = disk.version + 1]
      BY <1>4, SaveApplies
    <3>2. disk.version + 1 \in Nat
      BY <1>1
    <3> QED BY <3>1, <3>2 DEF Records
  <2>2. /\ busy' = [busy EXCEPT ![c] = FALSE]
        /\ work' = [work EXCEPT ![c] = Fresh]
    BY <1>4 DEF Save, Finish
  <2>3. TypeOK'
    BY <1>1, <1>2, <2>1, <2>2 DEF TypeOK
  <2>4. AbsentIsFresh'
    BY <1>1, <2>1 DEF AbsentIsFresh, Exists
  <2>5. Linked'
    BY <1>1, <1>2, <2>1, <2>2 DEF Linked
  <2> QED BY <2>3, <2>4, <2>5 DEF Inv
<1>5. ASSUME NEW c \in Callers, Conflict(c) \/ Abandon(c) PROVE Inv'
  <2>1. /\ disk' = disk
        /\ busy' = [busy EXCEPT ![c] = FALSE]
        /\ work' = [work EXCEPT ![c] = Fresh]
    BY <1>5 DEF Conflict, Abandon, Finish
  <2>2. TypeOK'
    BY <1>1, <1>2, <2>1 DEF TypeOK
  <2>3. AbsentIsFresh'
    BY <2>1 DEF Inv, AbsentIsFresh
  <2>4. Linked'
    BY <1>1, <2>1 DEF Inv, Linked
  <2> QED BY <2>2, <2>3, <2>4 DEF Inv
<1>6. CASE UNCHANGED vars
  BY <1>6 DEF vars, Inv, TypeOK, AbsentIsFresh, Linked
<1> QED BY <1>3, <1>4, <1>5, <1>6 DEF Next

\* Only Save writes the record, and it writes one operation's result.
LEMMA RecordSteps ==
    ASSUME Inv, [Next]_vars, disk' # disk
    PROVE  \E n \in Records :
              Applied(disk, n) /\ disk' = [n EXCEPT !.version = disk.version + 1]
<1>1. PICK c \in Callers : Operation(c) \/ Save(c) \/ Conflict(c) \/ Abandon(c)
  BY DEF Next, vars
<1>2. ~Operation(c)
  BY OperationPrepares DEF Prepare
<1>3. ~(Conflict(c) \/ Abandon(c))
  BY DEF Conflict, Abandon
<1> QED BY <1>1, <1>2, <1>3, SaveApplies

-----------------------------------------------------------------------------
\* The theorems

THEOREM InvHolds == Spec => []Inv
BY InvInit, InvNext, PTL DEF Spec

\* Records stay well formed and no caller ever holds a record newer than the
\* stored one.
THEOREM TypeCorrect == Spec => []TypeOK
<1>1. Inv => TypeOK
  BY DEF Inv
<1> QED BY <1>1, InvHolds, PTL

\* The invariant and a step are all that the next lemmas ask for, so that they hold of every
\* specification whose steps are steps of this one.
LEMMA StepExtends == ASSUME Inv, [Next]_vars PROVE [Extends(disk, disk')]_disk
<1>1. ASSUME disk' # disk PROVE Extends(disk, disk')
  <2>1. PICK n \in Records :
           Applied(disk, n) /\ disk' = [n EXCEPT !.version = disk.version + 1]
    BY <1>1, RecordSteps
  <2>2. Extends(disk, n)
    BY <1>1, <2>1, AppliedExtends DEF Inv, TypeOK, AbsentIsFresh
  <2>3. /\ disk'.signOffs = n.signOffs /\ disk'.escalations = n.escalations
        /\ disk'.terms = n.terms /\ disk'.cosign = n.cosign
    BY <2>1 DEF Records
  <2> QED BY <2>2, <2>3 DEF Extends
<1> QED BY <1>1

\* WorkflowStore.save never lets one caller overwrite what another saved.
THEOREM NothingLostHolds == Spec => NothingLost
<1>1. Inv /\ [Next]_vars =>
      [/\ Len(disk.signOffs) <= Len(disk'.signOffs)
       /\ SubSeq(disk'.signOffs, 1, Len(disk.signOffs)) = disk.signOffs
       /\ disk.escalations <= disk'.escalations
       /\ disk.terms => disk'.terms
       /\ disk.cosign.status = "approved" => disk'.cosign = disk.cosign]_disk
  BY StepExtends DEF Extends
<1> QED BY <1>1, InvHolds, PTL DEF Spec, NothingLost

\* The decision rules hold of the stored record whatever the interleaving.
DecisionRules ==
    HasApproval(disk) /\ Justified(disk) /\ SecondSignature(disk) /\ Touched(disk)

LEMMA DecisionRulesNext == ASSUME Inv, DecisionRules, [Next]_vars PROVE DecisionRules'
<1>1. CASE disk' = disk
  BY <1>1 DEF DecisionRules, HasApproval, Justified, SecondSignature, LastAction,
                    Rank, Touched, Exists
<1>2. CASE disk' # disk
  <2>1. PICK n \in Records :
           Applied(disk, n) /\ disk' = [n EXCEPT !.version = disk.version + 1]
    BY <1>2, RecordSteps
  <2>2. disk \in Records /\ Effect(disk, n)
    BY <2>1, AppliedEffect DEF Inv, TypeOK
  <2>3. HasApproval(n) /\ Justified(n) /\ SecondSignature(n)
    BY <2>1, <2>2, AppliedHasApproval, AppliedJustified, AppliedSecondSignature
       DEF DecisionRules
  <2>4. n.state # "received"
    BY <2>1, <2>2, AppliedTouched DEF DecisionRules
  <2>5. /\ disk'.state = n.state /\ disk'.signOffs = n.signOffs
        /\ disk'.cosign = n.cosign /\ disk'.policy = n.policy
        /\ disk'.aiDeclined = n.aiDeclined
    BY <2>1 DEF Records
  <2> QED BY <2>3, <2>4, <2>5
          DEF DecisionRules, HasApproval, Justified, SecondSignature, LastAction, Rank, Touched
<1> QED BY <1>1, <1>2

LEMMA DecisionRulesHold == Spec => []DecisionRules
<1>1. Init => DecisionRules
  BY DEF Init, Fresh, NoCoSign, DecisionRules, HasApproval, Justified,
         SecondSignature, Touched, Exists, BINDABLE_STATES
<1> QED BY <1>1, DecisionRulesNext, InvHolds, PTL DEF Spec

\* Nothing is quoted, approved, sent for co-sign or bound before a human
\* quote or approval.
THEOREM ApprovalOnFileHolds == Spec => []ApprovalOnFile
<1>1. DecisionRules => ApprovalOnFile
  BY DEF DecisionRules, HasApproval, ApprovalOnFile
<1> QED BY <1>1, DecisionRulesHold, PTL

\* Without a co-sign on file, approved and bound cases rest on the latest
\* decision, with a reason when the AI declined.
THEOREM SoloBindJustifiedHolds == Spec => []SoloBindJustified
<1>1. DecisionRules => SoloBindJustified
  BY DEF DecisionRules, Justified, SoloBindJustified
<1> QED BY <1>1, DecisionRulesHold, PTL

\* A bound case with a co-sign on file has an approved one, by a senior or the
\* CUO, who neither asked for it nor bound.
THEOREM BoundWithSecondSignatureHolds == Spec => []BoundWithSecondSignature
<1>1. DecisionRules => BoundWithSecondSignature
  BY DEF DecisionRules, SecondSignature, BoundWithSecondSignature, Rank
<1> QED BY <1>1, DecisionRulesHold, PTL

-----------------------------------------------------------------------------
\* Refinement: every save is one step of the case

LEMMA AppliedIsCaseStep ==
    ASSUME NEW n \in Records, Inv, DecisionRules, Applied(disk, n),
           disk' = [n EXCEPT !.version = disk.version + 1]
    PROVE  [Case!CaseNext]_(Case!caseVars)
<1>1. /\ disk'.state = n.state /\ disk'.signOffs = n.signOffs /\ disk'.cosign = n.cosign
  BY DEF Records
<1>2. disk \in Records /\ (~Exists(disk) => disk = Fresh)
  BY DEF Inv, TypeOK, AbsentIsFresh
<1>3. ASSUME NEW ai \in BOOLEAN, ~Exists(disk), n = Opened(ai)
      PROVE  Case!Open
  <2>1. disk.state = "received" /\ disk.signOffs = << >> /\ disk.cosign = NoCoSign
    BY <1>2, <1>3 DEF Fresh
  <2>2. n.state = "analyzing" /\ n.signOffs = << >> /\ n.cosign = NoCoSign
    BY <1>3 DEF Opened, Fresh
  <2> QED BY <1>1, <2>1, <2>2 DEF Case!Open
<1>4. ASSUME NEW ai \in BOOLEAN, CanReview(disk), n = Reviewed(disk, ai)
      PROVE  Case!Review
  <2>1. n.state = "pending_review" /\ n.signOffs = disk.signOffs /\ n.cosign = disk.cosign
    BY <1>2, <1>4 DEF Reviewed, Records
  <2> QED BY <1>1, <1>4, <2>1 DEF Case!Review, Case!Bindable, CanReview
<1>5. ASSUME Exists(disk), n = Escalated(disk)
      PROVE  Case!Escalate
  <2>1. n.state = "escalated" /\ n.signOffs = disk.signOffs /\ n.cosign = disk.cosign
    BY <1>2, <1>5 DEF Escalated, Records
  <2> QED BY <1>1, <1>5, <2>1 DEF Case!Escalate, DecisionRules, Touched
<1>6. ASSUME n \in {disk, TermsValidated(disk)}
      PROVE  UNCHANGED Case!caseVars
  <2>1. n.state = disk.state /\ n.signOffs = disk.signOffs /\ n.cosign = disk.cosign
    BY <1>2, <1>6 DEF TermsValidated, Records
  <2> QED BY <1>1, <2>1 DEF Case!caseVars
<1>7. ASSUME NEW a \in Actions, NEW reasoned \in BOOLEAN,
             CanSignOff(disk, a, reasoned), n = SignedOff(disk, a, reasoned)
      PROVE  Case!Decide
  <2> DEFINE d == [action |-> a, reasoned |-> reasoned]
  <2>1. /\ n.signOffs = Append(disk.signOffs, d)
        /\ n.state = StateAfter(a) /\ n.cosign = disk.cosign
    BY <1>2, <1>7 DEF SignedOff, Records
  <2>2. StateAfter(a) = Case!OutcomeState(d.action)
    BY DEF StateAfter, Case!OutcomeState
  <2>3. d \in [action : {"approve", "quote", "no_quote", "decline", "refer", "request_info"},
               reasoned : BOOLEAN]
    BY DEF Actions
  <2> HIDE DEF d
  <2> QED BY <1>1, <1>7, <2>1, <2>2, <2>3 DEF Case!Decide, Case!Deciding, CanSignOff
<1>8. ASSUME NEW u \in Users, CanRequestCoSign(disk), n = CoSignRequested(disk, u)
      PROVE  Case!AskCoSign
  <2>1. /\ n.signOffs = disk.signOffs /\ n.state = "pending_co_sign"
        /\ n.cosign.status = "pending"
    BY <1>2, <1>8 DEF CoSignRequested, create_cosign_request, Records
  <2> QED BY <1>1, <1>8, <2>1 DEF Case!AskCoSign, Case!Bindable, CanRequestCoSign
<1>9. ASSUME NEW u \in Users, CanMarkBound(disk, u), n = MarkedBound(disk, u)
      PROVE  Case!Bind
  <2>1. n.signOffs = disk.signOffs /\ n.state = "bound" /\ n.cosign = disk.cosign
    BY <1>2, <1>9 DEF MarkedBound, Records
  <2> QED BY <1>1, <1>9, <2>1
          DEF Case!Bind, Case!Bindable, CanMarkBound, BINDABLE_STATES, cosign_allows_bind
<1>10. ASSUME NEW u \in Users, NEW approve \in BOOLEAN,
              CanResolveCoSign(disk, u), n = CoSignResolved(disk, u, approve)
       PROVE  Case!AnswerCoSign
  <2>1. /\ n.signOffs = disk.signOffs /\ n.state \in {"approved", "quoted"}
        /\ n.cosign.status \in {"approved", "rejected"}
    BY <1>2, <1>10 DEF CoSignResolved, Records, CoSigns
  <2> QED BY <1>1, <1>10, <2>1 DEF Case!AnswerCoSign, Case!Bindable, CanResolveCoSign
<1> QED
  BY <1>3, <1>4, <1>5, <1>6, <1>7, <1>8, <1>9, <1>10 DEF Applied, Case!CaseNext

LEMMA StepIsCaseStep ==
    ASSUME Inv, DecisionRules, [Next]_vars
    PROVE  [Case!CaseNext]_(Case!caseVars)
<1>1. CASE disk' = disk
  BY <1>1 DEF Case!caseVars
<1>2. CASE disk' # disk
  BY <1>2, RecordSteps, AppliedIsCaseStep
<1> QED BY <1>1, <1>2

\* The interleaved, versioned service implements the one-step case.
THEOREM ImplementsCaseHolds == Spec => ImplementsCase
<1>1. Init => Case!CaseInit
  BY DEF Init, Fresh, NoCoSign, Case!CaseInit
<1> QED
  BY <1>1, StepIsCaseStep, InvHolds, DecisionRulesHold, PTL DEF Spec, ImplementsCase, Case!CaseSpec
=============================================================================
