---------------------------- MODULE CarrierMatch ----------------------------
(***************************************************************************)
(* The carrier match of the underwriting workbench: match() and _match()   *)
(* of app/workbench.py, which route a file to Carrier A, to nobody, to a   *)
(* senior underwriter, or hold it.                                         *)
(*                                                                         *)
(* A text is the set of the kinds of words it contains; each kind stands   *)
(* for one of the word lists (or for a group of an allow-list), with the   *)
(* negated words already dropped where the code drops them.  A text that   *)
(* is stated is never empty: words on no list are of kind "unlisted".      *)
(* File is what the match reads of a saved run:                            *)
(*   manual      its status is manual_intake                               *)
(*   ready       prepare.ready_to_route: complete, or only review pending  *)
(*   ops         value, quote and context of the operations; {} if missing *)
(*   line        the Line of business line of the application              *)
(*   cooking     the Cooking operations line or the cooking facts name     *)
(*               equipment                                                 *)
(*   tiv         the building value against PILOT_TIV                      *)
(*   sprinklers  the sprinkler answer                                      *)
(***************************************************************************)
EXTENDS Naturals, FiniteSets

BarWord == {"bar", "never_soft"}            \* BAR_WORDS; never_soft is NEVER_SOFT
Prohibited == BarWord \union {"prohibited"} \* PROHIBITED; "prohibited" is the rest of it
Referral == {"goods", "vacant"}             \* REFERRAL; "vacant" is VACANT
AllowA == {"office", "retail", "wholesale"} \* the groups of ALLOW_A
Class == AllowA \union {"food", "contractor", "habitational"}  \* CLASSES; "food" is group b
Kind == Prohibited \union Referral \union Class
          \union {"wet_chemical", "snack", "equip", "other_op", "sprinklered", "unlisted"}

Tiv == {"missing", "unreadable", "within", "above"}
Sprinklers == {"yes", "no", "unstated"}
File == [manual: BOOLEAN, ready: BOOLEAN, ops: SUBSET Kind, line: SUBSET Kind,
         cooking: BOOLEAN, tiv: Tiv, sprinklers: Sprinklers]

Carrier == {"carrier_a", "carrier_b", "carrier_c"}
NoCarrier == "none"
Route == Carrier \union {"no_match", "hold", "senior_referral", "manual_intake"}

Out(route, rule) == [route |-> route, rule |-> rule, suggested |-> NoCarrier, overridable |-> FALSE]
Suggest(rule, carrier) == [Out("senior_referral", rule) EXCEPT !.suggested = carrier]

ClassText(f) == f.ops \union f.line
Snack(f) == "snack" \in ClassText(f)
\* Cooking equipment is read from the operations and the cooking line, never from the line of business.
Equip(f) == "equip" \in f.ops \/ f.cooking
Food(f) == ("food" \in ClassText(f) /\ ~Snack(f)) \/ Equip(f)
Barred(f) == ClassText(f) \intersect BarWord # {}

\* W1: a bar word beside restaurant evidence is left to a person, unless it is one that is never softened.
ProhibitedClass(f) ==
    /\ f.ops # {}
    /\ \/ "prohibited" \in ClassText(f)
       \/ Barred(f) /\ ~Food(f)
       \/ "never_soft" \in ClassText(f)

\* W2, read from the operations alone; beside restaurant evidence a wet chemical hood is not hazardous goods.
ReferralWord(f) == f.ops \intersect Referral # {} \/ ("wet_chemical" \in f.ops /\ ~Food(f))

Amount(f) == f.tiv \in {"within", "above"}
\* mutant: a missing amount is read as one above the limit
OverOrMissing(f) == f.tiv # "within"
OverPilot(f) == f.tiv = "above"
\* mutant: cooking equipment takes the restaurant words away as a snack bar does
HitWithoutFood(f) == (ClassText(f) \intersect Class) \ (IF Snack(f) \/ Equip(f) THEN {"food"} ELSE {})
Hit(f) == ((ClassText(f) \intersect Class) \ (IF Snack(f) THEN {"food"} ELSE {}))
            \union (IF Equip(f) THEN {"food"} ELSE {})
SprinklerAnswered(f) == f.sprinklers # "unstated" \/ "sprinklered" \in f.ops

\* mutant: words beside the allow-list are not looked for
AnyAllowed(f, kind) ==
    IF OverPilot(f) THEN Out("senior_referral", "R13")
    ELSE IF kind \notin f.ops \/ kind = "wholesale" THEN Suggest("P-061", "carrier_a")
    ELSE Out("carrier_a", "R14")
\* The one operation of the file is on the allow-list of Carrier A (the end of _match).
OnAllowList(f, kind) ==
    IF OverPilot(f) THEN Out("senior_referral", "R13")
    ELSE IF kind \notin f.ops THEN Suggest("P-061", "carrier_a")
    ELSE IF kind = "wholesale" \/ ~(f.ops \subseteq AllowA) THEN Suggest("P-053", "carrier_a")
    ELSE Out("carrier_a", "R14")

OneClass(f, kind) ==
    CASE kind = "contractor"   -> Suggest("R11", "carrier_b")
      [] kind = "habitational" -> IF SprinklerAnswered(f) THEN Suggest("R12", "carrier_c") ELSE Out("hold", "R12")
      [] kind = "food"         -> Suggest("R10", "carrier_b")
      [] kind \in AllowA       -> OnAllowList(f, kind)

ByClass(f) ==
    IF Hit(f) = {} THEN [Out("no_match", "R8") EXCEPT !.overridable = TRUE]
    ELSE IF Hit(f) \subseteq AllowA /\ (Cardinality(Hit(f)) > 1 \/ "other_op" \in f.ops) THEN Out("senior_referral", "R16")
    ELSE IF Cardinality(Hit(f)) > 1 THEN Out("senior_referral", "R7")
    ELSE OneClass(f, CHOOSE kind \in Class : Hit(f) = {kind})

\* _match.  With gated = FALSE the hold for missing information or a missing amount is passed over.
MatchGated(f, gated) ==
    IF f.manual THEN Out("manual_intake", "P-055")
    ELSE IF ProhibitedClass(f) THEN Out("no_match", "R1")
    ELSE IF (gated /\ ~(f.ready /\ Amount(f))) \/ f.ops = {} THEN Out("hold", "R5")
    ELSE IF Barred(f) /\ Food(f) THEN Out("senior_referral", "R2")
    ELSE IF ReferralWord(f) THEN Out("senior_referral", "W2")
    ELSE ByClass(f)

\* match, and the route that a held file is shown to take once the hold clears.
Match(f) == MatchGated(f, TRUE)
RouteOf(f) == Match(f).route
Provisional(f) == LET p == MatchGated(f, FALSE).route IN IF p = "hold" THEN NoCarrier ELSE p
=============================================================================
