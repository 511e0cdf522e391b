------------------------- MODULE CarrierMatchProofs -------------------------
(***************************************************************************)
(* Theorems about the carrier match for files with any number of kinds of  *)
(* words, where TLC looks at files with a few.                             *)
(*                                                                         *)
(* Every route but "no class found", which the user may override, and      *)
(* Carrier A leads to a person or nowhere, so that the order of the rules  *)
(* comes down to two lemmas: when ByClass reaches Carrier A                *)
(* (CarrierFromClass) and when it can be overridden (OverridableFromClass).*)
(***************************************************************************)
EXTENDS MCCarrierMatch, FiniteSetTheorems, TLAPS

Typed == file \in File

LEMMA InitTyped == Init => Typed
BY DEF Typed, Init, File, Texts, Tiv, Sprinklers

LEMMA NextTyped == ASSUME Typed, [Next]_file PROVE Typed'
<1> USE DEF Typed, File
<1>1. ASSUME NEW w \in Kind, ReadOperations(w) PROVE Typed'
  BY <1>1 DEF ReadOperations
<1>2. ASSUME NEW w \in Kind, ReadLine(w) PROVE Typed'
  BY <1>2 DEF ReadLine
<1>3. CASE ReadCooking \/ ReadAmount \/ ReadSprinklers \/ Settle
  BY <1>3 DEF ReadCooking, ReadAmount, ReadSprinklers, Settle
<1> QED BY <1>1, <1>2, <1>3 DEF Next

LEMMA AlwaysTyped == Spec => []Typed
BY InitTyped, NextTyped, PTL DEF Spec

-----------------------------------------------------------------------------
\* The classes of a file

LEMMA ClassFinite == IsFiniteSet(Class)
<1>1. Class = (({"office"} \union {"retail"}) \union ({"wholesale"} \union {"food"}))
                \union ({"contractor"} \union {"habitational"})
  BY DEF Class, AllowA
<1> QED BY <1>1, FS_Singleton, FS_Union

\* More than one class is neither none nor a single one.
LEMMA Several ==
    ASSUME NEW S \in SUBSET Class
    PROVE  Cardinality(S) > 1 <=> S # {} /\ \A k : S # {k}
<1>1. IsFiniteSet(S)
  BY ClassFinite, FS_Subset
<1>2. Cardinality(S) \in Nat
  BY <1>1, FS_CardinalityType
<1>3. Cardinality(S) = 0 <=> S = {}
  BY <1>1, FS_EmptySet
<1>4. Cardinality(S) = 1 <=> \E k : S = {k}
  BY <1>1, FS_Singleton
<1>5. ASSUME NEW n \in Nat PROVE n > 1 <=> n # 0 /\ n # 1
  BY <1>5
<1> QED BY <1>2, <1>3, <1>4, <1>5, Zenon

LEMMA HitIsClass == ASSUME NEW f \in File PROVE Hit(f) \in SUBSET Class
BY DEF Hit, Class

LEMMA ByOneClass ==
    ASSUME NEW f \in File, NEW k \in Class, Hit(f) = {k}, ~(k \in AllowA /\ "other_op" \in f.ops)
    PROVE  ByClass(f) = OneClass(f, k)
<1>1. ~(Cardinality(Hit(f)) > 1)
  BY HitIsClass, Several
<1>2. (CHOOSE c \in Class : Hit(f) = {c}) = k
  OBVIOUS
<1> QED BY <1>1, <1>2 DEF ByClass

\* Carrier A is reached by one class of its allow-list and nothing beside it.
AllowedAlone(f) ==
    \E k \in {"office", "retail"} :
        Hit(f) = {k} /\ k \in f.ops /\ f.ops \subseteq AllowA /\ ~OverPilot(f)

LEMMA CarrierFromClass ==
    ASSUME NEW f \in File
    PROVE  ByClass(f).route \in Carrier <=> AllowedAlone(f)
<1> USE DEF Out, Suggest, Carrier, NoCarrier
<1>1. CASE Hit(f) = {}
  BY <1>1 DEF ByClass, AllowedAlone
<1>2. CASE Hit(f) # {} /\ \A k : Hit(f) # {k}
  <2>1. Cardinality(Hit(f)) > 1
    BY <1>2, HitIsClass, Several
  <2> QED BY <1>2, <2>1 DEF ByClass, AllowedAlone
<1>3. ASSUME NEW k, Hit(f) = {k} PROVE ByClass(f).route \in Carrier <=> AllowedAlone(f)
  <2>1. k \in Class
    BY <1>3, HitIsClass
  <2>2. CASE k \in AllowA /\ "other_op" \in f.ops
    BY <1>3, <2>2 DEF ByClass, AllowedAlone, AllowA
  <2>3. CASE ~(k \in AllowA /\ "other_op" \in f.ops)
    <3>1. ByClass(f) = OneClass(f, k)
      BY <1>3, <2>1, <2>3, ByOneClass
    <3>2. CASE k \in AllowA
      <4>1. OneClass(f, k) = OnAllowList(f, k)
        BY <3>2 DEF OneClass, AllowA
      <4>2. OnAllowList(f, k).route \in Carrier
              <=> k \in f.ops /\ k # "wholesale" /\ f.ops \subseteq AllowA /\ ~OverPilot(f)
        BY DEF OnAllowList
      <4> QED BY <1>3, <3>1, <3>2, <4>1, <4>2 DEF AllowedAlone, AllowA
    <3>3. CASE k \notin AllowA
      <4>1. OneClass(f, k).route \notin Carrier
        BY <2>1, <3>3 DEF OneClass, Class, AllowA
      <4> QED BY <1>3, <3>1, <3>3, <4>1 DEF AllowedAlone, AllowA
    <3> QED BY <3>2, <3>3
  <2> QED BY <2>2, <2>3
<1> QED BY <1>1, <1>2, <1>3

LEMMA OverridableFromClass ==
    ASSUME NEW f \in File
    PROVE  ByClass(f).overridable = TRUE <=> Hit(f) = {}
<1> USE DEF Out, Suggest, NoCarrier
<1>1. CASE Hit(f) = {}
  BY <1>1 DEF ByClass
<1>2. CASE Hit(f) # {} /\ \A k : Hit(f) # {k}
  <2>1. Cardinality(Hit(f)) > 1
    BY <1>2, HitIsClass, Several
  <2> QED BY <1>2, <2>1 DEF ByClass
<1>3. ASSUME NEW k, Hit(f) = {k} PROVE ByClass(f).overridable = FALSE
  <2>1. k \in Class
    BY <1>3, HitIsClass
  <2>2. CASE k \in AllowA /\ "other_op" \in f.ops
    BY <1>3, <2>2 DEF ByClass
  <2>3. CASE ~(k \in AllowA /\ "other_op" \in f.ops)
    <3>1. ByClass(f) = OneClass(f, k)
      BY <1>3, <2>1, <2>3, ByOneClass
    <3> QED BY <2>1, <3>1 DEF OneClass, OnAllowList, Class, AllowA
  <2> QED BY <2>2, <2>3
<1> QED BY <1>1, <1>2, <1>3

-----------------------------------------------------------------------------
\* What the rules before the classes come to

\* A file that no earlier rule stops.
Passes(f) ==
    /\ ~f.manual /\ ~ProhibitedClass(f) /\ f.ready /\ Amount(f) /\ f.ops # {}
    /\ ~(Barred(f) /\ Food(f)) /\ ~ReferralWord(f)

LEMMA MatchOfPassing ==
    ASSUME NEW f \in File
    PROVE  /\ Passes(f) => Match(f) = ByClass(f)
           /\ ~Passes(f) => Match(f).route \notin Carrier /\ Match(f).overridable = FALSE
BY DEF Passes, Match, MatchGated, Out, Carrier

\* In the words of the rule: bar words neither alone nor beside restaurant
\* evidence pass.
LEMMA NothingBarredPasses ==
    ASSUME NEW f \in File, Passes(f)
    PROVE  ClassText(f) \intersect Prohibited = {} /\ f.ops \intersect Referral = {}
BY DEF Passes, ProhibitedClass, Barred, ReferralWord, Prohibited, BarWord

LEMMA DirectIsExact ==
    ASSUME NEW f \in File
    PROVE  RouteOf(f) \in Carrier <=> DirectToCarrier(f)
<1>1. RouteOf(f) \in Carrier <=> Passes(f) /\ AllowedAlone(f)
  BY MatchOfPassing, CarrierFromClass DEF RouteOf
<1>2. ASSUME Passes(f), AllowedAlone(f) PROVE DirectToCarrier(f)
  <2>1. PICK k \in {"office", "retail"} :
          Hit(f) = {k} /\ k \in f.ops /\ f.ops \subseteq AllowA /\ ~OverPilot(f)
    BY <1>2 DEF AllowedAlone
  <2>2. f.ops = {k}
    BY <2>1 DEF Hit, ClassText, Class, AllowA
  <2>3. ~Equip(f)
    BY <2>1 DEF Hit
  <2>4. f.line \intersect Class \subseteq f.ops \union (IF "snack" \in f.line THEN {"food"} ELSE {})
    BY <2>1, <2>2 DEF Hit, ClassText, Snack
  <2>5. f.line \intersect Prohibited = {}
    BY <1>2, NothingBarredPasses DEF ClassText
  <2>6. f.tiv = "within"
    BY <1>2, <2>1 DEF Passes, Amount, OverPilot
  <2>7. ~f.manual /\ f.ready /\ ~f.cooking
    BY <1>2, <2>3 DEF Passes, Equip
  <2> QED BY <2>2, <2>4, <2>5, <2>6, <2>7 DEF DirectToCarrier
<1>3. ASSUME DirectToCarrier(f) PROVE Passes(f) /\ AllowedAlone(f)
  <2>1. PICK k \in {"office", "retail"} : f.ops = {k}
    BY <1>3 DEF DirectToCarrier
  <2>2. ~Equip(f) /\ Amount(f) /\ ~OverPilot(f)
    BY <1>3, <2>1 DEF DirectToCarrier, Equip, Amount, OverPilot
  <2>3. Hit(f) = {k}
    <3>1. f.line \intersect Class \subseteq {k} \union (IF "snack" \in f.line THEN {"food"} ELSE {})
      BY <1>3, <2>1 DEF DirectToCarrier
    <3>2. Snack(f) <=> "snack" \in f.line
      BY <2>1 DEF Snack, ClassText
    <3>3. k \in Class /\ k # "food"
      BY DEF Class, AllowA
    <3>4. ClassText(f) \intersect Class = {k} \union (f.line \intersect Class)
      BY <2>1, <3>3 DEF ClassText
    <3> QED BY <2>2, <3>1, <3>2, <3>3, <3>4 DEF Hit
  <2>4. ~Barred(f) /\ ~ProhibitedClass(f)
    BY <1>3, <2>1 DEF DirectToCarrier, Barred, ProhibitedClass, ClassText, Prohibited, BarWord
  <2>5. ~ReferralWord(f)
    BY <2>1 DEF ReferralWord, Referral
  <2>6. Passes(f)
    BY <1>3, <2>1, <2>2, <2>4, <2>5 DEF DirectToCarrier, Passes
  <2>7. AllowedAlone(f)
    BY <2>1, <2>2, <2>3 DEF AllowedAlone, AllowA
  <2> QED BY <2>6, <2>7
<1> QED BY <1>1, <1>2, <1>3

\* Whatever a file says, it reaches a carrier without a person exactly when it
\* names one office or retail operation and nothing beside it
\* (DirectRouteExactly, the allow-list of P-051 and P-053).
THEOREM DirectRouteExactlyHolds == Spec => []DirectRouteExactly
<1>1. Typed => DirectRouteExactly
  BY DirectIsExact DEF Typed, DirectRouteExactly
<1> QED BY <1>1, AlwaysTyped, PTL

-----------------------------------------------------------------------------
\* The hold

LEMMA ClearedFollows ==
    ASSUME NEW f \in File, RouteOf(f) = "hold", Provisional(f) # NoCarrier
    PROVE  RouteOf(Cleared(f)) = Provisional(f)
<1> DEFINE g == Cleared(f)
<1>1. /\ g.manual = f.manual /\ g.ops = f.ops /\ g.line = f.line /\ g.cooking = f.cooking
      /\ g.sprinklers = f.sprinklers /\ g.ready
      /\ Amount(g) /\ (OverPilot(g) <=> OverPilot(f))
  BY DEF Cleared, File, Amount, OverPilot
<1> HIDE DEF g
<1>2. ClassText(g) = ClassText(f) /\ (Equip(g) <=> Equip(f)) /\ (SprinklerAnswered(g) <=> SprinklerAnswered(f))
  BY <1>1 DEF ClassText, Equip, SprinklerAnswered
<1>3. (Snack(g) <=> Snack(f)) /\ (Barred(g) <=> Barred(f))
  BY <1>2 DEF Snack, Barred
<1>4. Food(g) <=> Food(f)
  BY <1>2, <1>3 DEF Food
<1>5. (ProhibitedClass(g) <=> ProhibitedClass(f)) /\ (ReferralWord(g) <=> ReferralWord(f))
  BY <1>1, <1>2, <1>3, <1>4 DEF ProhibitedClass, ReferralWord
<1>6. Hit(g) = Hit(f)
  BY <1>2, <1>3 DEF Hit
<1>7. ASSUME NEW k PROVE OneClass(g, k) = OneClass(f, k)
  BY <1>1, <1>2 DEF OneClass, OnAllowList
<1>8. ByClass(g) = ByClass(f)
  BY <1>1, <1>6, <1>7 DEF ByClass
<1>9. MatchGated(g, TRUE) = MatchGated(f, FALSE)
  BY <1>1, <1>3, <1>4, <1>5, <1>8 DEF MatchGated
<1> QED BY <1>9 DEF g, RouteOf, Match, Provisional

\* The route that a held file is shown to take is the one it takes when what is
\* missing has been answered (ProvisionalIsWhatFollows, P-048 c).
THEOREM ProvisionalIsWhatFollowsHolds == Spec => []ProvisionalIsWhatFollows
<1>1. Typed => ProvisionalIsWhatFollows
  BY ClearedFollows DEF Typed, ProvisionalIsWhatFollows
<1> QED BY <1>1, AlwaysTyped, PTL

-----------------------------------------------------------------------------
\* More hazards

LEMMA OpenIs ==
    ASSUME NEW f \in File
    PROVE  Open(f) <=> DirectToCarrier(f) \/ (Passes(f) /\ Hit(f) = {})
BY DirectIsExact, MatchOfPassing, OverridableFromClass DEF Open

LEMMA RiskierStaysShut ==
    ASSUME NEW f \in File, NEW g \in File, Riskier(f, g), Open(g)
    PROVE  Open(f)
<1>1. "snack" \notin Hazard /\ "food" \notin Hazard
  BY DEF Hazard, Prohibited, BarWord, Referral
<1>2. Class \intersect Hazard = {}
  BY DEF Class, AllowA, Hazard, Prohibited, BarWord, Referral
<1>3. CASE DirectToCarrier(g)
  <2>1. f.ops = g.ops
    BY <1>3 DEF DirectToCarrier, Riskier
  <2>2. f.tiv = "within" /\ f.ready /\ ~f.cooking /\ ~f.manual
    BY <1>3 DEF DirectToCarrier, Riskier
  <2>3. f.line \subseteq g.line /\ ("snack" \in g.line => "snack" \in f.line)
    BY <1>1 DEF Riskier
  <2>4. DirectToCarrier(f)
    BY <1>3, <2>1, <2>2, <2>3 DEF DirectToCarrier
  <2> QED BY <2>4, OpenIs
<1>4. CASE Passes(g) /\ Hit(g) = {}
  <2>1. ~Equip(g)
    BY <1>4 DEF Hit
  <2>2. ~Equip(f)
    BY <2>1 DEF Equip, Riskier, File
  <2>3. ClassText(f) \subseteq ClassText(g) /\ ClassText(g) \ ClassText(f) \subseteq Hazard
    BY DEF ClassText, Riskier
  <2>4. (Snack(f) <=> Snack(g)) /\ ("food" \in ClassText(f) <=> "food" \in ClassText(g))
    BY <1>1, <2>3 DEF Snack
  <2>5. Food(f) <=> Food(g)
    BY <2>1, <2>2, <2>4 DEF Food
  <2>6. Hit(f) = {}
    BY <1>4, <2>1, <2>2, <2>3, <2>4 DEF Hit
  <2>7. ClassText(g) \intersect Prohibited = {} /\ g.ops \intersect Referral = {}
    BY <1>4, NothingBarredPasses
  <2>8. ~ProhibitedClass(f) /\ ~Barred(f)
    BY <2>3, <2>7 DEF ProhibitedClass, Barred, Prohibited, BarWord
  <2>9. ~ReferralWord(f)
    BY <1>4, <2>5, <2>7 DEF Passes, ReferralWord, Riskier
  <2>10. ~f.manual /\ f.ready /\ Amount(f) /\ f.ops # {}
    BY <1>4 DEF Passes, Riskier, Amount
  <2> QED BY <2>6, <2>8, <2>9, <2>10, OpenIs DEF Passes
<1> QED BY <1>3, <1>4, OpenIs

\* One more hazard, or one answer less, opens no route to a carrier that was
\* shut, neither directly nor by an override (HazardNeverOpens, W1 and W2).
THEOREM HazardNeverOpensHolds == Spec => HazardNeverOpens
<1>1. Typed /\ Typed' /\ [Next]_file => [Riskier(file, file') /\ Open(file') => Open(file)]_file
  BY RiskierStaysShut DEF Typed
<1> QED BY <1>1, AlwaysTyped, PTL DEF Spec, HazardNeverOpens
=============================================================================
