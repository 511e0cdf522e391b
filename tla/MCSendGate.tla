----------------------------- MODULE MCSendGate -----------------------------
(***************************************************************************)
(* The workbench on three saved runs: an application whose operations the  *)
(* model read as an office although the cited text also names a bar, a     *)
(* restaurant with a value under review and an open conflict (a senior     *)
(* referral), and a file whose operations nothing states, which an edit    *)
(* fills in.  Documents d2 are out of the pilot's scope.                   *)
(***************************************************************************)
EXTENDS SendGate, TLC

CONSTANTS d1, d2, t1, t2

MCDocs == {d1, d2}
MCInScope == {d1}
Blank == [status |-> "complete", docs |-> d1, value |-> [operations |-> {"office"}, tiv_building |-> "within"],
          cited |-> {"office"}, line |-> {}, cooking |-> FALSE, sprinklers |-> "no",
          review |-> {}, conflicts |-> {}, unread |-> FALSE, excluded |-> {}]
OfficeBar == [Blank EXCEPT !.cited = {"office", "bar"}]
Cafe == [Blank EXCEPT !.status = "review_pending", !.value.operations = {"food"}, !.cited = {"food"},
                      !.review = {"operations"}, !.conflicts = {"operations"}, !.excluded = {"carrier_a", "carrier_c"}]
NoOperations == [Blank EXCEPT !.status = "incomplete", !.value.operations = {}, !.cited = {}]
MCRun == {OfficeBar, Cafe, NoOperations}
MCEdit == {[field |-> "operations", value |-> [operations |-> words, tiv_building |-> "missing"]] :
             words \in {{"unlisted"}, {"office"}}}
Symmetry == Permutations({t1, t2})
=============================================================================
