--------------------------- MODULE MCCarrierMatch ---------------------------
(***************************************************************************)
(* The carrier match over every file with at most MaxWords kinds of words  *)
(* in the operations and one in the line of business.  A step is what a    *)
(* new reading of the documents or an edit may change: one more kind of    *)
(* word, one less, another answer.                                         *)
(***************************************************************************)
EXTENDS CarrierMatch

CONSTANT MaxWords

VARIABLE file

Texts(n) == {s \in SUBSET Kind : Cardinality(s) <= n}

Init == file \in [manual: BOOLEAN, ready: {FALSE}, ops: Texts(0), line: Texts(0),
                  cooking: {FALSE}, tiv: {"missing"}, sprinklers: {"unstated"}]

ReadOperations(w) ==
    /\ w \in file.ops \/ Cardinality(file.ops) < MaxWords
    /\ \E ops \in {file.ops \union {w}, file.ops \ {w}} : file' = [file EXCEPT !.ops = ops]
ReadLine(w) == \E line \in {{w}, {}} : file' = [file EXCEPT !.line = line]
ReadCooking == file' = [file EXCEPT !.cooking = ~file.cooking]
ReadAmount == \E t \in Tiv : file' = [file EXCEPT !.tiv = t]
ReadSprinklers == \E s \in Sprinklers : file' = [file EXCEPT !.sprinklers = s]
Settle == file' = [file EXCEPT !.ready = ~file.ready]

Next == \/ \E w \in Kind : ReadOperations(w) \/ ReadLine(w)
        \/ ReadCooking \/ ReadAmount \/ ReadSprinklers \/ Settle

Spec == Init /\ [][Next]_file
-----------------------------------------------------------------------------
\* A word or an answer that makes a file riskier, never safer.
Hazard == Prohibited \union Referral \union {"equip", "other_op", "unlisted"}

Riskier(f, g) ==
    /\ f.ops \subseteq g.ops /\ g.ops \ f.ops \subseteq Hazard
    /\ f.line \subseteq g.line /\ g.line \ f.line \subseteq Hazard
    /\ f.cooking => g.cooking
    /\ g.ready => f.ready
    /\ g.tiv \in {f.tiv, "missing", "unreadable"} \/ (f.tiv = "within" /\ g.tiv = "above")
    /\ f.ops # {} /\ g.manual = f.manual /\ g.sprinklers = f.sprinklers

(***************************************************************************)
(* What reaches Carrier A without a person (P-051, P-053: "Carrier A only  *)
(* from the allow-list"), stated without the order of the rules: one       *)
(* office or retail operation and not another word, a line of business     *)
(* that names no other class and no restaurant, nothing prohibited, no     *)
(* cooking equipment, a building value within the pilot limit, and nothing *)
(* left to ask.                                                            *)
(***************************************************************************)
DirectToCarrier(f) ==
    /\ ~f.manual /\ f.ready /\ f.tiv = "within" /\ ~f.cooking
    /\ f.ops \in {{"office"}, {"retail"}}
    /\ f.line \intersect Prohibited = {}
    /\ f.line \intersect Class \subseteq f.ops \union (IF "snack" \in f.line THEN {"food"} ELSE {})

DirectRouteExactly == RouteOf(file) \in Carrier <=> DirectToCarrier(file)

(***************************************************************************)
(* A file that is held shows the route that it would take "once the hold   *)
(* clears" (match, P-048 c): answering what is missing, without any other  *)
(* change, leads to the route that was shown.                              *)
(***************************************************************************)
Cleared(f) == [f EXCEPT !.ready = TRUE, !.tiv = IF Amount(f) THEN @ ELSE "within"]
ProvisionalIsWhatFollows ==
    RouteOf(file) = "hold" /\ Provisional(file) # NoCarrier => RouteOf(Cleared(file)) = Provisional(file)

(***************************************************************************)
(* W1 and W2 always win ("a referral word always wins over appetite        *)
(* words"): finding one more hazard in the operations or the line of       *)
(* business, or losing an answer, never brings a file closer to a carrier: *)
(* neither a direct route nor an override by the user opens where it was   *)
(* shut.                                                                   *)
(***************************************************************************)
Open(f) == RouteOf(f) \in Carrier \/ Match(f).overridable
HazardNeverOpens == [][Riskier(file, file') /\ Open(file') => Open(file)]_file
=============================================================================
