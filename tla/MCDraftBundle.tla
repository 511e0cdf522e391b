---------------------------- MODULE MCDraftBundle ----------------------------
(* Small instances of DraftBundle for TLC: a document too large by itself, a  *)
(* total that the others together exceed, and two uploads, one of which has a *)
(* password, which makes it larger; opened, it turns out to be the other.     *)
EXTENDS DraftBundle, TLC

CONSTANTS c1, c2, small, huge, k1, k2

MCSize == [x \in Contents |-> IF x = small THEN 1 ELSE 4]

MCEtags == {"plain", "locked"}

MCEtag == [k \in Keys |-> IF k = k1 THEN "plain" ELSE "locked"]

MCOpened == {"plain"}

MCObjectSize == [f \in Files |-> IF f[1] = k2 /\ ~f[2] THEN 3 ELSE 2]

CallerSymmetry == Permutations(Callers)
=============================================================================
