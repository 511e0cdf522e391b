---------------------------- MODULE CasRegister ----------------------------
(***************************************************************************)
(* What WorkflowStore.save promises its callers: a register that a save     *)
(* changes in one step, and only if nobody changed it since the save's      *)
(* caller read it.  Module RecordStore, where a save is a lock, a read, two *)
(* writes and an unlock that may fail or die anywhere, implements it.       *)
(***************************************************************************)
EXTENDS Naturals

CONSTANT Saves  \* the calls

VARIABLES
    value,    \* the register: its version and the saves it holds
    seen,     \* seen[s]: the value that the caller of s read
    outcome   \* outcome[s]: how far s has come, and what it was answered

casVars == <<value, seen, outcome>>

CasInit ==
    /\ value = [version |-> 0, saves |-> {}]
    /\ seen = [s \in Saves |-> value]
    /\ outcome = [s \in Saves |-> "new"]

Read(s) ==
    /\ outcome[s] = "new"
    /\ seen' = [seen EXCEPT ![s] = value]
    /\ outcome' = [outcome EXCEPT ![s] = "asked"]
    /\ UNCHANGED value

\* The compare and the swap are one step.
Swap(s) ==
    /\ outcome[s] = "asked"
    /\ seen[s] = value
    /\ value' = [version |-> value.version + 1, saves |-> value.saves \cup {s}]
    /\ outcome' = [outcome EXCEPT ![s] = "stored"]
    /\ UNCHANGED seen

Answer(s) ==
    /\ \/ outcome[s] = "stored" /\ outcome' = [outcome EXCEPT ![s] = "saved"]
       \/ outcome[s] = "asked" /\ outcome' = [outcome EXCEPT ![s] = "busy"]
       \/ /\ outcome[s] = "asked"
          /\ seen[s] # value
          /\ outcome' = [outcome EXCEPT ![s] = "conflict"]
    /\ UNCHANGED <<value, seen>>

\* The caller dies and never learns whether its save was stored.
Lose(s) ==
    /\ outcome[s] \in {"asked", "stored"}
    /\ outcome' = [outcome EXCEPT ![s] = "lost"]
    /\ UNCHANGED <<value, seen>>

CasNext == \E s \in Saves : Read(s) \/ Swap(s) \/ Answer(s) \/ Lose(s)

CasSpec == CasInit /\ [][CasNext]_casVars
=============================================================================
