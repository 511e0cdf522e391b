------------------------- MODULE RecordStoreProofs -------------------------
(***************************************************************************)
(* Theorems about RecordStore for any number of concurrent saves, when no   *)
(* live holder of the lock outlives its lease.  Holders may still die.      *)
(*                                                                          *)
(* The argument: the lock excludes every other save from compare to unlock  *)
(* (Exclusive), so the record a save compared with is the one it replaces   *)
(* (Compared), and a save's label tells whether it is in the record         *)
(* (Traced).                                                                *)
(***************************************************************************)
EXTENDS RecordStore, TLAPS

Exclusive == \A s \in Saves : pc[s] \in InLock => lock = s

\* Equal versions mean equal records.
Versioned == \A s \in Saves :
    /\ copy[s].version = doc.version => copy[s] = doc
    /\ copy[s].saves \subseteq doc.saves

Compared == \A s \in Saves : pc[s] = "checked" => copy[s] = doc

Outdated == \A s \in Saves : pc[s] \in {"refused", "conflict"} => copy[s].version # doc.version

Traced == \A s \in Saves :
    /\ pc[s] \in {"written", "indexed", "saved"} => s \in doc.saves
    /\ pc[s] \in {"new", "read", "locked", "checked", "refused", "conflict", "busy"}
       => s \notin doc.saves
    /\ pc[s] \in {"indexed", "saved"} => listed

Inv == TypeOK /\ Exclusive /\ Versioned /\ Compared /\ Outdated /\ Traced

-----------------------------------------------------------------------------

LEMMA InitInv == Init => Inv
<1> SUFFICES ASSUME Init PROVE Inv
  OBVIOUS
<1>1. Empty \in Docs /\ Empty.version = 0 /\ Empty.saves = {}
  BY DEF Empty, Docs
<1>2. doc = Empty /\ \A s \in Saves : copy[s] = doc /\ pc[s] = "new"
  BY DEF Init
<1>3. TypeOK
  BY <1>1, \A v \in Docs : v.version <= v.version DEF Init, TypeOK, Docs
<1>4. Exclusive /\ Versioned /\ Compared /\ Outdated /\ Traced
  BY <1>1, <1>2 DEF InLock, Exclusive, Versioned, Compared, Outdated, Traced
<1> QED BY <1>3, <1>4 DEF Inv

LEMMA NextInv ==
    ASSUME LeaseMayExpire = FALSE, Inv, [Next]_vars
    PROVE  Inv'
<1> USE SavesAssumption
      DEF Inv, TypeOK, Docs, InLock, Ends, Refusals, Goto,
          Exclusive, Versioned, Compared, Outdated, Traced
<1>1. CASE LeaseExpires
  BY <1>1 DEF LeaseExpires, Expirable
<1>2. ASSUME NEW s \in Saves, get(s) PROVE Inv'
  BY <1>2 DEF get
<1>3. ASSUME NEW s \in Saves, Acquire(s) PROVE Inv'
  BY <1>3 DEF Acquire, Acquirable
<1>4. ASSUME NEW s \in Saves, GiveUp(s) PROVE Inv'
  BY <1>4 DEF GiveUp
<1>5. ASSUME NEW s \in Saves, Compare(s) PROVE Inv'
  BY <1>5 DEF Compare, Stale
<1>6. ASSUME NEW s \in Saves, Write(s) PROVE Inv'
  <2>1. copy[s] = doc /\ lock = s
    BY <1>6 DEF Write
  <2>2. doc' = [version |-> doc.version + 1, saves |-> doc.saves \cup {s}]
    BY <1>6, <2>1 DEF Write
  <2>3. \A t \in Saves : t # s => pc[t] \notin InLock
    BY <2>1
  <2> QED BY <1>6, <2>2, <2>3 DEF Write
<1>7. ASSUME NEW s \in Saves, Index(s) PROVE Inv'
  BY <1>7 DEF Index
<1>8. ASSUME NEW s \in Saves, Release(s) PROVE Inv'
  BY <1>8 DEF Release, OutcomeOf, LockAfter
<1>9. ASSUME NEW s \in Saves, Die(s) PROVE Inv'
  BY <1>9 DEF Die, LockAfter
<1>10. CASE UNCHANGED vars
  BY <1>10 DEF vars
<1> QED
  BY <1>1, <1>2, <1>3, <1>4, <1>5, <1>6, <1>7, <1>8, <1>9, <1>10 DEF Next, Step

THEOREM InvHolds == ASSUME LeaseMayExpire = FALSE PROVE Spec => []Inv
BY InitInv, NextInv, PTL DEF Spec

-----------------------------------------------------------------------------

\* The record is well formed, and equal versions mean that no save of one copy
\* is missing in another (TypeOK).
THEOREM TypeCorrect == ASSUME LeaseMayExpire = FALSE PROVE Spec => []TypeOK
<1>1. Inv => TypeOK
  BY DEF Inv
<1> QED BY <1>1, InvHolds, PTL

\* A save answered with success stays in the stored record, which the index
\* lists (SavedIsKept).
THEOREM SavedIsKeptHolds == ASSUME LeaseMayExpire = FALSE PROVE Spec => []SavedIsKept
<1>1. Inv => SavedIsKept
  BY DEF Inv, Traced, SavedIsKept
<1> QED BY <1>1, InvHolds, PTL

\* A save refused as busy or conflicting is not in the stored record
\* (RefusedLeavesNoTrace).
THEOREM RefusedLeavesNoTraceHolds ==
    ASSUME LeaseMayExpire = FALSE PROVE Spec => []RefusedLeavesNoTrace
<1>1. Inv => RefusedLeavesNoTrace
  BY DEF Inv, Traced, RefusedLeavesNoTrace, Refusals
<1> QED BY <1>1, InvHolds, PTL

\* The stored record grows by one save at a time (NoLostUpdate).
THEOREM NoLostUpdateHolds == ASSUME LeaseMayExpire = FALSE PROVE Spec => NoLostUpdate
<1> DEFINE Grows == doc'.version = doc.version + 1 /\ doc.saves \subseteq doc'.saves
<1>1. Inv /\ [Next]_vars => [Grows]_doc
  <2> SUFFICES ASSUME Inv, [Next]_vars, doc' # doc PROVE Grows
    OBVIOUS
  <2>1. PICK s \in Saves : Write(s)
    BY DEF Next, Step, LeaseExpires, get, Acquire, GiveUp, Compare, Index, Release, Die, vars
  <2>2. copy[s] = doc
    BY <2>1 DEF Write, Inv, Compared
  <2> QED BY <2>1, <2>2 DEF Write
<1> QED BY <1>1, InvHolds, PTL DEF Spec, NoLostUpdate

-----------------------------------------------------------------------------

LEMMA InitRegister == Init => Register!CasInit
BY DEF Init, Empty, Register!CasInit, AsRegister

\* Each step of a save is one step of the register, or none.
LEMMA StepRegister ==
    ASSUME LeaseMayExpire = FALSE, Inv, Inv', [Next]_vars
    PROVE  [Register!CasNext]_(Register!casVars)
<1> DEFINE out == [s \in Saves |-> AsRegister(pc[s])]
<1> USE DEF Inv, TypeOK, Goto, Register!casVars, AsRegister
<1>1. ASSUME NEW s \in Saves, get(s) PROVE Register!Read(s)
  BY <1>1 DEF get, Register!Read
<1>2. ASSUME NEW s \in Saves, Acquire(s) \/ Compare(s) \/ Index(s)
      PROVE  UNCHANGED <<doc, copy, out>>
  BY <1>2 DEF Acquire, Compare, Index
<1>3. ASSUME NEW s \in Saves, GiveUp(s) PROVE Register!Answer(s)
  BY <1>3 DEF GiveUp, Register!Answer
<1>4. ASSUME NEW s \in Saves, Write(s) PROVE Register!Swap(s)
  BY <1>4 DEF Write, Compared, Register!Swap
<1>5. ASSUME NEW s \in Saves, Release(s) PROVE Register!Answer(s)
  <2>1. lock = s
    BY <1>5 DEF Release, Exclusive, InLock
  <2>2. CASE pc[s] = "indexed"
    BY <1>5, <2>1, <2>2 DEF Release, OutcomeOf, Register!Answer
  <2>3. CASE pc[s] = "refused"
    BY <1>5, <2>1, <2>3 DEF Release, OutcomeOf, Outdated, Register!Answer
  <2> QED BY <1>5, <2>2, <2>3 DEF Release
<1>6. ASSUME NEW s \in Saves, Die(s) PROVE Register!Lose(s)
  BY <1>6 DEF Die, Register!Lose, Ends, Refusals, InLock
<1>7. CASE LeaseExpires \/ UNCHANGED vars
  BY <1>7 DEF LeaseExpires, vars
<1> QED
  BY <1>1, <1>2, <1>3, <1>4, <1>5, <1>6, <1>7 DEF Next, Step, Register!CasNext

\* A save under the lock is a compare-and-swap in one step
\* (ImplementsRegister).
THEOREM ImplementsRegisterHolds ==
    ASSUME LeaseMayExpire = FALSE PROVE Spec => ImplementsRegister
BY InitRegister, StepRegister, InvHolds, PTL DEF Spec, ImplementsRegister, Register!CasSpec
=============================================================================
