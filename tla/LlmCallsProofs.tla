--------------------------- MODULE LlmCallsProofs ---------------------------
(***************************************************************************)
(* Theorems about LlmCalls for any number of agents and all limits.        *)
(*                                                                         *)
(* TypeOK is inductive: what a thread holds of the failure count was a     *)
(* count when it was read, so that lowering it never ends below zero, and  *)
(* what is counted of attempts and steps stops at its limit.               *)
(*                                                                         *)
(* OverspendBounded is not: it forgets who may still spend.  The calls     *)
(* that are open are Due, and Covered is the bound with all of them paid   *)
(* for; an answer turns one that is due into one that is seen, or into one *)
(* that is not recorded at all, and only while the limit is not seen to be *)
(* spent can a call begin.  A record that slides out of the window only    *)
(* lowers what is seen.                                                    *)
(***************************************************************************)
EXTENDS LlmCalls, FiniteSetTheorems, TLAPS

LEMMA InitType == Init => TypeOK
BY LlmAssumption DEF Init, TypeOK, Idle, LlmAssumption

\* The records of a thread that goes elsewhere remain well formed.
Pcs == {"idle", "wake", "wakelog", "woken", "check", "call", "fallback", "answered",
        "succeeded", "close", "lower", "failed", "stamp", "open", "log"}
Threads == [pc: Pcs, step: 0..(MaxSteps - 1), attempt: 0..MaxAttempts, held: 0..MaxFailures]

LEMMA NextType == ASSUME TypeOK, [Next]_vars PROVE TypeOK'
<1> USE DEF At, breaker
<1>0. /\ MaxCost \in Nat \ {0} /\ MaxAttempts \in Nat \ {0} /\ MaxSteps \in Nat \ {0}
      /\ MaxFailures \in Nat \ {0}
  BY LlmAssumption DEF LlmAssumption
<1>1. th \in [Agent -> Threads] /\ Idle \in Threads
  BY <1>0 DEF TypeOK, Threads, Pcs, Idle
<1>2. ASSUME NEW a \in Agent, NEW pc \in Pcs, Go(a, pc) \/ End(a, pc) \/ Leave(a)
      PROVE  th' \in [Agent -> Threads]
  BY <1>1, <1>2 DEF Go, End, Leave, Threads, Pcs, Idle
<1>3. ASSUME th' \in [Agent -> Threads], UNCHANGED <<state, failures, cooled, records>>
      PROVE  TypeOK'
  BY <1>3 DEF TypeOK, Threads, Pcs
<1>4. ASSUME NEW a \in Agent, NEW pc \in Pcs, NEW n \in 0..MaxAttempts,
              th' = [th EXCEPT ![a].pc = pc, ![a].attempt = n]
       PROVE  th' \in [Agent -> Threads]
  <2> DEFINE u == [th EXCEPT ![a].pc = pc]
  <2>1. u \in [Agent -> Threads]
    BY <1>1 DEF Threads
  <2>2. th' = [u EXCEPT ![a].attempt = n]
    BY <1>4
  <2> HIDE DEF u
  <2> QED BY <2>1, <2>2 DEF Threads
<1>5. ASSUME NEW a \in Agent, FallBack(a) PROVE th' \in [Agent -> Threads]
  <2>1. CASE At(a, "call") /\ Fallback
    BY <1>1, <1>5, <2>1 DEF FallBack, Threads, Pcs
  <2>2. CASE ~(At(a, "call") /\ Fallback)
    BY <1>2, <1>5, <2>2 DEF FallBack, Pcs
  <2> QED BY <2>1, <2>2
<1>6. ASSUME NEW a \in Agent, Ask(a) PROVE TypeOK'
  BY <1>2, <1>3, <1>6 DEF Ask, Pcs
<1>7. ASSUME NEW a \in Agent, Wake(a) PROVE TypeOK'
  <2>1. th' \in [Agent -> Threads]
    BY <1>2, <1>7 DEF Wake, Pcs
  <2> QED BY <1>7, <2>1 DEF Wake, TypeOK, Threads, Pcs
<1>8. ASSUME NEW a \in Agent, Admit(a) PROVE TypeOK'
  BY <1>2, <1>3, <1>8 DEF Admit, Pcs
<1>9. ASSUME NEW a \in Agent, Enforce(a) PROVE TypeOK'
  <2>1. CASE Exceeded
    BY <1>2, <1>3, <1>9, <2>1 DEF Enforce, Pcs
  <2>2. CASE ~Exceeded
    <3>1. th' = [th EXCEPT ![a].pc = "call", ![a].attempt = 1]
      BY <1>9, <2>2 DEF Enforce
    <3>2. "call" \in Pcs /\ 1 \in 0..MaxAttempts
      BY <1>0 DEF Pcs
    <3>3. th' \in [Agent -> Threads]
      BY <1>4, <3>1, <3>2
    <3> QED BY <1>3, <1>9, <3>3 DEF Enforce
  <2> QED BY <2>1, <2>2
<1>10. ASSUME NEW a \in Agent, Answer(a) PROVE TypeOK'
  <2>1. PICK cost \in 0..MaxCost : Track(a, cost)
    BY <1>10 DEF Answer
  <2>2. records' \in Seq(1..MaxCost)
    <3>1. CASE UNCHANGED records
      BY <3>1 DEF TypeOK
    <3>2. CASE records' # records
      <4>0. cost # 0 /\ records' = Append(records, cost)
        BY <2>1, <3>2 DEF Track
      <4>1. cost \in 1..MaxCost
        BY <1>0, <4>0
      <4>2. records \in Seq(1..MaxCost)
        BY DEF TypeOK
      <4>3. Append(records, cost) \in Seq(1..MaxCost)
        BY <4>1, <4>2
      <4> QED BY <4>0, <4>3
    <3> QED BY <3>1, <3>2
  <2>3. th' \in [Agent -> Threads]
    <3>1. CASE th' = [th EXCEPT ![a].pc = "answered", ![a].attempt = 0]
      <4>1. "answered" \in Pcs /\ 0 \in 0..MaxAttempts
        BY <1>0 DEF Pcs
      <4> QED BY <1>4, <3>1, <4>1
    <3> QED BY <1>5, <1>10, <3>1 DEF Answer
  <2> QED BY <1>10, <2>2, <2>3 DEF Answer, TypeOK, Threads, Pcs
<1>11. ASSUME NEW a \in Agent, Retry(a) PROVE TypeOK'
  <2>1. th' \in [Agent -> Threads]
    BY <1>0, <1>1, <1>11 DEF Retry, Threads
  <2> QED BY <1>3, <1>11, <2>1 DEF Retry
<1>12. ASSUME NEW a \in Agent, GiveUp(a) PROVE TypeOK'
  BY <1>3, <1>5, <1>12 DEF GiveUp
<1>13. ASSUME NEW a \in Agent, NextStep(a) PROVE TypeOK'
  <2>1. th' \in [Agent -> Threads]
    <3>1. CASE th[a].step + 1 < MaxSteps /\ th' = [th EXCEPT ![a].pc = "check", ![a].step = @ + 1]
      BY <1>0, <1>1, <3>1 DEF Threads, Pcs
    <3> QED BY <1>2, <1>13, <3>1 DEF NextStep, Pcs
  <2> QED BY <1>3, <1>13, <2>1 DEF NextStep
<1>14. ASSUME NEW a \in Agent, Succeed(a) PROVE TypeOK'
  <2>1. th' \in [Agent -> Threads]
    <3>1. CASE th' = [th EXCEPT ![a].pc = "lower", ![a].held = failures]
      BY <1>0, <1>1, <3>1 DEF Threads, Pcs, TypeOK
    <3> QED BY <1>2, <1>14, <3>1 DEF Succeed, Pcs
  <2>2. failures' \in 0..MaxFailures
    BY <1>0, <1>14 DEF Succeed, TypeOK
  <2> QED BY <1>14, <2>1, <2>2 DEF Succeed, TypeOK, Threads, Pcs
<1>15. ASSUME NEW a \in Agent, Close(a) \/ Open(a) PROVE TypeOK'
  <2>1. th' \in [Agent -> Threads]
    BY <1>2, <1>15 DEF Close, Open, Pcs
  <2> QED BY <1>15, <2>1 DEF Close, Open, TypeOK, Threads, Pcs
<1>16. ASSUME NEW a \in Agent, Lower(a) PROVE TypeOK'
  <2>1. th' \in [Agent -> Threads]
    BY <1>2, <1>16 DEF Lower, Pcs
  <2>2. th[a].held \in 0..MaxFailures
    BY <1>1 DEF Threads
  <2>3. failures' \in 0..MaxFailures
    BY <1>0, <1>16, <2>2 DEF Lower
  <2> QED BY <1>16, <2>1, <2>3 DEF Lower, TypeOK, Threads, Pcs
<1>17. ASSUME NEW a \in Agent, Count(a) PROVE TypeOK'
  <2>1. th' \in [Agent -> Threads]
    BY <1>2, <1>17 DEF Count, Pcs
  <2>2. failures' \in 0..MaxFailures
    BY <1>0, <1>17 DEF Count, TypeOK
  <2> QED BY <1>17, <2>1, <2>2 DEF Count, TypeOK, Threads, Pcs
<1>18. ASSUME NEW a \in Agent, Stamp(a) PROVE TypeOK'
  <2>1. th' \in [Agent -> Threads]
    BY <1>2, <1>18 DEF Stamp, Pcs
  <2> QED BY <1>18, <2>1 DEF Stamp, TypeOK, Threads, Pcs
<1>19. ASSUME NEW a \in Agent, Log(a) PROVE TypeOK'
  BY <1>2, <1>3, <1>19 DEF Log, Pcs
<1>20. CASE Elapse
  BY <1>20 DEF Elapse, TypeOK
<1>21. CASE Midnight
  BY <1>21 DEF Midnight, TypeOK
<1>22. CASE UNCHANGED vars
  BY <1>22 DEF vars, TypeOK
<1> QED
  BY <1>6, <1>7, <1>8, <1>9, <1>10, <1>11, <1>12, <1>13, <1>14, <1>15, <1>16, <1>17, <1>18,
     <1>19, <1>20, <1>21, <1>22 DEF Next, Step

\* However the agents interleave, the breaker is in one of its states, no count
\* falls below zero, and no run tries or steps more often than it may (TypeOK).
THEOREM TypeCorrect == Spec => []TypeOK
BY InitType, NextType, PTL DEF Spec

-----------------------------------------------------------------------------
(* Sums of costs *)

Costs == Seq(1..MaxCost)

LEMMA UnitsFinite == ASSUME NEW c \in Costs PROVE IsFiniteSet(Units(c))
<1>1. MaxCost \in Nat /\ Len(c) \in Nat /\ DOMAIN c = 1..Len(c)
  BY LlmAssumption DEF LlmAssumption, Costs
<1>2. IsFiniteSet(1..Len(c)) /\ IsFiniteSet(1..MaxCost)
  BY <1>1, FS_Interval
<1>3. IsFiniteSet((DOMAIN c) \X (1..MaxCost))
  BY <1>1, <1>2, FS_Product
<1>4. Units(c) \in SUBSET ((DOMAIN c) \X (1..MaxCost))
  BY DEF Units, Recent
<1> QED BY <1>3, <1>4, FS_Subset

LEMMA SeenIsNat == ASSUME NEW c \in Costs PROVE Seen(c) \in Nat
BY UnitsFinite, FS_CardinalityType DEF Seen

\* One more record adds its cost, and may push another out of the window.
LEMMA SeenAppend ==
    ASSUME NEW c \in Costs, NEW x \in 1..MaxCost
    PROVE  Seen(Append(c, x)) <= Seen(c) + x
<1> DEFINE k == Len(c) + 1
           added == {k} \X (1..x)
<1>1. /\ MaxCost \in Nat /\ x \in Nat \ {0} /\ Window \in Nat /\ Len(c) \in Nat /\ DOMAIN c = 1..Len(c)
  BY LlmAssumption DEF LlmAssumption, Costs
<1>2. /\ Append(c, x) \in Costs /\ Len(Append(c, x)) = k
      /\ DOMAIN Append(c, x) = (DOMAIN c) \union {k}
      /\ Append(c, x)[k] = x
      /\ \A i \in DOMAIN c : Append(c, x)[i] = c[i]
  BY <1>1 DEF Costs
<1>3. IsFiniteSet(added) /\ Cardinality(added) = x
  <2>1. IsFiniteSet(1..x) /\ Cardinality(1..x) = x
    BY <1>1, FS_Interval
  <2>2. IsFiniteSet({k}) /\ Cardinality({k}) = 1
    BY FS_Singleton
  <2>3. Cardinality(added) = 1 * x
    BY <2>1, <2>2, FS_Product
  <2> QED BY <1>1, <2>1, <2>2, <2>3, FS_Product
<1>4. Units(Append(c, x)) \subseteq Units(c) \union added
  <2>1. ASSUME NEW i \in Recent(Append(c, x)) PROVE i \in Recent(c) \union {k}
    BY <1>1, <1>2 DEF Recent
  <2>2. ASSUME NEW u \in Units(Append(c, x)) PROVE u \in Units(c) \union added
    <3>0. u \in Recent(Append(c, x)) \X (1..MaxCost) /\ u[2] <= Append(c, x)[u[1]]
      BY DEF Units
    <3>a. u = <<u[1], u[2]>> /\ u[1] \in Recent(Append(c, x)) /\ u[2] \in 1..MaxCost
      BY <3>0
    <3>1. PICK i \in Recent(Append(c, x)), n \in 1..MaxCost : u = <<i, n>> /\ n <= Append(c, x)[i]
      BY <3>0, <3>a
    <3>2. CASE i = k
      BY <1>1, <1>2, <3>1, <3>2
    <3>3. CASE i # k
      <4>1. i \in Recent(c) /\ i \in DOMAIN c
        BY <2>1, <3>3 DEF Recent
      <4> QED BY <1>2, <3>1, <4>1 DEF Units
    <3> QED BY <3>2, <3>3
  <2> QED BY <2>2
<1>5. /\ IsFiniteSet(Units(c) \union added)
      /\ Cardinality(Units(c) \union added)
           = Cardinality(Units(c)) + Cardinality(added) - Cardinality(Units(c) \intersect added)
  BY <1>3, UnitsFinite, FS_Union
<1>6. Cardinality(Units(c) \intersect added) \in Nat
  <2>1. Units(c) \intersect added \in SUBSET added
    OBVIOUS
  <2> QED BY <1>3, <2>1, FS_Subset, FS_CardinalityType
<1>7. Cardinality(Units(Append(c, x))) <= Cardinality(Units(c) \union added)
  BY <1>4, <1>5, FS_Subset
<1>8. Cardinality(Units(Append(c, x))) \in Nat /\ Cardinality(Units(c)) \in Nat
  BY <1>2, SeenIsNat DEF Seen
<1> HIDE DEF added
<1> QED BY <1>1, <1>3, <1>5, <1>6, <1>7, <1>8 DEF Seen

LEMMA SeenStays == ASSUME UNCHANGED records PROVE Seen(records)' = Seen(records)
BY DEF Seen, Units, Recent

-----------------------------------------------------------------------------
(* What is seen, and what may still come *)

\* The calls that are open, and those of them that the fallback may be asked after.
Unanswered == {a \in Agent : th[a].pc \in {"call", "fallback"}}
Calling == {a \in Agent : At(a, "call")}

\* How many answers may still be recorded without another look at the limit.
Due == CallCharge * Cardinality(Calling) + FallbackCharge * Cardinality(Unanswered)

MostDue == Cardinality(Agent) * (CallCharge + FallbackCharge)

\* The bound holds with every open call paid for.
Covered == Seen(records) + Due * MaxCost <= Limit - 1 + MostDue * MaxCost

OnlyIfConfigured == ~Fallback => \A a \in Agent : ~At(a, "fallback")

BudgetInv == TypeOK /\ OnlyIfConfigured /\ Covered

\* A charge is one answer or none.
LEMMA Charges ==
    \/ CallCharge = 0 /\ FallbackCharge = 0
    \/ CallCharge = 1 /\ FallbackCharge = 0
    \/ CallCharge = 0 /\ FallbackCharge = 1
    \/ CallCharge = 1 /\ FallbackCharge = 1
BY DEF CallCharge, FallbackCharge

LEMMA AgentsCounted ==
    ASSUME NEW S, S \subseteq Agent
    PROVE  IsFiniteSet(S) /\ Cardinality(S) \in Nat /\ Cardinality(S) <= Cardinality(Agent)
BY LlmAssumption, FS_Subset, FS_CardinalityType DEF LlmAssumption

\* What may be due of calls and of those that are open, whatever is metered.
LEMMA Charged ==
    ASSUME NEW n \in Nat, NEW i \in Nat, NEW j \in Nat, i <= n, j <= n
    PROVE  /\ CallCharge * i + FallbackCharge * j \in Nat
           /\ n * (CallCharge + FallbackCharge) \in Nat
           /\ CallCharge * i + FallbackCharge * j <= n * (CallCharge + FallbackCharge)
<1>1. CASE CallCharge = 0 /\ FallbackCharge = 0
  BY <1>1
<1>2. CASE CallCharge = 1 /\ FallbackCharge = 0
  BY <1>2
<1>3. CASE CallCharge = 0 /\ FallbackCharge = 1
  BY <1>3
<1>4. CASE CallCharge = 1 /\ FallbackCharge = 1
  BY <1>4
<1> QED BY <1>1, <1>2, <1>3, <1>4, Charges

LEMMA DueIsBounded == Due \in Nat /\ MostDue \in Nat /\ Due <= MostDue
<1>1. Unanswered \subseteq Agent /\ Calling \subseteq Agent
  BY DEF Unanswered, Calling
<1>2. /\ Cardinality(Unanswered) \in Nat /\ Cardinality(Unanswered) <= Cardinality(Agent)
      /\ Cardinality(Calling) \in Nat /\ Cardinality(Calling) <= Cardinality(Agent)
      /\ Cardinality(Agent) \in Nat
  BY <1>1, AgentsCounted
<1> QED BY <1>2, Charged DEF Due, MostDue

LEMMA DueNext == Due' \in Nat /\ Due' <= MostDue
<1>1. Unanswered' \subseteq Agent /\ Calling' \subseteq Agent
  BY DEF Unanswered, Calling
<1>2. /\ Cardinality(Unanswered') \in Nat /\ Cardinality(Unanswered') <= Cardinality(Agent)
      /\ Cardinality(Calling') \in Nat /\ Cardinality(Calling') <= Cardinality(Agent)
      /\ Cardinality(Agent) \in Nat
  BY <1>1, AgentsCounted
<1>3. Due' = CallCharge * Cardinality(Calling') + FallbackCharge * Cardinality(Unanswered')
  BY DEF Due, CallCharge, FallbackCharge
<1> QED BY <1>2, <1>3, Charged DEF MostDue

\* Fewer open calls: no more is due, and less when the one that is closed was to be recorded.
LEMMA ChargesDrop ==
    ASSUME NEW i \in Nat, NEW j \in Nat, NEW k \in Nat, NEW l \in Nat, k <= i, l <= j
    PROVE  /\ CallCharge * k + FallbackCharge * l <= CallCharge * i + FallbackCharge * j
           /\ (CallCharge = 1 /\ k <= i - 1) \/ (FallbackCharge = 1 /\ l <= j - 1)
                 => CallCharge * k + FallbackCharge * l <= (CallCharge * i + FallbackCharge * j) - 1
<1>1. CASE CallCharge = 0 /\ FallbackCharge = 0
  BY <1>1
<1>2. CASE CallCharge = 1 /\ FallbackCharge = 0
  BY <1>2
<1>3. CASE CallCharge = 0 /\ FallbackCharge = 1
  BY <1>3
<1>4. CASE CallCharge = 1 /\ FallbackCharge = 1
  BY <1>4
<1> QED BY <1>1, <1>2, <1>3, <1>4, Charges

\* No more is due when no call was begun, and a call that was answered is due no more.
LEMMA DueDrops ==
    ASSUME Unanswered' \subseteq Unanswered, Calling' \subseteq Calling
    PROVE  /\ Due' <= Due
           /\ \A a \in Agent :
                 (\/ CallCharge = 1 /\ a \in Calling /\ a \notin Calling'
                  \/ FallbackCharge = 1 /\ a \in Unanswered /\ a \notin Unanswered')
                    => Due' <= Due - 1
<1>1. Unanswered \subseteq Agent /\ Calling \subseteq Agent
  BY DEF Unanswered, Calling
<1>2. IsFiniteSet(Unanswered) /\ IsFiniteSet(Calling)
  BY <1>1, AgentsCounted
<1>3. /\ Cardinality(Unanswered') \in Nat /\ Cardinality(Unanswered) \in Nat
      /\ Cardinality(Calling') \in Nat /\ Cardinality(Calling) \in Nat
      /\ Cardinality(Unanswered') <= Cardinality(Unanswered)
      /\ Cardinality(Calling') <= Cardinality(Calling)
  BY <1>2, FS_Subset, FS_CardinalityType
<1>4. /\ Due = CallCharge * Cardinality(Calling) + FallbackCharge * Cardinality(Unanswered)
      /\ Due' = CallCharge * Cardinality(Calling') + FallbackCharge * Cardinality(Unanswered')
  BY DEF Due, CallCharge, FallbackCharge
<1>5. Due' <= Due
  BY <1>3, <1>4, ChargesDrop
<1>6. ASSUME NEW S, NEW T, IsFiniteSet(S), T \subseteq S, NEW a \in S, a \notin T
      PROVE  Cardinality(T) <= Cardinality(S) - 1
  <2>1. T \subseteq S \ {a} /\ IsFiniteSet(S \ {a}) /\ Cardinality(S \ {a}) = Cardinality(S) - 1
    BY <1>6, FS_RemoveElement
  <2> QED BY <2>1, FS_Subset
<1>7. ASSUME NEW a \in Agent,
             \/ CallCharge = 1 /\ a \in Calling /\ a \notin Calling'
             \/ FallbackCharge = 1 /\ a \in Unanswered /\ a \notin Unanswered'
      PROVE  Due' <= Due - 1
  <2>1. \/ CallCharge = 1 /\ Cardinality(Calling') <= Cardinality(Calling) - 1
        \/ FallbackCharge = 1 /\ Cardinality(Unanswered') <= Cardinality(Unanswered) - 1
    <3>1. CASE CallCharge = 1 /\ a \in Calling /\ a \notin Calling'
      <4>1. Cardinality(Calling') <= Cardinality(Calling) - 1
        BY <1>2, <1>6, <3>1
      <4> QED BY <3>1, <4>1
    <3>2. CASE FallbackCharge = 1 /\ a \in Unanswered /\ a \notin Unanswered'
      <4>1. Cardinality(Unanswered') <= Cardinality(Unanswered) - 1
        BY <1>2, <1>6, <3>2
      <4> QED BY <3>2, <4>1
    <3> QED BY <1>7, <3>1, <3>2
  <2> QED BY <1>3, <1>4, <2>1, ChargesDrop
<1> QED BY <1>5, <1>7

LEMMA TimesMonotone ==
    ASSUME NEW i \in Nat, NEW j \in Nat, NEW m \in Nat, i <= j
    PROVE  i * m \in Nat /\ j * m \in Nat /\ i * m <= j * m
<1>1. PICK k \in Nat : j = i + k
  <2>1. j - i \in Nat /\ j = i + (j - i)
    OBVIOUS
  <2> QED BY <2>1
<1>2. j * m = i * m + k * m /\ k * m \in Nat /\ i * m \in Nat /\ j * m \in Nat
  BY <1>1
<1> QED BY <1>2

\* A thread that goes anywhere but into a call leaves those that are open.
LEMMA NoCallBegins ==
    ASSUME TypeOK, OnlyIfConfigured, NEW a \in Agent, NEW pc \in Pcs \ {"call", "fallback"},
           Go(a, pc) \/ End(a, pc) \/ Leave(a)
    PROVE  /\ Unanswered' \subseteq Unanswered \ {a}
           /\ Calling' \subseteq Calling \ {a}
           /\ OnlyIfConfigured'
<1>1. th \in [Agent -> Threads]
  BY DEF TypeOK, Threads, Pcs
<1>2. ASSUME NEW b \in Agent PROVE th'[b].pc = (IF b = a THEN th'[a].pc ELSE th[b].pc)
  BY <1>1 DEF Go, End, Leave, Threads
<1>3. th'[a].pc \notin {"call", "fallback"}
  BY <1>1 DEF Go, End, Leave, Idle, Threads
<1> QED BY <1>2, <1>3 DEF Unanswered, Calling, At, OnlyIfConfigured

LEMMA FallsBack ==
    ASSUME TypeOK, OnlyIfConfigured, NEW a \in Agent, a \in Unanswered, FallBack(a)
    PROVE  /\ Unanswered' \subseteq Unanswered /\ Calling' \subseteq Calling
           /\ OnlyIfConfigured'
           /\ a \notin Calling'
           /\ At(a, "fallback") => a \notin Unanswered'
<1>1. CASE At(a, "call") /\ Fallback
  <2>1. th \in [Agent -> Threads]
    BY DEF TypeOK, Threads, Pcs
  <2>2. th' = [th EXCEPT ![a].pc = "fallback", ![a].attempt = 0]
    BY <1>1 DEF FallBack
  <2>3. ASSUME NEW b \in Agent PROVE th'[b].pc = (IF b = a THEN "fallback" ELSE th[b].pc)
    BY <2>1, <2>2 DEF Threads
  <2> QED BY <1>1, <2>3 DEF Unanswered, Calling, At, OnlyIfConfigured
<1>2. CASE ~(At(a, "call") /\ Fallback)
  <2>1. End(a, "failed")
    BY <1>2 DEF FallBack
  <2> QED BY <2>1, NoCallBegins DEF Pcs
<1> QED BY <1>1, <1>2

\* A step that begins no call and records nothing leaves the limit covered.
LEMMA QuietStep ==
    ASSUME BudgetInv, TypeOK', UNCHANGED records, OnlyIfConfigured',
           Unanswered' \subseteq Unanswered, Calling' \subseteq Calling
    PROVE  BudgetInv'
<1>1. Due' * MaxCost <= Due * MaxCost /\ Due' * MaxCost \in Nat /\ Due * MaxCost \in Nat
  BY DueDrops, DueIsBounded, DueNext, TimesMonotone, LlmAssumption DEF LlmAssumption
<1>2. Seen(records)' = Seen(records) /\ Seen(records) \in Nat
  BY SeenStays, SeenIsNat DEF BudgetInv, TypeOK, Costs
<1>3. MostDue * MaxCost \in Nat /\ Limit \in Nat
  BY DueIsBounded, TimesMonotone, LlmAssumption DEF LlmAssumption
<1>4. Covered'
  BY <1>1, <1>2, <1>3 DEF BudgetInv, Covered, MostDue, CallCharge, FallbackCharge
<1> QED BY <1>4 DEF BudgetInv

\* A recorded answer costs no more than what was due for it; one that is not recorded costs nothing that is seen.
LEMMA AnswerCovered ==
    ASSUME BudgetInv, TypeOK', NEW a \in Agent, Answer(a)
    PROVE  BudgetInv'
<1>1. a \in Unanswered /\ th[a].pc \in {"call", "fallback"}
  BY DEF Answer, Unanswered
<1>2. PICK cost \in 0..MaxCost : Track(a, cost)
  BY DEF Answer
<1>3. /\ MaxCost \in Nat /\ Limit \in Nat /\ cost \in Nat /\ cost <= MaxCost
      /\ records \in Costs /\ records' \in Costs
  BY LlmAssumption DEF LlmAssumption, BudgetInv, TypeOK, Costs
<1>4. /\ Unanswered' \subseteq Unanswered /\ Calling' \subseteq Calling
      /\ OnlyIfConfigured'
      /\ a \notin Calling'
      /\ At(a, "fallback") => a \notin Unanswered'
  <2>1. CASE FallBack(a)
    BY <1>1, <2>1, FallsBack DEF BudgetInv
  <2>2. CASE th' = [th EXCEPT ![a].pc = "answered", ![a].attempt = 0]
    <3>1. th \in [Agent -> Threads]
      BY DEF BudgetInv, TypeOK, Threads, Pcs
    <3>2. ASSUME NEW b \in Agent PROVE th'[b].pc = (IF b = a THEN "answered" ELSE th[b].pc)
      BY <2>2, <3>1 DEF Threads
    <3> QED BY <3>2 DEF Unanswered, Calling, At, OnlyIfConfigured, BudgetInv
  <2> QED BY <2>1, <2>2 DEF Answer
<1>5. CASE UNCHANGED records
  BY <1>4, <1>5, QuietStep
<1>6. CASE records' # records
  <2>1. cost \in 1..MaxCost /\ th[a].pc \in Metered /\ records' = Append(records, cost)
    BY <1>2, <1>3, <1>6 DEF Track
  <2>2. /\ Seen(Append(records, cost)) <= Seen(records) + cost
        /\ Seen(records) \in Nat /\ Seen(Append(records, cost)) \in Nat
    BY <1>3, <2>1, SeenAppend, SeenIsNat
  <2>3. Seen(records)' = Seen(Append(records, cost))
    BY <2>1 DEF Seen, Units, Recent
  <2>4. \/ CallCharge = 1 /\ a \in Calling /\ a \notin Calling'
        \/ FallbackCharge = 1 /\ a \in Unanswered /\ a \notin Unanswered'
    <3>1. CASE At(a, "call")
      BY <1>4, <2>1, <3>1 DEF At, Calling, CallCharge
    <3>2. CASE At(a, "fallback")
      BY <1>1, <1>4, <2>1, <3>2 DEF At, FallbackCharge, BudgetInv, OnlyIfConfigured
    <3> QED BY <1>1, <3>1, <3>2 DEF At
  <2>5. Due \in Nat /\ Due' \in Nat /\ Due' + 1 <= Due
    <3>1. Due' <= Due - 1
      BY <1>4, <2>4, DueDrops
    <3>2. Due \in Nat /\ Due' \in Nat
      BY DueIsBounded, DueNext
    <3>3. ASSUME NEW i \in Nat, NEW j \in Nat, i <= j - 1 PROVE i + 1 <= j
      BY <3>3
    <3> QED BY <3>1, <3>2, <3>3
  <2>6. (Due' + 1) * MaxCost <= Due * MaxCost /\ (Due' + 1) * MaxCost = Due' * MaxCost + MaxCost
    <3>1. ASSUME NEW i \in Nat PROVE i + 1 \in Nat /\ (i + 1) * MaxCost = i * MaxCost + MaxCost
      BY <1>3
    <3>2. Due' + 1 \in Nat /\ (Due' + 1) * MaxCost = Due' * MaxCost + MaxCost
      BY <2>5, <3>1
    <3> QED BY <1>3, <2>5, <3>2, TimesMonotone
  <2>7. Due' * MaxCost \in Nat /\ Due * MaxCost \in Nat /\ MostDue * MaxCost \in Nat
    <3>1. MostDue \in Nat
      BY DueIsBounded
    <3>2. ASSUME NEW i \in Nat PROVE i * MaxCost \in Nat
      BY <1>3
    <3> QED BY <2>5, <3>1, <3>2
  <2>8. Covered'
    BY <1>3, <2>2, <2>3, <2>6, <2>7 DEF BudgetInv, Covered, MostDue, CallCharge, FallbackCharge
  <2> QED BY <1>4, <2>8 DEF BudgetInv
<1> QED BY <1>5, <1>6

\* A call begins only while something of the limit is left, and then every agent may call.
LEMMA CallCovered ==
    ASSUME BudgetInv, TypeOK', NEW a \in Agent, Enforce(a), ~Exceeded
    PROVE  BudgetInv'
<1>1. UNCHANGED records /\ th' = [th EXCEPT ![a].pc = "call", ![a].attempt = 1]
  BY DEF Enforce
<1>2. Limit \in Nat /\ Seen(records) \in Nat /\ Seen(records) <= Limit - 1 /\ Seen(records)' = Seen(records)
  <2>1. Limit \in Nat /\ Seen(records) \in Nat
    BY SeenIsNat, LlmAssumption DEF LlmAssumption, BudgetInv, TypeOK, Costs
  <2> QED BY <1>1, <2>1, SeenStays DEF Exceeded
<1>3. Due' * MaxCost \in Nat /\ MostDue * MaxCost \in Nat /\ Due' * MaxCost <= MostDue * MaxCost
  BY DueIsBounded, DueNext, TimesMonotone, LlmAssumption DEF LlmAssumption
<1>4. Covered'
  BY <1>2, <1>3 DEF Covered, MostDue, CallCharge, FallbackCharge
<1>5. OnlyIfConfigured'
  <2>1. th \in [Agent -> Threads]
    BY DEF BudgetInv, TypeOK, Threads, Pcs
  <2>2. ASSUME NEW b \in Agent PROVE th'[b].pc = (IF b = a THEN "call" ELSE th[b].pc)
    BY <1>1, <2>1 DEF Threads
  <2> QED BY <2>2 DEF OnlyIfConfigured, At, BudgetInv
<1> QED BY <1>4, <1>5 DEF BudgetInv

\* Nothing was recorded yet.
LEMMA SeenNothing == Seen(<< >>) = 0
<1>1. Units(<< >>) = {}
  BY DEF Units, Recent
<1> QED BY <1>1, FS_EmptySet DEF Seen

LEMMA BudgetInit == Init => BudgetInv
<1> SUFFICES ASSUME Init PROVE BudgetInv
  OBVIOUS
<1>1. TypeOK /\ OnlyIfConfigured /\ records = << >>
  BY InitType DEF Init, Idle, OnlyIfConfigured, At
<1>2. Seen(records) = 0
  BY <1>1, SeenNothing
<1>3. /\ MaxCost \in Nat /\ Limit \in Nat \ {0}
      /\ MostDue * MaxCost \in Nat /\ Due * MaxCost \in Nat /\ Due * MaxCost <= MostDue * MaxCost
  BY DueIsBounded, TimesMonotone, LlmAssumption DEF LlmAssumption
<1> QED BY <1>1, <1>2, <1>3 DEF BudgetInv, Covered

LEMMA BudgetNext ==
    ASSUME BudgetInv, [Next]_vars PROVE BudgetInv'
<1> USE DEF At, breaker
<1>1. TypeOK /\ TypeOK'
  BY NextType DEF BudgetInv
<1>2. ASSUME NEW a \in Agent, NEW pc \in Pcs \ {"call", "fallback"},
              Go(a, pc) \/ End(a, pc) \/ Leave(a), UNCHANGED records
      PROVE  BudgetInv'
  BY <1>1, <1>2, NoCallBegins, QuietStep DEF BudgetInv
<1>3. ASSUME NEW a \in Agent, Ask(a) \/ Wake(a) \/ Admit(a) \/ Close(a) \/ Lower(a)
                               \/ Count(a) \/ Stamp(a) \/ Open(a) \/ Log(a)
      PROVE  BudgetInv'
  BY <1>2, <1>3 DEF Ask, Wake, Admit, Close, Lower, Count, Stamp, Open, Log, Pcs
<1>4. ASSUME NEW a \in Agent, Enforce(a) PROVE BudgetInv'
  <2>1. CASE Exceeded
    BY <1>2, <1>4, <2>1 DEF Enforce, Pcs
  <2> QED BY <1>1, <1>4, <2>1, CallCovered
<1>5. ASSUME NEW a \in Agent, Answer(a) PROVE BudgetInv'
  BY <1>1, <1>5, AnswerCovered
<1>6. ASSUME th' \in [Agent -> Threads], \A b \in Agent : th'[b].pc = th[b].pc, UNCHANGED records
      PROVE  BudgetInv'
  <2>1. Unanswered' \subseteq Unanswered /\ Calling' \subseteq Calling /\ OnlyIfConfigured'
    BY <1>6 DEF Unanswered, Calling, OnlyIfConfigured, BudgetInv
  <2> QED BY <1>1, <1>6, <2>1, QuietStep
<1>7. th \in [Agent -> Threads] /\ th' \in [Agent -> Threads]
  BY <1>1 DEF TypeOK, Threads, Pcs
<1>8. ASSUME NEW a \in Agent, Retry(a) PROVE BudgetInv'
  <2>1. \A b \in Agent : th'[b].pc = th[b].pc
    BY <1>7, <1>8 DEF Retry, Threads
  <2> QED BY <1>6, <1>7, <1>8, <2>1 DEF Retry
<1>9. ASSUME NEW a \in Agent, GiveUp(a) PROVE BudgetInv'
  <2>1. a \in Unanswered /\ FallBack(a) /\ UNCHANGED records
    BY <1>9 DEF GiveUp, Unanswered
  <2> QED BY <1>1, <2>1, FallsBack, QuietStep DEF BudgetInv
<1>10. ASSUME NEW a \in Agent, NextStep(a) PROVE BudgetInv'
  <2>1. CASE th' = [th EXCEPT ![a].pc = "check", ![a].step = @ + 1]
    <3>1. ASSUME NEW b \in Agent PROVE th'[b].pc = (IF b = a THEN "check" ELSE th[b].pc)
      BY <1>7, <2>1 DEF Threads
    <3>2. Unanswered' \subseteq Unanswered /\ Calling' \subseteq Calling /\ OnlyIfConfigured'
      BY <3>1 DEF Unanswered, Calling, OnlyIfConfigured, BudgetInv
    <3> QED BY <1>1, <1>10, <3>2, QuietStep DEF NextStep
  <2>2. CASE End(a, "succeeded") \/ End(a, "failed")
    BY <1>2, <1>10, <2>2 DEF NextStep, Pcs
  <2> QED BY <1>10, <2>1, <2>2 DEF NextStep
<1>11. ASSUME NEW a \in Agent, Succeed(a) PROVE BudgetInv'
  <2>1. CASE th' = [th EXCEPT ![a].pc = "lower", ![a].held = failures]
    <3>1. ASSUME NEW b \in Agent PROVE th'[b].pc = (IF b = a THEN "lower" ELSE th[b].pc)
      BY <1>7, <2>1 DEF Threads
    <3>2. Unanswered' \subseteq Unanswered /\ Calling' \subseteq Calling /\ OnlyIfConfigured'
      BY <3>1 DEF Unanswered, Calling, OnlyIfConfigured, BudgetInv
    <3> QED BY <1>1, <1>11, <3>2, QuietStep DEF Succeed
  <2>2. CASE Go(a, "close") \/ Leave(a)
    BY <1>2, <1>11, <2>2 DEF Succeed, Pcs
  <2> QED BY <1>11, <2>1, <2>2 DEF Succeed
<1>12. CASE Elapse \/ UNCHANGED vars
  BY <1>6, <1>7, <1>12 DEF Elapse, vars
<1>13. CASE Midnight
  <2>1. UNCHANGED th /\ records' = << >>
    BY <1>13 DEF Midnight
  <2>2. Due' * MaxCost \in Nat /\ MostDue * MaxCost \in Nat /\ Due' * MaxCost <= MostDue * MaxCost
    BY DueIsBounded, DueNext, TimesMonotone, LlmAssumption DEF LlmAssumption
  <2>3. Seen(records)' = 0
    <3>1. Seen(records)' = Seen(<< >>)
      BY <2>1 DEF Seen, Units, Recent
    <3> QED BY <3>1, SeenNothing
  <2>4. Limit \in Nat \ {0}
    BY LlmAssumption DEF LlmAssumption
  <2>5. Covered'
    BY <2>2, <2>3, <2>4 DEF Covered, MostDue, CallCharge, FallbackCharge
  <2>6. OnlyIfConfigured'
    BY <2>1 DEF OnlyIfConfigured, At, BudgetInv
  <2> QED BY <1>1, <2>5, <2>6 DEF BudgetInv
<1> QED
  BY <1>3, <1>4, <1>5, <1>8, <1>9, <1>10, <1>11, <1>12, <1>13 DEF Next, Step

LEMMA BudgetBounds == BudgetInv => OverspendBounded
<1> SUFFICES ASSUME BudgetInv PROVE OverspendBounded
  OBVIOUS
<1>1. Seen(records) \in Nat
  BY SeenIsNat DEF BudgetInv, TypeOK, Costs
<1>2. Due * MaxCost \in Nat /\ MostDue * MaxCost \in Nat /\ Limit \in Nat
  BY DueIsBounded, TimesMonotone, LlmAssumption DEF LlmAssumption
<1>3. Seen(records) <= Limit - 1 + MostDue * MaxCost
  BY <1>1, <1>2 DEF BudgetInv, Covered
<1> QED BY <1>3 DEF OverspendBounded, MostDue

\* However many agents pass the check before any of them has recorded its cost, and however often an
\* answer cannot be used, what check_budget adds up exceeds the limit by no more than one call of every
\* agent, with the fallback's answer where that one is metered (OverspendBounded).  This holds for every
\* window and every limit; records that have left the window are not in the sum.
THEOREM OverspendIsBounded == Spec => []OverspendBounded
<1>1. BudgetInv /\ [Next]_vars => BudgetInv'
  BY BudgetNext
<1> QED BY <1>1, BudgetInit, BudgetBounds, PTL DEF Spec
=============================================================================
