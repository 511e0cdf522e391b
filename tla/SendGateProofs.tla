--------------------------- MODULE SendGateProofs ---------------------------
(***************************************************************************)
(* Theorems about SendGate for every set of threads, saved runs and        *)
(* corrections, and for every bound.                                       *)
(*                                                                         *)
(* The argument: the decision log and the set of packages only grow, so    *)
(* that what a thread has seen of them stays true while other threads go   *)
(* on.  Facts(x, l, f) is what a thread whose state is x carries from one  *)
(* gate to the next about a log l and packages f: it survives any growth   *)
(* of both (FactsKept), and each gate adds what the next one needs.        *)
(***************************************************************************)
EXTENDS SendGate, FiniteSetTheorems, FunctionTheorems, TLAPS

\* The parts of SendsWereApproved and ConflictsWereResolved, of any log l.
Standing(l, run, i) ==
    /\ l[i].action = "approve" /\ l[i].run = run
    /\ l[i].reason \/ \A j \in 1..i : l[j].action # "decline"
Decided(l, run, since) == \E i \in DOMAIN l : since <= i /\ Standing(l, run, i)
Acked(l, run, since) == \E i \in DOMAIN l : since <= i /\ Standing(l, run, i) /\ run.review \subseteq l[i].acknowledged
Settled(l, run) ==
    \A c \in run.conflicts : \E i \in DOMAIN l : l[i].action = "resolve" /\ l[i].run = run /\ l[i].edit.field = c

\* Packages f without a gap in their numbers.
Stored(f) == {n \in Names : f[n] # None}
NoGap(f) == \E k \in 0..MaxFiles : Stored(f) = 1..k

Clean(p) == (p.value.operations \union p.run.cited \union p.run.line) \intersect Prohibited = {}

\* A row that the program writes: a correction and a resolution name a value, only an approve acknowledges.
Well(row) ==
    /\ row \in Row
    /\ row.action \in {"edit", "resolve"} => row.edit \in Edit
    /\ row.acknowledged # {} => row.action = "approve"

\* What a thread in state x knows of the log l and the packages f.
Facts(x, l, f) ==
    /\ x.pc = "append" => Well(x.row)
    /\ x.pc \notin {"idle", "append"} => x.run \in Run
    /\ x.since <= Len(l) /\ x.seen \subseteq Stored(f)
    /\ x.pc = "review" => Decided(l, x.run, x.since)
    /\ Past(x.pc) => Acked(l, x.run, x.since) /\ Settled(l, x.run)
    /\ x.pc \in {"name", "build", "write"} => (x.seen # {} => x.resend)
    /\ Named(x.pc) => /\ x.name \notin x.seen
                      /\ x.name = 1 \/ x.name - 1 \in Stored(f)
    /\ x.pc = "write" => x.package \in Package /\ Clean(x.package)

LogWell == \A i \in DOMAIN log : Well(log[i])
PackagesWell == NoGap(files) /\ \A n \in Existing : Clean(files[n])
SendsWell == \A s \in sends : Acked(log, s.run, 0) /\ Settled(log, s.run)
ThreadsWell == \A t \in Thread : Facts(th[t], log, files)

Inv == TypeOK /\ LogWell /\ ApproveAfterDeclineHasReason /\ PackagesWell /\ SendsWell /\ ThreadsWell

-----------------------------------------------------------------------------
(* Logs and packages that grow *)

Grows(l, m) == l \in Seq(Row) /\ m \in Seq(Row) /\ (m = l \/ \E row \in Row : m = Append(l, row))
Kept(f, g) == Stored(f) \subseteq Stored(g)

LEMMA GrowsKeeps ==
    ASSUME NEW l, NEW m, Grows(l, m)
    PROVE  Len(l) \in Nat /\ Len(m) \in Nat /\ Len(l) <= Len(m)
           /\ DOMAIN l = 1..Len(l) /\ DOMAIN m = 1..Len(m)
           /\ \A i \in DOMAIN l : i \in DOMAIN m /\ m[i] = l[i]
BY DEF Grows

LEMMA DecidedKept ==
    ASSUME NEW l, NEW m, Grows(l, m), NEW run, NEW since, Decided(l, run, since)
    PROVE  Decided(m, run, since)
<1>1. PICK i \in DOMAIN l : since <= i /\ Standing(l, run, i)
  BY DEF Decided
<1>2. i \in DOMAIN m /\ i \in Nat /\ m[i] = l[i] /\ \A j \in 1..i : m[j] = l[j]
  BY GrowsKeeps
<1>3. Standing(m, run, i)
  BY <1>1, <1>2 DEF Standing
<1> QED BY <1>1, <1>2, <1>3 DEF Decided

LEMMA AckedKept ==
    ASSUME NEW l, NEW m, Grows(l, m), NEW run, NEW since, Acked(l, run, since)
    PROVE  Acked(m, run, since)
<1>1. PICK i \in DOMAIN l : since <= i /\ Standing(l, run, i) /\ run.review \subseteq l[i].acknowledged
  BY DEF Acked
<1>2. i \in DOMAIN m /\ i \in Nat /\ m[i] = l[i] /\ \A j \in 1..i : m[j] = l[j]
  BY GrowsKeeps
<1>3. Standing(m, run, i)
  BY <1>1, <1>2 DEF Standing
<1> QED BY <1>1, <1>2, <1>3 DEF Acked

LEMMA SettledKept ==
    ASSUME NEW l, NEW m, Grows(l, m), NEW run, Settled(l, run)
    PROVE  Settled(m, run)
BY GrowsKeeps DEF Settled

\* What a thread knows is not undone by what the others append and write.
LEMMA FactsKept ==
    ASSUME NEW x, NEW l, NEW m, Grows(l, m), NEW f, NEW g, Kept(f, g), x.since \in Nat, Facts(x, l, f)
    PROVE  Facts(x, m, g)
<1>1. x.since <= Len(m)
  BY GrowsKeeps DEF Facts
<1>2. Decided(l, x.run, x.since) => Decided(m, x.run, x.since)
  BY DecidedKept
<1>3. Acked(l, x.run, x.since) => Acked(m, x.run, x.since)
  BY AckedKept
<1>4. Settled(l, x.run) => Settled(m, x.run)
  BY SettledKept
<1> QED BY <1>1, <1>2, <1>3, <1>4 DEF Facts, Kept

-----------------------------------------------------------------------------
(* What is read from the log, and what is built from it *)

\* Highest is the greatest member: of a set of positions there is always one.
LEMMA HighestIsMember ==
    ASSUME NEW n \in Nat, NEW s \in SUBSET (1..n), s # {}
    PROVE  Highest(s) \in s
<1> DEFINE below == {i \in 1..n : \E j \in s : i <= j}
           up == [i \in below |-> i + 1]
<1>1. IsFiniteSet(below)
  <2>1. IsFiniteSet(1..n)
    BY FS_Interval
  <2> QED BY <2>1, FS_Subset
<1>2. \E i \in s : \A j \in s : j <= i
  <2>1. SUFFICES ASSUME \A i \in s : \E j \in s : i < j
                 PROVE  FALSE
    OBVIOUS
  <2>2. ASSUME NEW i \in below
        PROVE  i + 1 \in below
    <3>1. PICK j \in s : i <= j
      OBVIOUS
    <3>2. PICK k \in s : j < k
      BY <2>1
    <3>3. i \in Nat /\ j \in Nat /\ k \in 1..n /\ i + 1 <= k /\ i + 1 \in 1..n
      BY <3>1, <3>2
    <3> QED BY <3>3
  <2>3. up \in [below -> below]
    BY <2>2
  <2>4. \A i, j \in below : up[i] = up[j] => i = j
    OBVIOUS
  <2>5. up \in Injection(below, below)
    BY <2>3, <2>4, Fun_IsInj
  <2>6. up \in Surjection(below, below)
    BY <1>1, <2>5, FS_Injection
  <2>7. 1 \in below
    <3>1. PICK j \in s : TRUE
      OBVIOUS
    <3>2. j \in 1..n
      OBVIOUS
    <3> QED BY <3>2
  <2>8. \A j \in below : \E i \in below : up[i] = j
    <3> HIDE DEF up, below
    <3> QED BY <2>6, Fun_SurjectionProperties
  <2>9. PICK i \in below : up[i] = 1
    BY <2>7, <2>8
  <2> QED BY <2>9
<1> QED BY <1>2 DEF Highest

\* A value that counts comes from a row of the log or from the run.
LEMMA ReviewedTyped ==
    ASSUME log \in Seq(Row), LogWell, NEW run \in Run
    PROVE  Reviewed(run) \in Value
<1>1. \A e \in Edit : e.value.operations \in SUBSET Kind /\ e.value.tiv_building \in Tiv
  BY SendGateAssumption DEF Value
<1>2. run.value.operations \in SUBSET Kind /\ run.value.tiv_building \in Tiv
  BY SendGateAssumption DEF SavedRun, Value
<1>3. ASSUME NEW s \in SUBSET (Rows("edit") \union Rows("resolve")), s # {}
      PROVE  log[Highest(s)].edit \in Edit
  <2>1. s \in SUBSET (1..Len(log)) /\ Len(log) \in Nat
    BY <1>3 DEF Rows
  <2>2. Highest(s) \in s
    BY <2>1, <1>3, HighestIsMember
  <2>3. Well(log[Highest(s)]) /\ log[Highest(s)].action \in {"edit", "resolve"}
    BY <2>2, <1>3 DEF LogWell, Rows
  <2> QED BY <2>3 DEF Well
<1>4. \A field : EditsOf(field) \subseteq Rows("edit") /\ ResolutionsOf(run, field) \subseteq Rows("resolve")
  BY DEF EditsOf, ResolutionsOf
<1>5. /\ Resolved(run).operations \in SUBSET Kind
      /\ Resolved(run).tiv_building \in Tiv
  BY <1>1, <1>2, <1>3, <1>4 DEF Resolved
<1>6. /\ Reviewed(run).operations \in SUBSET Kind
      /\ Reviewed(run).tiv_building \in Tiv
  BY <1>1, <1>3, <1>4, <1>5 DEF Reviewed
<1>7. Reviewed(run) = [operations |-> Reviewed(run).operations, tiv_building |-> Reviewed(run).tiv_building]
  BY DEF Reviewed
<1> QED BY <1>6, <1>7 DEF Value

\* W1 of the carrier match: a file that is placed, overridden or confirmed names no prohibited operation.
LEMMA PlacedIsClean ==
    ASSUME NEW f, f.ops # {}, Placed(f) \/ Overridden(f)
    PROVE  ClassText(f) \intersect Prohibited = {}
<1>1. RouteOf(f) \in Carrier \/ Match(f).overridable
  BY DEF Placed, Overridden
<1>2. ~f.manual /\ ~ProhibitedClass(f) /\ ~(Barred(f) /\ Food(f))
  BY <1>1 DEF RouteOf, Match, MatchGated, Out, Carrier
<1>3. "prohibited" \notin ClassText(f) /\ ~Barred(f)
  BY <1>2 DEF ProhibitedClass
<1> QED BY <1>3 DEF Barred, Prohibited, BarWord

-----------------------------------------------------------------------------
(* One step: the log *)

LEMMA LogStep ==
    ASSUME Inv, Next
    PROVE  Grows(log, log') /\ LogWell' /\ ApproveAfterDeclineHasReason'
<1> USE DEF Inv, TypeOK
<1>1. log' = log \/ LogEdit \/ LogDecline \/ \E t \in Thread : AppendRow(t)
  BY DEF Next, Desk, Decide, SendStep, Receive, Extract, ConfirmMarket, Restart, Approve, Resolve, Begin, StartSend,
         CheckScope, CheckDecision, CheckReview, CheckResend, Gate, ChooseName, Build, Write, LogSend, LogFails
<1>2. ASSUME NEW row, Well(row), log' = Append(log, row),
             row.action = "approve" => row.reason \/ Rows("decline") = {}
      PROVE  Grows(log, log') /\ LogWell' /\ ApproveAfterDeclineHasReason'
  <2>1. row \in Row
    BY <1>2 DEF Well
  <2>2. Grows(log, log')
    BY <1>2, <2>1 DEF Grows
  <2>3. \A i \in DOMAIN log' : i \in DOMAIN log \/ log'[i] = row
    BY <1>2, <2>1
  <2>4. LogWell'
    BY <1>2, <2>2, <2>3, GrowsKeeps DEF LogWell
  <2>5. ASSUME NEW i \in DOMAIN log', NEW j \in DOMAIN log', i < j, log'[i].action = "decline", log'[j].action = "approve"
        PROVE  log'[j].reason
    <3>1. i \in DOMAIN log /\ log'[i] = log[i]
      BY <1>2, <2>1, <2>2, <2>5
    <3>2. CASE j \in DOMAIN log
      BY <3>1, <3>2, <2>2, <2>5, GrowsKeeps DEF ApproveAfterDeclineHasReason
    <3>3. CASE log'[j] = row
      BY <3>1, <3>3, <2>5, <1>2 DEF Rows
    <3> QED BY <3>2, <3>3, <2>3
  <2> QED BY <2>2, <2>4, <2>5 DEF ApproveAfterDeclineHasReason
<1>3. CASE log' = log
  BY <1>3 DEF Grows, LogWell, ApproveAfterDeclineHasReason
<1>4. CASE LogEdit
  <2>1. PICK e \in Edit : log' = Append(log, [action |-> "edit", run |-> None, reason |-> TRUE,
                                              acknowledged |-> {}, edit |-> e])
    BY <1>4 DEF LogEdit
  <2>2. Well([action |-> "edit", run |-> None, reason |-> TRUE, acknowledged |-> {}, edit |-> e])
    BY DEF Well, Row
  <2> QED BY <1>2, <2>1, <2>2
<1>5. CASE LogDecline
  <2>1. Well([action |-> "decline", run |-> None, reason |-> TRUE, acknowledged |-> {}, edit |-> None])
    BY DEF Well, Row
  <2> QED BY <1>2, <1>5, <2>1 DEF LogDecline
<1>6. CASE \E t \in Thread : AppendRow(t)
  <2>1. PICK t \in Thread : AppendRow(t)
    BY <1>6
  <2> DEFINE row == [th[t].row EXCEPT !.reason = @ /\ Rows("decline") # {}]
  <2>2. Well(th[t].row)
    BY <2>1 DEF AppendRow, ThreadsWell, Facts
  <2>3. CASE NeedsReason(th[t].row)
    BY <1>3, <2>1, <2>3 DEF AppendRow
  <2>4. CASE ~NeedsReason(th[t].row)
    <3>1. log' = Append(log, row)
      BY <2>1, <2>4 DEF AppendRow
    <3>2. Well(row)
      BY <2>2 DEF Well, Row
    <3>3. row.action = th[t].row.action /\ row.reason = (th[t].row.reason /\ Rows("decline") # {})
      BY <2>2 DEF Well, Row
    <3>4. row.action = "approve" => row.reason \/ Rows("decline") = {}
      BY <2>4, <3>3 DEF NeedsReason
    <3> HIDE DEF row
    <3> QED BY <1>2, <3>1, <3>2, <3>4
  <2> QED BY <2>3, <2>4
<1> QED BY <1>1, <1>3, <1>4, <1>5, <1>6

-----------------------------------------------------------------------------
(* One step: the packages and the log of sends *)

\* W1: what build_package makes of the saved run is well formed and names no prohibited operation.
LEMMA BodyIsClean ==
    ASSUME Inv, Complete, NEW named \in Market \union {NoCarrier}, Buildable(named)
    PROVE  Body(named) \in Package /\ Clean(Body(named))
<1> DEFINE f == ReviewedFile(saved)
<1>1. saved \in Run /\ Reviewed(saved) \in Value /\ Reviewed(saved).operations # {}
  BY ReviewedTyped DEF Inv, TypeOK, Complete, Filled
<1>2. f.ops # {} /\ ClassText(f) = Reviewed(saved).operations \union saved.cited \union saved.line
  BY <1>1 DEF ReviewedFile, FileOf, Operations, ClassText
<1>3. Placed(f) \/ Overridden(f) \/ Confirmed(f)
  BY DEF Buildable
<1>4. ClassText(f) \intersect Prohibited = {}
  <2>1. CASE Placed(f) \/ Overridden(f)
    <3> HIDE DEF f
    <3> QED BY <1>2, <2>1, PlacedIsClean
  <2>2. CASE Confirmed(f)
    BY <2>2 DEF Confirmed, Confirmable
  <2> QED BY <1>3, <2>1, <2>2
<1>5. ASSUME NEW carrier \in Carrier
      PROVE  PackageFor(carrier) \in Package /\ Clean(PackageFor(carrier))
  BY <1>1, <1>2, <1>4 DEF PackageFor, Package, Clean
<1>6. CASE named # NoCarrier
  BY <1>5, <1>6, SendGateAssumption DEF Body
<1>7. CASE named = NoCarrier /\ Placed(f)
  BY <1>5, <1>7 DEF Body, Placed
<1>8. CASE named = NoCarrier /\ ~Placed(f)
  <2>1. confirms \in Seq(Confirm)
    BY DEF Inv, TypeOK
  <2>2. ConfirmsOf(saved) # {} /\ ConfirmsOf(saved) \in SUBSET (1..Len(confirms)) /\ Len(confirms) \in Nat
    BY <1>8, <2>1 DEF Buildable, Confirmed, ConfirmsOf
  <2>3. Highest(ConfirmsOf(saved)) \in 1..Len(confirms)
    BY <2>2, HighestIsMember
  <2>4. \A i \in 1..Len(confirms) : confirms[i].carrier \in Carrier
    <3>1. \A i \in 1..Len(confirms) : confirms[i] \in Confirm
      BY <2>1
    <3>2. \A c \in Confirm : c.carrier \in Carrier
      BY DEF Confirm
    <3> QED BY <3>1, <3>2
  <2>5. confirms[Highest(ConfirmsOf(saved))].carrier \in Carrier
    BY <2>3, <2>4
  <2>6. Body(named) = PackageFor(confirms[Highest(ConfirmsOf(saved))].carrier)
    BY <1>8 DEF Body
  <2> HIDE DEF f
  <2> QED BY <1>5, <2>5, <2>6
<1> QED BY <1>6, <1>7, <1>8

LEMMA PackageStep ==
    ASSUME Inv, Next
    PROVE  files' \in [Names -> Package \union {None}] /\ Kept(files, files') /\ PackagesWell'
<1> USE DEF Inv, TypeOK
<1>1. files' = files \/ \E t \in Thread : Write(t)
  BY DEF Next, Desk, Decide, SendStep, Receive, Extract, ConfirmMarket, Restart, LogEdit, LogDecline, Approve, Resolve,
         Begin, AppendRow, StartSend, CheckScope, CheckDecision, CheckReview, CheckResend, Gate, ChooseName, Build,
         LogSend, LogFails
<1>2. CASE files' = files
  BY <1>2 DEF Kept, PackagesWell, NoGap, Stored, Existing
<1>3. ASSUME NEW t \in Thread, Write(t)
      PROVE  files' \in [Names -> Package \union {None}] /\ Kept(files, files') /\ PackagesWell'
  <2> DEFINE n == th[t].name
             p == th[t].package
  <2>1. n \in Names /\ p \in Package /\ Clean(p) /\ (n = 1 \/ n - 1 \in Stored(files))
    BY <1>3 DEF Write, ThreadsWell, Facts, Named
  <2>2. files' = [files EXCEPT ![n] = p]
    BY <1>3 DEF Write
  <2>3. p # None
    BY <2>1, SendGateAssumption
  <2> HIDE DEF n, p
  <2>4. files' \in [Names -> Package \union {None}]
    BY <2>1, <2>2
  <2>5. Stored(files') = Stored(files) \union {n}
    BY <2>1, <2>2, <2>3 DEF Stored
  <2>6. NoGap(files')
    <3>1. PICK k \in 0..MaxFiles : Stored(files) = 1..k
      BY DEF NoGap, PackagesWell
    <3>2. k \in Nat /\ n \in Nat /\ n <= MaxFiles /\ MaxFiles \in Nat /\ n <= k + 1 /\ 1 <= n
      BY <2>1, <3>1, SendGateAssumption DEF Names
    <3>3. CASE n <= k
      BY <2>5, <3>1, <3>2, <3>3 DEF NoGap
    <3>4. CASE n = k + 1
      <4>1. Stored(files') = 1..(k + 1) /\ k + 1 \in 0..MaxFiles
        BY <2>5, <3>1, <3>2, <3>4
      <4> QED BY <4>1 DEF NoGap
    <3> QED BY <3>2, <3>3, <3>4
  <2>7. \A m \in Stored(files') : Clean(files'[m])
    BY <2>1, <2>2, <2>5 DEF PackagesWell, Existing, Stored
  <2> QED BY <2>4, <2>5, <2>6, <2>7 DEF Kept, PackagesWell, Existing, Stored
<1> QED BY <1>1, <1>2, <1>3

LEMMA SendLogStep ==
    ASSUME Inv, Next
    PROVE  sends' \subseteq Send /\ SendsWell'
<1> USE DEF Inv, TypeOK
<1>1. sends' = sends \/ \E t \in Thread : LogSend(t)
  BY DEF Next, Desk, Decide, SendStep, Receive, Extract, ConfirmMarket, Restart, LogEdit, LogDecline, Approve, Resolve,
         Begin, AppendRow, StartSend, CheckScope, CheckDecision, CheckReview, CheckResend, Gate, ChooseName, Build,
         Write, LogFails
<1>2. \A s \in sends : Acked(log', s.run, 0) /\ Settled(log', s.run)
  BY LogStep, AckedKept, SettledKept DEF SendsWell
<1>3. CASE sends' = sends
  BY <1>2, <1>3 DEF SendsWell
<1>4. ASSUME NEW t \in Thread, LogSend(t)
      PROVE  sends' \subseteq Send /\ SendsWell'
  <2> DEFINE s == [run |-> th[t].run, name |-> th[t].name]
  <2>1. th[t].pc = "log" /\ sends' = sends \union {s} /\ log' = log
    BY <1>4 DEF LogSend
  <2>2. th[t].run \in Run /\ Acked(log, th[t].run, th[t].since) /\ Settled(log, th[t].run)
    BY <2>1 DEF ThreadsWell, Facts, Past
  <2>3. Acked(log, th[t].run, 0)
    BY <2>2 DEF Acked
  <2>4. s \in Send
    BY <2>2 DEF Send
  <2> QED BY <1>2, <2>1, <2>2, <2>3, <2>4 DEF SendsWell
<1> QED BY <1>1, <1>3, <1>4

-----------------------------------------------------------------------------
(* One step: the threads *)

ThreadState == [pc: {"idle", "append", "scope", "decision", "review", "resend", "name", "build", "write", "log"},
                run: Run \union {None}, row: Row \union {None},
                manager: BOOLEAN, resend: BOOLEAN, since: Nat,
                seen: SUBSET Names, name: Names, package: Package \union {None}]

LEMMA IdleKnowsNothing ==
    ASSUME NEW l \in Seq(Row), NEW f
    PROVE  Idle \in ThreadState /\ Facts(Idle, l, f)
BY SendGateAssumption DEF Idle, ThreadState, Facts, Past, Named, Names

\* Only the thread that takes the step has to be looked at.
LEMMA OneThread ==
    ASSUME Inv, Next, NEW t \in Thread, NEW y \in ThreadState, th' = [th EXCEPT ![t] = y], Facts(y, log', files')
    PROVE  th' \in [Thread -> ThreadState] /\ ThreadsWell'
<1>1. th \in [Thread -> ThreadState]
  BY DEF Inv, TypeOK, ThreadState
<1>2. \A u \in Thread : th[u].since \in Nat
  BY <1>1 DEF ThreadState
<1>3. Grows(log, log') /\ Kept(files, files')
  BY LogStep, PackageStep
<1>4. \A u \in Thread : Facts(th[u], log', files')
  BY <1>2, <1>3, FactsKept DEF Inv, ThreadsWell
<1>5. \A u \in Thread : th'[u] = IF u = t THEN y ELSE th[u]
  BY <1>1
<1>6. ThreadsWell'
  BY <1>4, <1>5 DEF ThreadsWell
<1> QED BY <1>1, <1>6

\* A thread that answers, or that no step touches.
LEMMA Answered ==
    ASSUME Inv, Next, NEW t \in Thread, Answer(t) \/ UNCHANGED th
    PROVE  th' \in [Thread -> ThreadState] /\ ThreadsWell'
<1>1. log' \in Seq(Row)
  BY LogStep DEF Grows
<1>2. CASE Answer(t)
  BY <1>1, <1>2, IdleKnowsNothing, OneThread DEF Answer
<1>3. CASE UNCHANGED th
  <2>1. th[t] \in ThreadState /\ th' = [th EXCEPT ![t] = th[t]]
    BY <1>3 DEF Inv, TypeOK, ThreadState
  <2>2. th[t].since \in Nat
    BY <2>1 DEF ThreadState
  <2>3. Facts(th[t], log', files')
    BY <2>2, LogStep, PackageStep, FactsKept DEF Inv, ThreadsWell
  <2> QED BY <2>1, <2>3, OneThread
<1> QED BY <1>2, <1>3

LEMMA ThreadStep ==
    ASSUME Inv, Next
    PROVE  th' \in [Thread -> ThreadState] /\ ThreadsWell'
<1>1. th \in [Thread -> ThreadState] /\ saved \in Run \union {None} /\ log \in Seq(Row) /\ Len(log) \in Nat
  BY DEF Inv, TypeOK, ThreadState
<1>2. /\ \A t \in Thread : Facts(th[t], log, files)
      /\ Grows(log, log') /\ Len(log) \in Nat /\ Len(log') \in Nat /\ Len(log) <= Len(log')
      /\ Kept(files, files')
  BY LogStep, PackageStep, GrowsKeeps DEF Inv, ThreadsWell
<1>3. CASE Desk
  <2>1. CASE Thread = {}
    <3>1. th' \in [Thread -> ThreadState]
      BY <1>1, <1>3, <2>1 DEF Desk, Receive, Extract, LogEdit, LogDecline, ConfirmMarket, Restart
    <3> QED BY <2>1, <3>1 DEF ThreadsWell
  <2>2. CASE Restart
    <3>1. \A l \in Seq(Row) : \A f : Idle \in ThreadState /\ Facts(Idle, l, f)
      BY IdleKnowsNothing
    <3> QED BY <1>1, <2>2, <3>1 DEF Restart, ThreadsWell
  <2>3. CASE Thread # {} /\ ~Restart
    <3>1. PICK t \in Thread : TRUE
      BY <2>3
    <3>2. UNCHANGED th
      BY <1>3, <2>3 DEF Desk, Receive, Extract, LogEdit, LogDecline, ConfirmMarket
    <3> QED BY <3>1, <3>2, Answered
  <2> QED BY <2>1, <2>2, <2>3
<1>4. ASSUME NEW t \in Thread, Decide(t)
      PROVE  th' \in [Thread -> ThreadState] /\ ThreadsWell'
  <2>1. ASSUME NEW row, Well(row), Begin(t, row)
        PROVE  th' \in [Thread -> ThreadState] /\ ThreadsWell'
    <3> DEFINE y == [th[t] EXCEPT !.pc = "append", !.row = row]
    <3>1. y \in ThreadState /\ th' = [th EXCEPT ![t] = y]
      BY <1>1, <2>1 DEF Begin, ThreadState, Well
    <3>2. log' = log /\ files' = files
      BY <2>1 DEF Begin
    <3>3. Facts(y, log, files)
      BY <1>1, <1>2, <2>1 DEF Facts, ThreadState, Past, Named
    <3> HIDE DEF y
    <3> QED BY <3>1, <3>2, <3>3, OneThread
  <2>2. CASE Approve(t)
    <3>1. saved \in Run /\ saved.review \in SUBSET Field
      BY <1>1, <2>2, SendGateAssumption DEF Approve, SavedRun
    <3>2. PICK reason \in BOOLEAN :
             Begin(t, [action |-> "approve", run |-> saved, reason |-> reason, acknowledged |-> saved.review, edit |-> None])
      BY <2>2 DEF Approve
    <3>3. Well([action |-> "approve", run |-> saved, reason |-> reason, acknowledged |-> saved.review, edit |-> None])
      BY <3>1 DEF Well, Row
    <3> QED BY <2>1, <3>2, <3>3
  <2>3. CASE Resolve(t)
    <3>1. PICK e \in Edit :
             Begin(t, [action |-> "resolve", run |-> saved, reason |-> FALSE, acknowledged |-> {}, edit |-> e])
      BY <2>3 DEF Resolve
    <3>2. Well([action |-> "resolve", run |-> saved, reason |-> FALSE, acknowledged |-> {}, edit |-> e])
      BY <1>1 DEF Well, Row
    <3> QED BY <2>1, <3>1, <3>2
  <2>4. CASE AppendRow(t)
    BY <2>4, Answered DEF AppendRow
  <2> QED BY <1>4, <2>2, <2>3, <2>4 DEF Decide
<1>5. ASSUME NEW t \in Thread, SendStep(t)
      PROVE  th' \in [Thread -> ThreadState] /\ ThreadsWell'
  <2> DEFINE x == th[t]
  <2>1. x \in ThreadState /\ Facts(x, log, files)
    BY <1>1, <1>2
  <2>2. ASSUME Answer(t) \/ UNCHANGED th
        PROVE  th' \in [Thread -> ThreadState] /\ ThreadsWell'
    BY <2>2, Answered
  \* It is enough that the thread's new state is well formed and knows what it must of the log and the packages as they were.
  <2>3. ASSUME NEW y \in ThreadState, th' = [th EXCEPT ![t] = y], Facts(y, log, files)
        PROVE  th' \in [Thread -> ThreadState] /\ ThreadsWell'
    <3>1. y.since \in Nat
      BY DEF ThreadState
    <3>2. Facts(y, log', files')
      BY <1>2, <2>3, <3>1, FactsKept
    <3> QED BY <2>3, <3>2, OneThread
  <2>4. CASE StartSend(t)
    <3> DEFINE y == [x EXCEPT !.pc = "scope", !.run = saved, !.since = Len(log), !.seen = Existing]
    <3>1. saved \in Run
      BY <1>1, <2>4 DEF StartSend
    <3>2. y \in ThreadState /\ th' = [th EXCEPT ![t] = y]
      BY <1>1, <2>4 DEF StartSend, ThreadState, Existing
    <3>3. Facts(y, log, files)
      BY <1>1, <2>1, <3>1 DEF Facts, ThreadState, Past, Named, Existing, Stored
    <3> HIDE DEF y
    <3> QED BY <2>3, <3>2, <3>3
  <2>5. CASE CheckScope(t)
    <3> DEFINE y == [x EXCEPT !.pc = "decision"]
    <3>1. CASE th' = [th EXCEPT ![t] = y]
      <4>1. x.pc = "scope"
        BY <2>5 DEF CheckScope, Gate
      <4>2. y \in ThreadState /\ Facts(y, log, files)
        BY <2>1, <4>1 DEF Facts, ThreadState, Past, Named
      <4> HIDE DEF y
      <4> QED BY <2>3, <3>1, <4>2
    <3> QED BY <1>1, <2>2, <2>5, <3>1 DEF CheckScope, Gate, Go
  <2>6. CASE CheckDecision(t)
    <3>1. PICK manager \in BOOLEAN :
             IF Approved(x.run) /\ (manager => AgencyReady)
             THEN th' = [th EXCEPT ![t].pc = "review", ![t].manager = manager] ELSE Answer(t)
      BY <2>6 DEF CheckDecision
    <3>2. CASE Approved(x.run) /\ th' = [th EXCEPT ![t].pc = "review", ![t].manager = manager]
      <4> DEFINE y == [x EXCEPT !.pc = "review", !.manager = manager]
      <4>1. Decided(log, x.run, x.since)
        <5>1. Len(log) \in DOMAIN log
          BY <1>1, <3>2 DEF Approved
        <5>2. Standing(log, x.run, Len(log))
          BY <1>1, <3>2 DEF Standing, Approved, Last, Rows
        <5>3. x.since <= Len(log)
          BY <2>1 DEF Facts
        <5> QED BY <5>1, <5>2, <5>3 DEF Decided
      <4>2. x.pc = "decision"
        BY <2>6 DEF CheckDecision
      <4>3. y \in ThreadState /\ th' = [th EXCEPT ![t] = y]
        BY <1>1, <3>2 DEF ThreadState
      <4>4. Facts(y, log, files)
        BY <2>1, <4>1, <4>2 DEF Facts, ThreadState, Past, Named
      <4> HIDE DEF y
      <4> QED BY <2>3, <4>3, <4>4
    <3> QED BY <2>2, <3>1, <3>2
  <2>7. CASE CheckReview(t)
    <3> DEFINE y == [x EXCEPT !.pc = "resend"]
    <3>1. CASE Acknowledged(x.run) /\ OpenConflicts(x.run) = {} /\ th' = [th EXCEPT ![t] = y]
      <4>1. x.pc = "review" /\ Decided(log, x.run, x.since) /\ x.since <= Len(log)
        BY <2>1, <2>7 DEF CheckReview, Gate, Facts
      <4>2. Acked(log, x.run, x.since)
        <5>1. CASE x.run.review = {}
          BY <4>1, <5>1 DEF Decided, Acked
        <5>2. CASE x.run.review # {}
          <6>1. log # <<>> /\ Last.run = x.run /\ x.run.review \subseteq Last.acknowledged
            BY <3>1, <5>2 DEF Acknowledged
          <6>2. Len(log) \in DOMAIN log /\ Last.action = "approve"
            BY <1>1, <5>2, <6>1 DEF Last, Inv, LogWell, Well
          <6>3. Last.reason \/ \A j \in 1..Len(log) : log[j].action # "decline"
            BY <1>1, <6>2 DEF Inv, ApproveAfterDeclineHasReason, Last
          <6> QED BY <4>1, <6>1, <6>2, <6>3 DEF Acked, Standing, Last
        <5> QED BY <5>1, <5>2
      <4>3. Settled(log, x.run)
        BY <3>1 DEF Settled, OpenConflicts, ResolutionsOf, Rows
      <4>4. y \in ThreadState /\ Facts(y, log, files)
        BY <2>1, <4>1, <4>2, <4>3 DEF Facts, ThreadState, Past, Named
      <4> HIDE DEF y
      <4> QED BY <2>3, <3>1, <4>4
    <3> QED BY <1>1, <2>2, <2>7, <3>1 DEF CheckReview, Gate, Go
  <2>8. CASE CheckResend(t)
    <3>1. PICK resend \in BOOLEAN :
             IF ResendAllowed(resend) THEN th' = [th EXCEPT ![t].pc = "name", ![t].resend = resend] ELSE Answer(t)
      BY <2>8 DEF CheckResend
    <3>2. CASE ResendAllowed(resend) /\ th' = [th EXCEPT ![t].pc = "name", ![t].resend = resend]
      <4> DEFINE y == [x EXCEPT !.pc = "name", !.resend = resend]
      <4>1. x.pc = "resend" /\ Acked(log, x.run, x.since) /\ Settled(log, x.run) /\ x.seen \subseteq Stored(files)
        BY <2>1, <2>8 DEF CheckResend, Facts, Past
      <4>2. x.seen # {} => resend
        <5>1. PICK k \in 0..MaxFiles : Stored(files) = 1..k
          BY DEF Inv, PackagesWell, NoGap
        <5>2. x.seen # {} => 1 \in Stored(files)
          BY <4>1, <5>1
        <5> QED BY <3>2, <5>2 DEF ResendAllowed, Stored
      <4>3. y \in ThreadState /\ th' = [th EXCEPT ![t] = y]
        BY <1>1, <3>2 DEF ThreadState
      <4>4. Facts(y, log, files)
        BY <2>1, <4>1, <4>2 DEF Facts, ThreadState, Past, Named
      <4> HIDE DEF y
      <4> QED BY <2>3, <4>3, <4>4
    <3> QED BY <2>2, <3>1, <3>2
  <2>9. CASE ChooseName(t)
    <3> DEFINE n == IF files[1] = None THEN 1 ELSE NextName
               y == [x EXCEPT !.pc = "build", !.name = n]
    <3>1. x.pc = "name" /\ Acked(log, x.run, x.since) /\ Settled(log, x.run) /\ x.seen \subseteq Stored(files)
          /\ (x.seen # {} => x.resend) /\ th' = [th EXCEPT ![t].pc = "build", ![t].name = n]
      BY <2>1, <2>9 DEF ChooseName, Facts, Past
    <3>2. n \in Names /\ n \notin Stored(files) /\ (n = 1 \/ n - 1 \in Stored(files))
      <4>1. PICK k \in 0..MaxFiles : Stored(files) = 1..k
        BY DEF Inv, PackagesWell, NoGap
      <4>2. Existing = 1..k /\ k \in Nat /\ MaxFiles \in Nat \ {0}
        BY <4>1, SendGateAssumption DEF Existing, Stored
      <4>3. Cardinality(1..k) = k
        BY <4>2, FS_Interval
      <4>4. k < MaxFiles /\ (files[1] # None => NextName = k + 1)
        BY <2>9, <4>2, <4>3 DEF ChooseName, NextName
      <4>5. files[1] = None <=> 1 \notin Stored(files)
        BY <4>2 DEF Stored, Names
      <4> QED BY <4>1, <4>2, <4>4, <4>5 DEF Names
    <3> HIDE DEF n
    <3>3. y \in ThreadState /\ th' = [th EXCEPT ![t] = y]
      BY <1>1, <3>1, <3>2 DEF ThreadState
    <3>4. Facts(y, log, files)
      BY <2>1, <3>1, <3>2 DEF Facts, ThreadState, Past, Named
    <3> HIDE DEF y
    <3> QED BY <2>3, <3>3, <3>4
  <2>10. CASE Build(t)
    <3>1. PICK named \in Market \union {NoCarrier} :
             IF Complete /\ Buildable(named)
             THEN th' = [th EXCEPT ![t].pc = "write", ![t].package = Body(named), ![t].manager = FALSE]
             ELSE Answer(t)
      BY <2>10 DEF Build
    <3>2. CASE Complete /\ Buildable(named)
      <4> DEFINE p == Body(named)
                 y == [x EXCEPT !.pc = "write", !.package = p, !.manager = FALSE]
      <4>1. p \in Package /\ Clean(p)
        BY <3>2, BodyIsClean
      <4>2. x.pc = "build" /\ th' = [th EXCEPT ![t].pc = "write", ![t].package = p, ![t].manager = FALSE]
        BY <2>10, <3>1, <3>2 DEF Build
      <4> HIDE DEF p
      <4>3. y \in ThreadState /\ th' = [th EXCEPT ![t] = y]
        BY <1>1, <4>1, <4>2 DEF ThreadState
      <4>4. Facts(y, log, files)
        BY <2>1, <4>1, <4>2 DEF Facts, ThreadState, Past, Named
      <4> HIDE DEF y
      <4> QED BY <2>3, <4>3, <4>4
    <3> QED BY <2>2, <3>1, <3>2
  <2>11. CASE Write(t)
    <3> DEFINE y == [x EXCEPT !.pc = "log", !.package = None, !.resend = FALSE, !.seen = {}]
    <3>1. x.pc = "write"
      BY <2>11 DEF Write
    <3>2. y \in ThreadState /\ th' = [th EXCEPT ![t] = y]
      BY <1>1, <2>11 DEF Write, ThreadState
    <3>3. Facts(y, log, files)
      BY <2>1, <3>1 DEF Facts, ThreadState, Past, Named
    <3> HIDE DEF y
    <3> QED BY <2>3, <3>2, <3>3
  <2>12. CASE LogSend(t) \/ LogFails(t)
    BY <2>2, <2>12 DEF LogSend, LogFails
  <2> QED BY <1>5, <2>4, <2>5, <2>6, <2>7, <2>8, <2>9, <2>10, <2>11, <2>12 DEF SendStep
<1> QED BY <1>3, <1>4, <1>5 DEF Next

-----------------------------------------------------------------------------

LEMMA RestTyped ==
    ASSUME Inv, Next
    PROVE  inbox' \in Docs /\ saved' \in Run \union {None} /\ confirms' \in Seq(Confirm)
<1>1. inbox' \in Docs
  BY DEF Inv, TypeOK, Next, Desk, Decide, SendStep, Receive, Extract, ConfirmMarket, Restart, LogEdit, LogDecline,
         Approve, Resolve, Begin, AppendRow, StartSend, CheckScope, CheckDecision, CheckReview, CheckResend, Gate,
         ChooseName, Build, Write, LogSend, LogFails
<1>2. saved' \in Run \union {None}
  BY DEF Inv, TypeOK, Next, Desk, Decide, SendStep, Receive, Extract, ConfirmMarket, Restart, LogEdit, LogDecline,
         Approve, Resolve, Begin, AppendRow, StartSend, CheckScope, CheckDecision, CheckReview, CheckResend, Gate,
         ChooseName, Build, Write, LogSend, LogFails
<1>3. CASE ConfirmMarket
  <2>1. saved \in Run /\ Reviewed(saved) \in Value
    BY <1>3, ReviewedTyped DEF Inv, TypeOK, ConfirmMarket
  <2>2. PICK c \in Market : confirms' = Append(confirms, [run |-> saved, value |-> Reviewed(saved), carrier |-> c])
    BY <1>3 DEF ConfirmMarket
  <2>3. [run |-> saved, value |-> Reviewed(saved), carrier |-> c] \in Confirm
    BY <2>1, SendGateAssumption DEF Confirm
  <2>4. confirms' \in Seq(Confirm)
    <3> HIDE DEF Confirm
    <3> QED BY <2>2, <2>3 DEF Inv, TypeOK
  <2> QED BY <1>1, <1>2, <2>4
<1>4. CASE ~ConfirmMarket
  <2>1. confirms' = confirms
    BY <1>4 DEF Next, Desk, Decide, SendStep, Receive, Extract, Restart, LogEdit, LogDecline, Approve, Resolve,
         Begin, AppendRow, StartSend, CheckScope, CheckDecision, CheckReview, CheckResend, Gate, ChooseName, Build,
         Write, LogSend, LogFails
  <2> QED BY <1>1, <1>2, <2>1 DEF Inv, TypeOK
<1> QED BY <1>3, <1>4

LEMMA InitInv == Init => Inv
<1> SUFFICES ASSUME Init PROVE Inv
  OBVIOUS
<1>1. log \in Seq(Row) /\ DOMAIN log = {} /\ confirms \in Seq(Confirm)
  BY DEF Init
<1>2. \A t \in Thread : th[t] = Idle /\ Idle \in ThreadState /\ Facts(Idle, log, files)
  BY <1>1, IdleKnowsNothing DEF Init
<1>3. th \in [Thread -> ThreadState] /\ ThreadsWell
  BY <1>2 DEF Init, ThreadsWell
<1>4. files \in [Names -> Package \union {None}] /\ Stored(files) = {} /\ Existing = {}
  BY DEF Init, Stored, Existing
<1>5. PackagesWell
  <2>1. 0 \in 0..MaxFiles /\ 1..0 = {}
    BY SendGateAssumption
  <2> QED BY <1>4, <2>1 DEF PackagesWell, NoGap
<1>6. inbox \in Docs /\ saved \in Run \union {None} /\ sends \subseteq Send /\ SendsWell
  BY DEF Init, SendsWell
<1>7. LogWell /\ ApproveAfterDeclineHasReason
  BY <1>1 DEF LogWell, ApproveAfterDeclineHasReason
<1>8. TypeOK
  BY <1>1, <1>3, <1>4, <1>6 DEF TypeOK, ThreadState
<1> QED BY <1>3, <1>5, <1>6, <1>7, <1>8 DEF Inv

LEMMA StepInv == Inv /\ [Next]_vars => Inv'
<1> SUFFICES ASSUME Inv, [Next]_vars PROVE Inv'
  OBVIOUS
<1>1. CASE Next
  <2>1. TypeOK'
    BY <1>1, LogStep, PackageStep, SendLogStep, ThreadStep, RestTyped DEF TypeOK, ThreadState, Grows
  <2> QED BY <1>1, <2>1, LogStep, PackageStep, SendLogStep, ThreadStep DEF Inv
<1>2. CASE UNCHANGED vars
  BY <1>2 DEF vars, Inv, TypeOK, LogWell, ApproveAfterDeclineHasReason, Rows, PackagesWell, Existing, SendsWell, ThreadsWell
<1> QED BY <1>1, <1>2

\* The log, the packages and what each thread carries from gate to gate agree in every reachable state.
THEOREM Invariance == Spec => []Inv
BY InitInv, StepInv, PTL DEF Spec

\* Every stored row, package and thread is one the program can write.
THEOREM TypeCorrect == Spec => []TypeOK
<1>1. Inv => TypeOK
  BY DEF Inv
<1> QED BY <1>1, Invariance, PTL

\* D-053, P-026: what is sent, and what is about to be, has an approve of its very run that no decision replaced
\* before the request came in.
THEOREM SendsWereApprovedHolds == Spec => []SendsWereApproved
<1>1. Inv => SendsWereApproved
  <2> SUFFICES ASSUME Inv PROVE SendsWereApproved
    OBVIOUS
  <2>1. \A run, since : Acked(log, run, since) => ApprovedSince(run, since)
    BY DEF Acked, Standing, ApprovedSince, StandingApprove
  <2>2. \A t \in Thread : Past(th[t].pc) => Acked(log, th[t].run, th[t].since)
    BY DEF Inv, ThreadsWell, Facts
  <2> QED BY <2>1, <2>2 DEF SendsWereApproved, Inv, SendsWell
<1> QED BY <1>1, Invariance, PTL

\* B-324: no run was sent with a conflict that nobody resolved on that run.
THEOREM ConflictsWereResolvedHolds == Spec => []ConflictsWereResolved
<1>1. Inv => ConflictsWereResolved
  BY DEF Inv, SendsWell, Settled, ConflictsWereResolved, Rows
<1> QED BY <1>1, Invariance, PTL

\* D-053: whatever threads append, an approve that follows a decline has its reason.
THEOREM ApproveAfterDeclineHolds == Spec => []ApproveAfterDeclineHasReason
<1>1. Inv => ApproveAfterDeclineHasReason
  BY DEF Inv
<1> QED BY <1>1, Invariance, PTL

\* W1: no package names a prohibited operation to a carrier.
THEOREM NothingProhibitedSentHolds == Spec => []NothingProhibitedSent
<1>1. Inv => NothingProhibitedSent
  BY DEF Inv, PackagesWell, Clean, NothingProhibitedSent
<1> QED BY <1>1, Invariance, PTL

\* B-233, B-247: a later request never writes over an earlier package, nor another without a reason.
THEOREM ResendIsExplicitHolds == Spec => []ResendIsExplicit
<1>1. Inv => ResendIsExplicit
  BY DEF Inv, ThreadsWell, Facts, Named, ResendIsExplicit
<1> QED BY <1>1, Invariance, PTL
=============================================================================
