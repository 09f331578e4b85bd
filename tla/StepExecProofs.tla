--------------------------- MODULE StepExecProofs ---------------------------
(***************************************************************************)
(* The safety of a step, for any scenario step, any set of nodes and any   *)
(* bounds.  StepInd has four parts that are inductive one after another:   *)
(* where runStep is, the books of its verdicts, the tips an attempt has    *)
(* read and the attempts begun after an abort.  The two action properties  *)
(* follow from it in every step that can write a verdict.                  *)
(***************************************************************************)
EXTENDS StepExec, FiniteSetTheorems, SequenceTheorems, TLAPS

------------------------------------------------------------------------------
(* Verdicts *)

\* The verdicts that fail the step, and those that are findings.
HardOf(s, r) == {i \in DOMAIN r : ~r[i] /\ ~s.assert[i].should}
SoftOf(s, r) == {i \in DOMAIN r : ~r[i] /\ s.assert[i].should}

\* Where runStep is.
Place ==
  /\ pc = "action" => at = 0
  /\ pc \notin {"action", "done"} => at <= Len(step.assert)
  /\ pc = "window" => Current.check = "no_event"
  /\ pc \in {"check", "sleep"} => Current.check # "no_event"

\* While the step runs it has a verdict for each assertion behind it, none of
\* them hard; at its end the last may be.
Books ==
  /\ findings = Cardinality(SoftOf(step, results))
  /\ pc # "done" =>
       /\ status = "running" /\ HardOf(step, results) = {}
       /\ Len(results) = IF at = 0 THEN 0 ELSE at - 1
  /\ pc = "done" =>
       /\ HardOf(step, results) \subseteq {Len(results)}
       /\ \/ status = "passed" /\ HardOf(step, results) = {} /\ Len(results) = Len(step.assert)
          \/ status = "failed" /\ (results = <<>> \/ HardOf(step, results) # {})

\* A tip that was read lies between what it was when the attempt began and what
\* it is now.
Reading ==
  /\ base \in [Nodes -> Nat]
  /\ \A n \in Nodes : base[n] <= tip[n]
  /\ pc = "check" =>
       /\ Len(read) <= Len(Reads)
       /\ \A i \in 1..Len(read) : read[i] \in base[Reads[i]]..tip[Reads[i]]

\* Only an attempt that began before the abort is followed by another one.
Prompt ==
  /\ late \in {0, 1}
  /\ ctx # "aborted" => late = 0
  /\ pc = "sleep" => late = 0

StepInd == StepTypeOK /\ Place /\ Books /\ Reading /\ Prompt

\* One more verdict.
LEMMA OneMore ==
  ASSUME NEW s \in StepDef, NEW r \in Seq(BOOLEAN), NEW ok \in BOOLEAN,
         Len(r) < Len(s.assert)
  PROVE  /\ Append(r, ok) \in Seq(BOOLEAN) /\ Len(Append(r, ok)) = Len(r) + 1
         /\ Last(Append(r, ok)) = ok /\ Append(r, ok) # r
         /\ s.assert[Len(r) + 1].should \in BOOLEAN
         /\ HardOf(s, Append(r, ok)) =
              HardOf(s, r) \cup (IF ok \/ s.assert[Len(r) + 1].should THEN {} ELSE {Len(r) + 1})
         /\ Cardinality(SoftOf(s, Append(r, ok))) =
              Cardinality(SoftOf(s, r)) + (IF ~ok /\ s.assert[Len(r) + 1].should THEN 1 ELSE 0)
         /\ Cardinality(SoftOf(s, Append(r, ok))) \in 0..Len(r) + 1
<1> DEFINE q == Append(r, ok)
           k == Len(r) + 1
<1>1. q \in Seq(BOOLEAN) /\ Len(q) = k /\ q[k] = ok /\ \A i \in 1..Len(r) : q[i] = r[i]
  BY AppendProperties
<1>2. Len(r) \in Nat /\ k \in Nat /\ k \in 1..k /\ k \notin 1..Len(r) /\ 1..k = 1..Len(r) \cup {k}
  BY LenProperties
<1>3. DOMAIN r = 1..Len(r) /\ DOMAIN q = 1..k
  BY <1>1, LenProperties
<1>4. k \in DOMAIN s.assert /\ s.assert[k].should \in BOOLEAN
  <2>1. s.assert \in Seq(Assertion) /\ Len(s.assert) \in Nat
    BY LenProperties DEF StepDef
  <2>2. k \in 1..Len(s.assert)
    BY <1>2, <2>1
  <2>3. s.assert[k] \in Assertion
    BY <2>1, <2>2, ElementOfSeq
  <2> QED BY <2>1, <2>2, <2>3, LenProperties DEF Assertion
<1>5. Last(q) = ok /\ q # r
  BY <1>1, <1>2 DEF Last
<1> HIDE DEF q, k
<1>6. HardOf(s, q) = HardOf(s, r) \cup (IF ok \/ s.assert[k].should THEN {} ELSE {k})
  <2>1. \A i : i \in HardOf(s, q) <=>
                 i \in HardOf(s, r) \/ (i = k /\ ~ok /\ ~s.assert[k].should)
    BY <1>1, <1>2, <1>3 DEF HardOf
  <2> QED BY <2>1
<1>7. SoftOf(s, q) = IF ~ok /\ s.assert[k].should THEN SoftOf(s, r) \cup {k} ELSE SoftOf(s, r)
  <2>1. \A i : i \in SoftOf(s, q) <=>
                 i \in SoftOf(s, r) \/ (i = k /\ ~ok /\ s.assert[k].should)
    BY <1>1, <1>2, <1>3 DEF SoftOf
  <2> QED BY <2>1
<1>8. IsFiniteSet(SoftOf(s, r)) /\ k \notin SoftOf(s, r) /\ Cardinality(SoftOf(s, r)) \in Nat
      /\ Cardinality(SoftOf(s, r)) <= Len(r)
  <2>1. IsFiniteSet(1..Len(r)) /\ Cardinality(1..Len(r)) = Len(r)
    <3>1. Len(r) \in Int /\ 1 \in Int /\ Len(r) = IF 1 > Len(r) THEN 0 ELSE Len(r) - 1 + 1
      BY LenProperties
    <3> QED BY <3>1, FS_Interval
  <2>2. SoftOf(s, r) \subseteq 1..Len(r)
    BY <1>3 DEF SoftOf
  <2> QED BY <1>2, <2>1, <2>2, FS_Subset, FS_CardinalityType
<1>9. Cardinality(SoftOf(s, q)) =
        Cardinality(SoftOf(s, r)) + (IF ~ok /\ s.assert[k].should THEN 1 ELSE 0)
  <2>1. CASE ~ok /\ s.assert[k].should
    <3>1. SoftOf(s, q) = SoftOf(s, r) \cup {k}
      BY <1>7, <2>1
    <3>2. Cardinality(SoftOf(s, q)) = Cardinality(SoftOf(s, r)) + 1
      BY <1>8, <3>1, FS_AddElement
    <3> QED BY <2>1, <3>2
  <2>2. CASE ~(~ok /\ s.assert[k].should)
    <3>1. SoftOf(s, q) = SoftOf(s, r)
      BY <1>7, <2>2
    <3> QED BY <1>8, <2>2, <3>1
  <2> QED BY <2>1, <2>2
<1>10. Cardinality(SoftOf(s, q)) \in 0..k
  BY <1>2, <1>8, <1>9 DEF k
<1> QED BY <1>1, <1>4, <1>5, <1>6, <1>9, <1>10 DEF q, k

\* The findings of the verdicts so far.
LEMMA SoftCount ==
  ASSUME NEW s, NEW r \in Seq(BOOLEAN)
  PROVE  Cardinality(SoftOf(s, r)) \in 0..Len(r)
<1>1. Len(r) \in Nat /\ DOMAIN r = 1..Len(r)
  BY LenProperties
<1>2. IsFiniteSet(1..Len(r)) /\ Cardinality(1..Len(r)) = Len(r)
  BY <1>1, FS_Interval
<1>3. SoftOf(s, r) \subseteq 1..Len(r)
  BY <1>1 DEF SoftOf
<1>4. IsFiniteSet(SoftOf(s, r)) /\ Cardinality(SoftOf(s, r)) <= Len(r)
  BY <1>1, <1>2, <1>3, FS_Subset
<1>5. Cardinality(SoftOf(s, r)) \in Nat
  BY <1>4, FS_CardinalityType
<1> QED BY <1>1, <1>4, <1>5

\* The assertion in hand.
LEMMA CurrentType ==
  ASSUME StepTypeOK, Place, pc \notin {"action", "done"}
  PROVE  /\ Current \in Assertion /\ at \in Nat /\ at <= Len(step.assert)
         /\ Len(step.assert) \in Nat /\ step \in StepDef
<1>1. step \in StepDef
  BY StepAssumption DEF StepTypeOK
<1>2. step.assert \in Seq(Assertion) /\ step.on \in Assertion /\ Len(step.assert) \in Nat
  BY <1>1, LenProperties DEF StepDef
<1>3. at \in Nat /\ at <= Len(step.assert)
  BY <1>2 DEF StepTypeOK, Place
<1>4. CASE at = 0
  BY <1>1, <1>2, <1>3, <1>4 DEF Current
<1>5. CASE at # 0
  <2>1. at \in 1..Len(step.assert)
    BY <1>2, <1>3, <1>5
  <2>2. step.assert[at] \in Assertion
    BY <1>2, <2>1, ElementOfSeq
  <2> QED BY <1>1, <1>2, <1>3, <1>5, <2>2 DEF Current
<1> QED BY <1>4, <1>5

LEMMA StepIndImplies == StepInd => StepInv /\ AbortIsPrompt
<1> SUFFICES ASSUME StepInd PROVE StepInv /\ AbortIsPrompt
  OBVIOUS
<1>1. StepTypeOK /\ Books /\ late \in {0, 1}
  BY DEF StepInd, Prompt
<1>2. results \in Seq(BOOLEAN) /\ Len(results) \in Nat
  BY <1>1, LenProperties DEF StepTypeOK
<1> DEFINE failed == {i \in DOMAIN results : ~results[i]}
           hard == {i \in failed : ~step.assert[i].should}
<1>3. hard = HardOf(step, results)
  BY DEF HardOf
<1>4. failed \ hard = SoftOf(step, results)
  BY DEF SoftOf
<1>5. findings = Cardinality(failed \ hard)
  BY <1>1, <1>4 DEF Books
<1>6. hard \subseteq {Len(results)}
  BY <1>1, <1>3 DEF Books
<1>7. (status = "passed" => hard = {} /\ Len(results) = Len(step.assert))
      /\ (status = "failed" => results = <<>> \/ hard # {})
  BY <1>1, <1>3 DEF Books
<1> HIDE DEF failed, hard
<1>8. OutcomeIsVerdicts
  BY <1>5, <1>6, <1>7 DEF OutcomeIsVerdicts, failed, hard
<1> QED BY <1>1, <1>8 DEF StepInv, AbortIsPrompt

LEMMA StepInit == Init => StepInd
<1> SUFFICES ASSUME Init PROVE StepInd
  OBVIOUS
<1>1. /\ tip = [n \in Nodes |-> 0] /\ up = Nodes /\ log \in {<<>>, <<TRUE>>} /\ ctx = "live"
      /\ step \in Steps /\ pc = "action" /\ at = 0 /\ start = Len(log) /\ mark = 0 /\ left = 0
      /\ read = <<>> /\ results = <<>> /\ findings = 0 /\ status = "running"
      /\ base = tip /\ late = 0
  BY DEF Init
<1>2. MaxTip \in Nat /\ Window \in Nat /\ step \in StepDef
  BY <1>1, StepAssumption
<1>3. log \in Seq(BOOLEAN) /\ Len(log) \in Nat
  <2>1. <<>> \in Seq(BOOLEAN) /\ TRUE \in BOOLEAN
    OBVIOUS
  <2>2. Append(<<>>, TRUE) \in Seq(BOOLEAN)
    BY <2>1, AppendProperties
  <2>3. <<TRUE>> = Append(<<>>, TRUE)
    OBVIOUS
  <2>4. log \in Seq(BOOLEAN)
    BY <1>1, <2>1, <2>2, <2>3
  <2> QED BY <2>4, LenProperties
<1>4. Len(step.assert) \in Nat
  BY <1>2, LenProperties DEF StepDef
<1>5. results \in Seq(BOOLEAN) /\ read \in Seq(0..MaxTip) /\ Len(results) = 0
  BY <1>1
<1>6. tip \in [Nodes -> 0..MaxTip] /\ base \in [Nodes -> Nat] /\ \A n \in Nodes : base[n] <= tip[n]
  BY <1>1, <1>2
<1>7. StepTypeOK
  BY <1>1, <1>2, <1>3, <1>4, <1>5, <1>6 DEF StepTypeOK
<1>8. SoftOf(step, results) = {} /\ HardOf(step, results) = {}
  BY <1>1 DEF SoftOf, HardOf
<1>9. Books
  BY <1>1, <1>5, <1>8, FS_EmptySet DEF Books
<1> QED BY <1>1, <1>6, <1>7, <1>9 DEF StepInd, Place, Reading, Prompt

------------------------------------------------------------------------------
(* Steps *)

\* A step that leaves the network alone and hands over to the next assertion, or
\* ends.
LEMMA StepOn ==
  ASSUME StepInd, UNCHANGED <<tip, up, ctx, step, start, left, read, base, late>>,
         log' \in Seq(BOOLEAN), Len(log) <= Len(log'), mark' \in 0..Len(log'),
         pc' \in {"prepare", "done"}, at' \in 0..Len(step.assert) + 1,
         pc' = "prepare" => at' <= Len(step.assert),
         results' \in Seq(BOOLEAN), Len(results') <= Len(step.assert),
         status' \in {"running", "passed", "failed"}, Books'
  PROVE  StepInd'
<1>1. StepTypeOK /\ Reading /\ Prompt
  BY DEF StepInd
<1>2. findings' \in 0..Len(results')
  BY SoftCount DEF Books
<1>3. start' \in 0..Len(log')
  <2>1. Len(log) \in Nat /\ Len(log') \in Nat /\ start \in 0..Len(log)
    BY <1>1, LenProperties DEF StepTypeOK
  <2> QED BY <2>1
<1>4. StepTypeOK'
  BY <1>1, <1>2, <1>3 DEF StepTypeOK
<1>5. Place'
  BY DEF Place
<1>6. Reading' /\ Prompt'
  BY <1>1 DEF Reading, Prompt
<1> QED BY <1>4, <1>5, <1>6 DEF StepInd

LEMMA StepVerdict ==
  ASSUME StepInd, pc \in {"prepare", "check", "window"}, NEW ok \in BOOLEAN, Verdict(ok),
         UNCHANGED <<tip, up, log, ctx, step, start, mark, left, read, base, late>>
  PROVE  StepInd'
<1>1. StepTypeOK /\ Place /\ Books
  BY DEF StepInd
<1>2. /\ Current \in Assertion /\ at \in Nat /\ at <= Len(step.assert)
      /\ Len(step.assert) \in Nat /\ step \in StepDef
  BY <1>1, CurrentType
<1>3. /\ status = "running" /\ HardOf(step, results) = {}
      /\ findings = Cardinality(SoftOf(step, results))
      /\ Len(results) = IF at = 0 THEN 0 ELSE at - 1
  BY <1>1 DEF Books
<1>4. log' \in Seq(BOOLEAN) /\ Len(log) <= Len(log') /\ mark' \in 0..Len(log')
      /\ results \in Seq(BOOLEAN) /\ Len(results) \in Nat
  BY <1>1, LenProperties DEF StepTypeOK
<1>5. CASE at = 0
  <2>1. results' = results /\ findings' = findings
    BY <1>5 DEF Verdict
  <2>2. Len(results') = 0 /\ results' = <<>>
    BY <1>3, <1>4, <1>5, <2>1, EmptySeq
  <2>3. CASE ok /\ at' = 1 /\ 0 = Len(step.assert) /\ status' = "passed" /\ pc' = "done"
    <3>1. Books'
      BY <1>3, <2>1, <2>2, <2>3 DEF Books
    <3>2. at' \in 0..Len(step.assert) + 1 /\ Len(results') <= Len(step.assert)
      BY <1>2, <2>2, <2>3
    <3> QED BY <1>4, <2>1, <2>3, <3>1, <3>2, StepOn
  <2>4. CASE ok /\ at' = 1 /\ 0 # Len(step.assert) /\ status' = status /\ pc' = "prepare"
    <3>1. Books'
      BY <1>3, <2>1, <2>2, <2>4 DEF Books
    <3>2. at' \in 0..Len(step.assert) + 1 /\ Len(results') <= Len(step.assert)
          /\ at' <= Len(step.assert)
      BY <1>2, <2>2, <2>4
    <3> QED BY <1>3, <1>4, <2>1, <2>4, <3>1, <3>2, StepOn
  <2>5. CASE at' = at /\ status' = "failed" /\ pc' = "done"
    <3>1. Books'
      BY <1>3, <2>1, <2>2, <2>5 DEF Books
    <3>2. at' \in 0..Len(step.assert) + 1 /\ Len(results') <= Len(step.assert)
      BY <1>2, <1>5, <2>2, <2>5
    <3> QED BY <1>4, <2>1, <2>5, <3>1, <3>2, StepOn
  <2> QED BY <1>5, <2>3, <2>4, <2>5 DEF Verdict, NextAssert, End
<1>6. CASE at # 0
  <2> DEFINE soft == step.assert[at].should
  <2>1. Current = step.assert[at] /\ at > 0 /\ Len(results) + 1 = at
        /\ Len(results) < Len(step.assert)
    BY <1>2, <1>3, <1>6 DEF Current
  <2>2. results' = Append(results, ok)
        /\ findings' = IF ~ok /\ soft THEN findings + 1 ELSE findings
    BY <1>6, <2>1 DEF Verdict
  <2>3. /\ results' \in Seq(BOOLEAN) /\ Len(results') = at /\ soft \in BOOLEAN
        /\ HardOf(step, results') =
             HardOf(step, results) \cup (IF ok \/ soft THEN {} ELSE {at})
        /\ Cardinality(SoftOf(step, results')) =
             Cardinality(SoftOf(step, results)) + (IF ~ok /\ soft THEN 1 ELSE 0)
    BY <1>2, <1>4, <2>1, <2>2, OneMore
  <2>4. Cardinality(SoftOf(step, results)) \in Nat
    BY <1>4, SoftCount
  <2>5. findings' = Cardinality(SoftOf(step, results'))
    BY <1>3, <2>2, <2>3, <2>4
  <2>6. Len(results') <= Len(step.assert) /\ Len(results') # 0
    BY <1>2, <1>6, <2>3
  <2>7. IF ok \/ soft THEN NextAssert ELSE End("failed") /\ UNCHANGED at
    BY <2>1 DEF Verdict
  <2> HIDE DEF soft
  <2>8. CASE /\ ok \/ soft
             /\ at' = at + 1 /\ at = Len(step.assert) /\ status' = "passed" /\ pc' = "done"
    <3>1. HardOf(step, results') = {}
      BY <1>3, <2>3, <2>8
    <3>2. Books'
      BY <2>3, <2>5, <2>8, <3>1 DEF Books
    <3>3. at' \in 0..Len(step.assert) + 1
      BY <1>2, <2>8
    <3> QED BY <1>4, <2>3, <2>6, <2>8, <3>2, <3>3, StepOn
  <2>9. CASE /\ ok \/ soft
             /\ at' = at + 1 /\ at # Len(step.assert) /\ status' = status /\ pc' = "prepare"
    <3>1. HardOf(step, results') = {}
      BY <1>3, <2>3, <2>9
    <3>2. at' # 0 /\ Len(results') = at' - 1
      BY <1>2, <2>3, <2>9
    <3>3. Books'
      BY <1>3, <2>5, <2>9, <3>1, <3>2 DEF Books
    <3>4. at' \in 0..Len(step.assert) + 1 /\ at' <= Len(step.assert)
      BY <1>2, <2>9
    <3> QED BY <1>3, <1>4, <2>3, <2>6, <2>9, <3>3, <3>4, StepOn
  <2>10. CASE ~(ok \/ soft) /\ at' = at /\ status' = "failed" /\ pc' = "done"
    <3>1. HardOf(step, results') = {at}
      BY <1>3, <2>3, <2>10
    <3>2. Books'
      BY <2>3, <2>5, <2>10, <3>1 DEF Books
    <3>3. at' \in 0..Len(step.assert) + 1
      BY <1>2, <2>10
    <3> QED BY <1>4, <2>3, <2>6, <2>10, <3>2, <3>3, StepOn
  <2> QED BY <2>7, <2>8, <2>9, <2>10 DEF NextAssert, End
<1> QED BY <1>5, <1>6

\* A failed attempt waits for another one, if the run goes on.
LEMMA StepAfterFailure ==
  ASSUME StepInd, pc = "check", AfterFailure,
         UNCHANGED <<tip, up, log, ctx, step, start, mark, left, read, base, late>>
  PROVE  StepInd'
<1>1. StepTypeOK /\ Place /\ Books /\ Reading /\ Prompt
  BY DEF StepInd
<1>2. CASE Verdict(FALSE)
  BY <1>2, StepVerdict
<1>3. CASE ~Done /\ pc' = "sleep" /\ UNCHANGED <<at, results, findings, status>>
  <2>1. StepTypeOK'
    BY <1>1, <1>3 DEF StepTypeOK
  <2>2. ctx # "aborted"
    BY <1>3 DEF Done
  <2>3. Current' = Current
    BY <1>3 DEF Current
  <2>4. Place'
    BY <1>1, <1>3, <2>3 DEF Place
  <2>5. Books' /\ Reading' /\ Prompt'
    BY <1>1, <1>3, <2>2 DEF Books, Reading, Prompt
  <2> QED BY <2>1, <2>4, <2>5 DEF StepInd
<1> QED BY <1>2, <1>3 DEF AfterFailure, book

\* Events are added at the end of the log.
LEMMA StepPublish ==
  ASSUME StepTypeOK, NEW b \in BOOLEAN, Publish(b)
  PROVE  log' \in Seq(BOOLEAN) /\ Len(log) <= Len(log') /\ Len(log) \in Nat /\ Len(log') \in Nat
<1>1. log \in Seq(BOOLEAN) /\ log' = Append(log, b)
  BY DEF StepTypeOK, Publish
<1>2. log' \in Seq(BOOLEAN) /\ Len(log') = Len(log) + 1 /\ Len(log) \in Nat
  BY <1>1, AppendProperties, LenProperties
<1> QED BY <1>2

\* A node that mines.
LEMMA StepMined ==
  ASSUME StepTypeOK, base \in [Nodes -> Nat], \A n \in Nodes : base[n] <= tip[n],
         NEW m \in Nodes, tip[m] < MaxTip, tip' = [tip EXCEPT ![m] = @ + 1]
  PROVE  /\ tip' \in [Nodes -> 0..MaxTip]
         /\ \A n \in Nodes : tip[n] <= tip'[n] /\ base[n] <= tip'[n]
<1>1. MaxTip \in Nat /\ tip \in [Nodes -> 0..MaxTip]
  BY StepAssumption DEF StepTypeOK
<1>2. \A n \in Nodes : tip[n] \in Nat /\ base[n] \in Nat
  BY <1>1
<1>3. tip[m] + 1 \in 0..MaxTip
  BY <1>1, <1>2
<1>4. tip' \in [Nodes -> 0..MaxTip] /\ tip'[m] = tip[m] + 1
      /\ \A n \in Nodes : n # m => tip'[n] = tip[n]
  BY <1>1, <1>3
<1> QED BY <1>2, <1>4

LEMMA StepNetwork == ASSUME StepInd, Network PROVE StepInd'
<1>1. StepTypeOK /\ Place /\ Books /\ Reading /\ Prompt
  BY DEF StepInd
<1>2. UNCHANGED <<step, pc, at, start, mark, want, left, read, results, findings, status, base,
                  late>>
  BY DEF Network, book
<1>3. base \in [Nodes -> Nat] /\ \A n \in Nodes : base[n] <= tip[n]
  BY <1>1 DEF Reading
<1>4. log \in Seq(BOOLEAN) /\ Len(log) \in Nat /\ start \in 0..Len(log) /\ mark \in 0..Len(log)
      /\ tip \in [Nodes -> 0..MaxTip]
  BY <1>1, LenProperties DEF StepTypeOK
<1>5. MaxTip \in Nat
  BY StepAssumption
<1>6. /\ tip' \in [Nodes -> 0..MaxTip]
      /\ \A n \in Nodes : tip[n] <= tip'[n] /\ base[n] <= tip'[n]
  <2>1. CASE tip' = tip
    <3>1. \A n \in Nodes : tip[n] \in Nat
      BY <1>4, <1>5
    <3> QED BY <1>3, <1>4, <2>1, <3>1
  <2>2. CASE \E m \in Nodes : tip[m] < MaxTip /\ tip' = [tip EXCEPT ![m] = @ + 1]
    BY <1>1, <1>3, <2>2, StepMined
  <2> QED BY <2>1, <2>2 DEF Network
<1>7. log' \in Seq(BOOLEAN) /\ start \in 0..Len(log') /\ mark \in 0..Len(log')
  <2>1. CASE log' = log
    BY <1>4, <2>1
  <2>2. CASE \E b \in BOOLEAN : Publish(b)
    BY <1>1, <1>4, <2>2, StepPublish
  <2> QED BY <2>1, <2>2 DEF Network
<1>8. up' \subseteq Nodes /\ ctx' \in {"live", "expired", "aborted"}
      /\ (ctx' # "aborted" => ctx # "aborted")
  BY <1>1 DEF Network, StepTypeOK
<1>9. StepTypeOK'
  BY <1>1, <1>2, <1>6, <1>7, <1>8 DEF StepTypeOK
<1>10. Current' = Current
  BY <1>2 DEF Current
<1>11. Place' /\ Books' /\ Prompt'
  BY <1>1, <1>2, <1>8, <1>10 DEF Place, Books, Prompt
<1>12. Reading'
  <2>1. ASSUME pc = "check"
        PROVE  /\ Len(read) <= Len(Reads)
               /\ \A i \in 1..Len(read) : read[i] \in base[Reads[i]]..tip'[Reads[i]]
    <3>1. Len(read) <= Len(Reads) /\ Len(read) \in Nat /\ Reads \in Seq(Nodes)
          /\ \A i \in 1..Len(read) : read[i] \in base[Reads[i]]..tip[Reads[i]]
      <4>1. Current \in Assertion
        BY <1>1, <2>1, CurrentType
      <4> QED BY <1>1, <2>1, <4>1, LenProperties DEF Reading, StepTypeOK, Reads, Assertion
    <3>2. ASSUME NEW i \in 1..Len(read) PROVE read[i] \in base[Reads[i]]..tip'[Reads[i]]
      <4>1. i \in 1..Len(Reads)
        BY <3>1, LenProperties
      <4>2. Reads[i] \in Nodes
        BY <3>1, <4>1, ElementOfSeq
      <4> DEFINE n == Reads[i]
      <4>3. base[n] \in Nat /\ tip[n] \in Nat /\ tip'[n] \in Nat /\ tip[n] <= tip'[n]
        BY <1>3, <1>4, <1>5, <1>6, <4>2
      <4>4. read[i] \in base[n]..tip[n]
        BY <3>1
      <4> HIDE DEF n
      <4>5. read[i] \in base[n]..tip'[n]
        BY <4>3, <4>4
      <4> QED BY <4>5 DEF n
    <3> QED BY <3>1, <3>2
  <2>2. Reads' = Reads
    BY <1>10 DEF Reads
  <2> QED BY <1>2, <1>3, <1>6, <2>1, <2>2 DEF Reading
<1> QED BY <1>9, <1>11, <1>12 DEF StepInd

LEMMA StepTick == ASSUME StepInd, Tick PROVE StepInd'
<1>1. StepTypeOK
  BY DEF StepInd
<1>2. UNCHANGED <<tip, up, log, ctx, step, pc, at, start, mark, read, results, findings, status,
                  base, late>>
  BY DEF Tick, world, book
<1>3. left' \in 0..Window
  <2>1. left \in 0..Window /\ left > 0 /\ left' = left - 1 /\ Window \in Nat
    BY <1>1, StepAssumption DEF StepTypeOK, Tick
  <2> QED BY <2>1
<1>4. StepTypeOK'
  BY <1>1, <1>2, <1>3 DEF StepTypeOK
<1>5. Current' = Current /\ Reads' = Reads
  BY <1>2 DEF Current, Reads
<1> QED BY <1>2, <1>4, <1>5 DEF StepInd, Place, Books, Reading, Prompt

\* The action, and a wait in its place.
LEMMA StepAction == ASSUME StepInd, ActionFails \/ WaitFor PROVE StepInd'
<1>1. StepTypeOK /\ Place /\ Books /\ pc = "action" /\ at = 0
  BY DEF StepInd, ActionFails, WaitFor, Place
<1>2. UNCHANGED <<tip, up, log, ctx, step, at, start, mark, left, read, results, findings, base,
                  late>>
  BY DEF ActionFails, WaitFor, world, book
<1>3. step \in StepDef /\ Len(step.assert) \in Nat
  <2>1. step \in StepDef
    BY <1>1, StepAssumption DEF StepTypeOK
  <2> QED BY <2>1, LenProperties DEF StepDef
<1>4. results \in Seq(BOOLEAN) /\ Len(results) = 0 /\ results = <<>>
  BY <1>1, EmptySeq DEF StepTypeOK, Books
<1>5. \/ pc' = "prepare" /\ status' = status
      \/ pc' = "done" /\ status' = "failed"
  BY DEF ActionFails, WaitFor, End, book
<1>6. Books'
  BY <1>1, <1>2, <1>4, <1>5 DEF Books
<1>7. at' \in 0..Len(step.assert) + 1 /\ at' <= Len(step.assert) /\ Len(results') <= Len(step.assert)
  BY <1>1, <1>2, <1>3, <1>4
<1>8. log' \in Seq(BOOLEAN) /\ Len(log) <= Len(log') /\ mark' \in 0..Len(log')
  BY <1>1, <1>2, LenProperties DEF StepTypeOK
<1> QED BY <1>1, <1>2, <1>4, <1>5, <1>6, <1>7, <1>8, StepOn DEF Books

LEMMA StepAct == ASSUME StepInd, Act PROVE StepInd'
<1>1. StepTypeOK /\ Place /\ Books /\ Reading /\ Prompt /\ pc = "action" /\ at = 0
  BY DEF StepInd, Act, Place
<1>2. UNCHANGED <<up, ctx, step, start, left, read, results, findings, base, late>>
  BY DEF Act
<1>3. step \in StepDef /\ Len(step.assert) \in Nat /\ step.on \in Assertion
  <2>1. step \in StepDef
    BY <1>1, StepAssumption DEF StepTypeOK
  <2> QED BY <2>1, LenProperties DEF StepDef
<1>4. log \in Seq(BOOLEAN) /\ Len(log) \in Nat /\ start \in 0..Len(log) /\ mark \in 0..Len(log)
      /\ results \in Seq(BOOLEAN)
  BY <1>1, LenProperties DEF StepTypeOK
<1>5. results = <<>> /\ Len(results) = 0
  BY <1>1, <1>4, EmptySeq DEF Books
<1>6. /\ at' = 1
      /\ \/ 0 = Len(step.assert) /\ status' = "passed" /\ pc' = "done"
         \/ 0 # Len(step.assert) /\ status' = status /\ pc' = "prepare"
  BY <1>1 DEF Act, NextAssert, End
<1>7. /\ tip' \in [Nodes -> 0..MaxTip] /\ \A n \in Nodes : base[n] <= tip'[n]
      /\ log' \in Seq(BOOLEAN) /\ start \in 0..Len(log') /\ mark' \in 0..Len(log')
  <2>1. CASE UNCHANGED <<tip, log>> /\ mark' \in {mark, Len(log)}
    <3>1. Len(log) \in 0..Len(log)
      BY <1>4
    <3> QED BY <1>1, <1>4, <2>1, <3>1 DEF StepTypeOK, Reading
  <2>2. CASE /\ tip[step.on.base] < MaxTip /\ Publish(TRUE)
             /\ tip' = [tip EXCEPT ![step.on.base] = @ + 1] /\ UNCHANGED mark
    <3>1. step.on.base \in Nodes
      BY <1>3 DEF Assertion
    <3>2. tip' \in [Nodes -> 0..MaxTip] /\ \A n \in Nodes : base[n] <= tip'[n]
      BY <1>1, <2>2, <3>1, StepMined DEF Reading
    <3>3. log' \in Seq(BOOLEAN) /\ Len(log) <= Len(log') /\ Len(log') \in Nat
      BY <1>1, <2>2, StepPublish
    <3> QED BY <1>4, <2>2, <3>2, <3>3
  <2> QED BY <2>1, <2>2 DEF Act
<1>8. Books'
  <2>1. at' # 0 /\ Len(results') = at' - 1
    BY <1>2, <1>5, <1>6
  <2> QED BY <1>1, <1>2, <1>5, <1>6, <2>1 DEF Books
<1>9. StepTypeOK'
  <2>1. at' \in 0..Len(step.assert) + 1 /\ findings' \in 0..Len(results')
        /\ Len(results') <= Len(step.assert)
    BY <1>1, <1>2, <1>3, <1>6 DEF StepTypeOK
  <2>2. status' \in {"running", "passed", "failed"} /\ pc' \in {"prepare", "done"}
    BY <1>1, <1>6 DEF StepTypeOK
  <2> QED BY <1>1, <1>2, <1>7, <2>1, <2>2 DEF StepTypeOK
<1>10. Place'
  <2>1. pc' = "prepare" => at' <= Len(step.assert)
    BY <1>3, <1>6
  <2> QED BY <1>2, <1>6, <2>1 DEF Place
<1>11. Reading' /\ Prompt'
  BY <1>1, <1>2, <1>6, <1>7 DEF Reading, Prompt
<1> QED BY <1>8, <1>9, <1>10, <1>11 DEF StepInd

\* An attempt begins: it has read nothing, and the tips are what they are.
LEMMA StepAttempt ==
  ASSUME StepInd, pc \notin {"action", "done"}, pc' \in {"check", "window"},
         pc' = "window" <=> Current.check = "no_event",
         UNCHANGED <<tip, up, log, ctx, step, at, start, mark, results, findings, status>>,
         read' = <<>>, base' = tip, left' \in 0..Window,
         late' \in {0, 1}, ctx # "aborted" => late' = 0
  PROVE  StepInd'
<1>1. StepTypeOK /\ Place /\ Books
  BY DEF StepInd
<1>2. Current' = Current /\ Reads' = Reads
  BY DEF Current, Reads
<1>3. StepTypeOK'
  BY <1>1, EmptySeq DEF StepTypeOK
<1>4. Place' /\ Books' /\ Prompt'
  BY <1>1, <1>2 DEF Place, Books, Prompt
<1>5. Reading'
  <2>1. base' \in [Nodes -> Nat] /\ \A n \in Nodes : base'[n] <= tip'[n]
    <3>1. MaxTip \in Nat /\ tip \in [Nodes -> 0..MaxTip]
      BY <1>1, StepAssumption DEF StepTypeOK
    <3>2. \A n \in Nodes : tip[n] \in Nat /\ tip[n] <= tip[n]
      BY <3>1
    <3> QED BY <3>1, <3>2
  <2>2. Len(Reads) \in Nat
    <3>1. Current \in Assertion
      BY <1>1, CurrentType
    <3>2. Reads \in Seq(Nodes)
      BY <3>1, EmptySeq DEF Reads, Assertion
    <3> QED BY <3>2, LenProperties
  <2>3. Len(read') = 0 /\ Len(read') <= Len(Reads) /\ 1..Len(read') = {}
    BY <2>2
  <2> QED BY <1>2, <2>1, <2>3 DEF Reading
<1> QED BY <1>3, <1>4, <1>5 DEF StepInd

LEMMA StepPrepare == ASSUME StepInd, Prepare PROVE StepInd'
<1>1. StepTypeOK /\ Prompt /\ pc = "prepare"
  BY DEF StepInd, Prepare
<1>2. UNCHANGED <<tip, up, log, ctx, step, start, mark>>
  BY DEF Prepare, world
<1>3. CASE /\ pc' = IF Current.check = "no_event" THEN "window" ELSE "check"
           /\ left' = Window /\ Attempt(0) /\ UNCHANGED <<at, results, findings, status>>
  <2>1. left' \in 0..Window
    BY <1>3, StepAssumption
  <2>2. read' = <<>> /\ base' = tip /\ late' = IF ctx = "aborted" THEN 0 + 1 ELSE 0
    BY <1>3 DEF Attempt
  <2>3. late' \in {0, 1} /\ (ctx # "aborted" => late' = 0)
    BY <2>2
  <2> QED BY <1>1, <1>2, <1>3, <2>1, <2>2, <2>3, StepAttempt
<1>4. CASE Verdict(FALSE) /\ UNCHANGED <<want, left, read, base, late>>
  BY <1>1, <1>2, <1>4, StepVerdict
<1> QED BY <1>3, <1>4 DEF Prepare, book

LEMMA StepWake == ASSUME StepInd, Wake PROVE StepInd'
<1>1. StepTypeOK /\ Place /\ Prompt /\ pc = "sleep" /\ pc' = "check"
  BY DEF StepInd, Wake
<1>2. UNCHANGED <<tip, up, log, ctx, step, at, start, mark, left, results, findings, status>>
  BY DEF Wake, world, book
<1>3. late = 0
  BY <1>1 DEF Prompt
<1>4. read' = <<>> /\ base' = tip /\ late' = IF ctx = "aborted" THEN late + 1 ELSE late
  BY DEF Wake, Attempt
<1>5. late' \in {0, 1} /\ (ctx # "aborted" => late' = 0)
  BY <1>3, <1>4
<1>6. left' \in 0..Window /\ Current.check # "no_event"
  BY <1>1, <1>2 DEF StepTypeOK, Place
<1> QED BY <1>1, <1>2, <1>4, <1>5, <1>6, StepAttempt

LEMMA StepReadTip == ASSUME StepInd, ReadTip PROVE StepInd'
<1>1. StepTypeOK /\ Place /\ Books /\ Reading /\ Prompt /\ pc = "check" /\ Len(read) < Len(Reads)
  BY DEF StepInd, ReadTip
<1>2. UNCHANGED <<tip, up, log, ctx, step, start, mark, left, base, late>>
  BY DEF ReadTip, world
<1> DEFINE n == Reads[Len(read) + 1]
<1>3. CASE n \in up /\ read' = Append(read, tip[n]) /\ UNCHANGED <<pc, at, results, findings, status>>
  <2>1. Reads \in Seq(Nodes) /\ read \in Seq(0..MaxTip) /\ Len(read) \in Nat /\ Len(Reads) \in Nat
        /\ MaxTip \in Nat
    <3>1. Current \in Assertion
      BY <1>1, CurrentType
    <3>2. Reads \in Seq(Nodes)
      BY <3>1, EmptySeq DEF Reads, Assertion
    <3> QED BY <1>1, <3>2, LenProperties, StepAssumption DEF StepTypeOK
  <2>2. n \in Nodes
    BY <1>1, <2>1, ElementOfSeq
  <2>3. tip[n] \in 0..MaxTip /\ base[n] \in Nat /\ base[n] <= tip[n]
    BY <1>1, <2>2 DEF StepTypeOK, Reading
  <2>4. /\ read' \in Seq(0..MaxTip) /\ Len(read') = Len(read) + 1
        /\ \A i \in 1..Len(read) : read'[i] = read[i]
        /\ read'[Len(read) + 1] = tip[n]
    BY <1>3, <2>1, <2>3, AppendProperties
  <2>5. tip[n] \in base[n]..tip[n]
    BY <2>1, <2>3
  <2>6. Current' = Current /\ Reads' = Reads
    BY <1>2, <1>3 DEF Current, Reads
  <2>7. StepTypeOK'
    BY <1>1, <1>2, <1>3, <2>4 DEF StepTypeOK
  <2>8. Place' /\ Books' /\ Prompt'
    BY <1>1, <1>2, <1>3, <2>6 DEF Place, Books, Prompt
  <2>9. Len(read') <= Len(Reads)
    BY <1>1, <2>1, <2>4
  <2>10. ASSUME NEW i \in 1..Len(read') PROVE read'[i] \in base[Reads[i]]..tip[Reads[i]]
    <3>1. CASE i = Len(read) + 1
      BY <2>4, <2>5, <3>1
    <3>2. CASE i # Len(read) + 1
      <4>1. i \in 1..Len(read)
        BY <2>1, <2>4, <3>2
      <4> QED BY <1>1, <2>4, <4>1 DEF Reading
    <3> QED BY <3>1, <3>2
  <2>11. Reading'
    BY <1>1, <1>2, <2>6, <2>9, <2>10 DEF Reading
  <2> QED BY <2>7, <2>8, <2>11 DEF StepInd
<1>4. CASE AfterFailure /\ UNCHANGED read
  BY <1>1, <1>2, <1>4, StepAfterFailure
<1> QED BY <1>3, <1>4 DEF ReadTip, book

LEMMA StepJudge == ASSUME StepInd, Judge \/ Quiet PROVE StepInd'
<1>1. UNCHANGED <<tip, up, log, ctx, step, start, mark, left, read, base, late>>
  BY DEF Judge, Quiet, world
<1>2. CASE Judge
  <2>1. pc = "check" /\ (Verdict(TRUE) \/ AfterFailure)
    BY <1>2 DEF Judge
  <2> QED BY <1>1, <2>1, StepVerdict, StepAfterFailure
<1>3. CASE Quiet
  <2> DEFINE ok == Count <= Current.n
  <2>1. pc = "window" /\ Verdict(ok)
    BY <1>3 DEF Quiet
  <2>2. ok \in BOOLEAN
    OBVIOUS
  <2> HIDE DEF ok
  <2> QED BY <1>1, <2>1, <2>2, StepVerdict
<1> QED BY <1>2, <1>3

LEMMA StepNext == StepInd /\ [Next]_vars => StepInd'
<1> SUFFICES ASSUME StepInd, [Next]_vars PROVE StepInd'
  OBVIOUS
<1>1. CASE UNCHANGED vars
  <2>1. UNCHANGED <<tip, up, log, ctx, step, pc, at, start, mark, left, read, results, findings,
                    status, base, late>>
    BY <1>1 DEF vars, world, book
  <2>2. Current' = Current /\ Reads' = Reads
    BY <2>1 DEF Current, Reads
  <2> QED BY <2>1, <2>2 DEF StepInd, StepTypeOK, Place, Books, Reading, Prompt
<1>2. CASE Next
  BY <1>2, StepNetwork, StepTick, StepAction, StepAct, StepPrepare, StepReadTip, StepJudge,
     StepWake DEF Next, Execute
<1> QED BY <1>1, <1>2

LEMMA StepInvariant == Spec => []StepInd
BY StepInit, StepNext, PTL DEF Spec

\* The outcome of a step is what its verdicts say, for any step.
THEOREM OutcomeIsRight == Spec => []StepInv
BY StepInvariant, StepIndImplies, PTL

\* After an abort an assertion is attempted once more at most, however long its
\* window and however often it was repeated.
THEOREM AbortEndsWaits == Spec => []AbortIsPrompt
BY StepInvariant, StepIndImplies, PTL

------------------------------------------------------------------------------
(* What a passed assertion says *)

\* A verdict that was added and is good: an assertion has passed.
LEMMA VerdictPassed ==
  ASSUME StepInd, pc \in {"prepare", "check", "window"}, NEW ok \in BOOLEAN, Verdict(ok),
         UNCHANGED step, results' # results, Last(results')
  PROVE  ok /\ at > 0
<1>1. StepTypeOK /\ Place /\ Books
  BY DEF StepInd
<1>2. /\ at \in Nat /\ at <= Len(step.assert) /\ Len(step.assert) \in Nat /\ step \in StepDef
      /\ results \in Seq(BOOLEAN)
  BY <1>1, CurrentType DEF StepTypeOK
<1>3. at # 0 /\ results' = Append(results, ok)
  BY DEF Verdict
<1>4. Len(results) < Len(step.assert)
  <2>1. Len(results) = at - 1
    BY <1>1, <1>3 DEF Books
  <2> QED BY <1>2, <2>1
<1>5. Last(Append(results, ok)) = ok
  BY <1>2, <1>4, OneMore
<1> QED BY <1>2, <1>3, <1>5

\* Only a judgement and the end of a window pass an assertion.
LEMMA Passes ==
  ASSUME StepInd, [Next]_vars, NEW check, JustPassed(check)
  PROVE  /\ at > 0 /\ Current.check = check
         /\ \/ Judge /\ Holds
            \/ Quiet /\ Count <= Current.n
<1>1. results' # results /\ Last(results') /\ Current.check = check
  BY DEF JustPassed
<1>2. CASE UNCHANGED vars \/ Network \/ Tick \/ ActionFails \/ Act \/ WaitFor \/ Wake
  BY <1>1, <1>2 DEF vars, book, Network, Tick, ActionFails, Act, WaitFor, Wake
<1>3. CASE Prepare
  <2>1. pc = "prepare" /\ Verdict(FALSE) /\ UNCHANGED step
    BY <1>1, <1>3 DEF Prepare, book
  <2> QED BY <1>1, <2>1, VerdictPassed
<1>4. ASSUME pc = "check", AfterFailure, UNCHANGED step PROVE FALSE
  <2>1. Verdict(FALSE)
    BY <1>1, <1>4 DEF AfterFailure, book
  <2> QED BY <1>1, <1>4, <2>1, VerdictPassed
<1>5. CASE ReadTip
  BY <1>1, <1>4, <1>5 DEF ReadTip, world, book
<1>6. CASE Judge
  <2>1. pc = "check" /\ UNCHANGED step /\ IF Holds THEN Verdict(TRUE) ELSE AfterFailure
    BY <1>6 DEF Judge
  <2>2. Holds /\ Verdict(TRUE)
    BY <1>4, <2>1
  <2> QED BY <1>1, <1>6, <2>1, <2>2, VerdictPassed
<1>7. CASE Quiet
  <2> DEFINE ok == Count <= Current.n
  <2>1. pc = "window" /\ UNCHANGED step /\ Verdict(ok)
    BY <1>7 DEF Quiet
  <2>2. ok \in BOOLEAN
    OBVIOUS
  <2> HIDE DEF ok
  <2>3. ok /\ at > 0
    BY <1>1, <2>1, <2>2, VerdictPassed
  <2> QED BY <1>1, <1>7, <2>3 DEF ok
<1> QED BY <1>2, <1>3, <1>5, <1>6, <1>7 DEF Next, Execute

LEMMA SameTipStep ==
  ASSUME StepInd, [Next]_vars, JustPassed("same_tip"), NEW i \in DOMAIN Current.nodes
  PROVE  read[1] \in base[Current.nodes[i]]..tip[Current.nodes[i]]
<1>1. StepTypeOK /\ Place /\ Reading /\ Current.check = "same_tip"
  BY Passes DEF StepInd
<1>2. Judge /\ Holds
  <2>1. ~Quiet
    BY <1>1 DEF Quiet, Place
  <2> QED BY <2>1, Passes
<1>3. pc = "check" /\ Len(read) = Len(Reads) /\ Reads = Current.nodes
  BY <1>1, <1>2 DEF Judge, Reads
<1>4. \A k, j \in DOMAIN read : read[k] = read[j]
  BY <1>1, <1>2 DEF Holds
<1>5. Current.nodes \in Seq(Nodes) /\ read \in Seq(0..MaxTip)
  <2>1. Current \in Assertion
    BY <1>1, <1>3, CurrentType
  <2> QED BY <1>1, <2>1 DEF Assertion, StepTypeOK
<1>6. DOMAIN read = 1..Len(read) /\ DOMAIN Current.nodes = 1..Len(read) /\ Len(read) \in Nat
  BY <1>3, <1>5, LenProperties
<1>7. 1 \in DOMAIN read /\ i \in DOMAIN read
  BY <1>6
<1>8. read[1] = read[i]
  BY <1>4, <1>7
<1>9. read[i] \in base[Reads[i]]..tip[Reads[i]]
  BY <1>1, <1>3, <1>6, <1>7 DEF Reading
<1> QED BY <1>3, <1>8, <1>9

\* The tip that nodes are said to agree on is one each of them has been on since
\* the attempt began, for any list of nodes.
THEOREM AgreedTipIsReal == Spec => SameTipIsReal
<1>1. StepInd /\ [Next]_vars =>
        [JustPassed("same_tip") =>
           \A i \in DOMAIN Current.nodes :
             read[1] \in base[Current.nodes[i]]..tip[Current.nodes[i]]]_vars
  BY SameTipStep
<1> QED BY <1>1, StepInvariant, PTL DEF Spec, SameTipIsReal

\* What is left of a log has no more events that match than the log.
LEMMA FewerMatch ==
  ASSUME NEW s \in Seq(BOOLEAN), NEW j \in Nat, NEW k \in Nat, j <= k
  PROVE  /\ Matching(SubSeq(s, k + 1, Len(s))) <= Matching(SubSeq(s, j + 1, Len(s)))
         /\ Matching(SubSeq(s, k + 1, Len(s))) \in Nat
         /\ Matching(SubSeq(s, j + 1, Len(s))) \in Nat
<1> DEFINE M(a) == {i \in 1..(Len(s) - a) : s[a + i]}
<1>1. Len(s) \in Nat
  BY LenProperties
<1>2. ASSUME NEW a \in Nat PROVE Matching(SubSeq(s, a + 1, Len(s))) = Cardinality(M(a))
  <2> DEFINE q == SubSeq(s, a + 1, Len(s))
  <2>1. CASE a + 1 <= Len(s)
    <3>1. /\ a + 1 \in 1..Len(s) + 1 /\ Len(s) \in a..Len(s)
          /\ Len(s) - (a + 1) + 1 = Len(s) - a
      BY <1>1, <2>1
    <3>2. DOMAIN q = 1..(Len(s) - a) /\ \A i \in 1..(Len(s) - a) : q[i] = s[a + i]
      BY <1>1, <2>1
    <3> HIDE DEF q
    <3>3. {i \in DOMAIN q : q[i]} = M(a)
      BY <3>2
    <3> QED BY <3>3 DEF Matching, q
  <2>2. CASE ~(a + 1 <= Len(s))
    <3>1. q = <<>>
      BY <1>1, <2>2
    <3>2. 1..(Len(s) - a) = {}
      BY <1>1, <2>2
    <3>3. {i \in DOMAIN q : q[i]} = {} /\ M(a) = {}
      BY <3>1, <3>2
    <3> QED BY <3>3 DEF Matching
  <2> QED BY <2>1, <2>2
<1>3. ASSUME NEW a \in Nat PROVE IsFiniteSet(M(a)) /\ Cardinality(M(a)) \in Nat
  <2>1. IsFiniteSet(1..(Len(s) - a))
    <3>1. Len(s) - a \in Int /\ 1 \in Int
      BY <1>1
    <3> QED BY <3>1, FS_Interval
  <2>2. M(a) \subseteq 1..(Len(s) - a)
    OBVIOUS
  <2> QED BY <2>1, <2>2, FS_Subset, FS_CardinalityType
<1>4. Cardinality(M(k)) <= Cardinality(M(j))
  <2> DEFINE f == [i \in M(k) |-> i + (k - j)]
  <2>1. \A i \in M(k) : i + (k - j) \in M(j)
    <3> SUFFICES ASSUME NEW i \in M(k) PROVE i + (k - j) \in M(j)
      OBVIOUS
    <3>1. i \in 1..(Len(s) - k) /\ s[k + i]
      OBVIOUS
    <3>2. i + (k - j) \in 1..(Len(s) - j) /\ j + (i + (k - j)) = k + i
      BY <1>1, <3>1
    <3> QED BY <3>1, <3>2
  <2>2. \A i, h \in M(k) : i + (k - j) = h + (k - j) => i = h
    OBVIOUS
  <2>3. f \in Injection(M(k), M(j))
    BY <2>1, <2>2 DEF Injection, IsInjective
  <2> QED BY <1>3, <2>3, FS_Injection
<1> HIDE DEF M
<1> QED BY <1>2, <1>3, <1>4

\* What the ring holds of the log after "since".
LEMMA Held ==
  ASSUME StepInd, pc \notin {"action", "done"}
  PROVE  LET cut == Max({Since, Len(log) - Ring}) IN
         /\ Since \in Nat /\ Len(log) \in Nat /\ Ring \in Nat /\ cut \in Nat /\ Since <= cut
         /\ Len(log) - Since <= Ring => cut = Since
<1> DEFINE cut == Max({Since, Len(log) - Ring})
<1>1. StepTypeOK
  BY DEF StepInd
<1>2. Len(log) \in Nat /\ start \in Nat /\ mark \in Nat /\ Ring \in Nat
  BY <1>1, LenProperties, StepAssumption DEF StepTypeOK
<1>3. Since \in Nat
  BY <1>2 DEF Since
<1>4. \E x \in {Since, Len(log) - Ring} : \A y \in {Since, Len(log) - Ring} : x >= y
  BY <1>2, <1>3
<1>5. cut \in {Since, Len(log) - Ring} /\ \A y \in {Since, Len(log) - Ring} : cut >= y
  BY <1>4 DEF Max
<1> HIDE DEF cut
<1>6. cut \in Nat /\ Since <= cut /\ (Len(log) - Since <= Ring => cut = Since)
  BY <1>2, <1>3, <1>5
<1> QED BY <1>2, <1>3, <1>6 DEF cut

LEMMA CountsStep ==
  ASSUME StepInd, [Next]_vars
  PROVE  LET since == Matching(SubSeq(log, Since + 1, Len(log))) IN
         /\ JustPassed("event") => since >= Current.n
         /\ JustPassed("no_event") /\ ctx # "aborted" /\ Len(log) - Since <= Ring =>
              left = 0 /\ since <= Current.n
<1> DEFINE since == Matching(SubSeq(log, Since + 1, Len(log)))
           cut == Max({Since, Len(log) - Ring})
<1>1. StepTypeOK /\ Place
  BY DEF StepInd
<1>2. log \in Seq(BOOLEAN)
  BY <1>1 DEF StepTypeOK
<1>3. ASSUME pc \notin {"action", "done"}
      PROVE  /\ Current.n \in Nat /\ Count \in Nat /\ since \in Nat /\ Count <= since
             /\ Len(log) - Since <= Ring => Count = since
  <2>1. Current.n \in Nat
    BY <1>1, <1>3, CurrentType DEF Assertion
  <2>2. Since \in Nat /\ cut \in Nat /\ Since <= cut /\ (Len(log) - Since <= Ring => cut = Since)
    BY <1>3, Held
  <2>3. Count = Matching(SubSeq(log, cut + 1, Len(log)))
    BY DEF Count
  <2> HIDE DEF cut
  <2>4. Count <= since /\ Count \in Nat /\ since \in Nat
    BY <1>2, <2>2, <2>3, FewerMatch
  <2>5. Len(log) - Since <= Ring => Count = since
    BY <2>2, <2>3
  <2> QED BY <2>1, <2>4, <2>5
<1> HIDE DEF since
<1>4. ASSUME JustPassed("event") PROVE since >= Current.n
  <2>1. Current.check = "event"
    BY <1>4 DEF JustPassed
  <2>2. Judge /\ Holds
    <3>1. ~Quiet
      BY <1>1, <2>1 DEF Quiet, Place
    <3> QED BY <1>4, <3>1, Passes
  <2>3. pc = "check" /\ Count >= Current.n
    BY <2>1, <2>2 DEF Judge, Holds
  <2> QED BY <1>3, <2>3
<1>5. ASSUME JustPassed("no_event"), ctx # "aborted", Len(log) - Since <= Ring
      PROVE  left = 0 /\ since <= Current.n
  <2>1. Current.check = "no_event"
    BY <1>5 DEF JustPassed
  <2>2. Quiet /\ Count <= Current.n /\ at > 0
    <3>1. ~Judge
      BY <1>1, <2>1 DEF Judge, Place
    <3> QED BY <1>5, <3>1, Passes
  <2>3. pc = "window" /\ left = 0
    <3>1. pc = "window" /\ (left = 0 \/ Done)
      BY <2>2 DEF Quiet
    <3>2. at # 0
      BY <2>2
    <3> QED BY <1>5, <3>1, <3>2 DEF Done
  <2>4. Count = since
    BY <1>3, <1>5, <2>3
  <2> QED BY <2>2, <2>3, <2>4
<1> QED BY <1>4, <1>5 DEF since

\* A counting check that passes has counted what happened since it should, for
\* any log and any capacity of the ring.
THEOREM CountedIsReal == Spec => CountsAreReal
<1>1. StepInd /\ [Next]_vars =>
        [LET since == Matching(SubSeq(log, Since + 1, Len(log))) IN
           /\ JustPassed("event") => since >= Current.n
           /\ JustPassed("no_event") /\ ctx # "aborted" /\ Len(log) - Since <= Ring =>
                left = 0 /\ since <= Current.n]_vars
  BY CountsStep
<1> QED BY <1>1, StepInvariant, PTL DEF Spec, CountsAreReal
=============================================================================
