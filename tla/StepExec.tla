------------------------------ MODULE StepExec ------------------------------
(***************************************************************************)
(* One step of a scenario: runStep, action, assert and check of            *)
(* internal/scenario/executor.go.                                          *)
(*                                                                         *)
(* A step resolves its expressions, performs its action, then evaluates    *)
(* its assertions one after another while the network goes on.  Most       *)
(* checks are repeated until they hold or their deadline has passed; a     *)
(* quiet check (no_event, log_count with max) waits its whole window, and  *)
(* expr is evaluated once.  Tips stand for what checks read of one node    *)
(* (heights, hashes, outputs, mempools, statuses): they are read live and  *)
(* one after another.  Events stand for lines of a log, too.               *)
(***************************************************************************)
EXTENDS Integers, Sequences, FiniteSets, SequencesExt

CONSTANTS
  Nodes,     \* inventory nodes
  Steps,     \* step definitions: action and assertions
  Window,    \* bound: ticks of an assertion's timeout
  Ring,      \* capacity of the event bus
  MaxTip,    \* bound: blocks
  MaxEvents  \* bound: events

Checks == {"same_tip", "height", "event", "no_event", "expr"}
\* "height": the node is at least as high as "base" was when resolved, plus n;
\* "event", "no_event": at least, at most n events match since "since".
Assertion == [check : Checks, should : BOOLEAN, nodes : Seq(Nodes), base : Nodes,
              n : Nat, since : {"step", "mark", "zero"}]
StepDef == [action : {"note", "mark", "mine", "call", "wait_for"},
            on : Assertion, assert : Seq(Assertion)]

ASSUME StepAssumption ==
  /\ Steps \subseteq StepDef
  /\ {Window, Ring, MaxTip, MaxEvents} \subseteq Nat

VARIABLES
  tip, up, log,  \* the network: heights, reachable nodes, events (do they match?)
  ctx,           \* "live", "expired" (the step's) or "aborted" (the run's)
  step, pc, at,  \* the definition; where runStep is; its assertion, 0: wait_for
  start, mark,   \* last event ID when the step began; what "mark" remembered
  want,          \* the resolved expression of the assertion
  left, read,    \* time to its deadline; tips this attempt has read
  results, findings, status,  \* StepResult: verdicts, soft failures, outcome
  base, late     \* history: tips when the attempt began; its attempts begun
                 \* after an abort

world == <<tip, up, log, ctx>>
book == <<results, findings, status>>
vars == <<world, step, pc, at, start, mark, want, left, read, book, base, late>>

StepTypeOK ==
  /\ tip \in [Nodes -> 0..MaxTip] /\ up \subseteq Nodes /\ log \in Seq(BOOLEAN)
  /\ ctx \in {"live", "expired", "aborted"}
  /\ step \in Steps
  /\ pc \in {"action", "prepare", "check", "window", "sleep", "done"}
  /\ at \in 0..Len(step.assert) + 1
  /\ {start, mark} \subseteq 0..Len(log)
  /\ left \in 0..Window /\ read \in Seq(0..MaxTip)
  /\ results \in Seq(BOOLEAN) /\ Len(results) <= Len(step.assert)
  /\ findings \in 0..Len(results)
  /\ status \in {"running", "passed", "failed"}

Init ==
  /\ tip = [n \in Nodes |-> 0] /\ up = Nodes /\ log \in {<<>>, <<TRUE>>}
  /\ ctx = "live"
  /\ step \in Steps /\ pc = "action" /\ at = 0
  /\ start = Len(log) /\ mark = 0 /\ want = 0 /\ left = 0 /\ read = <<>>
  /\ results = <<>> /\ findings = 0 /\ status = "running"
  /\ base = tip /\ late = 0

------------------------------------------------------------------------------
(* The network, the user and the clock *)

Publish(matching) == Len(log) < MaxEvents /\ log' = Append(log, matching)

Network ==
  /\ pc # "done"
  /\ \/ \E n \in Nodes : tip[n] < MaxTip /\ tip' = [tip EXCEPT ![n] = @ + 1]
          /\ UNCHANGED <<up, log, ctx>>
     \/ \E n \in Nodes : up' = (IF n \in up THEN up \ {n} ELSE up \cup {n})
          /\ UNCHANGED <<tip, log, ctx>>
     \/ \E b \in BOOLEAN : Publish(b) /\ UNCHANGED <<tip, up, ctx>>
     \/ ctx = "live" /\ at = 0 /\ ctx' = "expired" /\ UNCHANGED <<tip, up, log>>
     \/ ctx # "aborted" /\ ctx' = "aborted" /\ UNCHANGED <<tip, up, log>>
  /\ UNCHANGED <<step, pc, at, start, mark, want, left, read, book, base, late>>

Tick ==
  /\ pc \in {"check", "sleep", "window"} /\ left > 0
  /\ left' = left - 1
  /\ UNCHANGED <<world, step, pc, at, start, mark, want, read, book, base, late>>

------------------------------------------------------------------------------
(* The step *)

\* The action runs under the step's context, the assertions under the run's.
Done == IF at = 0 THEN ctx # "live" ELSE ctx = "aborted"
Current == IF at = 0 THEN step.on ELSE step.assert[at]

End(outcome) == status' = outcome /\ pc' = "done"

\* The next assertion, or the end of the step.
NextAssert ==
  /\ at' = at + 1
  /\ IF at = Len(step.assert) THEN End("passed") ELSE (pc' = "prepare" /\ UNCHANGED status)

\* An expression that reads a node fails if the node does not answer.
Resolvable(a) == a.check = "height" => a.base \in up

\* The action fails, or its expressions do: an API call may, under a done
\* context it must.
ActionFails ==
  /\ pc = "action" /\ step.action # "wait_for"
  /\ step.action \in {"call", "mine"} \/ Done
  /\ End("failed")
  /\ UNCHANGED <<world, step, at, start, mark, want, left, read, results, findings, base, late>>

\* The action is done: "mark" remembers the last event, "mine" has mined.
Act ==
  /\ pc = "action" /\ step.action # "wait_for"
  /\ CASE step.action = "mark" -> mark' = Len(log) /\ UNCHANGED <<tip, log>>
       [] step.action = "mine" ->
            /\ tip[step.on.base] < MaxTip /\ Publish(TRUE)
            /\ tip' = [tip EXCEPT ![step.on.base] = @ + 1] /\ UNCHANGED mark
       [] OTHER -> UNCHANGED <<tip, log, mark>>
  /\ NextAssert
  /\ UNCHANGED <<up, ctx, step, start, want, left, read, results, findings, base, late>>

\* wait_for is an assertion in the place of an action.
WaitFor ==
  /\ pc = "action" /\ step.action = "wait_for"
  /\ pc' = "prepare"
  /\ UNCHANGED <<world, step, at, start, mark, want, left, read, book, base, late>>

------------------------------------------------------------------------------
(* An assertion *)

\* Mutant: a soft failure fails the step.
VerdictHard(ok) ==
  /\ results' = IF at = 0 THEN results ELSE Append(results, ok)
  /\ findings' = findings
  /\ IF ok THEN NextAssert ELSE (End("failed") /\ UNCHANGED at)

\* The verdict: a failed "should" is a finding, any other failure ends the step.
Verdict(ok) ==
  /\ results' = IF at = 0 THEN results ELSE Append(results, ok)
  /\ findings' = IF ~ok /\ at > 0 /\ Current.should THEN findings + 1 ELSE findings
  /\ IF ok \/ (at > 0 /\ Current.should) THEN NextAssert ELSE (End("failed") /\ UNCHANGED at)

\* An attempt begins, the one after so many that began after an abort.
Attempt(before) ==
  /\ read' = <<>> /\ base' = tip
  /\ late' = IF ctx = "aborted" THEN before + 1 ELSE before

\* The expressions of an assertion are resolved once, before the first attempt.
Prepare ==
  /\ pc = "prepare"
  /\ IF Resolvable(Current)
       THEN /\ want' = tip[Current.base] + Current.n
            /\ pc' = IF Current.check = "no_event" THEN "window" ELSE "check"
            /\ left' = Window
            /\ Attempt(0)
            /\ UNCHANGED <<at, book>>
       ELSE Verdict(FALSE) /\ UNCHANGED <<want, left, read, base, late>>
  /\ UNCHANGED <<world, step, start, mark>>

\* Mutant: the context is not looked at.
AfterFailureOn ==
  IF Current.check = "expr" \/ left = 0
    THEN Verdict(FALSE)
    ELSE pc' = "sleep" /\ UNCHANGED <<at, book>>

\* Mutant: attempts go on past the deadline.
AfterFailureEver ==
  IF Current.check = "expr" \/ Done
    THEN Verdict(FALSE)
    ELSE pc' = "sleep" /\ UNCHANGED <<at, book>>

\* The attempt has failed: over, or another one.
AfterFailure ==
  IF Current.check = "expr" \/ left = 0 \/ Done
    THEN Verdict(FALSE)
    ELSE pc' = "sleep" /\ UNCHANGED <<at, book>>

\* Checks of nodes read their tips one after another.
Reads == IF Current.check \in {"same_tip", "height"} THEN Current.nodes ELSE <<>>

ReadTip ==
  /\ pc = "check" /\ Len(read) < Len(Reads)
  /\ LET n == Reads[Len(read) + 1] IN
       IF n \in up
         THEN read' = Append(read, tip[n]) /\ UNCHANGED <<pc, at, book>>
         ELSE AfterFailure /\ UNCHANGED read
  /\ UNCHANGED <<world, step, start, mark, want, left, base, late>>

Since == CASE at = 0 \/ Current.since = "zero" -> 0
           [] Current.since = "mark" -> mark
           [] OTHER -> start

Matching(events) == Cardinality({i \in DOMAIN events : events[i]})

\* Bus.Since: what the ring still holds of the events after "since".
Count == Matching(SubSeq(log, Max({Since, Len(log) - Ring}) + 1, Len(log)))

Holds ==
  CASE Current.check = "same_tip" -> \A i, j \in DOMAIN read : read[i] = read[j]
    [] Current.check = "height" -> read[1] >= want
    [] Current.check = "event" -> Count >= Current.n
    [] Current.check = "expr" -> want = Current.n

Judge ==
  /\ pc = "check" /\ Len(read) = Len(Reads)
  /\ IF Holds THEN Verdict(TRUE) ELSE AfterFailure
  /\ UNCHANGED <<world, step, start, mark, want, left, read, base, late>>

\* Mutant: the tips read before are kept.
WakeKeeping ==
  /\ pc = "sleep"
  /\ pc' = "check" /\ base' = tip
  /\ late' = IF ctx = "aborted" THEN late + 1 ELSE late
  /\ UNCHANGED <<world, step, at, start, mark, want, left, read, book>>

Wake ==
  /\ pc = "sleep"
  /\ pc' = "check" /\ Attempt(late)
  /\ UNCHANGED <<world, step, at, start, mark, want, left, book>>

\* Mutant: the window is not waited for.
QuietNow ==
  /\ pc = "window"
  /\ Verdict(Count <= Current.n)
  /\ UNCHANGED <<world, step, start, mark, want, left, read, base, late>>

\* A quiet check: the whole window, or until the run is aborted; then the count.
Quiet ==
  /\ pc = "window" /\ (left = 0 \/ Done)
  /\ Verdict(Count <= Current.n)
  /\ UNCHANGED <<world, step, start, mark, want, left, read, base, late>>

Execute ==
  ActionFails \/ Act \/ WaitFor \/ Prepare \/ ReadTip \/ Judge \/ Wake \/ Quiet

Next == Network \/ Tick \/ Execute

\* Time passes, the goroutine is scheduled, and every call has a context that
\* ends or a timeout of its own.
Fairness == WF_vars(Tick) /\ WF_vars(Execute)

Spec == Init /\ [][Next]_vars
FairSpec == Spec /\ Fairness

------------------------------------------------------------------------------
(* Properties *)

\* The step's outcome is what its checks say: passed if each assertion has a
\* verdict and the failed ones are soft, every one of which is a finding; failed
\* if the action or the last verdict, a hard one, did (executor.go:286-298).
OutcomeIsVerdicts ==
  LET failed == {i \in DOMAIN results : ~results[i]}
      hard == {i \in failed : ~step.assert[i].should} IN
  /\ findings = Cardinality(failed \ hard)
  /\ hard \subseteq {Len(results)}
  /\ status = "passed" => hard = {} /\ Len(results) = Len(step.assert)
  /\ status = "failed" => results = <<>> \/ hard # {}

\* The step in hand is well formed, and so is its outcome (executor.go:286-298).
StepInv == StepTypeOK /\ OutcomeIsVerdicts

JustPassed(check) ==
  results' # results /\ Last(results') /\ Current.check = check

\* When same_tip passes every node has been on the common tip, none of them
\* before the attempt began: reads of different attempts are never mixed
\* (executor.go:633-646).
SameTipIsReal ==
  [][JustPassed("same_tip") =>
       \A i \in DOMAIN Current.nodes :
         read[1] \in base[Current.nodes[i]]..tip[Current.nodes[i]]]_vars

\* Counting checks count what happened since they should: an event check that
\* passes has seen enough new events; a quiet one that passes in a run that goes
\* on has waited its window, with at most n events since, as far as the ring
\* reaches (executor.go:694-718, 877-909).
CountsAreReal ==
  [][LET since == Matching(SubSeq(log, Since + 1, Len(log))) IN
       /\ JustPassed("event") => since >= Current.n
       /\ JustPassed("no_event") /\ ctx # "aborted" /\ Len(log) - Since <= Ring =>
            left = 0 /\ since <= Current.n]_vars

\* Once the run is aborted an assertion is attempted once more at most
\* (executor.go:612-619).
AbortIsPrompt == late <= 1

\* Every step ends, whatever the network does (executor.go:281, 602).
StepEnds == <>(pc = "done")
==============================================================================
