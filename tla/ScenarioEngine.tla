--------------------------- MODULE ScenarioEngine ---------------------------
(***************************************************************************)
(* The scenario engine: internal/scenario/engine.go, and from executor.go  *)
(* the step loop, the partition action and trackPartition.                 *)
(*                                                                         *)
(* Each run is executed by a goroutine of its own, released and cancelled  *)
(* by HTTP requests, while other requests cut and heal links through the   *)
(* same Server.Partition (module Partition).  Run files under RunsDir      *)
(* outlive the process.  A step is its action's outcome, and, for the      *)
(* partition action, the links it cuts or heals one by one.                *)
(***************************************************************************)
EXTENDS Partition, Sequences

CONSTANTS
  Runs,        \* run identifiers, never reused (engine.go:241)
  Scenarios,   \* definitions: sequences of steps
  Modes,       \* modes runs are started in
  KeepChoices, \* values of "cleanup: false" runs are started with
  TornReads    \* may Start read a status while it is being written?

ScenarioStep == [links : Seq(Links), on : BOOLEAN]

ASSUME EngineAssumption ==
  /\ Runs \subseteq Callers
  /\ Scenarios \subseteq Seq(ScenarioStep)
  /\ Modes \subseteq {"auto", "step"}
  /\ KeepChoices \subseteq BOOLEAN
  /\ TornReads \in BOOLEAN

VARIABLES
  run,       \* Engine.runs: the Run struct, status "none" if unknown
  pc,        \* where the goroutine executing the run is
  exec,      \* its variables: definition, step, links to cut, links to heal
  token,     \* is there a token in Run.next?
  canceled,  \* has Run.cancel been called?
  file,      \* RunsDir: "none", "torn" (being written) or "whole"
  saved,     \* the Run a whole file holds
  begun,     \* history: runs ever started
  stopped    \* history: runs that Abort was called on or a restart cut short

engVars == <<run, pc, exec, token, canceled, file, saved, begun, stopped>>
vars == <<partVars, engVars>>

Active == {"running", "paused"}
Outcomes == {"passed", "failed", "aborted"}
StepStatus == {"pending", "running", "passed", "failed", "skipped"}

Run == [status : {"none"} \cup Active \cup Outcomes, mode : {"auto", "step"},
        keep : BOOLEAN, steps : Seq(StepStatus), open : SUBSET Links]

\* "registered": Start has published the run and not yet set Run.cancel.
Points == {"none", "registered", "loop", "pauseSave", "waiting", "resumed",
           "step", "stepSave", "cleanup", "finalSave", "done"}

Exec == [def : Seq(ScenarioStep), idx : Nat, todo : Seq(Links),
         heal : SUBSET Links, final : Outcomes]

NoRun == [status |-> "none", mode |-> "auto", keep |-> FALSE, steps |-> <<>>,
          open |-> {}]
NoExec == [def |-> <<>>, idx |-> 1, todo |-> <<>>, heal |-> {},
           final |-> "passed"]

EngTypeOK ==
  /\ PartTypeOK
  /\ run \in [Runs -> Run]
  /\ pc \in [Runs -> Points]
  /\ exec \in [Runs -> Exec]
  /\ token \in [Runs -> BOOLEAN]
  /\ canceled \in [Runs -> BOOLEAN]
  /\ file \in [Runs -> {"none", "torn", "whole"}]
  /\ saved \in [Runs -> Run]
  /\ begun \in SUBSET Runs
  /\ stopped \in SUBSET Runs

Init ==
  /\ PartInit
  /\ run = [r \in Runs |-> NoRun]
  /\ pc = [r \in Runs |-> "none"]
  /\ exec = [r \in Runs |-> NoExec]
  /\ token = [r \in Runs |-> FALSE]
  /\ canceled = [r \in Runs |-> FALSE]
  /\ file = [r \in Runs |-> "none"]
  /\ saved = [r \in Runs |-> NoRun]
  /\ begun = {}
  /\ stopped = {}

------------------------------------------------------------------------------
(* HTTP requests *)

At(r, point) == pc[r] = point
Moves(r, point) == pc' = [pc EXCEPT ![r] = point]

Pausing(r) == run[r].mode = "step" /\ exec[r].idx > 1
Last(r) == exec[r].idx > Len(exec[r].def)
Current(r) == exec[r].def[exec[r].idx]

\* Start compares Run.Status twice, without the lock execute writes it under:
\* a status that changes between running and paused meanwhile, or is half
\* written, matches neither.  (Next to its end, a run may be overlooked too,
\* which is no more than starting just after.)
Overlooked(r) ==
  /\ TornReads
  /\ \/ At(r, "loop") /\ ~Last(r) /\ Pausing(r)
     \/ At(r, "waiting") /\ (token[r] \/ canceled[r])

\* Mutant: a paused run does not count as one.
StartBesidePaused(r, def, mode, keep) ==
  /\ r \notin begun
  /\ \A s \in Runs : run[s].status # "running"
  /\ run' = [run EXCEPT ![r] =
       [status |-> "running", mode |-> mode, keep |-> keep,
        steps |-> [i \in 1..Len(def) |-> "pending"], open |-> {}]]
  /\ Moves(r, "registered")
  /\ exec' = [exec EXCEPT ![r].def = def]
  /\ begun' = begun \cup {r}
  /\ UNCHANGED <<partVars, token, canceled, file, saved, stopped>>

\* Start, up to e.mu.Unlock: the refusal and the registration are one section.
Start(r, def, mode, keep) ==
  /\ r \notin begun
  /\ \A s \in Runs : run[s].status \in Active => Overlooked(s)
  /\ run' = [run EXCEPT ![r] =
       [status |-> "running", mode |-> mode, keep |-> keep,
        steps |-> [i \in 1..Len(def) |-> "pending"], open |-> {}]]
  /\ Moves(r, "registered")
  /\ exec' = [exec EXCEPT ![r].def = def]
  /\ begun' = begun \cup {r}
  /\ UNCHANGED <<partVars, token, canceled, file, saved, stopped>>

\* Start, after the unlock: Run.cancel is set and the goroutine started.
Launch(r) ==
  /\ At(r, "registered")
  /\ Moves(r, "loop")
  /\ UNCHANGED <<partVars, run, exec, token, canceled, file, saved, begun, stopped>>

\* Next: a non-blocking send on a channel of capacity one, paused or not.  A
\* run loaded from disk has no channel; after the loop nobody reads it.
PressNext(r) ==
  /\ pc[r] \notin {"none", "cleanup", "finalSave", "done"}
  /\ token' = [token EXCEPT ![r] = TRUE]
  /\ UNCHANGED <<partVars, run, pc, exec, canceled, file, saved, begun, stopped>>

\* Abort: cancel if Run.cancel is set, and a token in any case.
Abort(r) ==
  /\ pc[r] \notin {"none", "cleanup", "finalSave", "done"}
  /\ canceled' = [canceled EXCEPT ![r] = ~At(r, "registered")]
  /\ token' = [token EXCEPT ![r] = TRUE]
  /\ stopped' = stopped \cup {r}
  /\ UNCHANGED <<partVars, run, pc, exec, file, saved, begun>>

\* POST /api/partition, by callers that are not runs.
Request(c, l, on) ==
  /\ c \notin Runs
  /\ Begin(c, l, on) \/ Collect(c)
  /\ UNCHANGED engVars

------------------------------------------------------------------------------
(* The goroutine of a run: Engine.execute *)

Pause(r) ==
  /\ At(r, "loop") /\ ~Last(r) /\ Pausing(r)
  /\ run' = [run EXCEPT ![r].status = "paused"]
  /\ Moves(r, "pauseSave")
  /\ UNCHANGED <<partVars, exec, token, canceled, file, saved, begun, stopped>>

\* The select on r.next and ctx.Done.
Resume(r) ==
  /\ At(r, "waiting")
  /\ \/ token[r] /\ token' = [token EXCEPT ![r] = FALSE]
     \/ canceled[r] /\ UNCHANGED token
  /\ run' = [run EXCEPT ![r].status = "running"]
  /\ Moves(r, "resumed")
  /\ UNCHANGED <<partVars, exec, canceled, file, saved, begun, stopped>>

\* Leave the loop: the cleanup heals what is open unless the run keeps it.
Leave(r, final) ==
  /\ Moves(r, "cleanup")
  /\ exec' = [exec EXCEPT ![r] =
       [def |-> @.def, idx |-> @.idx, todo |-> <<>>, final |-> final,
        heal |-> IF run[r].keep THEN {} ELSE run[r].open]]

BeginStep(r) ==
  /\ \/ At(r, "loop") /\ ~Last(r) /\ ~Pausing(r)
     \/ At(r, "resumed")
  /\ IF canceled[r]
       THEN Leave(r, "aborted") /\ UNCHANGED run
       ELSE /\ run' = [run EXCEPT ![r].steps[exec[r].idx] = "running"]
            /\ Moves(r, "step")
            /\ exec' = [exec EXCEPT ![r].todo = Current(r).links]
  /\ UNCHANGED <<partVars, token, canceled, file, saved, begun, stopped>>

Record(r, result) ==
  /\ run' = [run EXCEPT ![r].steps[exec[r].idx] = result]
  /\ Moves(r, "stepSave")

\* The partition action: one Partition call per node, in order.
Cut(r) ==
  /\ At(r, "step") /\ exec[r].todo # <<>>
  /\ Begin(r, Head(exec[r].todo), Current(r).on)
  /\ UNCHANGED engVars

\* Mutant: the list of open partitions is replaced instead of extended.
CutDoneLastOnly(r) ==
  /\ At(r, "step") /\ exec[r].todo # <<>>
  /\ call[r].pc = "ok"
  /\ Collect(r)
  /\ run' = [run EXCEPT ![r].open =
               IF Current(r).on THEN {call[r].link} ELSE @ \ {call[r].link}]
  /\ exec' = [exec EXCEPT ![r].todo = Tail(@)]
  /\ UNCHANGED <<pc, token, canceled, file, saved, begun, stopped>>

\* The call succeeded: trackPartition, next node.
CutDone(r) ==
  /\ At(r, "step") /\ exec[r].todo # <<>>
  /\ call[r].pc = "ok"
  /\ Collect(r)
  /\ run' = [run EXCEPT ![r].open =
               IF Current(r).on THEN @ \cup {call[r].link} ELSE @ \ {call[r].link}]
  /\ exec' = [exec EXCEPT ![r].todo = Tail(@)]
  /\ UNCHANGED <<pc, token, canceled, file, saved, begun, stopped>>

\* The call failed: so does the step.
CutFailed(r) ==
  /\ At(r, "step") /\ call[r].pc = "err"
  /\ Collect(r)
  /\ Record(r, "failed")
  /\ UNCHANGED <<exec, token, canceled, file, saved, begun, stopped>>

\* The action is done; it or a hard assertion may have failed.
EndStep(r) ==
  /\ At(r, "step") /\ exec[r].todo = <<>>
  /\ Record(r, "passed") \/ Record(r, "failed")
  /\ UNCHANGED <<partVars, exec, token, canceled, file, saved, begun, stopped>>

\* After the last step the run passed, or was aborted during that step.
EndLoop(r) ==
  /\ At(r, "loop") /\ Last(r)
  /\ Leave(r, IF canceled[r] THEN "aborted" ELSE "passed")
  /\ UNCHANGED <<partVars, run, token, canceled, file, saved, begun, stopped>>

\* cleanup: heal every link of OpenPartitions, whatever each call returns.
Heal(r) ==
  /\ At(r, "cleanup")
  /\ \E l \in exec[r].heal : Begin(r, l, FALSE)
  /\ UNCHANGED engVars

\* Mutant: the cleanup tries a link until its heal succeeds.
HealedAtLast(r) ==
  /\ At(r, "cleanup") /\ call[r].pc \in {"ok", "err"}
  /\ Collect(r)
  /\ exec' = [exec EXCEPT ![r].heal =
                IF call[r].pc = "ok" THEN @ \ {call[r].link} ELSE @]
  /\ UNCHANGED <<run, pc, token, canceled, file, saved, begun, stopped>>

Healed(r) ==
  /\ At(r, "cleanup") /\ call[r].pc \in {"ok", "err"}
  /\ Collect(r)
  /\ exec' = [exec EXCEPT ![r].heal = @ \ {call[r].link}]
  /\ UNCHANGED <<run, pc, token, canceled, file, saved, begun, stopped>>

\* Mutant: the steps left over get the run's status.
FinishSteps(r) ==
  /\ At(r, "cleanup") /\ exec[r].heal = {}
  /\ run' = [run EXCEPT ![r] =
       [status |-> exec[r].final, mode |-> @.mode, keep |-> @.keep,
        open |-> IF @.keep THEN @.open ELSE {},
        steps |-> [i \in DOMAIN @.steps |->
                     IF @.steps[i] = "pending" THEN exec[r].final ELSE @.steps[i]]]]
  /\ Moves(r, "finalSave")
  /\ UNCHANGED <<partVars, exec, token, canceled, file, saved, begun, stopped>>

\* OpenPartitions is cleared, then the status set and pending steps skipped.
Finish(r) ==
  /\ At(r, "cleanup") /\ exec[r].heal = {}
  /\ run' = [run EXCEPT ![r] =
       [status |-> exec[r].final, mode |-> @.mode, keep |-> @.keep,
        open |-> IF @.keep THEN @.open ELSE {},
        steps |-> [i \in DOMAIN @.steps |->
                     IF @.steps[i] = "pending" THEN "skipped" ELSE @.steps[i]]]]
  /\ Moves(r, "finalSave")
  /\ UNCHANGED <<partVars, exec, token, canceled, file, saved, begun, stopped>>

------------------------------------------------------------------------------
(* Run files *)

Saving(r) == pc[r] \in {"pauseSave", "stepSave", "finalSave"}

\* save: os.WriteFile truncates the file, then writes it.
Truncate(r) ==
  /\ Saving(r) /\ file[r] # "torn"
  /\ file' = [file EXCEPT ![r] = "torn"]
  /\ UNCHANGED <<partVars, run, pc, exec, token, canceled, saved, begun, stopped>>

\* Mutant: a failed step does not end the loop.
WriteGoesOn(r) ==
  /\ Saving(r) /\ file[r] = "torn"
  /\ file' = [file EXCEPT ![r] = "whole"]
  /\ saved' = [saved EXCEPT ![r] = run[r]]
  /\ \/ At(r, "pauseSave") /\ Moves(r, "waiting") /\ UNCHANGED exec
     \/ At(r, "finalSave") /\ Moves(r, "done") /\ UNCHANGED exec
     \/ /\ At(r, "stepSave") /\ Moves(r, "loop")
        /\ exec' = [exec EXCEPT ![r].idx = @ + 1]
  /\ UNCHANGED <<partVars, run, token, canceled, begun, stopped>>

\* The write completes, and execute goes on after the save.
Write(r) ==
  /\ Saving(r) /\ file[r] = "torn"
  /\ file' = [file EXCEPT ![r] = "whole"]
  /\ saved' = [saved EXCEPT ![r] = run[r]]
  /\ \/ At(r, "pauseSave") /\ Moves(r, "waiting") /\ UNCHANGED exec
     \/ At(r, "finalSave") /\ Moves(r, "done") /\ UNCHANGED exec
     \/ /\ At(r, "stepSave")
        /\ IF run[r].steps[exec[r].idx] = "failed"
             THEN Leave(r, "failed")
             ELSE /\ Moves(r, "loop")
                  /\ exec' = [exec EXCEPT ![r].idx = @ + 1]
  /\ UNCHANGED <<partVars, run, token, canceled, begun, stopped>>

\* The outcome of the run is on disk.
Durable(r) == file[r] = "whole" /\ saved[r].status \in Outcomes

\* Mutant: a run file is taken as it is.
LoadedAsSaved(r) == IF file[r] # "whole" THEN NoRun ELSE saved[r]

\* What loadRuns makes of a run file; one it cannot parse is ignored.
Loaded(r) ==
  IF file[r] # "whole" THEN NoRun
  ELSE IF saved[r].status \in Active
         THEN [saved[r] EXCEPT !.status = "aborted"]
         ELSE saved[r]

\* The orchestrator is stopped or killed at any point, and started again.
Restart ==
  /\ PartRestart
  /\ run' = [r \in Runs |-> Loaded(r)]
  /\ pc' = [r \in Runs |-> "none"]
  /\ exec' = [r \in Runs |-> NoExec]
  /\ token' = [r \in Runs |-> FALSE]
  /\ canceled' = [r \in Runs |-> FALSE]
  /\ stopped' = stopped \cup {r \in Runs : run[r].status # "none" /\ ~Durable(r)}
  /\ UNCHANGED <<file, saved, begun>>

------------------------------------------------------------------------------
\* The context of a call: the step's, which Abort ends; the cleanup's is fresh.
CtxDone(c) == IF c \in Runs THEN canceled[c] /\ At(c, "step") ELSE FALSE

Calling(c) ==
  /\ Acquire(c) \/ Advance(c, CtxDone(c))
  /\ UNCHANGED engVars

Execute(r) ==
  \/ Launch(r) \/ Pause(r) \/ Resume(r) \/ BeginStep(r)
  \/ Cut(r) \/ CutDone(r) \/ CutFailed(r) \/ EndStep(r) \/ EndLoop(r)
  \/ Heal(r) \/ Healed(r) \/ Finish(r) \/ Truncate(r) \/ Write(r)

Next ==
  \/ \E r \in Runs, def \in Scenarios, mode \in Modes, keep \in KeepChoices :
       Start(r, def, mode, keep)
  \/ \E r \in Runs : PressNext(r) \/ Abort(r) \/ Execute(r)
  \/ \E c \in Callers, l \in Links, on \in BOOLEAN : Request(c, l, on)
  \/ \E c \in Callers : Calling(c)
  \/ \E request \in adrift : Drift(request) /\ UNCHANGED engVars
  \/ Restart

\* The goroutine is scheduled, netMu hands itself to starved waiters, and calls
\* of the engine API return.  Nothing obliges a user or a restart.
Fairness ==
  /\ \A r \in Runs : WF_vars(Execute(r))
  /\ \A c \in Callers :
       /\ SF_vars(Acquire(c) /\ UNCHANGED engVars)
       /\ WF_vars(Advance(c, CtxDone(c)) /\ UNCHANGED engVars)

Spec == Init /\ [][Next]_vars
FairSpec == Spec /\ Fairness

------------------------------------------------------------------------------
(* Properties *)

\* A run's goroutine may still act on its scenario and on the links.
Working(r) == pc[r] \notin {"none", "finalSave", "done"}

\* "Only one run exists at a time.  Starting a run while another is running or
\* paused is refused" (examples/scenarios/README.md:32-33), and that includes its
\* cleanup: no run starts while another may heal links.  It takes a Start that
\* reads whole statuses (engine.go:234-239).
OneRunAtATime ==
  \A r, s \in Runs :
    /\ run[r].status \in Active \/ Working(r)
    /\ run[s].status \in Active \/ Working(s)
    => r = s

\* Steps run in order and the recorded outcome is what the steps say: passed
\* is every step passed, failed is one failed step after passed ones, and a run
\* that ended aborted was aborted and has no failed step (engine.go:322-389).
OutcomeJustified ==
  \A r \in Runs :
    LET steps == run[r].steps IN
    /\ \A i, j \in DOMAIN steps :
         i < j /\ steps[j] \in {"running", "passed", "failed"}
           => steps[i] = "passed"
    /\ pc[r] \in {"finalSave", "done"} =>
         CASE run[r].status = "passed"  -> \A i \in DOMAIN steps : steps[i] = "passed"
           [] run[r].status = "failed"  -> \E i \in DOMAIN steps : steps[i] = "failed"
           [] run[r].status = "aborted" -> /\ r \in stopped
                                           /\ \A i \in DOMAIN steps :
                                                steps[i] \in {"passed", "skipped"}

\* Unless the engine fails or is slower than the contexts, a link a run has cut
\* and nobody stopped is on the run's list of open partitions from the moment the cut is reported, so that
\* cleanup finds it; a run that ended and did not keep its partitions has none
\* (executor.go:453-457, 912-930, engine.go:499-529).
CutsAreTracked ==
  \A r \in Runs, l \in Links :
    cut[l] = r /\ r \notin stopped =>
      \/ l \in run[r].open
      \/ Working(r) /\ call[r].link = l /\ call[r].pc \in {"verify", "ok"}

\* The run goes through the life cycle of RunLifecycle, restarts included.
Life == INSTANCE RunLifecycle WITH
  life <- [r \in Runs |-> run[r].status],
  durable <- {r \in Runs : Durable(r)}

FollowsLifecycle == Life!LifeSpec

\* An abort that reached the context ends the run, out of any step, any pause
\* and any wait for netMu (engine.go:289-302, 335-346).
AbortEnds == \A r \in Runs : canceled[r] ~> ~Working(r)

\* A run that pauses for nobody ends.
AutoRunEnds ==
  \A r \in Runs : Working(r) /\ run[r].mode = "auto" ~> ~Working(r)

\* No run lasts for ever by itself (engine.go:322-389).
RunsEnd == AbortEnds /\ AutoRunEnds

(* What the documentation says and the code does not do. *)

\* "On exit (success, failure or abort) every network partition the run opened
\* is healed" (examples/scenarios/README.md:30-31): no cut outlives execute.
HealedOnExit ==
  \A r \in Runs, l \in Links :
    pc[r] \in {"finalSave", "done"} /\ ~run[r].keep => cut[l] # r
==============================================================================
