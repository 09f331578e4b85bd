------------------------ MODULE ScenarioEngineProofs ------------------------
(***************************************************************************)
(* What holds of ScenarioEngine for every set of runs, links, callers and  *)
(* scenarios, with or without engine faults, aborts and restarts: one run  *)
(* at a time, the use it makes of Partition, the outcomes it reports, the  *)
(* abstract life cycle of runs it implements, and the open partitions a    *)
(* run lists being those it has cut.                                       *)
(***************************************************************************)
EXTENDS ScenarioEngine, TLAPS

------------------------------------------------------------------------------
(* Partitions: for every set of links and callers, with or without engine faults *)

\* The inductive invariant: types, the lock discipline, and the display.
PartInv == PartTypeOK /\ Serialised /\ DisplayTruthful

LEMMA PartInitInv == PartInit => PartInv
<1> SUFFICES ASSUME PartInit PROVE PartInv
  OBVIOUS
<1> USE PartitionAssumption DEF PartInit
<1>1. PartTypeOK
  BY DEF PartTypeOK, Call, Attempts
<1>2. Serialised
  BY DEF Serialised, Critical
<1>3. DisplayTruthful
  BY DEF DisplayTruthful, Attached
<1> QED BY <1>1, <1>2, <1>3 DEF PartInv

\* Stepping keeps the calls well-typed.
LEMMA StepType ==
  ASSUME PartTypeOK, NEW c \in Callers, NEW n \in 1..Attempts,
         NEW point \in {"idle", "lock", "send", "sent", "verify", "ok", "err"},
         Step(c, point, n)
  PROVE  call' \in [Callers -> Call]
BY DEF PartTypeOK, Call, Step

\* Serving a request touches its link only.
LEMMA ServeType ==
  ASSUME PartTypeOK, NEW request \in [link : Links, by : Callers \cup {NoCaller}],
         Serve(request)
  PROVE  /\ cut' \in [Links -> Callers \cup {NoCaller}]
         /\ \A l \in Links : l # request.link => cut'[l] = cut[l]
BY DEF PartTypeOK, Serve

LEMMA AskedType ==
  ASSUME PartTypeOK, NEW c \in Callers
  PROVE  /\ Asked(c) \in [link : Links, by : Callers \cup {NoCaller}]
         /\ Asked(c).link = call[c].link
BY DEF PartTypeOK, Call, Asked

\* What one caller's request may do to the engine and the stray requests.
EngineStep(c) ==
  /\ Serve(Asked(c)) \/ UNCHANGED cut
  /\ adrift' \in {adrift, adrift \cup {Asked(c)}}

LEMMA EngineStepType ==
  ASSUME PartTypeOK, NEW c \in Callers, EngineStep(c)
  PROVE  /\ cut' \in [Links -> Callers \cup {NoCaller}]
         /\ \A l \in Links : l # call[c].link => cut'[l] = cut[l]
         /\ adrift' \in SUBSET [link : Links, by : Callers \cup {NoCaller}]
<1>1. CASE Serve(Asked(c))
  BY <1>1, AskedType, ServeType DEF PartTypeOK, EngineStep
<1>2. CASE UNCHANGED cut
  BY <1>2, AskedType DEF PartTypeOK, EngineStep
<1> QED BY <1>1, <1>2 DEF EngineStep

\* An attempt that fails keeps the invariant, whether or not it changed the
\* attachment: another attempt follows under the lock, or the link is unsure.
LEMMA RetryInv ==
  ASSUME PartInv, NEW c \in Callers, call[c].pc \in Critical,
         EngineStep(c), Retry(c), UNCHANGED shown
  PROVE  PartInv'
<1> USE PartitionAssumption
<1>1. netMu = c /\ \A d \in Callers : call[d].pc \in Critical => d = c
  BY DEF PartInv, Serialised
<1>2. /\ cut' \in [Links -> Callers \cup {NoCaller}]
      /\ \A l \in Links : l # call[c].link => cut'[l] = cut[l]
      /\ adrift' \in SUBSET [link : Links, by : Callers \cup {NoCaller}]
  BY EngineStepType DEF PartInv
<1>3. CASE call[c].attempt < Attempts /\ netMu' = netMu /\ unsure' = unsure
           /\ Step(c, "send", call[c].attempt + 1)
  <2>1. PartTypeOK'
    BY <1>2, <1>3 DEF PartInv, PartTypeOK, Call, Attempts, Step
  <2>2. Serialised'
    BY <1>1, <1>3 DEF PartInv, PartTypeOK, Serialised, Critical, Call, Step
  <2>3. DisplayTruthful'
    BY <1>1, <1>2, <1>3 DEF PartInv, PartTypeOK, DisplayTruthful, Attached, Call, Step
  <2> QED BY <2>1, <2>2, <2>3 DEF PartInv
<1>4. CASE Step(c, "err", 1) /\ netMu' = NoCaller
           /\ unsure' = unsure \cup {call[c].link}
  <2>1. PartTypeOK'
    <3>1. call' \in [Callers -> Call]
      BY <1>4, StepType DEF PartInv, Attempts
    <3>2. call[c].link \in Links
      BY DEF PartInv, PartTypeOK, Call
    <3> QED BY <1>2, <1>4, <3>1, <3>2 DEF PartInv, PartTypeOK
  <2>2. Serialised'
    BY <1>1, <1>4 DEF PartInv, PartTypeOK, Serialised, Critical, Call, Step
  <2>3. DisplayTruthful'
    BY <1>1, <1>2, <1>4 DEF PartInv, PartTypeOK, DisplayTruthful, Attached, Call
  <2> QED BY <2>1, <2>2, <2>3 DEF PartInv
<1> QED BY <1>3, <1>4 DEF Retry

\* Moving on inside the critical section without touching engine or display.
LEMMA GotoInv ==
  ASSUME PartInv, NEW c \in Callers, call[c].pc \in Critical,
         NEW point \in Critical, Goto(c, point), UNCHANGED <<shown, netMu, unsure>>,
         EngineStep(c)
  PROVE  PartInv'
<1> USE PartitionAssumption
<1>1. netMu = c
  BY DEF PartInv, Serialised
<1>2. /\ cut' \in [Links -> Callers \cup {NoCaller}]
      /\ \A l \in Links : l # call[c].link => cut'[l] = cut[l]
      /\ adrift' \in SUBSET [link : Links, by : Callers \cup {NoCaller}]
  BY EngineStepType DEF PartInv
<1>3. PartTypeOK'
  BY <1>2 DEF PartInv, PartTypeOK, Call, Goto, Step, Critical
<1>4. Serialised'
  BY <1>1 DEF PartInv, PartTypeOK, Serialised, Goto, Step, Call
<1>5. DisplayTruthful'
  BY <1>1, <1>2 DEF PartInv, PartTypeOK, DisplayTruthful, Attached, Goto, Step, Call
<1> QED BY <1>3, <1>4, <1>5 DEF PartInv

LEMMA AdvanceInv ==
  ASSUME PartInv, NEW c \in Callers, NEW ctxDone \in BOOLEAN,
         Advance(c, ctxDone)
  PROVE  PartInv'
<1> USE PartitionAssumption
<1>1. CASE Send(c, ctxDone)
  BY <1>1, RetryInv, GotoInv DEF Send, Critical, EngineStep
<1>2. CASE RespondChanged(c, ctxDone)
  BY <1>2, GotoInv DEF RespondChanged, Critical, EngineStep
<1>3. CASE RespondNoop(c, ctxDone)
  BY <1>3, RetryInv, GotoInv DEF RespondNoop, Critical, EngineStep
<1>4. CASE RespondError(c, ctxDone)
  <2>1. EngineStep(c)
    BY <1>4 DEF RespondError, GivenUp, EngineStep
  <2> QED BY <1>4, <2>1, RetryInv DEF RespondError, Critical
<1>5. CASE RespondLie(c, ctxDone)
  BY <1>5, GotoInv DEF RespondLie, Critical, EngineStep
<1>6. CASE VerifyOk(c, ctxDone)
  <2>1. netMu = c /\ \A d \in Callers : call[d].pc \in Critical => d = c
    BY <1>6 DEF PartInv, Serialised, Critical, VerifyOk
  <2>2. PartTypeOK'
    <3>1. call' \in [Callers -> Call]
      BY <1>6, StepType DEF PartInv, VerifyOk, Attempts
    <3>2. call[c].link \in Links
      BY DEF PartInv, PartTypeOK, Call
    <3> QED BY <1>6, <3>1, <3>2 DEF PartInv, PartTypeOK, VerifyOk
  <2>3. Serialised'
    BY <2>1, <1>6 DEF PartInv, PartTypeOK, Serialised, Critical, Call, VerifyOk, Step
  <2>4. ASSUME NEW l \in Links, (l \in shown)' = Attached(l)', l \notin unsure'
        PROVE  FALSE
    <3>1. CASE l = call[c].link
      BY <1>6, <2>4, <3>1
         DEF PartInv, PartTypeOK, Call, Attached, VerifyOk, Effective
    <3>2. CASE l # call[c].link
      BY <1>6, <2>1, <2>4, <3>2
         DEF PartInv, DisplayTruthful, Attached, VerifyOk
    <3> QED BY <3>1, <3>2
  <2>5. DisplayTruthful'
    BY <2>4 DEF DisplayTruthful, Attached
  <2> QED BY <2>2, <2>3, <2>5 DEF PartInv
<1>7. CASE VerifyFail(c, ctxDone)
  BY <1>7, RetryInv DEF VerifyFail, Critical, EngineStep
<1> QED BY <1>1, <1>2, <1>3, <1>4, <1>5, <1>6, <1>7 DEF Advance

LEMMA PartRestartType == PartTypeOK /\ PartRestart => PartTypeOK'
<1> SUFFICES ASSUME PartTypeOK, PartRestart PROVE PartTypeOK'
  OBVIOUS
<1>1. ASSUME NEW c \in Callers
      PROVE  [pc |-> "idle", link |-> call[c].link,
              on |-> FALSE, attempt |-> 1] \in Call
  <2>1. call[c] \in Call
    BY DEF PartTypeOK
  <2> QED BY <2>1 DEF Call, Attempts
<1>2. call' \in [Callers -> Call]
  BY <1>1 DEF PartRestart
<1> DEFINE requests == {Asked(c) : c \in {d \in Callers : call[d].pc = "sent"}}
           Strays == [link : Links, by : Callers \cup {NoCaller}]
<1>3. requests \in SUBSET Strays
  BY AskedType
<1>4. GivenUp(requests)
  BY DEF PartRestart
<1> HIDE DEF requests
<1>5. cut' \in [Links -> Callers \cup {NoCaller}] /\ adrift' \in SUBSET Strays
  BY <1>3, <1>4, ServeType DEF PartTypeOK, GivenUp
<1> QED BY <1>2, <1>5, PartitionAssumption DEF PartTypeOK, PartRestart

LEMMA PartRestartInv == PartInv /\ PartRestart => PartInv'
<1> SUFFICES ASSUME PartInv, PartRestart PROVE PartInv'
  OBVIOUS
<1> USE PartitionAssumption
<1>1. PartTypeOK'
  BY PartRestartType DEF PartInv
<1>2. Serialised'
  BY DEF PartInv, PartTypeOK, Serialised, Critical, PartRestart, Call
<1>3. DisplayTruthful'
  BY DEF DisplayTruthful, Attached, PartRestart
<1> QED BY <1>1, <1>2, <1>3 DEF PartInv

\* Begin, Acquire and Collect leave the engine and the display alone.
LEMMA CallEdgesInv ==
  ASSUME PartInv, NEW c \in Callers,
         \/ \E l \in Links, on \in BOOLEAN : Begin(c, l, on)
         \/ Acquire(c)
         \/ Collect(c)
  PROVE  PartInv'
<1> USE PartitionAssumption
<1>1. ASSUME NEW l \in Links, NEW on \in BOOLEAN, Begin(c, l, on)
      PROVE  PartInv'
  <2>1. netMu # c
    BY <1>1 DEF PartInv, Serialised, Critical, Begin
  <2>2. PartTypeOK'
    BY <1>1 DEF PartInv, PartTypeOK, Call, Attempts, Begin
  <2>3. Serialised'
    BY <1>1 DEF PartInv, PartTypeOK, Serialised, Critical, Begin
  <2>4. DisplayTruthful'
    BY <1>1, <2>1 DEF PartInv, PartTypeOK, DisplayTruthful, Attached, Begin
  <2> QED BY <2>2, <2>3, <2>4 DEF PartInv
<1>2. CASE Acquire(c)
  <2>1. PartTypeOK'
    BY <1>2 DEF PartInv, PartTypeOK, Call, Acquire, Goto, Step
  <2>2. Serialised'
    BY <1>2 DEF PartInv, PartTypeOK, Serialised, Critical, Acquire, Goto, Step, Call
  <2>3. DisplayTruthful'
    BY <1>2 DEF PartInv, PartTypeOK, DisplayTruthful, Attached, Acquire, Goto, Step
  <2> QED BY <2>1, <2>2, <2>3 DEF PartInv
<1>3. CASE Collect(c)
  <2>1. netMu # c
    BY <1>3 DEF PartInv, Serialised, Critical, Collect
  <2>2. PartTypeOK'
    BY <1>3 DEF PartInv, PartTypeOK, Call, Collect, Attempts
  <2>3. Serialised'
    BY <1>3 DEF PartInv, PartTypeOK, Serialised, Critical, Collect, Call
  <2>4. DisplayTruthful'
    BY <1>3, <2>1 DEF PartInv, PartTypeOK, DisplayTruthful, Attached, Collect
  <2> QED BY <2>2, <2>3, <2>4 DEF PartInv
<1> QED BY <1>1, <1>2, <1>3

\* A stray request makes its link unsure.
LEMMA DriftType ==
  ASSUME PartTypeOK, NEW request \in adrift, Drift(request)
  PROVE  /\ PartTypeOK'
         /\ \A l \in Links : l # request.link => cut'[l] = cut[l]
<1>1. request \in [link : Links, by : Callers \cup {NoCaller}]
  BY DEF PartTypeOK
<1> QED BY <1>1, ServeType DEF PartTypeOK, Drift

LEMMA DriftInv ==
  ASSUME PartInv, NEW request \in adrift, Drift(request) PROVE PartInv'
<1>1. PartTypeOK' /\ \A l \in Links : l # request.link => cut'[l] = cut[l]
  BY DriftType DEF PartInv
<1>2. Serialised'
  BY DEF PartInv, Serialised, Drift
<1>3. DisplayTruthful'
  BY <1>1 DEF PartInv, DisplayTruthful, Attached, Drift
<1> QED BY <1>1, <1>2, <1>3 DEF PartInv

LEMMA PartStutterInv == PartInv /\ UNCHANGED partVars => PartInv'
BY DEF PartInv, PartTypeOK, Serialised, DisplayTruthful, Attached, partVars

LEMMA PartNextInv == PartInv /\ [PartNext]_partVars => PartInv'
BY AdvanceInv, CallEdgesInv, DriftInv, PartRestartInv, PartStutterInv DEF PartNext

\* netMu discipline and the display invariant, for all links and callers.
THEOREM PartitionSafe == PartSpec => [](PartTypeOK /\ Serialised /\ DisplayTruthful)
<1>1. PartInit => PartInv
  BY PartInitInv
<1>2. PartInv /\ [PartNext]_partVars => PartInv'
  BY PartNextInv
<1>3. PartInv => PartTypeOK /\ Serialised /\ DisplayTruthful
  BY DEF PartInv
<1> QED BY <1>1, <1>2, <1>3, PTL DEF PartSpec

\* A call that returns success has made the change, in the engine and on the
\* display, for all links and callers.
THEOREM PartitionSuccess == PartSpec => SuccessIsReal
<1> DEFINE Real ==
      \A c \in Callers :
        call[c].pc # "ok" /\ call'[c].pc = "ok" =>
          /\ (cut'[call[c].link] = NoCaller) = ~call[c].on
          /\ (call[c].link \in shown') = call[c].on
<1>1. ASSUME PartInv, [PartNext]_partVars PROVE [Real]_partVars
  <2> SUFFICES ASSUME PartNext, NEW c \in Callers,
                      call[c].pc # "ok", call'[c].pc = "ok"
               PROVE  /\ (cut'[call[c].link] = NoCaller) = ~call[c].on
                      /\ (call[c].link \in shown') = call[c].on
    BY <1>1
  <2> USE PartitionAssumption
  <2>1. CASE \E d \in Callers, ctxDone \in BOOLEAN : VerifyOk(d, ctxDone)
    <3>1. PICK d \in Callers, ctxDone \in BOOLEAN : VerifyOk(d, ctxDone)
      BY <2>1
    <3>2. d = c
      BY <1>1, <3>1 DEF PartInv, PartTypeOK, VerifyOk, Step
    <3> QED BY <1>1, <3>1, <3>2
            DEF PartInv, PartTypeOK, Call, VerifyOk, Effective, Attached
  <2>2. ASSUME NEW d \in Callers, Retry(d) PROVE FALSE
    BY <1>1, <2>2 DEF PartInv, PartTypeOK, Retry, Step
  <2>3. ASSUME NEW d \in Callers, NEW point \in Critical, Goto(d, point) PROVE FALSE
    BY <1>1, <2>3 DEF PartInv, PartTypeOK, Goto, Step, Critical
  <2>4. ASSUME NEW d \in Callers, NEW ctxDone \in BOOLEAN,
               Advance(d, ctxDone), ~VerifyOk(d, ctxDone)
        PROVE  FALSE
    BY <2>2, <2>3, <2>4
       DEF Advance, Send, RespondChanged, RespondNoop, RespondError, RespondLie,
           VerifyFail, Critical
  <2>5. ASSUME NEW d \in Callers,
               \/ \E l \in Links, on \in BOOLEAN : Begin(d, l, on)
               \/ Acquire(d) \/ Collect(d)
        PROVE  FALSE
    BY <1>1, <2>3, <2>5
       DEF PartInv, PartTypeOK, Begin, Acquire, Collect, Critical
  <2>6. ASSUME NEW request \in adrift, Drift(request) PROVE FALSE
    BY <2>6 DEF Drift
  <2>7. CASE PartRestart
    BY <2>7, <1>1 DEF PartRestart, PartInv, PartTypeOK, Call
  <2> QED BY <2>1, <2>4, <2>5, <2>6, <2>7 DEF PartNext
<1>2. PartSpec => []PartInv
  BY PartInitInv, PartNextInv, PTL DEF PartSpec
<1>3. SuccessIsReal <=> [][Real]_partVars
  BY DEF SuccessIsReal
<1> QED BY <1>1, <1>2, <1>3, PTL DEF PartSpec

------------------------------------------------------------------------------
(* One run at a time *)

\* What the API reports and where the goroutine is tell the same story.
StatusAt(r) ==
  /\ pc[r] \in {"registered", "loop", "resumed", "step", "stepSave", "cleanup"}
       => run[r].status = "running"
  /\ pc[r] \in {"pauseSave", "waiting"} => run[r].status = "paused"
  /\ pc[r] \in {"finalSave", "done"} => run[r].status \in Outcomes
  /\ pc[r] = "none" => run[r].status \notin Active

\* From the pause before a step to its save, the step exists.
IndexOK(r) ==
  /\ exec[r].idx >= 1
  /\ pc[r] \in {"pauseSave", "waiting", "resumed", "step", "stepSave"}
       => exec[r].idx <= Len(exec[r].def)

\* The inductive invariant behind OneRunAtATime: statuses follow the
\* goroutines, and at most one is working if Start reads whole statuses.
OneInv ==
  /\ EngTypeOK
  /\ \A r \in Runs : StatusAt(r) /\ IndexOK(r)
  /\ TornReads \/ \A r, s \in Runs : Working(r) /\ Working(s) => r = s

LEMMA OneInvImpliesOneRun == ~TornReads /\ OneInv => OneRunAtATime
BY DEF OneInv, EngTypeOK, StatusAt, OneRunAtATime, Working, Active, Outcomes, Points

LEMMA InitOneInv == Init => OneInv
<1> SUFFICES ASSUME Init PROVE OneInv
  OBVIOUS
<1>1. PartTypeOK
  BY PartInitInv DEF Init, PartInv
<1>2. NoRun \in Run
  BY DEF NoRun, Run
<1>3. NoExec \in Exec
  BY DEF NoExec, Exec, Outcomes
<1>4. EngTypeOK
  BY <1>1, <1>2, <1>3 DEF Init, EngTypeOK, Points
<1>5. \A r \in Runs : StatusAt(r) /\ IndexOK(r) /\ ~Working(r)
  BY DEF Init, StatusAt, IndexOK, Working, NoRun, NoExec, Active
<1> QED BY <1>4, <1>5 DEF OneInv

------------------------------------------------------------------------------
(* Types.  The lemmas are one per kind of update. *)

\* The Partition calls made by runs and requests keep the Partition types.
LEMMA PartStepType ==
  ASSUME PartTypeOK, NEW c \in Callers,
         \/ \E l \in Links, on \in BOOLEAN : Begin(c, l, on)
         \/ Acquire(c)
         \/ \E d \in BOOLEAN : Advance(c, d)
         \/ Collect(c)
  PROVE  PartTypeOK'
<1> USE PartitionAssumption
<1> DEFINE Pcs == {"idle", "lock", "send", "sent", "verify", "ok", "err"}
<1>1. call[c] \in Call /\ call[c].link \in Links /\ call[c].on \in BOOLEAN
      /\ call[c].attempt \in 1..3
  BY DEF PartTypeOK, Call, Attempts
<1>2. ASSUME NEW l \in Links, NEW on \in BOOLEAN, Begin(c, l, on)
      PROVE  PartTypeOK'
  BY <1>2 DEF PartTypeOK, Begin, Call, Attempts
<1>3. ASSUME NEW p \in Pcs, NEW n \in 1..Attempts, Step(c, p, n)
      PROVE  call' \in [Callers -> Call]
  BY <1>1, <1>3, StepType
<1>4. CASE Acquire(c)
  BY <1>1, <1>3, <1>4 DEF PartTypeOK, Acquire, Goto, Attempts
<1>5. ASSUME NEW p \in Pcs, Goto(c, p) PROVE call' \in [Callers -> Call]
  BY <1>1, <1>3, <1>5 DEF Goto, Attempts
<1>6. ASSUME Retry(c)
      PROVE  /\ call' \in [Callers -> Call]
             /\ netMu' \in {netMu, NoCaller}
             /\ unsure' \in SUBSET Links
  <2>1. CASE call[c].attempt < Attempts /\ Step(c, "send", call[c].attempt + 1)
             /\ UNCHANGED <<netMu, unsure>>
    <3>1. call[c].attempt + 1 \in 1..Attempts
      BY <1>1, <2>1 DEF Attempts
    <3> QED BY <1>3, <2>1, <3>1 DEF PartTypeOK
  <2>2. CASE Step(c, "err", 1) /\ netMu' = NoCaller
             /\ unsure' = unsure \cup {call[c].link}
    BY <1>1, <1>3, <2>2 DEF PartTypeOK, Attempts
  <2> QED BY <1>6, <2>1, <2>2 DEF Retry
<1>7. ASSUME EngineStep(c)
      PROVE  /\ cut' \in [Links -> Callers \cup {NoCaller}]
             /\ adrift' \in SUBSET [link : Links, by : Callers \cup {NoCaller}]
  BY <1>7, EngineStepType
<1>8. ASSUME NEW d \in BOOLEAN, Advance(c, d) PROVE PartTypeOK'
  <2>1. CASE VerifyOk(c, d)
    <3>1. call' \in [Callers -> Call]
      BY <1>3, <2>1 DEF VerifyOk, Attempts
    <3> QED BY <1>1, <2>1, <3>1 DEF PartTypeOK, VerifyOk
  <2>2. CASE ~VerifyOk(c, d)
    <3>1. EngineStep(c)
      BY <1>8, <2>2 DEF Advance, Send, RespondChanged, RespondNoop, RespondError,
                        RespondLie, VerifyFail, GivenUp, EngineStep
    <3> QED BY <1>5, <1>6, <1>7, <1>8, <2>2, <3>1
            DEF PartTypeOK, Advance, Send, RespondChanged, RespondNoop, RespondError,
                RespondLie, VerifyFail
  <2> QED BY <2>1, <2>2
<1>9. CASE Collect(c)
  BY <1>1, <1>9 DEF PartTypeOK, Collect, Call, Attempts
<1> QED BY <1>2, <1>4, <1>8, <1>9

LEMMA PartTypeStutter == PartTypeOK /\ UNCHANGED partVars => PartTypeOK'
BY DEF PartTypeOK, partVars

\* Recording the result of a step keeps the Run a Run.
LEMMA StepsType ==
  ASSUME NEW steps \in Seq(StepStatus), NEW i, NEW x \in StepStatus
  PROVE  [steps EXCEPT ![i] = x] \in Seq(StepStatus)
<1>1. PICK n \in Nat : steps \in [1..n -> StepStatus]
  OBVIOUS
<1>2. [steps EXCEPT ![i] = x] \in [1..n -> StepStatus]
  BY <1>1
<1> QED BY <1>2

LEMMA RecordType ==
  ASSUME EngTypeOK, NEW r \in Runs, NEW x \in StepStatus, NEW i,
         run' = [run EXCEPT ![r].steps[i] = x]
  PROVE  run' \in [Runs -> Run] /\ \A s \in Runs : run'[s].status = run[s].status
<1>1. run[r] \in Run /\ run[r].steps \in Seq(StepStatus)
  BY DEF EngTypeOK, Run
<1> DEFINE steps == [run[r].steps EXCEPT ![i] = x]
<1>2. steps \in Seq(StepStatus)
  BY <1>1, StepsType
<1>3. run' = [run EXCEPT ![r].steps = steps]
  BY DEF EngTypeOK
<1> HIDE DEF steps
<1>4. ASSUME NEW s \in Runs
      PROVE  run'[s] \in Run /\ run'[s].status = run[s].status
  <2>1. run[s] \in Run
    BY DEF EngTypeOK
  <2>2. run'[s] = IF s = r THEN [run[r] EXCEPT !.steps = steps] ELSE run[s]
    BY <1>3 DEF EngTypeOK
  <2>3. ASSUME NEW old \in Run
        PROVE  /\ [old EXCEPT !.steps = steps] \in Run
               /\ [old EXCEPT !.steps = steps].status = old.status
    BY <1>2 DEF Run
  <2> QED BY <1>1, <2>1, <2>2, <2>3
<1>5. DOMAIN run' = Runs /\ run' = [s \in Runs |-> run'[s]]
  BY <1>3 DEF EngTypeOK
<1> QED BY <1>4, <1>5

\* Leaving the loop keeps the goroutine's variables well-typed.
LEMMA LeaveType ==
  ASSUME EngTypeOK, NEW r \in Runs, NEW final \in Outcomes, Leave(r, final)
  PROVE  pc' \in [Runs -> Points] /\ exec' \in [Runs -> Exec]
<1>1. run[r].open \in SUBSET Links
  BY DEF EngTypeOK, Run
<1>2. pc' \in [Runs -> Points]
  BY DEF EngTypeOK, Leave, Moves, Points
<1>3. <<>> \in Seq(Links)
  OBVIOUS
<1>4. exec' \in [Runs -> Exec]
  BY <1>1, <1>3 DEF EngTypeOK, Leave, Exec
<1> QED BY <1>2, <1>4

\* So does reporting another status.
LEMMA StatusType ==
  ASSUME EngTypeOK, NEW r \in Runs, NEW v \in Active,
         run' = [run EXCEPT ![r].status = v]
  PROVE  /\ run' \in [Runs -> Run]
         /\ run'[r].status = v
         /\ \A s \in Runs : s # r => run'[s].status = run[s].status
<1>1. run[r] \in Run
  BY DEF EngTypeOK
<1>2. [run[r] EXCEPT !.status = v] \in Run /\ [run[r] EXCEPT !.status = v].status = v
  BY <1>1 DEF Run
<1>3. run' = [run EXCEPT ![r] = [run[r] EXCEPT !.status = v]]
  BY DEF EngTypeOK
<1> QED BY <1>2, <1>3 DEF EngTypeOK

\* The step a run is at is a step.
LEMMA CurrentType ==
  ASSUME EngTypeOK, NEW r \in Runs, exec[r].idx \in 1..Len(exec[r].def)
  PROVE  Current(r) \in ScenarioStep
BY DEF EngTypeOK, Exec, Current

------------------------------------------------------------------------------
(* The invariant, one lemma per action. *)

\* A step that moves one run between points with the same reported status.
LEMMA MoveInv ==
  ASSUME OneInv, NEW r \in Runs, NEW point \in Points,
         pc' = [pc EXCEPT ![r] = point],
         EngTypeOK',
         \A s \in Runs : s # r => run'[s].status = run[s].status,
         \A s \in Runs : s # r => exec'[s] = exec[s],
         StatusAt(r)', IndexOK(r)',
         Working(r)' => Working(r) \/ TornReads \/ \A s \in Runs : ~Working(s)
  PROVE  OneInv'
<1>1. ASSUME NEW s \in Runs, s # r PROVE pc'[s] = pc[s]
  BY <1>1 DEF OneInv, EngTypeOK
<1>2. \A s \in Runs : StatusAt(s)' /\ IndexOK(s)'
  BY <1>1 DEF OneInv, StatusAt, IndexOK
<1>3. TornReads \/ \A s, t \in Runs : Working(s)' /\ Working(t)' => s = t
  BY <1>1 DEF OneInv, Working
<1> QED BY <1>2, <1>3 DEF OneInv

LEMMA StartInv ==
  ASSUME OneInv, NEW r \in Runs, NEW def \in Scenarios,
         NEW mode \in Modes, NEW keep \in KeepChoices,
         Start(r, def, mode, keep)
  PROVE  OneInv'
<1> USE EngineAssumption
<1> DEFINE steps == [i \in 1..Len(def) |-> "pending"]
           new == [status |-> "running", mode |-> mode, keep |-> keep,
                   steps |-> steps, open |-> {}]
<1>1. def \in Seq(ScenarioStep) /\ Len(def) \in Nat
  OBVIOUS
<1>2. steps \in Seq(StepStatus)
  BY <1>1 DEF StepStatus
<1>3. new \in Run
  BY <1>2 DEF Run, Active
<1>4. run' = [run EXCEPT ![r] = new]
  BY DEF Start
<1> HIDE DEF new
<1>5. run' \in [Runs -> Run] /\ run'[r] = new
  BY <1>3, <1>4 DEF OneInv, EngTypeOK
<1>6. EngTypeOK'
  <2>1. exec' \in [Runs -> Exec]
    <3>1. exec[r] \in Exec
      BY DEF OneInv, EngTypeOK
    <3>2. [exec[r] EXCEPT !.def = def] \in Exec
      BY <1>1, <3>1 DEF Exec
    <3>3. exec' = [exec EXCEPT ![r] = [exec[r] EXCEPT !.def = def]]
      BY DEF OneInv, EngTypeOK, Start
    <3> QED BY <3>2, <3>3 DEF OneInv, EngTypeOK
  <2>2. pc' \in [Runs -> Points]
    BY DEF OneInv, EngTypeOK, Start, Moves, Points
  <2>3. PartTypeOK'
    BY PartTypeStutter DEF OneInv, EngTypeOK, Start
  <2> QED BY <1>5, <2>1, <2>2, <2>3 DEF OneInv, EngTypeOK, Start
<1>7. new.status = "running"
  BY DEF new
<1>8. StatusAt(r)' /\ IndexOK(r)'
  BY <1>5, <1>7 DEF OneInv, EngTypeOK, StatusAt, IndexOK, Start, Moves, Exec
<1>9. TornReads \/ \A s \in Runs : ~Working(s)
  BY DEF Start, Overlooked, OneInv, EngTypeOK, StatusAt, Working, Active, Points
<1>10. \A s \in Runs : s # r => run'[s].status = run[s].status /\ exec'[s] = exec[s]
  BY <1>4 DEF Start, OneInv, EngTypeOK
<1>11. pc' = [pc EXCEPT ![r] = "registered"]
  BY DEF Start, Moves
<1> QED BY <1>6, <1>8, <1>9, <1>10, <1>11, MoveInv DEF Points

\* Steps that leave the reported statuses and the goroutines' variables alone.
LEMMA MoveOnlyInv ==
  ASSUME OneInv, NEW r \in Runs, Working(r), NEW point \in Points,
         Moves(r, point), run' \in [Runs -> Run],
         \A s \in Runs : s # r => run'[s].status = run[s].status,
         PartTypeOK', token' \in [Runs -> BOOLEAN], UNCHANGED <<exec, canceled, begun, stopped>>,
         file' \in [Runs -> {"none", "torn", "whole"}], saved' \in [Runs -> Run],
         StatusAt(r)', IndexOK(r)'
  PROVE  OneInv'
<1>1. EngTypeOK'
  BY DEF OneInv, EngTypeOK, Moves
<1> QED BY <1>1, MoveInv DEF Moves

LEMMA LaunchInv == ASSUME OneInv, NEW r \in Runs, Launch(r) PROVE OneInv'
<1>1. StatusAt(r)' /\ IndexOK(r)' /\ Working(r)
  BY DEF OneInv, EngTypeOK, StatusAt, IndexOK, Working, Launch, Moves, At
<1>2. PartTypeOK'
  BY PartTypeStutter DEF OneInv, EngTypeOK, Launch
<1> QED BY <1>1, <1>2, MoveOnlyInv DEF OneInv, EngTypeOK, Launch, Points

LEMMA PauseInv == ASSUME OneInv, NEW r \in Runs, Pause(r) PROVE OneInv'
<1>1. run' = [run EXCEPT ![r].status = "paused"]
  BY DEF Pause
<1>2. run' \in [Runs -> Run] /\ run'[r].status = "paused"
  BY <1>1, StatusType DEF OneInv, Active
<1>3. StatusAt(r)' /\ IndexOK(r)' /\ Working(r)
  BY <1>2 DEF OneInv, EngTypeOK, StatusAt, IndexOK, Working, Pause, Moves, At, Last, Exec
<1>4. PartTypeOK'
  BY PartTypeStutter DEF OneInv, EngTypeOK, Pause
<1>5. \A s \in Runs : s # r => run'[s].status = run[s].status
  BY <1>1, StatusType DEF OneInv, Active
<1> QED BY <1>2, <1>3, <1>4, <1>5, MoveOnlyInv DEF OneInv, EngTypeOK, Pause, Points

LEMMA ResumeInv == ASSUME OneInv, NEW r \in Runs, Resume(r) PROVE OneInv'
<1>1. run' = [run EXCEPT ![r].status = "running"]
  BY DEF Resume
<1>2. run' \in [Runs -> Run] /\ run'[r].status = "running"
  BY <1>1, StatusType DEF OneInv, Active
<1>3. StatusAt(r)' /\ IndexOK(r)' /\ Working(r)
  BY <1>2 DEF OneInv, EngTypeOK, StatusAt, IndexOK, Working, Resume, Moves, At
<1>4. PartTypeOK'
  BY PartTypeStutter DEF OneInv, EngTypeOK, Resume
<1>5. \A s \in Runs : s # r => run'[s].status = run[s].status
  BY <1>1, StatusType DEF OneInv, Active
<1>6. token' \in [Runs -> BOOLEAN]
  BY DEF OneInv, EngTypeOK, Resume
<1> QED BY <1>2, <1>3, <1>4, <1>5, <1>6, MoveOnlyInv
        DEF OneInv, EngTypeOK, Resume, Points

\* Leaving the loop, wherever execute does so.
LEMMA LeaveInv ==
  ASSUME OneInv, NEW r \in Runs, NEW final \in Outcomes, Leave(r, final),
         pc[r] \in {"loop", "resumed", "stepSave"},
         UNCHANGED <<partVars, run, token, canceled, begun, stopped>>,
         file' \in [Runs -> {"none", "torn", "whole"}], saved' \in [Runs -> Run]
  PROVE  OneInv'
<1>1. EngTypeOK'
  BY LeaveType, PartTypeStutter DEF OneInv, EngTypeOK
<1>2. StatusAt(r)' /\ IndexOK(r)' /\ Working(r)
  BY DEF OneInv, EngTypeOK, StatusAt, IndexOK, Working, Leave, Moves
<1>3. \A s \in Runs : s # r => run'[s].status = run[s].status /\ exec'[s] = exec[s]
  BY DEF OneInv, EngTypeOK, Leave
<1>4. pc' = [pc EXCEPT ![r] = "cleanup"]
  BY DEF Leave, Moves
<1> QED BY <1>1, <1>2, <1>3, <1>4, MoveInv DEF Points

LEMMA BeginStepInv == ASSUME OneInv, NEW r \in Runs, BeginStep(r) PROVE OneInv'
<1>1. CASE canceled[r]
  BY <1>1, LeaveInv DEF OneInv, EngTypeOK, BeginStep, At, Outcomes
<1>2. CASE ~canceled[r]
  <2>1. /\ run' = [run EXCEPT ![r].steps[exec[r].idx] = "running"]
        /\ pc' = [pc EXCEPT ![r] = "step"]
        /\ exec' = [exec EXCEPT ![r].todo = Current(r).links]
    BY <1>2 DEF BeginStep, Moves
  <2>2. exec[r] \in Exec /\ exec[r].idx \in 1..Len(exec[r].def)
    BY DEF OneInv, EngTypeOK, IndexOK, BeginStep, At, Last, Exec
  <2>3. Current(r).links \in Seq(Links)
    BY <2>2, CurrentType DEF OneInv, ScenarioStep
  <2>4. exec' \in [Runs -> Exec] /\ exec'[r].idx = exec[r].idx /\ exec'[r].def = exec[r].def
    <3>1. [exec[r] EXCEPT !.todo = Current(r).links] \in Exec
      BY <2>2, <2>3 DEF Exec
    <3>2. exec' = [exec EXCEPT ![r] = [exec[r] EXCEPT !.todo = Current(r).links]]
      BY <2>1 DEF OneInv, EngTypeOK
    <3> QED BY <2>2, <3>1, <3>2 DEF OneInv, EngTypeOK, Exec
  <2>5. run' \in [Runs -> Run] /\ \A s \in Runs : run'[s].status = run[s].status
    BY <2>1, RecordType DEF OneInv, StepStatus
  <2>6. EngTypeOK'
    BY <2>1, <2>4, <2>5, PartTypeStutter DEF OneInv, EngTypeOK, BeginStep, Points
  <2>7. StatusAt(r)' /\ IndexOK(r)' /\ Working(r)
    BY <2>1, <2>2, <2>4, <2>5
       DEF OneInv, EngTypeOK, StatusAt, IndexOK, Working, BeginStep, At
  <2>8. \A s \in Runs : s # r => exec'[s] = exec[s]
    BY <2>1 DEF OneInv, EngTypeOK
  <2> QED BY <2>1, <2>5, <2>6, <2>7, <2>8, MoveInv DEF Points
<1> QED BY <1>1, <1>2

\* A step that stays where it is, or is somebody else's.
LEMMA StayInv ==
  ASSUME OneInv, EngTypeOK', UNCHANGED pc,
         \A s \in Runs : /\ run'[s].status = run[s].status
                         /\ exec'[s].idx = exec[s].idx
                         /\ exec'[s].def = exec[s].def
  PROVE  OneInv'
BY DEF OneInv, StatusAt, IndexOK, Working

\* Steps that only touch the Partition calls, the token or the history.
LEMMA CallsInv ==
  ASSUME OneInv, PartTypeOK', UNCHANGED <<run, pc, exec, file, saved, begun>>,
         token' \in [Runs -> BOOLEAN], canceled' \in [Runs -> BOOLEAN],
         stopped' \in SUBSET Runs
  PROVE  OneInv'
<1>1. EngTypeOK'
  BY DEF OneInv, EngTypeOK
<1> QED BY <1>1, StayInv

LEMMA PressNextInv == ASSUME OneInv, NEW r \in Runs, PressNext(r) PROVE OneInv'
<1>1. PartTypeOK'
  BY PartTypeStutter DEF OneInv, EngTypeOK, PressNext
<1> QED BY <1>1, CallsInv DEF OneInv, EngTypeOK, PressNext

LEMMA AbortInv == ASSUME OneInv, NEW r \in Runs, Abort(r) PROVE OneInv'
<1>1. PartTypeOK'
  BY PartTypeStutter DEF OneInv, EngTypeOK, Abort
<1> QED BY <1>1, CallsInv DEF OneInv, EngTypeOK, Abort, At

LEMMA RequestInv ==
  ASSUME OneInv, NEW c \in Callers, NEW l \in Links, NEW on \in BOOLEAN,
         Request(c, l, on)
  PROVE  OneInv'
<1>1. PartTypeOK'
  BY PartStepType DEF OneInv, EngTypeOK, Request
<1> QED BY <1>1, CallsInv DEF OneInv, EngTypeOK, Request, engVars

LEMMA CallingInv ==
  ASSUME OneInv, NEW c \in Callers, Calling(c) PROVE OneInv'
<1>1. CtxDone(c) \in BOOLEAN
  BY DEF CtxDone
<1>2. PartTypeOK'
  BY <1>1, PartStepType DEF OneInv, EngTypeOK, Calling
<1> QED BY <1>2, CallsInv DEF OneInv, EngTypeOK, Calling, engVars

LEMMA StrayInv ==
  ASSUME OneInv, NEW request \in adrift, Drift(request), UNCHANGED engVars
  PROVE  OneInv'
<1>1. PartTypeOK'
  BY DriftType DEF OneInv, EngTypeOK
<1> QED BY <1>1, CallsInv DEF OneInv, EngTypeOK, engVars

LEMMA CutLinkInv == ASSUME OneInv, NEW r \in Runs, Cut(r) PROVE OneInv'
<1>1. exec[r] \in Exec /\ exec[r].idx \in 1..Len(exec[r].def)
  BY DEF OneInv, EngTypeOK, IndexOK, Cut, At, Exec
<1>2. Current(r).on \in BOOLEAN
  BY <1>1, CurrentType DEF OneInv, ScenarioStep
<1>3. Head(exec[r].todo) \in Links
  <2>1. exec[r].todo \in Seq(Links) /\ exec[r].todo # <<>>
    BY <1>1 DEF Cut, Exec
  <2> QED BY <2>1
<1>4. PartTypeOK'
  BY <1>2, <1>3, PartStepType, EngineAssumption DEF OneInv, EngTypeOK, Cut
<1> QED BY <1>4, CallsInv DEF OneInv, EngTypeOK, Cut, engVars

LEMMA HealInv == ASSUME OneInv, NEW r \in Runs, Heal(r) PROVE OneInv'
<1>1. exec[r].heal \in SUBSET Links
  BY DEF OneInv, EngTypeOK, Exec
<1>2. PartTypeOK'
  BY <1>1, PartStepType, EngineAssumption DEF OneInv, EngTypeOK, Heal
<1> QED BY <1>2, CallsInv DEF OneInv, EngTypeOK, Heal, engVars

\* Collecting the result of a call keeps the types.
LEMMA CollectType ==
  ASSUME OneInv, NEW r \in Runs, Collect(r) PROVE PartTypeOK' /\ call[r].link \in Links
BY PartStepType, EngineAssumption DEF OneInv, EngTypeOK, PartTypeOK, Call

LEMMA CutDoneInv == ASSUME OneInv, NEW r \in Runs, CutDone(r) PROVE OneInv'
<1>1. PartTypeOK' /\ call[r].link \in Links
  BY CollectType DEF CutDone
<1> DEFINE open == IF Current(r).on THEN run[r].open \cup {call[r].link}
                                    ELSE run[r].open \ {call[r].link}
<1>2. run[r] \in Run /\ open \in SUBSET Links
  BY <1>1 DEF OneInv, EngTypeOK, Run
<1>3. run' = [run EXCEPT ![r] = [run[r] EXCEPT !.open = open]]
  BY DEF CutDone, OneInv, EngTypeOK
<1> HIDE DEF open
<1>4. /\ [run[r] EXCEPT !.open = open] \in Run
      /\ [run[r] EXCEPT !.open = open].status = run[r].status
  BY <1>2 DEF Run
<1>5. run' \in [Runs -> Run] /\ \A s \in Runs : run'[s].status = run[s].status
  BY <1>3, <1>4 DEF OneInv, EngTypeOK
<1>6. exec[r] \in Exec /\ Tail(exec[r].todo) \in Seq(Links)
  <2>1. exec[r] \in Exec /\ exec[r].todo # <<>>
    BY DEF OneInv, EngTypeOK, CutDone
  <2>2. exec[r].todo \in Seq(Links)
    BY <2>1 DEF Exec
  <2> QED BY <2>1, <2>2
<1> DEFINE todo == Tail(exec[r].todo)
<1>7. exec' = [exec EXCEPT ![r] = [exec[r] EXCEPT !.todo = todo]]
  BY DEF CutDone, OneInv, EngTypeOK
<1>8. todo \in Seq(Links)
  BY <1>6
<1> HIDE DEF todo
<1>9. /\ [exec[r] EXCEPT !.todo = todo] \in Exec
      /\ [exec[r] EXCEPT !.todo = todo].idx = exec[r].idx
      /\ [exec[r] EXCEPT !.todo = todo].def = exec[r].def
  BY <1>6, <1>8 DEF Exec
<1>10. /\ exec' \in [Runs -> Exec]
       /\ \A s \in Runs : exec'[s].idx = exec[s].idx /\ exec'[s].def = exec[s].def
  BY <1>7, <1>9 DEF OneInv, EngTypeOK
<1>11. EngTypeOK'
  BY <1>1, <1>5, <1>10 DEF OneInv, EngTypeOK, CutDone
<1> QED BY <1>5, <1>10, <1>11, StayInv DEF CutDone

LEMMA HealedInv == ASSUME OneInv, NEW r \in Runs, Healed(r) PROVE OneInv'
<1>1. PartTypeOK' /\ exec[r] \in Exec
  BY CollectType DEF Healed, OneInv, EngTypeOK
<1> DEFINE heal == exec[r].heal \ {call[r].link}
<1>2. heal \in SUBSET Links
  BY <1>1 DEF Exec
<1>3. exec' = [exec EXCEPT ![r] = [exec[r] EXCEPT !.heal = heal]]
  BY DEF Healed, OneInv, EngTypeOK
<1> HIDE DEF heal
<1>4. /\ [exec[r] EXCEPT !.heal = heal] \in Exec
      /\ [exec[r] EXCEPT !.heal = heal].idx = exec[r].idx
      /\ [exec[r] EXCEPT !.heal = heal].def = exec[r].def
  BY <1>1, <1>2 DEF Exec
<1>5. /\ exec' \in [Runs -> Exec]
      /\ \A s \in Runs : exec'[s].idx = exec[s].idx /\ exec'[s].def = exec[s].def
  BY <1>3, <1>4 DEF OneInv, EngTypeOK
<1>6. EngTypeOK'
  BY <1>1, <1>5 DEF OneInv, EngTypeOK, Healed
<1> QED BY <1>5, <1>6, StayInv DEF Healed

\* The end of a step, in whatever state it ends.
LEMMA RecordInv ==
  ASSUME OneInv, NEW r \in Runs, At(r, "step"), NEW result \in StepStatus,
         Record(r, result), PartTypeOK',
         UNCHANGED <<exec, token, canceled, file, saved, begun, stopped>>
  PROVE  OneInv'
<1>1. run' \in [Runs -> Run] /\ \A s \in Runs : run'[s].status = run[s].status
  BY RecordType DEF OneInv, Record
<1>2. StatusAt(r)' /\ IndexOK(r)' /\ Working(r)
  BY <1>1 DEF OneInv, EngTypeOK, StatusAt, IndexOK, Working, Record, Moves, At
<1> QED BY <1>1, <1>2, MoveOnlyInv DEF OneInv, EngTypeOK, Record, Points

LEMMA EndStepInv ==
  ASSUME OneInv, NEW r \in Runs, EndStep(r) \/ CutFailed(r) PROVE OneInv'
<1>1. PartTypeOK'
  BY CollectType, PartTypeStutter DEF OneInv, EngTypeOK, EndStep, CutFailed
<1> QED BY <1>1, RecordInv DEF EndStep, CutFailed, StepStatus

LEMMA EndLoopInv == ASSUME OneInv, NEW r \in Runs, EndLoop(r) PROVE OneInv'
BY LeaveInv DEF OneInv, EngTypeOK, EndLoop, At, Outcomes

LEMMA FinishInv == ASSUME OneInv, NEW r \in Runs, Finish(r) PROVE OneInv'
<1> DEFINE old == run[r].steps
           steps == [i \in DOMAIN old |-> IF old[i] = "pending" THEN "skipped"
                                                                ELSE old[i]]
           new == [status |-> exec[r].final, mode |-> run[r].mode,
                   keep |-> run[r].keep,
                   open |-> IF run[r].keep THEN run[r].open ELSE {},
                   steps |-> steps]
<1>1. run[r] \in Run /\ exec[r].final \in Outcomes /\ old \in Seq(StepStatus)
  BY DEF OneInv, EngTypeOK, Run, Exec
<1>2. steps \in Seq(StepStatus)
  <2>1. PICK n \in Nat : old \in [1..n -> StepStatus]
    BY <1>1
  <2>2. steps \in [1..n -> StepStatus]
    BY <2>1 DEF StepStatus
  <2> QED BY <2>2
<1>3. run' = [run EXCEPT ![r] = new]
  BY DEF Finish, OneInv, EngTypeOK
<1> HIDE DEF steps
<1>4. new \in Run /\ new.status \in Outcomes
  BY <1>1, <1>2 DEF Run
<1> HIDE DEF new
<1>5. /\ run' \in [Runs -> Run] /\ run'[r].status \in Outcomes
      /\ \A s \in Runs : s # r => run'[s].status = run[s].status
  BY <1>3, <1>4 DEF OneInv, EngTypeOK
<1>6. StatusAt(r)' /\ IndexOK(r)' /\ Working(r)
  BY <1>5 DEF OneInv, EngTypeOK, StatusAt, IndexOK, Working, Finish, Moves, At
<1>7. PartTypeOK'
  BY PartTypeStutter DEF OneInv, EngTypeOK, Finish
<1> QED BY <1>5, <1>6, <1>7, MoveOnlyInv DEF OneInv, EngTypeOK, Finish, Points

LEMMA TruncateInv == ASSUME OneInv, NEW r \in Runs, Truncate(r) PROVE OneInv'
<1>1. EngTypeOK'
  BY PartTypeStutter DEF OneInv, EngTypeOK, Truncate
<1> QED BY <1>1, StayInv DEF Truncate

LEMMA WriteInv == ASSUME OneInv, NEW r \in Runs, Write(r) PROVE OneInv'
<1>1. /\ file' \in [Runs -> {"none", "torn", "whole"}]
      /\ saved' \in [Runs -> Run] /\ PartTypeOK'
  BY PartTypeStutter DEF OneInv, EngTypeOK, Write
<1>2. CASE At(r, "pauseSave") /\ Moves(r, "waiting") /\ UNCHANGED exec
  <2>1. StatusAt(r)' /\ IndexOK(r)' /\ Working(r)
    BY <1>2 DEF OneInv, EngTypeOK, StatusAt, IndexOK, Working, Write, Moves, At
  <2> QED BY <1>1, <1>2, <2>1, MoveOnlyInv DEF OneInv, EngTypeOK, Write, Points
<1>3. CASE At(r, "finalSave") /\ Moves(r, "done") /\ UNCHANGED exec
  <2>1. StatusAt(r)' /\ IndexOK(r)' /\ ~Working(r)'
    BY <1>3 DEF OneInv, EngTypeOK, StatusAt, IndexOK, Working, Write, Moves, At
  <2>2. EngTypeOK'
    BY <1>1, <1>3 DEF OneInv, EngTypeOK, Write, Moves, Points
  <2> QED BY <1>3, <2>1, <2>2, MoveInv DEF Write, Moves, Points
<1>4. CASE At(r, "stepSave") /\ Leave(r, "failed")
  BY <1>1, <1>4, LeaveInv DEF OneInv, EngTypeOK, Write, At, Outcomes
<1>5. CASE At(r, "stepSave") /\ Moves(r, "loop")
           /\ exec' = [exec EXCEPT ![r].idx = @ + 1]
  <2>1. exec[r] \in Exec /\ exec[r].idx + 1 \in Nat /\ exec[r].idx + 1 >= 1
    BY DEF OneInv, EngTypeOK, Exec, IndexOK
  <2> DEFINE idx == exec[r].idx + 1
  <2>2. exec' = [exec EXCEPT ![r] = [exec[r] EXCEPT !.idx = idx]]
    BY <1>5 DEF OneInv, EngTypeOK
  <2>3. idx \in Nat /\ idx >= 1
    BY <2>1
  <2> HIDE DEF idx
  <2>4. [exec[r] EXCEPT !.idx = idx] \in Exec /\ [exec[r] EXCEPT !.idx = idx].idx = idx
    BY <2>1, <2>3 DEF Exec
  <2>5. /\ exec' \in [Runs -> Exec] /\ exec'[r].idx >= 1
        /\ \A s \in Runs : s # r => exec'[s] = exec[s]
    BY <2>2, <2>3, <2>4 DEF OneInv, EngTypeOK
  <2>6. StatusAt(r)' /\ IndexOK(r)' /\ Working(r)
    BY <1>5, <2>5 DEF OneInv, EngTypeOK, StatusAt, IndexOK, Working, Write, Moves, At
  <2>7. EngTypeOK'
    BY <1>1, <1>5, <2>5 DEF OneInv, EngTypeOK, Write, Moves, Points
  <2> QED BY <1>5, <2>5, <2>6, <2>7, MoveInv DEF Write, Moves, Points
<1> QED BY <1>2, <1>3, <1>4, <1>5 DEF Write

LEMMA RestartInv == ASSUME OneInv, Restart PROVE OneInv'
<1>1. PartTypeOK'
  BY PartRestartType DEF OneInv, EngTypeOK, Restart
<1>2. ASSUME NEW r \in Runs PROVE Loaded(r) \in Run /\ Loaded(r).status \notin Active
  <2>1. NoRun \in Run /\ NoRun.status \notin Active
    BY DEF NoRun, Run, Active
  <2>2. saved[r] \in Run
    BY DEF OneInv, EngTypeOK
  <2>3. /\ [saved[r] EXCEPT !.status = "aborted"] \in Run
        /\ [saved[r] EXCEPT !.status = "aborted"].status = "aborted"
    BY <2>2 DEF Run, Outcomes
  <2> QED BY <2>1, <2>2, <2>3 DEF Loaded, Active
<1>3. NoExec \in Exec /\ NoExec.idx = 1
  BY DEF NoExec, Exec, Outcomes
<1>4. EngTypeOK'
  BY <1>1, <1>2, <1>3 DEF OneInv, EngTypeOK, Restart, Points
<1>5. \A r \in Runs : StatusAt(r)' /\ IndexOK(r)' /\ ~Working(r)'
  BY <1>2, <1>3 DEF Restart, StatusAt, IndexOK, Working
<1> QED BY <1>4, <1>5 DEF OneInv

LEMMA StutterInv == OneInv /\ UNCHANGED vars => OneInv'
<1> SUFFICES ASSUME OneInv, UNCHANGED vars PROVE OneInv'
  OBVIOUS
<1>1. EngTypeOK'
  BY PartTypeStutter DEF OneInv, EngTypeOK, vars, engVars
<1> QED BY <1>1, StayInv DEF vars, engVars

LEMMA OneNextInv == OneInv /\ [Next]_vars => OneInv'
<1> SUFFICES ASSUME OneInv, [Next]_vars PROVE OneInv'
  OBVIOUS
<1>1. ASSUME NEW r \in Runs, Execute(r) PROVE OneInv'
  BY <1>1, LaunchInv, PauseInv, ResumeInv, BeginStepInv, CutLinkInv, CutDoneInv,
     EndStepInv, EndLoopInv, HealInv, HealedInv, FinishInv, TruncateInv, WriteInv
     DEF Execute
<1>2. CASE Next
  BY <1>1, <1>2, StartInv, PressNextInv, AbortInv, RequestInv, CallingInv, StrayInv,
     RestartInv
     DEF Next
<1>3. CASE UNCHANGED vars
  BY <1>3, StutterInv
<1> QED BY <1>2, <1>3

\* Every variable of the engine has its type in every reachable state.
THEOREM EngineTypes == Spec => []EngTypeOK
<1>1. OneInv => EngTypeOK
  BY DEF OneInv
<1> QED BY <1>1, InitOneInv, OneNextInv, PTL DEF Spec

\* No run starts before the goroutine of every other is out of its steps and
\* its cleanup, whatever the runs do and however often the engine restarts, if
\* Start reads whole statuses.
THEOREM EngineRunsOneAtATime == ~TornReads => (Spec => []OneRunAtATime)
<1> SUFFICES ASSUME ~TornReads PROVE Spec => []OneRunAtATime
  OBVIOUS
<1>1. OneInv => OneRunAtATime
  BY OneInvImpliesOneRun
<1> QED BY <1>1, InitOneInv, OneNextInv, PTL DEF Spec

------------------------------------------------------------------------------
(* The engine uses Partition as Partition is specified. *)

LEMMA EngineStepIsPartStep == OneInv /\ [Next]_vars => [PartNext]_partVars
<1> SUFFICES ASSUME OneInv, [Next]_vars PROVE PartNext \/ UNCHANGED partVars
  BY DEF partVars
<1>1. ASSUME NEW r \in Runs, Execute(r) PROVE PartNext \/ UNCHANGED partVars
  <2>1. CASE Cut(r)
    <3>1. exec[r] \in Exec /\ exec[r].idx \in 1..Len(exec[r].def)
      BY <2>1 DEF OneInv, EngTypeOK, IndexOK, Cut, At, Exec
    <3>2. Current(r).on \in BOOLEAN
      BY <3>1, CurrentType DEF OneInv, ScenarioStep
    <3>3. exec[r].todo \in Seq(Links) /\ exec[r].todo # <<>>
      BY <2>1, <3>1 DEF Cut, Exec
    <3>4. Head(exec[r].todo) \in Links
      BY <3>3
    <3> QED BY <2>1, <3>2, <3>4, EngineAssumption DEF Cut, PartNext
  <2>2. CASE Heal(r)
    <3>1. exec[r].heal \in SUBSET Links
      BY DEF OneInv, EngTypeOK, Exec
    <3> QED BY <2>2, <3>1, EngineAssumption DEF Heal, PartNext
  <2>3. CASE CutDone(r) \/ CutFailed(r) \/ Healed(r)
    BY <2>3, EngineAssumption DEF CutDone, CutFailed, Healed, PartNext
  <2>4. CASE Launch(r) \/ Pause(r) \/ Resume(r) \/ BeginStep(r) \/ EndStep(r)
             \/ EndLoop(r) \/ Finish(r) \/ Truncate(r) \/ Write(r)
    BY <2>4 DEF Launch, Pause, Resume, BeginStep, EndStep, EndLoop, Finish,
                Truncate, Write, partVars
  <2> QED BY <1>1, <2>1, <2>2, <2>3, <2>4 DEF Execute
<1>2. ASSUME NEW c \in Callers, Calling(c) PROVE PartNext
  <2>1. CtxDone(c) \in BOOLEAN
    BY DEF CtxDone
  <2> QED BY <1>2, <2>1 DEF Calling, PartNext
<1>3. ASSUME NEW c \in Callers, NEW l \in Links, NEW on \in BOOLEAN, Request(c, l, on)
      PROVE  PartNext
  BY <1>3 DEF Request, PartNext
<1>4. CASE UNCHANGED vars
  BY <1>4 DEF vars, partVars
<1>5. ASSUME NEW r \in Runs, PressNext(r) \/ Abort(r) PROVE UNCHANGED partVars
  BY <1>5 DEF PressNext, Abort, partVars
<1>6. ASSUME NEW r \in Runs, NEW def \in Scenarios, NEW mode \in Modes,
             NEW keep \in KeepChoices, Start(r, def, mode, keep)
      PROVE  UNCHANGED partVars
  BY <1>6 DEF Start, partVars
<1>7. CASE Restart
  BY <1>7 DEF Restart, PartNext
<1>8. ASSUME NEW request \in adrift, Drift(request) PROVE PartNext
  BY <1>8 DEF PartNext
<1> QED BY <1>1, <1>2, <1>3, <1>4, <1>5, <1>6, <1>7, <1>8 DEF Next

\* Seen through its Partition calls, the engine is a client that respects
\* Partition's protocol: it implements PartSpec.
THEOREM EngineUsesPartition == Spec => PartSpec
<1>1. Init => PartInit
  BY DEF Init
<1> QED BY <1>1, InitOneInv, OneNextInv, EngineStepIsPartStep, PTL DEF Spec, PartSpec

\* So the calls of runs, of their cleanups and of users stay serialised, the
\* display tells the truth, and a reported success is one, whatever is aborted
\* or restarted.
THEOREM EngineSafePartitions ==
  Spec => [](Serialised /\ DisplayTruthful) /\ SuccessIsReal
BY EngineUsesPartition, PartitionSafe, PartitionSuccess, PTL

------------------------------------------------------------------------------
(* Outcomes *)

\* Steps that were begun come after steps that passed.
InOrder(steps) ==
  \A i, j \in DOMAIN steps :
    i < j /\ steps[j] \in {"running", "passed", "failed"} => steps[i] = "passed"

\* What the step the run is at may be, between two statements of execute.
Here(r) ==
  CASE pc[r] = "step" -> {"running"}
    [] pc[r] = "stepSave" -> {"passed", "failed"}
    [] pc[r] = "cleanup" /\ exec[r].final = "failed" -> {"failed"}
    [] OTHER -> {"pending"}

\* While the goroutine works, the steps before the current one passed and those
\* after it are pending; the outcome it leaves the loop with has its reason.
Progress(r) ==
  /\ DOMAIN run[r].steps = 1..Len(exec[r].def)
  /\ \A i \in DOMAIN run[r].steps :
       /\ i < exec[r].idx => run[r].steps[i] = "passed"
       /\ i = exec[r].idx => run[r].steps[i] \in Here(r)
       /\ i > exec[r].idx => run[r].steps[i] = "pending"
  /\ pc[r] = "cleanup" =>
       /\ exec[r].final = "passed" => Last(r)
       /\ exec[r].final = "failed" => ~Last(r)
       /\ exec[r].final = "aborted" => r \in stopped

\* What the steps of an ended run must say.
Justified(r) ==
  LET steps == run[r].steps IN
  /\ run[r].status = "passed"  => \A i \in DOMAIN steps : steps[i] = "passed"
  /\ run[r].status = "failed"  => \E i \in DOMAIN steps : steps[i] = "failed"
  /\ run[r].status = "aborted" => /\ r \in stopped
                                  /\ \A i \in DOMAIN steps :
                                       steps[i] \in {"passed", "skipped"}

\* What the API and the run file tell of a run's steps.
Told(r) ==
  /\ Working(r) => Progress(r)
  /\ InOrder(run[r].steps) /\ InOrder(saved[r].steps)
  /\ pc[r] \in {"finalSave", "done"} => Justified(r)
  /\ canceled[r] => r \in stopped
  /\ r \notin begun => pc[r] = "none"
  /\ pc[r] = "none" => exec[r].idx = 1

\* The inductive invariant behind OutcomeJustified.
OutcomeInv == OneInv /\ \A r \in Runs : Told(r)

LEMMA OutcomeInvImplies == OutcomeInv => OutcomeJustified
<1> SUFFICES ASSUME OutcomeInv, NEW r \in Runs
             PROVE  /\ InOrder(run[r].steps)
                    /\ pc[r] \in {"finalSave", "done"} =>
                         CASE run[r].status = "passed" ->
                                \A i \in DOMAIN run[r].steps : run[r].steps[i] = "passed"
                           [] run[r].status = "failed" ->
                                \E i \in DOMAIN run[r].steps : run[r].steps[i] = "failed"
                           [] run[r].status = "aborted" ->
                                /\ r \in stopped
                                /\ \A i \in DOMAIN run[r].steps :
                                     run[r].steps[i] \in {"passed", "skipped"}
  BY DEF OutcomeJustified, InOrder
<1>1. Told(r) /\ StatusAt(r)
  BY DEF OutcomeInv, OneInv
<1> QED BY <1>1 DEF Told, Justified, StatusAt, Outcomes

LEMMA InitOutcomeInv == Init => OutcomeInv
<1> SUFFICES ASSUME Init, NEW r \in Runs PROVE Told(r)
  BY InitOneInv DEF OutcomeInv
<1>1. run[r] = NoRun /\ saved[r] = NoRun /\ pc[r] = "none" /\ exec[r] = NoExec
      /\ canceled[r] = FALSE
  BY DEF Init
<1>2. NoRun.steps = <<>> /\ NoExec.idx = 1 /\ InOrder(<<>>)
  BY DEF NoRun, NoExec, InOrder
<1> QED BY <1>1, <1>2 DEF Told, Working

\* Passed steps, the current one, pending steps: the steps are in order.
LEMMA ProgressInOrder ==
  ASSUME NEW steps, NEW n \in Nat, NEW k \in Nat, DOMAIN steps = 1..n,
         \A i \in DOMAIN steps : /\ i < k => steps[i] = "passed"
                                 /\ i > k => steps[i] = "pending"
  PROVE  InOrder(steps)
<1> SUFFICES ASSUME NEW i \in 1..n, NEW j \in 1..n, i < j,
                    steps[j] \in {"running", "passed", "failed"}
             PROVE  steps[i] = "passed"
  BY DEF InOrder
<1>1. ~(j > k)
  OBVIOUS
<1>2. i < k
  BY <1>1
<1> QED BY <1>2

\* What is told of a run depends on these parts of its state.
LEMMA ToldKept ==
  ASSUME NEW r \in Runs, Told(r),
         run'[r].steps = run[r].steps, run'[r].status = run[r].status,
         saved'[r] = saved[r], pc'[r] = pc[r],
         exec'[r].def = exec[r].def, exec'[r].idx = exec[r].idx,
         exec'[r].final = exec[r].final,
         canceled'[r] => canceled[r] \/ r \in stopped',
         stopped \subseteq stopped', begun \subseteq begun'
  PROVE  Told(r)'
<1>1. Here(r)' = Here(r) /\ Working(r)' = Working(r) /\ Last(r)' = Last(r)
  BY DEF Here, Working, Last
<1>2. Progress(r) => Progress(r)'
  BY <1>1 DEF Progress
<1>3. Justified(r) => Justified(r)'
  BY DEF Justified
<1> QED BY <1>1, <1>2, <1>3 DEF Told, InOrder

\* A step of one run tells nothing new of the others.
LEMMA OneTold ==
  ASSUME OutcomeInv, OneInv', NEW r \in Runs, Told(r)',
         \A s \in Runs : s # r => /\ run'[s] = run[s] /\ saved'[s] = saved[s]
                                  /\ pc'[s] = pc[s] /\ exec'[s] = exec[s],
         UNCHANGED <<canceled, stopped>>, begun \subseteq begun'
  PROVE  OutcomeInv'
<1>1. ASSUME NEW s \in Runs, s # r PROVE Told(s)'
  BY <1>1, ToldKept DEF OutcomeInv
<1> QED BY <1>1 DEF OutcomeInv

LEMMA StartTold ==
  ASSUME OutcomeInv, OneInv', NEW r \in Runs, NEW def \in Scenarios,
         NEW mode \in Modes, NEW keep \in KeepChoices,
         Start(r, def, mode, keep)
  PROVE  OutcomeInv'
<1> DEFINE steps == [i \in 1..Len(def) |-> "pending"]
           new == [status |-> "running", mode |-> mode, keep |-> keep,
                   steps |-> steps, open |-> {}]
<1>1. run[r] \in Run /\ exec[r] \in Exec /\ def \in Seq(ScenarioStep)
  BY EngineAssumption DEF OutcomeInv, OneInv, EngTypeOK
<1>2. Len(def) \in Nat
  BY <1>1
<1>3. run' = [run EXCEPT ![r] = new]
  BY DEF Start
<1>4. new.steps = steps
  OBVIOUS
<1> HIDE DEF new
<1>5. run'[r].steps = steps /\ \A s \in Runs : s # r => run'[s] = run[s]
  BY <1>3, <1>4 DEF OutcomeInv, OneInv, EngTypeOK
<1>6. /\ exec'[r] = [exec[r] EXCEPT !.def = def]
      /\ \A s \in Runs : s # r => exec'[s] = exec[s]
  BY DEF Start, OutcomeInv, OneInv, EngTypeOK
<1>7. exec[r].idx = 1
  BY DEF Start, OutcomeInv, Told
<1>8. exec'[r].idx = 1 /\ exec'[r].def = def
  BY <1>1, <1>6, <1>7 DEF Exec
<1>9. pc'[r] = "registered" /\ \A s \in Runs : s # r => pc'[s] = pc[s]
  BY DEF Start, Moves, OutcomeInv, OneInv, EngTypeOK
<1>10. Here(r)' = {"pending"}
  BY <1>9 DEF Here
<1>11. DOMAIN steps = 1..Len(def) /\ \A i \in 1..Len(def) : steps[i] = "pending" /\ ~(i < 1)
  BY <1>2
<1> HIDE DEF steps
<1>12. Progress(r)'
  BY <1>5, <1>8, <1>9, <1>10, <1>11 DEF Progress
<1>13. InOrder(run'[r].steps)
  BY <1>2, <1>5, <1>8, <1>12, ProgressInOrder DEF Progress
<1>14. saved'[r] = saved[r] /\ canceled'[r] = canceled[r] /\ stopped' = stopped
       /\ begun' = begun \cup {r}
  BY DEF Start
<1>15. Told(r)'
  BY <1>9, <1>12, <1>13, <1>14 DEF OutcomeInv, Told, InOrder
<1> QED BY <1>5, <1>6, <1>9, <1>14, <1>15, OneTold DEF Start

\* A run that moves on without a change to its steps.
LEMMA MoveTold ==
  ASSUME OutcomeInv, OneInv', NEW r \in Runs, Working(r), Working(r)',
         Here(r)' = Here(r), pc'[r] # "cleanup", pc'[r] # "none",
         run'[r].steps = run[r].steps,
         saved'[r] = saved[r] \/ saved'[r] = run[r],
         \A s \in Runs : s # r => /\ run'[s] = run[s] /\ saved'[s] = saved[s]
                                  /\ pc'[s] = pc[s],
         UNCHANGED <<exec, canceled, stopped, begun>>
  PROVE  OutcomeInv'
<1>1. Told(r)
  BY DEF OutcomeInv
<1>2. Progress(r)'
  BY <1>1 DEF Told, Progress
<1>3. Told(r)'
  BY <1>1, <1>2 DEF Told, InOrder, Working
<1> QED BY <1>3, OneTold

\* Another status, or other open partitions, are the same steps.
LEMMA StatusSteps ==
  ASSUME EngTypeOK, NEW r \in Runs, NEW v, run' = [run EXCEPT ![r].status = v]
  PROVE  /\ run'[r].steps = run[r].steps
         /\ \A s \in Runs : s # r => run'[s] = run[s]
<1>1. run[r] \in Run /\ run' = [run EXCEPT ![r] = [run[r] EXCEPT !.status = v]]
  BY DEF EngTypeOK
<1>2. [run[r] EXCEPT !.status = v].steps = run[r].steps
  BY <1>1 DEF Run
<1> QED BY <1>1, <1>2 DEF EngTypeOK

LEMMA LaunchTold ==
  ASSUME OutcomeInv, OneInv', NEW r \in Runs, Launch(r) PROVE OutcomeInv'
<1>1. /\ pc[r] = "registered" /\ pc'[r] = "loop"
      /\ \A s \in Runs : s # r => pc'[s] = pc[s]
  BY DEF Launch, At, Moves, OutcomeInv, OneInv, EngTypeOK
<1>2. Here(r)' = Here(r) /\ Working(r) /\ Working(r)'
  BY <1>1 DEF Here, Working
<1> QED BY <1>1, <1>2, MoveTold DEF Launch

LEMMA PauseTold ==
  ASSUME OutcomeInv, OneInv', NEW r \in Runs, Pause(r) \/ Resume(r)
  PROVE  OutcomeInv'
<1>1. /\ \/ pc[r] = "loop" /\ pc'[r] = "pauseSave"
         \/ pc[r] = "waiting" /\ pc'[r] = "resumed"
      /\ \A s \in Runs : s # r => pc'[s] = pc[s]
      /\ UNCHANGED <<exec, canceled, stopped, begun, saved>>
  BY DEF Pause, Resume, At, Moves, OutcomeInv, OneInv, EngTypeOK
<1>2. Here(r)' = Here(r) /\ Working(r) /\ Working(r)'
  BY <1>1 DEF Here, Working
<1>3. \E v \in Active : run' = [run EXCEPT ![r].status = v]
  BY DEF Pause, Resume, Active
<1>4. run'[r].steps = run[r].steps /\ \A s \in Runs : s # r => run'[s] = run[s]
  BY <1>3, StatusSteps DEF OutcomeInv, OneInv
<1> QED BY <1>1, <1>2, <1>4, MoveTold

\* What leaving the loop leaves as it was.
LEMMA LeaveKeeps ==
  ASSUME EngTypeOK, NEW r \in Runs, NEW final \in Outcomes, Leave(r, final)
  PROVE  /\ pc'[r] = "cleanup"
         /\ exec'[r].def = exec[r].def /\ exec'[r].idx = exec[r].idx
         /\ exec'[r].final = final
         /\ \A s \in Runs : s # r => pc'[s] = pc[s] /\ exec'[s] = exec[s]
BY DEF Leave, Moves, EngTypeOK

LEMMA LeaveTold ==
  ASSUME OutcomeInv, OneInv', NEW r \in Runs, NEW final \in Outcomes,
         Leave(r, final), pc[r] \in {"loop", "resumed", "stepSave"},
         final = "passed" => Last(r),
         final = "failed" => ~Last(r) /\ \A i \in DOMAIN run[r].steps :
                                i = exec[r].idx => run[r].steps[i] = "failed",
         final = "aborted" => r \in stopped /\ pc[r] # "stepSave",
         UNCHANGED <<run, canceled, stopped, begun>>,
         saved'[r] = saved[r] \/ saved'[r] = run[r],
         \A s \in Runs : s # r => saved'[s] = saved[s]
  PROVE  OutcomeInv'
<1>1. /\ pc'[r] = "cleanup"
      /\ exec'[r].def = exec[r].def /\ exec'[r].idx = exec[r].idx
      /\ exec'[r].final = final
      /\ \A s \in Runs : s # r => pc'[s] = pc[s] /\ exec'[s] = exec[s]
  BY LeaveKeeps DEF OutcomeInv, OneInv
<1>2. Told(r) /\ Working(r) /\ Progress(r)
  BY DEF OutcomeInv, Told, Working
<1>3. exec[r] \in Exec /\ Last(r)' = Last(r)
  BY <1>1 DEF OutcomeInv, OneInv, EngTypeOK, Last
<1>4. exec[r].idx \in Nat /\ Len(exec[r].def) \in Nat
  BY <1>3 DEF Exec
<1>5. Here(r)' = IF final = "failed" THEN {"failed"} ELSE {"pending"}
  BY <1>1 DEF Here
<1>6. final = "aborted" => Here(r) = {"pending"}
  BY DEF Here
<1>7. ASSUME NEW i \in DOMAIN run[r].steps, i = exec[r].idx
      PROVE  run[r].steps[i] \in Here(r)'
  <2>1. ~Last(r)
    BY <1>2, <1>4, <1>7 DEF Progress, Last
  <2> QED BY <1>2, <1>5, <1>6, <1>7, <2>1 DEF Progress, Outcomes
<1>8. Progress(r)'
  BY <1>1, <1>2, <1>3, <1>7 DEF Progress
<1>9. Told(r)'
  BY <1>1, <1>2, <1>8 DEF Told, InOrder
<1> QED BY <1>1, <1>9, OneTold

\* Recording the result of a step changes one step of one run.
LEMMA RecordSteps ==
  ASSUME EngTypeOK, NEW r \in Runs, NEW i, NEW x,
         run' = [run EXCEPT ![r].steps[i] = x]
  PROVE  /\ run'[r].steps = [run[r].steps EXCEPT ![i] = x]
         /\ \A s \in Runs : s # r => run'[s] = run[s]
<1> DEFINE steps == [run[r].steps EXCEPT ![i] = x]
<1>1. run[r] \in Run /\ run' = [run EXCEPT ![r] = [run[r] EXCEPT !.steps = steps]]
  BY DEF EngTypeOK
<1> HIDE DEF steps
<1>2. [run[r] EXCEPT !.steps = steps].steps = steps
  BY <1>1 DEF Run
<1>3. run'[r].steps = steps /\ \A s \in Runs : s # r => run'[s] = run[s]
  BY <1>1, <1>2 DEF EngTypeOK
<1> QED BY <1>3 DEF steps

\* The current step changes as execute goes from one statement to the next.
LEMMA StepTold ==
  ASSUME OutcomeInv, OneInv', NEW r \in Runs, Working(r), NEW x,
         run' = [run EXCEPT ![r].steps[exec[r].idx] = x],
         pc'[r] \in {"step", "stepSave"}, x \in Here(r)',
         exec'[r].def = exec[r].def, exec'[r].idx = exec[r].idx,
         \A s \in Runs : s # r => pc'[s] = pc[s] /\ exec'[s] = exec[s],
         UNCHANGED <<saved, canceled, stopped, begun>>
  PROVE  OutcomeInv'
<1>1. /\ run'[r].steps = [run[r].steps EXCEPT ![exec[r].idx] = x]
      /\ \A s \in Runs : s # r => run'[s] = run[s]
  BY RecordSteps DEF OutcomeInv, OneInv
<1>2. Told(r) /\ Progress(r) /\ exec[r] \in Exec
  BY DEF OutcomeInv, Told, OneInv, EngTypeOK
<1>3. exec[r].idx \in Nat /\ Len(exec[r].def) \in Nat
  BY <1>2 DEF Exec
<1>4. DOMAIN run'[r].steps = 1..Len(exec[r].def)
  BY <1>1, <1>2 DEF Progress
<1>5. ASSUME NEW i \in 1..Len(exec[r].def)
      PROVE  run'[r].steps[i] = IF i = exec[r].idx THEN x ELSE run[r].steps[i]
  BY <1>1, <1>2 DEF Progress
<1>6. Progress(r)'
  BY <1>2, <1>3, <1>4, <1>5 DEF Progress
<1>7. InOrder(run'[r].steps)
  BY <1>3, <1>6, ProgressInOrder DEF Progress
<1>8. Told(r)'
  BY <1>2, <1>6, <1>7 DEF Told, InOrder, Working
<1> QED BY <1>1, <1>8, OneTold

LEMMA BeginStepTold ==
  ASSUME OutcomeInv, OneInv', NEW r \in Runs, BeginStep(r) PROVE OutcomeInv'
<1>1. pc[r] \in {"loop", "resumed"} /\ UNCHANGED <<saved, canceled, stopped, begun>>
  BY DEF BeginStep, At
<1>2. CASE canceled[r]
  <2>1. r \in stopped
    BY <1>2 DEF OutcomeInv, Told
  <2> QED BY <1>1, <1>2, <2>1, LeaveTold DEF BeginStep, Outcomes
<1>3. CASE ~canceled[r]
  <2>1. /\ run' = [run EXCEPT ![r].steps[exec[r].idx] = "running"]
        /\ pc' = [pc EXCEPT ![r] = "step"]
        /\ exec' = [exec EXCEPT ![r].todo = Current(r).links]
    BY <1>3 DEF BeginStep, Moves
  <2>2. /\ pc'[r] = "step" /\ exec'[r].def = exec[r].def /\ exec'[r].idx = exec[r].idx
        /\ \A s \in Runs : s # r => pc'[s] = pc[s] /\ exec'[s] = exec[s]
    <3>1. exec[r] \in Exec
      BY DEF OutcomeInv, OneInv, EngTypeOK
    <3>2. exec' = [exec EXCEPT ![r] = [exec[r] EXCEPT !.todo = Current(r).links]]
      BY <2>1 DEF OutcomeInv, OneInv, EngTypeOK
    <3>3. \A y : /\ [exec[r] EXCEPT !.todo = y].def = exec[r].def
                 /\ [exec[r] EXCEPT !.todo = y].idx = exec[r].idx
      BY <3>1 DEF Exec
    <3> QED BY <2>1, <3>2, <3>3 DEF OutcomeInv, OneInv, EngTypeOK
  <2>3. "running" \in Here(r)'
    BY <2>2 DEF Here
  <2> QED BY <1>1, <2>1, <2>2, <2>3, StepTold DEF Working
<1> QED BY <1>2, <1>3

LEMMA EndStepTold ==
  ASSUME OutcomeInv, OneInv', NEW r \in Runs, EndStep(r) \/ CutFailed(r)
  PROVE  OutcomeInv'
<1>1. PICK x \in {"passed", "failed"} : Record(r, x)
  BY DEF EndStep, CutFailed
<1>2. /\ pc[r] = "step" /\ pc'[r] = "stepSave"
      /\ \A s \in Runs : s # r => pc'[s] = pc[s]
      /\ UNCHANGED <<exec, saved, canceled, stopped, begun>>
  BY <1>1 DEF EndStep, CutFailed, Record, Moves, At, OutcomeInv, OneInv, EngTypeOK
<1>3. x \in Here(r)'
  BY <1>2 DEF Here
<1> QED BY <1>1, <1>2, <1>3, StepTold DEF Record, Working

LEMMA EndLoopTold ==
  ASSUME OutcomeInv, OneInv', NEW r \in Runs, EndLoop(r) PROVE OutcomeInv'
<1>1. canceled[r] => r \in stopped
  BY DEF OutcomeInv, Told
<1> QED BY <1>1, LeaveTold DEF EndLoop, At, Outcomes

\* Steps that change neither the steps of a run nor where it is.
LEMMA QuietTold ==
  ASSUME OutcomeInv, OneInv', UNCHANGED <<saved, pc, begun>>,
         \A r \in Runs :
           /\ run'[r].steps = run[r].steps /\ run'[r].status = run[r].status
           /\ exec'[r].def = exec[r].def /\ exec'[r].idx = exec[r].idx
           /\ exec'[r].final = exec[r].final
           /\ canceled'[r] => canceled[r] \/ r \in stopped',
         stopped \subseteq stopped'
  PROVE  OutcomeInv'
<1> SUFFICES ASSUME NEW r \in Runs PROVE Told(r)'
  BY DEF OutcomeInv
<1> QED BY ToldKept DEF OutcomeInv

LEMMA CallsTold ==
  ASSUME OutcomeInv, OneInv',
         UNCHANGED <<run, pc, exec, canceled, saved, begun, stopped>>
  PROVE  OutcomeInv'
BY QuietTold

LEMMA AbortTold ==
  ASSUME OutcomeInv, OneInv', NEW r \in Runs, Abort(r) PROVE OutcomeInv'
<1>1. ASSUME NEW s \in Runs
      PROVE  canceled'[s] => canceled[s] \/ s \in stopped'
  BY DEF Abort, OutcomeInv, OneInv, EngTypeOK
<1> QED BY <1>1, QuietTold DEF Abort

\* Tracking partitions and healing them leave the steps alone.
LEMMA CutDoneTold ==
  ASSUME OutcomeInv, OneInv', NEW r \in Runs, CutDone(r) \/ Healed(r)
  PROVE  OutcomeInv'
<1>1. ASSUME NEW s \in Runs
      PROVE  run'[s].steps = run[s].steps /\ run'[s].status = run[s].status
  <2>1. CASE UNCHANGED run
    BY <2>1
  <2>2. ASSUME NEW y, run' = [run EXCEPT ![r].open = y]
        PROVE  run'[s].steps = run[s].steps /\ run'[s].status = run[s].status
    <3>1. run[r] \in Run /\ run' = [run EXCEPT ![r] = [run[r] EXCEPT !.open = y]]
      BY <2>2 DEF OutcomeInv, OneInv, EngTypeOK
    <3>2. /\ [run[r] EXCEPT !.open = y].steps = run[r].steps
          /\ [run[r] EXCEPT !.open = y].status = run[r].status
      BY <3>1 DEF Run
    <3> QED BY <3>1, <3>2 DEF OutcomeInv, OneInv, EngTypeOK
  <2>3. CutDone(r) => \E y : run' = [run EXCEPT ![r].open = y]
    BY DEF CutDone, OutcomeInv, OneInv, EngTypeOK
  <2> QED BY <2>1, <2>2, <2>3 DEF Healed
<1>2. ASSUME NEW s \in Runs
      PROVE  /\ exec'[s].def = exec[s].def /\ exec'[s].idx = exec[s].idx
             /\ exec'[s].final = exec[s].final
  <2>1. exec[r] \in Exec
    BY DEF OutcomeInv, OneInv, EngTypeOK
  <2>2. ASSUME NEW y, NEW f \in {"todo", "heal"},
               exec' = [exec EXCEPT ![r] = [exec[r] EXCEPT ![f] = y]]
        PROVE  /\ exec'[s].def = exec[s].def /\ exec'[s].idx = exec[s].idx
               /\ exec'[s].final = exec[s].final
    <3>1. /\ [exec[r] EXCEPT ![f] = y].def = exec[r].def
          /\ [exec[r] EXCEPT ![f] = y].idx = exec[r].idx
          /\ [exec[r] EXCEPT ![f] = y].final = exec[r].final
      BY <2>1 DEF Exec
    <3> QED BY <2>2, <3>1 DEF OutcomeInv, OneInv, EngTypeOK
  <2>3. CutDone(r) => exec' = [exec EXCEPT ![r] = [exec[r] EXCEPT !["todo"] = Tail(exec[r].todo)]]
    BY DEF CutDone, OutcomeInv, OneInv, EngTypeOK
  <2>4. Healed(r) => exec' = [exec EXCEPT ![r] =
                       [exec[r] EXCEPT !["heal"] = exec[r].heal \ {call[r].link}]]
    BY DEF Healed, OutcomeInv, OneInv, EngTypeOK
  <2> QED BY <2>2, <2>3, <2>4
<1>3. UNCHANGED <<saved, pc, begun, canceled, stopped>>
  BY DEF CutDone, Healed
<1> QED BY <1>1, <1>2, <1>3, QuietTold

LEMMA FinishTold ==
  ASSUME OutcomeInv, OneInv', NEW r \in Runs, Finish(r) PROVE OutcomeInv'
<1> DEFINE old == run[r].steps
           steps == [i \in DOMAIN old |-> IF old[i] = "pending" THEN "skipped"
                                                                ELSE old[i]]
<1>1. /\ pc[r] = "cleanup" /\ pc'[r] = "finalSave"
      /\ \A s \in Runs : s # r => pc'[s] = pc[s] /\ run'[s] = run[s]
      /\ UNCHANGED <<exec, canceled, stopped, saved, begun>>
  BY DEF Finish, At, Moves, OutcomeInv, OneInv, EngTypeOK
<1>2. run'[r].steps = steps /\ run'[r].status = exec[r].final
  BY DEF Finish, OutcomeInv, OneInv, EngTypeOK
<1>3. Told(r) /\ Progress(r) /\ exec[r] \in Exec
  BY <1>1 DEF OutcomeInv, OneInv, EngTypeOK, Told, Working
<1>4. exec[r].idx \in Nat /\ Len(exec[r].def) \in Nat /\ exec[r].final \in Outcomes
      /\ exec[r].idx >= 1
  BY <1>3 DEF Exec, OutcomeInv, OneInv, IndexOK
<1>5. DOMAIN old = 1..Len(exec[r].def) /\ InOrder(old)
  BY <1>3 DEF Told, Progress
<1>6. InOrder(steps)
  BY <1>5 DEF InOrder
<1>7. Here(r) = IF exec[r].final = "failed" THEN {"failed"} ELSE {"pending"}
  BY <1>1 DEF Here
<1>8. ASSUME NEW i \in DOMAIN old
      PROVE  /\ exec[r].final = "passed" => old[i] = "passed"
             /\ exec[r].final = "aborted" => old[i] \in {"passed", "pending"}
  <2>1. i \in Nat /\ i <= Len(exec[r].def)
    BY <1>4, <1>5
  <2>2. exec[r].final = "passed" => i < exec[r].idx
    BY <1>1, <1>3, <1>4, <2>1 DEF Progress, Last
  <2>3. i < exec[r].idx \/ i = exec[r].idx \/ i > exec[r].idx
    BY <1>4, <2>1
  <2> QED BY <1>3, <1>7, <2>2, <2>3 DEF Progress
<1>9. exec[r].final = "failed" => \E i \in DOMAIN old : old[i] = "failed"
  <2>1. exec[r].final = "failed" => exec[r].idx \in DOMAIN old
    BY <1>1, <1>3, <1>4, <1>5 DEF Progress, Last
  <2> QED BY <1>3, <1>7, <2>1 DEF Progress
<1>10. exec[r].final = "aborted" => r \in stopped
  BY <1>1, <1>3 DEF Progress
<1>11. DOMAIN steps = DOMAIN old
       /\ \A i \in DOMAIN old : /\ old[i] = "passed" => steps[i] = "passed"
                                /\ old[i] = "failed" => steps[i] = "failed"
                                /\ old[i] = "pending" => steps[i] = "skipped"
  OBVIOUS
<1> HIDE DEF steps, old
<1>12. Justified(r)'
  BY <1>1, <1>2, <1>8, <1>9, <1>10, <1>11 DEF Justified
<1>13. Told(r)'
  BY <1>1, <1>2, <1>3, <1>6, <1>12 DEF Told, InOrder, Working
<1> QED BY <1>1, <1>13, OneTold

LEMMA WriteTold ==
  ASSUME OutcomeInv, OneInv', NEW r \in Runs, Write(r) PROVE OutcomeInv'
<1>1. /\ saved'[r] = run[r] /\ \A s \in Runs : s # r => saved'[s] = saved[s]
      /\ UNCHANGED <<run, canceled, stopped, begun>>
  BY DEF Write, OutcomeInv, OneInv, EngTypeOK
<1>2. CASE At(r, "pauseSave") /\ Moves(r, "waiting") /\ UNCHANGED exec
  <2>1. /\ pc[r] = "pauseSave" /\ pc'[r] = "waiting"
        /\ \A s \in Runs : s # r => pc'[s] = pc[s]
    BY <1>2 DEF At, Moves, OutcomeInv, OneInv, EngTypeOK
  <2>2. Here(r)' = Here(r) /\ Working(r) /\ Working(r)'
    BY <2>1 DEF Here, Working
  <2> QED BY <1>1, <1>2, <2>1, <2>2, MoveTold
<1>3. CASE At(r, "finalSave") /\ Moves(r, "done") /\ UNCHANGED exec
  <2>1. /\ pc[r] = "finalSave" /\ pc'[r] = "done"
        /\ \A s \in Runs : s # r => pc'[s] = pc[s]
    BY <1>3 DEF At, Moves, OutcomeInv, OneInv, EngTypeOK
  <2>2. Told(r)
    BY DEF OutcomeInv
  <2>3. Told(r)'
    BY <1>1, <2>1, <2>2 DEF Told, InOrder, Working, Justified
  <2> QED BY <1>1, <1>3, <2>1, <2>3, OneTold
<1>4. CASE At(r, "stepSave") /\ run[r].steps[exec[r].idx] = "failed" /\ Leave(r, "failed")
  <2>1. ~Last(r)
    BY <1>4 DEF At, OutcomeInv, OneInv, IndexOK, EngTypeOK, Exec, Last
  <2> QED BY <1>1, <1>4, <2>1, LeaveTold DEF At, Outcomes
<1>5. CASE At(r, "stepSave") /\ run[r].steps[exec[r].idx] # "failed"
           /\ Moves(r, "loop") /\ exec' = [exec EXCEPT ![r].idx = @ + 1]
  <2>1. /\ pc[r] = "stepSave" /\ pc'[r] = "loop"
        /\ \A s \in Runs : s # r => pc'[s] = pc[s] /\ exec'[s] = exec[s]
    BY <1>5 DEF At, Moves, OutcomeInv, OneInv, EngTypeOK
  <2>2. Told(r) /\ Progress(r) /\ exec[r] \in Exec
    BY <2>1 DEF OutcomeInv, Told, Working, OneInv, EngTypeOK
  <2>3. exec'[r].def = exec[r].def /\ exec'[r].idx = exec[r].idx + 1
    BY <1>5, <2>2 DEF OutcomeInv, OneInv, EngTypeOK, Exec
  <2>4. /\ exec[r].idx \in Nat /\ Len(exec[r].def) \in Nat
        /\ exec[r].idx \in 1..Len(exec[r].def)
    BY <2>1, <2>2 DEF Exec, OutcomeInv, OneInv, IndexOK
  <2>5. Here(r) = {"passed", "failed"} /\ Here(r)' = {"pending"}
    BY <2>1 DEF Here
  <2>6. run[r].steps[exec[r].idx] = "passed"
    BY <1>5, <2>2, <2>4, <2>5 DEF Progress
  <2>7. \A i \in 1..Len(exec[r].def) :
          /\ i < exec[r].idx + 1 => i < exec[r].idx \/ i = exec[r].idx
          /\ i = exec[r].idx + 1 => i > exec[r].idx
          /\ i > exec[r].idx + 1 => i > exec[r].idx
    BY <2>4
  <2>8. Progress(r)'
    BY <1>1, <2>1, <2>2, <2>3, <2>5, <2>6, <2>7 DEF Progress
  <2>9. Told(r)'
    BY <1>1, <2>1, <2>2, <2>8 DEF Told, InOrder, Working
  <2> QED BY <1>1, <2>1, <2>9, OneTold
<1> QED BY <1>2, <1>3, <1>4, <1>5 DEF Write

LEMMA RestartTold ==
  ASSUME OutcomeInv, OneInv', Restart PROVE OutcomeInv'
<1> SUFFICES ASSUME NEW r \in Runs PROVE Told(r)'
  BY DEF OutcomeInv
<1>1. /\ run'[r] = Loaded(r) /\ pc'[r] = "none" /\ exec'[r] = NoExec
      /\ canceled'[r] = FALSE /\ UNCHANGED <<saved, begun>>
  BY DEF Restart
<1>2. InOrder(saved[r].steps) /\ saved[r] \in Run
  BY DEF OutcomeInv, Told, OneInv, EngTypeOK
<1>3. Loaded(r).steps \in {<<>>, saved[r].steps}
  <2>1. [saved[r] EXCEPT !.status = "aborted"].steps = saved[r].steps
    BY <1>2 DEF Run
  <2> QED BY <2>1 DEF Loaded, NoRun
<1>4. InOrder(Loaded(r).steps)
  BY <1>2, <1>3 DEF InOrder
<1>5. NoExec.idx = 1
  BY DEF NoExec
<1> QED BY <1>1, <1>2, <1>4, <1>5 DEF Told, InOrder, Working

LEMMA OutcomeNextInv == OutcomeInv /\ [Next]_vars => OutcomeInv'
<1> SUFFICES ASSUME OutcomeInv, [Next]_vars PROVE OutcomeInv'
  OBVIOUS
<1>1. OneInv'
  BY OneNextInv DEF OutcomeInv
<1>2. CASE UNCHANGED <<run, pc, exec, canceled, saved, begun, stopped>>
  BY <1>1, <1>2, CallsTold
<1>3. ASSUME NEW r \in Runs, Execute(r) PROVE OutcomeInv'
  <2>1. Cut(r) \/ Heal(r) \/ Truncate(r)
          => UNCHANGED <<run, pc, exec, canceled, saved, begun, stopped>>
    BY DEF Cut, Heal, Truncate, engVars
  <2> QED BY <1>1, <1>2, <1>3, <2>1, LaunchTold, PauseTold, BeginStepTold, CutDoneTold,
             EndStepTold, EndLoopTold, FinishTold, WriteTold
          DEF Execute
<1>4. ASSUME NEW r \in Runs, PressNext(r)
      PROVE  UNCHANGED <<run, pc, exec, canceled, saved, begun, stopped>>
  BY <1>4 DEF PressNext
<1>5. ASSUME NEW c \in Callers, NEW l \in Links, NEW on \in BOOLEAN, Request(c, l, on)
      PROVE  UNCHANGED <<run, pc, exec, canceled, saved, begun, stopped>>
  BY <1>5 DEF Request, engVars
<1>6. ASSUME NEW c \in Callers, Calling(c)
      PROVE  UNCHANGED <<run, pc, exec, canceled, saved, begun, stopped>>
  BY <1>6 DEF Calling, engVars
<1>7. UNCHANGED engVars => UNCHANGED <<run, pc, exec, canceled, saved, begun, stopped>>
  BY DEF engVars
<1>8. CASE UNCHANGED vars
  BY <1>2, <1>7, <1>8 DEF vars
<1>9. CASE Next
  BY <1>1, <1>2, <1>3, <1>4, <1>5, <1>6, <1>7, <1>9, StartTold, AbortTold, RestartTold
     DEF Next
<1> QED BY <1>8, <1>9

\* Steps run in order, and the outcome reported of a run is what its steps and
\* its aborts justify, for every scenario, mode, engine fault, abort and restart.
THEOREM EngineOutcomes == Spec => []OutcomeJustified
BY InitOutcomeInv, OutcomeNextInv, OutcomeInvImplies, PTL DEF Spec

------------------------------------------------------------------------------
(* What the API reports of runs, and what their files keep across restarts *)

\* What a run file says of a run: nothing of one that never started, nothing
\* final of one still executing, and the reported outcome once it is final.
FileSays(r) ==
  /\ r \notin begun => run[r].status = "none" /\ pc[r] = "none"
  /\ run[r].status = "none" => file[r] # "whole"
  /\ file[r] = "whole" /\ pc[r] \notin {"none", "done"} => saved[r].status \in Active
  /\ Durable(r) => run[r].status = saved[r].status
  /\ file[r] = "whole" => saved[r].status # "none"

\* The inductive invariant behind FollowsLifecycle.
LifeInv == OneInv /\ \A r \in Runs : FileSays(r)

LEMMA InitLifeInv == Init => LifeInv
BY InitOneInv DEF LifeInv, FileSays, Init, NoRun, Durable


LifeStep == Life!LifeNext \/ UNCHANGED Life!lifeVars

\* A run that is executing is not durable yet.
LEMMA ExecutingNotDurable ==
  ASSUME LifeInv, NEW r \in Runs, pc[r] \notin {"none", "done"}
  PROVE  ~Durable(r) /\ r \in begun
BY DEF LifeInv, FileSays, Durable, Active, Outcomes

\* Steps that neither change a reported status nor a file.
LEMMA QuietStep ==
  ASSUME LifeInv, UNCHANGED <<file, saved, begun>>,
         \A s \in Runs : run'[s].status = run[s].status,
         \A s \in Runs : pc'[s] = pc[s] \/ pc[s] \notin {"none", "done"}
  PROVE  (\A s \in Runs : FileSays(s)') /\ LifeStep
<1>1. \A s \in Runs : Durable(s)' = Durable(s)
  BY DEF Durable
<1>2. \A s \in Runs : FileSays(s)'
  BY <1>1, ExecutingNotDurable DEF LifeInv, FileSays
<1>3. UNCHANGED Life!lifeVars
  BY <1>1 DEF Life!lifeVars
<1> QED BY <1>2, <1>3 DEF LifeStep

\* Steps of an executing run that change its reported status.
LEMMA StatusStep ==
  ASSUME LifeInv, NEW r \in Runs, pc[r] \notin {"none", "done"},
         UNCHANGED <<file, saved, begun>>,
         \A s \in Runs : s # r => run'[s].status = run[s].status /\ pc'[s] = pc[s],
         \/ run[r].status = "running" /\ run'[r].status = "paused"
         \/ run[r].status = "paused" /\ run'[r].status = "running"
         \/ run[r].status = "running" /\ run'[r].status \in Outcomes
  PROVE  (\A s \in Runs : FileSays(s)') /\ LifeStep
<1> DEFINE life == [s \in Runs |-> run[s].status]
           durable == {s \in Runs : Durable(s)}
<1>1. \A s \in Runs : Durable(s)' = Durable(s)
  BY DEF Durable
<1>2. ASSUME NEW s \in Runs PROVE FileSays(s)'
  <2>1. CASE s = r
    BY <1>1, <2>1, ExecutingNotDurable DEF LifeInv, FileSays, Outcomes
  <2>2. CASE s # r
    BY <1>1, <2>2 DEF LifeInv, FileSays
  <2> QED BY <2>1, <2>2
<1>3. UNCHANGED durable
  BY <1>1
<1>4. life' = [life EXCEPT ![r] = run'[r].status]
  OBVIOUS
<1>5. Life!Paused(r) \/ Life!Resumed(r) \/ Life!Ended(r)
  BY <1>3, <1>4
     DEF Life!Paused, Life!Resumed, Life!Ended, Life!Become, Life!Outcomes, Outcomes
<1> QED BY <1>2, <1>5 DEF LifeStep, Life!LifeNext

LEMMA StartStep ==
  ASSUME ~TornReads, LifeInv, NEW r \in Runs, NEW def \in Scenarios,
         NEW mode \in Modes, NEW keep \in KeepChoices,
         Start(r, def, mode, keep)
  PROVE  (\A s \in Runs : FileSays(s)') /\ LifeStep
<1> DEFINE life == [s \in Runs |-> run[s].status]
           durable == {s \in Runs : Durable(s)}
<1>1. /\ run'[r].status = "running" /\ pc'[r] = "registered" /\ begun' = begun \cup {r}
      /\ \A s \in Runs : s # r => run'[s] = run[s] /\ pc'[s] = pc[s]
      /\ UNCHANGED <<file, saved>>
  BY DEF Start, Moves, LifeInv, OneInv, EngTypeOK
<1>2. \A s \in Runs : Durable(s)' = Durable(s)
  BY <1>1 DEF Durable
<1>3. run[r].status = "none" /\ file[r] # "whole"
  BY DEF LifeInv, FileSays, Start
<1>4. \A s \in Runs : FileSays(s)'
  BY <1>1, <1>2, <1>3 DEF LifeInv, FileSays, Durable
<1>5. UNCHANGED durable
  BY <1>2
<1>6. life' = [life EXCEPT ![r] = "running"]
  BY <1>1
<1>7. Life!Started(r)
  BY <1>3, <1>5, <1>6 DEF Start, Overlooked, Life!Started, Life!Become, Life!Active, Active
<1> QED BY <1>4, <1>7 DEF LifeStep, Life!LifeNext

LEMMA TruncateStep ==
  ASSUME LifeInv, NEW r \in Runs, Truncate(r)
  PROVE  (\A s \in Runs : FileSays(s)') /\ LifeStep
<1>1. pc[r] \notin {"none", "done"}
  BY DEF Truncate, Saving
<1>2. /\ file'[r] = "torn" /\ UNCHANGED <<run, pc, saved, begun>>
      /\ \A s \in Runs : s # r => file'[s] = file[s]
  BY DEF Truncate, LifeInv, OneInv, EngTypeOK
<1>3. \A s \in Runs : Durable(s)' = Durable(s)
  BY <1>1, <1>2, ExecutingNotDurable DEF Durable
<1>4. \A s \in Runs : FileSays(s)'
  BY <1>2, <1>3 DEF LifeInv, FileSays
<1>5. UNCHANGED Life!lifeVars
  BY <1>2, <1>3 DEF Life!lifeVars
<1> QED BY <1>4, <1>5 DEF LifeStep

LEMMA WriteStep ==
  ASSUME LifeInv, NEW r \in Runs, Write(r)
  PROVE  (\A s \in Runs : FileSays(s)') /\ LifeStep
<1> DEFINE life == [s \in Runs |-> run[s].status]
           durable == {s \in Runs : Durable(s)}
<1>1. /\ file'[r] = "whole" /\ saved'[r] = run[r] /\ UNCHANGED <<run, begun>>
      /\ pc'[r] \in {"waiting", "done", "cleanup", "loop"}
      /\ pc'[r] = "done" <=> pc[r] = "finalSave"
      /\ \A s \in Runs : s # r => pc'[s] = pc[s] /\ file'[s] = file[s]
                                  /\ saved'[s] = saved[s]
  BY DEF Write, Leave, Moves, At, LifeInv, OneInv, EngTypeOK
<1>2. pc[r] \in {"pauseSave", "stepSave", "finalSave"}
  BY DEF Write, Saving
<1>3. /\ pc[r] = "finalSave" => run[r].status \in Outcomes
      /\ pc[r] # "finalSave" => run[r].status \in Active
  BY <1>2 DEF LifeInv, OneInv, StatusAt, Active
<1>4. \A s \in Runs : s # r => Durable(s)' = Durable(s)
  BY <1>1 DEF Durable
<1>5. ~Durable(r) /\ r \in begun
  BY <1>2, ExecutingNotDurable
<1>6. Durable(r)' <=> pc[r] = "finalSave"
  BY <1>1, <1>3 DEF Durable, Active, Outcomes
<1>7. ASSUME NEW s \in Runs PROVE FileSays(s)'
  <2>1. CASE s = r
    BY <1>1, <1>2, <1>3, <1>5, <2>1 DEF FileSays, Durable, Active, Outcomes
  <2>2. CASE s # r
    BY <1>1, <1>4, <2>2 DEF LifeInv, FileSays
  <2> QED BY <2>1, <2>2
<1>8. UNCHANGED life
  BY <1>1
<1>9. CASE pc[r] = "finalSave"
  <2>1. durable' = durable \cup {r}
    BY <1>4, <1>6, <1>9
  <2>2. Life!Recorded(r)
    BY <1>3, <1>8, <1>9, <2>1 DEF Life!Recorded, Life!Outcomes, Outcomes
  <2> QED BY <1>7, <2>2 DEF LifeStep, Life!LifeNext
<1>10. CASE pc[r] # "finalSave"
  <2>1. UNCHANGED Life!lifeVars
    BY <1>4, <1>5, <1>6, <1>8, <1>10 DEF Life!lifeVars
  <2> QED BY <1>7, <2>1 DEF LifeStep
<1> QED BY <1>9, <1>10

LEMMA RestartStep ==
  ASSUME LifeInv, Restart
  PROVE  (\A s \in Runs : FileSays(s)') /\ LifeStep
<1> DEFINE life == [s \in Runs |-> run[s].status]
           durable == {s \in Runs : Durable(s)}
           fate == [s \in Runs |-> IF Durable(s) THEN "none" ELSE Loaded(s).status]
<1>1. /\ UNCHANGED <<file, saved, begun>>
      /\ \A s \in Runs : run'[s] = Loaded(s) /\ pc'[s] = "none"
  BY DEF Restart
<1>2. ASSUME NEW s \in Runs
      PROVE  Loaded(s).status = IF file[s] # "whole" THEN "none" ELSE
                                IF saved[s].status \in Active THEN "aborted"
                                ELSE saved[s].status
  <2>1. saved[s] \in Run
    BY DEF LifeInv, OneInv, EngTypeOK
  <2>2. [saved[s] EXCEPT !.status = "aborted"].status = "aborted"
    BY <2>1 DEF Run
  <2> QED BY <2>2 DEF Loaded, NoRun
<1>3. \A s \in Runs : Durable(s)' = Durable(s)
  BY <1>1 DEF Durable
<1>4. ASSUME NEW s \in Runs
      PROVE  saved[s].status \in {"none"} \cup Active \cup Outcomes
  <2>1. saved[s] \in Run
    BY DEF LifeInv, OneInv, EngTypeOK
  <2> QED BY <2>1 DEF Run
<1>5. ASSUME NEW s \in Runs PROVE FileSays(s)'
  <2>1. s \notin begun => file[s] # "whole"
    BY DEF LifeInv, FileSays
  <2>2. Durable(s) => Loaded(s).status = saved[s].status
    BY <1>2 DEF Durable, Active, Outcomes
  <2>3. Loaded(s).status = "none" => file[s] # "whole"
    BY <1>2, <1>4 DEF LifeInv, FileSays
  <2>4. file[s] # "whole" => Loaded(s).status = "none"
    BY <1>2
  <2> QED BY <1>1, <1>3, <2>1, <2>2, <2>3, <2>4 DEF LifeInv, FileSays
<1>6. UNCHANGED durable
  BY <1>3
<1>7. ASSUME NEW s \in Runs
      PROVE  /\ fate[s] \in {"none", "aborted"}
             /\ run'[s].status = IF s \in durable THEN run[s].status ELSE
                                 IF run[s].status = "none" THEN "none" ELSE fate[s]
  <2>1. ~Durable(s) => Loaded(s).status \in {"none", "aborted"}
    BY <1>2, <1>4 DEF Durable, LifeInv, FileSays
  <2>2. Durable(s) => Loaded(s).status = run[s].status
    BY <1>2 DEF Durable, Active, Outcomes, LifeInv, FileSays
  <2>3. run[s].status = "none" /\ ~Durable(s) => Loaded(s).status = "none"
    BY <1>2 DEF LifeInv, FileSays
  <2> QED BY <1>1, <2>1, <2>2, <2>3
<1>8. fate \in [Runs -> {"none", "aborted"}]
  BY <1>7
<1> HIDE DEF fate
<1>9. life' = [s \in Runs |-> IF s \in durable THEN life[s] ELSE
                              IF life[s] = "none" THEN "none" ELSE fate[s]]
  BY <1>7
<1>10. Life!Restarted
  BY <1>6, <1>8, <1>9 DEF Life!Restarted
<1> QED BY <1>5, <1>10 DEF LifeStep, Life!LifeNext

LEMMA ExecuteStep ==
  ASSUME LifeInv, NEW r \in Runs, Execute(r)
  PROVE  (\A s \in Runs : FileSays(s)') /\ LifeStep
<1>1. CASE Launch(r) \/ BeginStep(r) \/ Cut(r) \/ CutDone(r) \/ CutFailed(r)
           \/ EndStep(r) \/ EndLoop(r) \/ Heal(r) \/ Healed(r)
  <2>1. UNCHANGED <<file, saved, begun>>
    BY <1>1 DEF Launch, BeginStep, Cut, CutDone, CutFailed, EndStep, EndLoop, Heal,
                Healed, Leave, Record, engVars
  <2>2. \A s \in Runs : pc'[s] = pc[s] \/ pc[s] \notin {"none", "done"}
    BY <1>1 DEF Launch, BeginStep, Cut, CutDone, CutFailed, EndStep, EndLoop, Heal,
                Healed, Leave, Record, Moves, At, engVars, LifeInv, OneInv, EngTypeOK
  <2>3. \A s \in Runs : run'[s].status = run[s].status
    <3>1. CASE UNCHANGED run
      BY <3>1
    <3>2. ASSUME NEW i, NEW x \in StepStatus, run' = [run EXCEPT ![r].steps[i] = x]
          PROVE  \A s \in Runs : run'[s].status = run[s].status
      BY <3>2, RecordType DEF LifeInv, OneInv
    <3>3. CASE CutDone(r)
      <4>1. \A x \in Run : \A y : [x EXCEPT !.open = y].status = x.status
        BY DEF Run
      <4>2. PICK y : run' = [run EXCEPT ![r] = [run[r] EXCEPT !.open = y]]
        BY <3>3 DEF CutDone, LifeInv, OneInv, EngTypeOK
      <4> QED BY <4>1, <4>2 DEF LifeInv, OneInv, EngTypeOK
    <3> QED BY <1>1, <3>1, <3>2, <3>3
            DEF Launch, BeginStep, Cut, CutFailed, EndStep, EndLoop, Heal, Healed,
                Record, engVars, StepStatus
  <2> QED BY <2>1, <2>2, <2>3, QuietStep
<1>2. CASE Pause(r) \/ Resume(r) \/ Finish(r)
  <2>1. pc[r] \in {"loop", "waiting", "cleanup"} /\ StatusAt(r)
        /\ UNCHANGED <<file, saved, begun>>
    BY <1>2 DEF Pause, Resume, Finish, At, LifeInv, OneInv
  <2>2. \A s \in Runs : s # r => run'[s].status = run[s].status /\ pc'[s] = pc[s]
    BY <1>2 DEF Pause, Resume, Finish, Moves, LifeInv, OneInv, EngTypeOK
  <2>3. Pause(r) => run[r].status = "running" /\ run'[r].status = "paused"
    BY <2>1, StatusType DEF Pause, At, StatusAt, Active, LifeInv, OneInv
  <2>4. Resume(r) => run[r].status = "paused" /\ run'[r].status = "running"
    BY <2>1, StatusType DEF Resume, At, StatusAt, Active, LifeInv, OneInv
  <2>5. Finish(r) => run[r].status = "running" /\ run'[r].status \in Outcomes
    BY <2>1 DEF Finish, At, StatusAt, LifeInv, OneInv, EngTypeOK, Exec
  <2> QED BY <1>2, <2>1, <2>2, <2>3, <2>4, <2>5, StatusStep
<1> QED BY <1>1, <1>2, TruncateStep, WriteStep DEF Execute

LEMMA LifeNextInv == ~TornReads /\ LifeInv /\ [Next]_vars => LifeInv' /\ LifeStep
<1> SUFFICES ASSUME ~TornReads, LifeInv, [Next]_vars PROVE LifeInv' /\ LifeStep
  OBVIOUS
<1>1. OneInv'
  BY OneNextInv DEF LifeInv
<1>2. CASE UNCHANGED <<run, pc, file, saved, begun>>
  BY <1>1, <1>2, QuietStep DEF LifeInv
<1>3. ASSUME NEW r \in Runs, PressNext(r) \/ Abort(r)
      PROVE  UNCHANGED <<run, pc, file, saved, begun>>
  BY <1>3 DEF PressNext, Abort
<1>4. ASSUME NEW c \in Callers, NEW l \in Links, NEW on \in BOOLEAN,
             Request(c, l, on) \/ Calling(c)
      PROVE  UNCHANGED <<run, pc, file, saved, begun>>
  BY <1>4 DEF Request, Calling, engVars
<1>5. CASE UNCHANGED vars
  BY <1>2, <1>5 DEF vars, engVars
<1>6. ASSUME NEW c \in Callers, Calling(c)
      PROVE  UNCHANGED <<run, pc, file, saved, begun>>
  BY <1>6 DEF Calling, engVars
<1>7. ASSUME NEW request \in adrift, Drift(request), UNCHANGED engVars
      PROVE  UNCHANGED <<run, pc, file, saved, begun>>
  BY <1>7 DEF engVars
<1> QED BY <1>1, <1>2, <1>3, <1>4, <1>5, <1>6, <1>7, StartStep, ExecuteStep, RestartStep
        DEF Next, LifeInv

\* The engine implements the life cycle: no run starts while one is active,
\* outcomes are final, and an outcome on disk survives every restart, if Start
\* reads whole statuses.
THEOREM EngineFollowsLifecycle == ~TornReads => (Spec => FollowsLifecycle)
<1> SUFFICES ASSUME ~TornReads PROVE Spec => FollowsLifecycle
  OBVIOUS
<1>1. Init => Life!LifeInit
  BY DEF Init, Life!LifeInit, NoRun, Durable
<1>2. LifeInv /\ [Next]_vars => LifeInv' /\ [Life!LifeNext]_Life!lifeVars
  BY LifeNextInv DEF LifeStep
<1> QED BY <1>1, <1>2, InitLifeInv, PTL DEF Spec, FollowsLifecycle, Life!LifeSpec

------------------------------------------------------------------------------
(* Open partitions *)

\* What run files can say of the partitions: a run that executes has no outcome
\* on disk, one that has is what its file says, and no run has no partitions.
FileFits(r) ==
  /\ pc[r] \notin {"none", "done"} => ~Durable(r)
  /\ Durable(r) => run[r] = saved[r]
  /\ r \notin begun => file[r] = "none" /\ run[r].status = "none"
  /\ run[r].status = "none" => run[r].open = {}
  /\ saved[r].status = "none" => saved[r].open = {}

\* A run's call is of the step or the cleanup its goroutine is in.
CallFits(r) ==
  call[r].pc # "idle" =>
    \/ pc[r] = "step" /\ exec[r].todo # <<>> /\ call[r].on = Current(r).on
    \/ pc[r] = "cleanup" /\ call[r].link \in exec[r].heal /\ ~call[r].on

\* A heal that has been answered once has undone the run's own cut.
HealWorks(r) ==
  /\ call[r].pc # "idle" /\ ~call[r].on
  /\ call[r].pc \in {"verify", "ok", "err"} \/ call[r].attempt > 1
  => cut[call[r].link] # r

\* Of a run nobody stopped: its heals work, its cleanup has yet to heal
\* everything it has cut, and what it has cut is tracked.
Owns(r) ==
  /\ HealWorks(r)
  /\ \A l \in Links : cut[l] = r =>
       /\ pc[r] = "cleanup" /\ ~run[r].keep => l \in exec[r].heal
       /\ \/ l \in run[r].open
          \/ Working(r) /\ call[r].link = l /\ call[r].pc \in {"verify", "ok"}

\* Only stopped runs have requests adrift.
StraysOfStopped == \A request \in adrift : request.by \in Runs => request.by \in stopped

\* The inductive invariant behind CutsAreTracked.
CutInv ==
  /\ OutcomeInv
  /\ StraysOfStopped
  /\ \A r \in Runs : FileFits(r) /\ CallFits(r) /\ (r \in stopped \/ Owns(r))

LEMMA CutInvImplies == CutInv => CutsAreTracked
BY DEF CutInv, CutsAreTracked, Owns

LEMMA InitCutInv == Init => CutInv
<1> SUFFICES ASSUME Init PROVE CutInv
  OBVIOUS
<1> USE PartitionAssumption, EngineAssumption
<1>1. OutcomeInv /\ StraysOfStopped
  BY InitOutcomeInv DEF Init, PartInit, StraysOfStopped
<1>2. ASSUME NEW r \in Runs PROVE FileFits(r) /\ CallFits(r) /\ Owns(r)
  <2>1. /\ run[r] = NoRun /\ saved[r] = NoRun /\ file[r] = "none" /\ pc[r] = "none"
        /\ call[r].pc = "idle" /\ \A l \in Links : cut[l] # r
    BY DEF Init, PartInit
  <2>2. NoRun.status = "none" /\ NoRun.open = {}
    BY DEF NoRun
  <2> QED BY <2>1, <2>2 DEF FileFits, CallFits, Owns, HealWorks, Durable
<1> QED BY <1>1, <1>2 DEF CutInv

------------------------------------------------------------------------------
(* Run files *)

\* Steps that leave the files alone, and change only executing runs.
LEMMA FilesKept ==
  ASSUME CutInv, OneInv', UNCHANGED <<file, saved, begun>>, NEW r \in Runs,
         \/ run'[r] = run[r] /\ pc'[r] = pc[r]
         \/ pc[r] \notin {"none", "done"} /\ pc'[r] \notin {"none", "done"}
  PROVE  FileFits(r)'
<1>1. Durable(r)' = Durable(r) /\ FileFits(r) /\ Told(r)
  BY DEF Durable, CutInv, OutcomeInv
<1>2. CASE run'[r] = run[r] /\ pc'[r] = pc[r]
  BY <1>1, <1>2 DEF FileFits
<1>3. CASE pc[r] \notin {"none", "done"} /\ pc'[r] \notin {"none", "done"}
  <2>1. run'[r].status # "none"
    BY <1>3 DEF OneInv, StatusAt, EngTypeOK, Points, Outcomes
  <2> QED BY <1>1, <1>3, <2>1 DEF FileFits, Told
<1> QED BY <1>2, <1>3

LEMMA TruncateFiles ==
  ASSUME CutInv, NEW r \in Runs, Truncate(r), NEW s \in Runs PROVE FileFits(s)'
<1>1. /\ pc[r] \notin {"none", "done"} /\ file'[r] = "torn"
      /\ UNCHANGED <<run, pc, saved, begun>>
      /\ s # r => file'[s] = file[s]
  BY DEF Truncate, Saving, CutInv, OutcomeInv, OneInv, EngTypeOK
<1>2. FileFits(s) /\ Told(r)
  BY DEF CutInv, OutcomeInv
<1> QED BY <1>1, <1>2 DEF FileFits, Durable, Told

LEMMA WriteFiles ==
  ASSUME CutInv, NEW r \in Runs, Write(r), NEW s \in Runs PROVE FileFits(s)'
<1>1. /\ file'[r] = "whole" /\ saved'[r] = run[r] /\ UNCHANGED <<run, begun>>
      /\ pc'[r] = "done" <=> pc[r] = "finalSave"
      /\ s # r => pc'[s] = pc[s] /\ file'[s] = file[s] /\ saved'[s] = saved[s]
  BY DEF Write, Leave, Moves, At, CutInv, OutcomeInv, OneInv, EngTypeOK
<1>2. pc[r] \in {"pauseSave", "stepSave", "finalSave"}
  BY DEF Write, Saving
<1>3. pc[r] # "finalSave" => run[r].status \in Active
  BY <1>2 DEF CutInv, OutcomeInv, OneInv, StatusAt, Active
<1>4. FileFits(s) /\ Told(r) /\ FileFits(r)
  BY DEF CutInv, OutcomeInv
<1>5. CASE s = r
  BY <1>1, <1>2, <1>3, <1>4, <1>5 DEF FileFits, Durable, Told, Active, Outcomes
<1>6. CASE s # r
  BY <1>1, <1>4, <1>6 DEF FileFits, Durable
<1> QED BY <1>5, <1>6

LEMMA RestartFiles ==
  ASSUME CutInv, Restart, NEW r \in Runs PROVE FileFits(r)'
<1>1. run'[r] = Loaded(r) /\ pc'[r] = "none" /\ UNCHANGED <<file, saved, begun>>
  BY DEF Restart
<1>2. saved[r] \in Run /\ FileFits(r)
  BY DEF CutInv, OutcomeInv, OneInv, EngTypeOK
<1>3. [saved[r] EXCEPT !.status = "aborted"].status = "aborted"
  BY <1>2 DEF Run
<1>4. Durable(r)' = Durable(r)
  BY <1>1 DEF Durable
<1>5. Durable(r) => Loaded(r) = saved[r]
  BY DEF Durable, Loaded, Active, Outcomes
<1>6. NoRun.status = "none" /\ NoRun.open = {}
  BY DEF NoRun
<1>7. Loaded(r).status = "none" => Loaded(r).open = {}
  BY <1>2, <1>3, <1>6 DEF Loaded, FileFits
<1>8. r \notin begun => Loaded(r).status = "none"
  BY <1>2, <1>6 DEF Loaded, FileFits
<1> QED BY <1>1, <1>2, <1>4, <1>5, <1>7, <1>8 DEF FileFits

------------------------------------------------------------------------------
(* Partitions *)

\* The partitions of a run are disturbed by its own steps, and by changes to
\* the links it has cut that are its own.
LEMMA OwnsKept ==
  ASSUME CutInv, NEW r \in Runs, call'[r] = call[r], pc'[r] = pc[r],
         exec'[r] = exec[r], run'[r] = run[r], stopped \subseteq stopped',
         \A l \in Links : cut'[l] = r => cut[l] = r \/ r \in stopped'
  PROVE  CallFits(r)' /\ (r \in stopped' \/ Owns(r)')
<1>1. CallFits(r)'
  BY DEF CutInv, CallFits, Current
<1>2. call[r].link \in Links
  BY EngineAssumption DEF CutInv, OutcomeInv, OneInv, EngTypeOK, PartTypeOK, Call
<1>3. ASSUME r \notin stopped' PROVE Owns(r)'
  <2>1. Owns(r) /\ \A l \in Links : cut'[l] = r => cut[l] = r
    BY <1>3 DEF CutInv
  <2> QED BY <1>2, <2>1 DEF Owns, HealWorks, Working
<1> QED BY <1>1, <1>3

\* A step of one run that leaves the links and the calls alone.
LEMMA ControlCuts ==
  ASSUME CutInv, OutcomeInv', \A s \in Runs : FileFits(s)', NEW r \in Runs,
         UNCHANGED <<partVars, stopped>>, CallFits(r)',
         r \in stopped \/ Owns(r)',
         \A s \in Runs : s # r => run'[s] = run[s] /\ pc'[s] = pc[s] /\ exec'[s] = exec[s]
  PROVE  CutInv'
<1>1. ASSUME NEW s \in Runs, s # r PROVE CallFits(s)' /\ (s \in stopped' \/ Owns(s)')
  BY <1>1, OwnsKept DEF partVars
<1>2. StraysOfStopped'
  BY DEF CutInv, StraysOfStopped, partVars
<1> QED BY <1>1, <1>2 DEF CutInv, partVars

\* Outside of steps and cleanups a run calls nobody.
LEMMA IdleOwns ==
  ASSUME CutInv, NEW r \in Runs, UNCHANGED partVars,
         call[r].pc = "idle", run'[r].open = run[r].open,
         pc'[r] # "cleanup"
  PROVE  CallFits(r)' /\ (r \in stopped \/ Owns(r)')
BY DEF CutInv, CallFits, Owns, HealWorks, partVars

LEMMA MoveCuts ==
  ASSUME CutInv, OutcomeInv', NEW r \in Runs,
         Launch(r) \/ Pause(r) \/ Resume(r) \/ EndStep(r)
           \/ (BeginStep(r) /\ ~canceled[r])
  PROVE  CutInv'
<1>1. /\ pc[r] \in {"registered", "loop", "waiting", "resumed", "step"}
      /\ pc[r] = "step" => exec[r].todo = <<>>
      /\ pc'[r] \in {"loop", "pauseSave", "resumed", "step", "stepSave"}
      /\ UNCHANGED <<partVars, stopped, file, saved, begun>>
      /\ \A s \in Runs : s # r => pc'[s] = pc[s] /\ exec'[s] = exec[s]
  BY DEF Launch, Pause, Resume, EndStep, BeginStep, Record, Moves, At,
         CutInv, OutcomeInv, OneInv, EngTypeOK
<1>2. call[r].pc = "idle"
  BY <1>1 DEF CutInv, CallFits
<1>3. run'[r].open = run[r].open /\ \A s \in Runs : s # r => run'[s] = run[s]
  <2>1. run[r] \in Run
    BY DEF CutInv, OutcomeInv, OneInv, EngTypeOK
  <2>2. ASSUME NEW v, run' = [run EXCEPT ![r].status = v]
        PROVE  run'[r].open = run[r].open /\ \A s \in Runs : s # r => run'[s] = run[s]
    <3>1. run' = [run EXCEPT ![r] = [run[r] EXCEPT !.status = v]]
          /\ [run[r] EXCEPT !.status = v].open = run[r].open
      BY <2>1, <2>2 DEF CutInv, OutcomeInv, OneInv, EngTypeOK, Run
    <3> QED BY <3>1 DEF CutInv, OutcomeInv, OneInv, EngTypeOK
  <2>3. ASSUME NEW i, NEW x, run' = [run EXCEPT ![r].steps[i] = x]
        PROVE  run'[r].open = run[r].open /\ \A s \in Runs : s # r => run'[s] = run[s]
    <3> DEFINE steps == [run[r].steps EXCEPT ![i] = x]
    <3>1. run' = [run EXCEPT ![r] = [run[r] EXCEPT !.steps = steps]]
      BY <2>3 DEF CutInv, OutcomeInv, OneInv, EngTypeOK
    <3> HIDE DEF steps
    <3>2. [run[r] EXCEPT !.steps = steps].open = run[r].open
      BY <2>1 DEF Run
    <3> QED BY <3>1, <3>2 DEF CutInv, OutcomeInv, OneInv, EngTypeOK
  <2> QED BY <2>2, <2>3 DEF Launch, Pause, Resume, EndStep, BeginStep, Record
<1>4. \A s \in Runs : FileFits(s)'
  BY <1>1, <1>3, FilesKept DEF OutcomeInv
<1>5. CallFits(r)' /\ (r \in stopped \/ Owns(r)')
  BY <1>1, <1>2, <1>3, IdleOwns
<1> QED BY <1>1, <1>3, <1>4, <1>5, ControlCuts

LEMMA LeaveCuts ==
  ASSUME CutInv, OutcomeInv', \A s \in Runs : FileFits(s)', NEW r \in Runs,
         NEW final \in Outcomes, Leave(r, final),
         pc[r] \in {"loop", "resumed", "stepSave"},
         UNCHANGED <<partVars, stopped, run>>
  PROVE  CutInv'
<1>1. call[r].pc = "idle"
  BY DEF CutInv, CallFits
<1>2. /\ pc'[r] = "cleanup"
      /\ exec'[r].heal = IF run[r].keep THEN {} ELSE run[r].open
      /\ \A s \in Runs : s # r => pc'[s] = pc[s] /\ exec'[s] = exec[s]
  BY DEF Leave, Moves, CutInv, OutcomeInv, OneInv, EngTypeOK
<1>3. CallFits(r)'
  BY <1>1 DEF CallFits, partVars
<1>4. r \in stopped \/ Owns(r)'
  BY <1>1, <1>2 DEF CutInv, Owns, HealWorks, partVars
<1> QED BY <1>2, <1>3, <1>4, ControlCuts

LEMMA LeavingCuts ==
  ASSUME CutInv, OutcomeInv', NEW r \in Runs,
         EndLoop(r) \/ (BeginStep(r) /\ canceled[r])
  PROVE  CutInv'
<1>1. PICK final \in Outcomes : Leave(r, final)
  BY DEF EndLoop, BeginStep, Outcomes
<1>2. /\ pc[r] \in {"loop", "resumed"}
      /\ UNCHANGED <<partVars, stopped, run, file, saved, begun>>
  BY DEF EndLoop, BeginStep, At
<1>3. pc'[r] = "cleanup" /\ \A s \in Runs : s # r => pc'[s] = pc[s]
  BY <1>1 DEF Leave, Moves, CutInv, OutcomeInv, OneInv, EngTypeOK
<1>4. \A s \in Runs : FileFits(s)'
  BY <1>2, <1>3, FilesKept DEF OutcomeInv
<1> QED BY <1>1, <1>2, <1>4, LeaveCuts

LEMMA WriteCuts ==
  ASSUME CutInv, OutcomeInv', NEW r \in Runs, Write(r) PROVE CutInv'
<1>1. \A s \in Runs : FileFits(s)'
  BY WriteFiles
<1>2. CASE Leave(r, "failed") /\ At(r, "stepSave")
  BY <1>1, <1>2, LeaveCuts DEF Write, At, Outcomes
<1>3. CASE ~Leave(r, "failed")
  <2>1. /\ pc[r] \in {"pauseSave", "stepSave", "finalSave"}
        /\ pc'[r] \in {"waiting", "loop", "done"}
        /\ UNCHANGED <<partVars, stopped, run>>
        /\ \A s \in Runs : s # r => pc'[s] = pc[s] /\ exec'[s] = exec[s]
    BY <1>3 DEF Write, Moves, At, CutInv, OutcomeInv, OneInv, EngTypeOK
  <2>2. call[r].pc = "idle"
    BY <2>1 DEF CutInv, CallFits
  <2>3. CallFits(r)' /\ (r \in stopped \/ Owns(r)')
    BY <2>1, <2>2, IdleOwns
  <2> QED BY <1>1, <2>1, <2>3, ControlCuts
<1>4. Leave(r, "failed") => At(r, "stepSave")
  BY DEF Write, Leave, Moves, At, CutInv, OutcomeInv, OneInv, EngTypeOK
<1> QED BY <1>2, <1>3, <1>4

LEMMA TruncateCuts ==
  ASSUME CutInv, OutcomeInv', NEW r \in Runs, Truncate(r) PROVE CutInv'
<1>1. \A s \in Runs : FileFits(s)'
  BY TruncateFiles
<1>2. UNCHANGED <<partVars, run, pc, exec, stopped>>
  BY DEF Truncate
<1>3. CallFits(r)' /\ (r \in stopped' \/ Owns(r)')
  BY <1>2, OwnsKept DEF partVars
<1> QED BY <1>1, <1>2, <1>3, ControlCuts

LEMMA FinishCuts ==
  ASSUME CutInv, OutcomeInv', NEW r \in Runs, Finish(r) PROVE CutInv'
<1>1. /\ pc[r] = "cleanup" /\ pc'[r] = "finalSave" /\ exec[r].heal = {}
      /\ UNCHANGED <<partVars, stopped, file, saved, begun, exec>>
      /\ run'[r].open = IF run[r].keep THEN run[r].open ELSE {}
      /\ \A s \in Runs : s # r => pc'[s] = pc[s] /\ run'[s] = run[s]
  BY DEF Finish, Moves, At, CutInv, OutcomeInv, OneInv, EngTypeOK
<1>2. \A s \in Runs : FileFits(s)'
  BY <1>1, FilesKept DEF OutcomeInv
<1>3. call[r].pc = "idle"
  BY <1>1 DEF CutInv, CallFits
<1>4. CallFits(r)'
  BY <1>1, <1>3 DEF CallFits, partVars
<1>5. ASSUME r \notin stopped PROVE Owns(r)'
  <2>1. \A l \in Links : cut[l] = r => run[r].keep /\ l \in run[r].open
    BY <1>1, <1>3, <1>5 DEF CutInv, Owns
  <2> QED BY <1>1, <1>3, <2>1 DEF Owns, HealWorks, partVars
<1> QED BY <1>1, <1>2, <1>4, <1>5, ControlCuts

LEMMA StartCuts ==
  ASSUME CutInv, OutcomeInv', NEW r \in Runs, NEW def \in Scenarios,
         NEW mode \in Modes, NEW keep \in KeepChoices,
         Start(r, def, mode, keep)
  PROVE  CutInv'
<1>1. /\ r \notin begun /\ begun' = begun \cup {r} /\ pc'[r] = "registered"
      /\ UNCHANGED <<partVars, stopped, file, saved>>
      /\ run'[r].status = "running"
      /\ \A s \in Runs : s # r => /\ pc'[s] = pc[s] /\ run'[s] = run[s]
                                  /\ exec'[s] = exec[s]
  BY DEF Start, Moves, CutInv, OutcomeInv, OneInv, EngTypeOK
<1>2. /\ FileFits(r) /\ Told(r) /\ CallFits(r) /\ (r \in stopped \/ Owns(r))
      /\ \A s \in Runs : FileFits(s)
  BY DEF CutInv, OutcomeInv
<1>3. \A s \in Runs : FileFits(s)'
  BY <1>1, <1>2 DEF FileFits, Durable
<1>4. call[r].pc = "idle" /\ run[r].open = {}
  BY <1>1, <1>2 DEF CallFits, FileFits, Told
<1>5. CallFits(r)' /\ (r \in stopped \/ Owns(r)')
  BY <1>1, <1>2, <1>4 DEF CallFits, Owns, HealWorks, partVars
<1> QED BY <1>1, <1>3, <1>5, ControlCuts

\* The end of a call leaves the engine alone.
LEMMA CollectKeeps ==
  ASSUME CutInv, NEW c \in Callers, Collect(c)
  PROVE  /\ UNCHANGED <<cut, adrift>> /\ call[c].pc \in {"ok", "err"}
         /\ call'[c].pc = "idle"
         /\ \A d \in Callers : d # c => call'[d] = call[d]
BY DEF Collect, CutInv, OutcomeInv, OneInv, EngTypeOK, PartTypeOK

\* A step of one run and of its call that leaves the engine alone.
LEMMA CollectCuts ==
  ASSUME CutInv, OutcomeInv', NEW r \in Runs, Collect(r),
         pc[r] \in {"step", "cleanup"}, pc'[r] \in {"step", "stepSave", "cleanup"},
         UNCHANGED <<stopped, file, saved, begun>>, r \in stopped \/ Owns(r)',
         \A s \in Runs : s # r => run'[s] = run[s] /\ pc'[s] = pc[s] /\ exec'[s] = exec[s]
  PROVE  CutInv'
<1>1. /\ UNCHANGED <<cut, adrift>> /\ call'[r].pc = "idle"
      /\ \A s \in Runs : s # r => call'[s] = call[s]
  BY CollectKeeps, EngineAssumption
<1>2. \A s \in Runs : FileFits(s)'
  BY FilesKept DEF OutcomeInv
<1>3. CallFits(r)'
  BY <1>1 DEF CallFits
<1>4. \A s \in Runs : s # r => CallFits(s)' /\ (s \in stopped' \/ Owns(s)')
  BY <1>1, OwnsKept
<1>5. StraysOfStopped'
  BY <1>1 DEF CutInv, StraysOfStopped
<1> QED BY <1>2, <1>3, <1>4, <1>5 DEF CutInv

LEMMA CutDoneCuts ==
  ASSUME CutInv, OutcomeInv', NEW r \in Runs, CutDone(r) PROVE CutInv'
<1> DEFINE open == IF Current(r).on THEN run[r].open \cup {call[r].link}
                                    ELSE run[r].open \ {call[r].link}
<1>1. run[r] \in Run /\ exec[r] \in Exec /\ r \in Callers
  BY EngineAssumption DEF CutInv, OutcomeInv, OneInv, EngTypeOK
<1>2. run' = [run EXCEPT ![r] = [run[r] EXCEPT !.open = open]]
  BY DEF CutDone, CutInv, OutcomeInv, OneInv, EngTypeOK
<1>3. /\ pc[r] = "step" /\ Collect(r) /\ call[r].pc = "ok"
      /\ UNCHANGED <<pc, stopped, file, saved, begun>>
      /\ \A s \in Runs : s # r => run'[s] = run[s] /\ exec'[s] = exec[s]
  BY DEF CutDone, At, CutInv, OutcomeInv, OneInv, EngTypeOK
<1>4. call[r].on = Current(r).on
  BY <1>3 DEF CutInv, CallFits
<1> HIDE DEF open
<1>5. run'[r].open = open
  <2>1. [run[r] EXCEPT !.open = open].open = open
    BY <1>1 DEF Run
  <2> QED BY <1>2, <2>1 DEF CutInv, OutcomeInv, OneInv, EngTypeOK
<1>6. UNCHANGED cut /\ call'[r].pc = "idle"
  BY <1>1, <1>3, CollectKeeps
<1>7. ASSUME r \notin stopped PROVE Owns(r)'
  <2>1. Owns(r)
    BY <1>7 DEF CutInv
  <2>2. ASSUME NEW l \in Links, cut[l] = r PROVE l \in open
    <3>1. l \in run[r].open \/ l = call[r].link
      BY <2>1, <2>2 DEF Owns
    <3>2. CASE call[r].on
      BY <1>4, <3>1, <3>2 DEF open
    <3>3. CASE ~call[r].on
      <4>1. l # call[r].link
        BY <1>3, <2>1, <2>2, <3>3 DEF Owns, HealWorks
      <4> QED BY <1>4, <3>1, <3>3, <4>1 DEF open
    <3> QED BY <3>2, <3>3
  <2> QED BY <1>3, <1>5, <1>6, <2>2 DEF Owns, HealWorks
<1> QED BY <1>3, <1>7, CollectCuts

LEMMA CutFailedCuts ==
  ASSUME CutInv, OutcomeInv', NEW r \in Runs, CutFailed(r) PROVE CutInv'
<1>1. /\ pc[r] = "step" /\ pc'[r] = "stepSave" /\ Collect(r) /\ call[r].pc = "err"
      /\ UNCHANGED <<exec, stopped, file, saved, begun>>
      /\ \A s \in Runs : s # r => pc'[s] = pc[s]
      /\ r \in Callers
  BY EngineAssumption
     DEF CutFailed, Record, Moves, At, CutInv, OutcomeInv, OneInv, EngTypeOK
<1>2. run'[r].open = run[r].open /\ \A s \in Runs : s # r => run'[s] = run[s]
  <2> DEFINE steps == [run[r].steps EXCEPT ![exec[r].idx] = "failed"]
  <2>1. run[r] \in Run /\ run' = [run EXCEPT ![r] = [run[r] EXCEPT !.steps = steps]]
    BY DEF CutFailed, Record, CutInv, OutcomeInv, OneInv, EngTypeOK
  <2> HIDE DEF steps
  <2>2. [run[r] EXCEPT !.steps = steps].open = run[r].open
    BY <2>1 DEF Run
  <2> QED BY <2>1, <2>2 DEF CutInv, OutcomeInv, OneInv, EngTypeOK
<1>3. UNCHANGED cut /\ call'[r].pc = "idle"
  BY <1>1, CollectKeeps
<1>4. r \in stopped \/ Owns(r)'
  BY <1>1, <1>2, <1>3 DEF CutInv, Owns, HealWorks
<1> QED BY <1>1, <1>2, <1>4, CollectCuts

LEMMA HealedCuts ==
  ASSUME CutInv, OutcomeInv', NEW r \in Runs, Healed(r) PROVE CutInv'
<1>1. /\ pc[r] = "cleanup" /\ Collect(r) /\ call[r].pc \in {"ok", "err"}
      /\ UNCHANGED <<run, pc, stopped, file, saved, begun>>
      /\ exec' = [exec EXCEPT ![r] =
                    [exec[r] EXCEPT !.heal = exec[r].heal \ {call[r].link}]]
      /\ r \in Callers
  BY EngineAssumption DEF Healed, At, CutInv, OutcomeInv, OneInv, EngTypeOK
<1>2. /\ exec'[r].heal = exec[r].heal \ {call[r].link}
      /\ \A s \in Runs : s # r => exec'[s] = exec[s]
  <2>1. exec[r] \in Exec
    BY DEF CutInv, OutcomeInv, OneInv, EngTypeOK
  <2>2. \A y : [exec[r] EXCEPT !.heal = y].heal = y
    BY <2>1 DEF Exec
  <2> QED BY <1>1, <2>2 DEF CutInv, OutcomeInv, OneInv, EngTypeOK
<1>3. UNCHANGED cut /\ call'[r].pc = "idle"
  BY <1>1, CollectKeeps
<1>4. ~call[r].on
  BY <1>1 DEF CutInv, CallFits
<1>5. ASSUME r \notin stopped PROVE Owns(r)'
  <2>1. Owns(r)
    BY <1>5 DEF CutInv
  <2>2. cut[call[r].link] # r
    BY <1>1, <1>4, <2>1 DEF Owns, HealWorks
  <2> QED BY <1>1, <1>2, <1>3, <2>1, <2>2 DEF Owns, HealWorks
<1> QED BY <1>1, <1>2, <1>5, CollectCuts

\* A step of callers and of the engine.
LEMMA EngineCuts ==
  ASSUME CutInv, OutcomeInv', UNCHANGED engVars, NEW c \in Callers,
         \A d \in Callers : d # c => call'[d] = call[d],
         \A l \in Links : cut'[l] \in {cut[l], c, NoCaller},
         StraysOfStopped',
         c \in Runs => CallFits(c)' /\ (c \in stopped \/ Owns(c)')
  PROVE  CutInv'
<1> USE PartitionAssumption, EngineAssumption
<1>1. \A s \in Runs : FileFits(s)'
  BY FilesKept DEF OutcomeInv, engVars
<1>2. \A s \in Runs : s # c => CallFits(s)' /\ (s \in stopped' \/ Owns(s)')
  BY OwnsKept DEF engVars
<1> QED BY <1>1, <1>2 DEF CutInv, engVars

LEMMA BeginCuts ==
  ASSUME CutInv, OutcomeInv', UNCHANGED engVars, NEW c \in Callers,
         NEW l \in Links, NEW on \in BOOLEAN, Begin(c, l, on),
         c \in Runs =>
           \/ pc[c] = "step" /\ exec[c].todo # <<>> /\ on = Current(c).on
           \/ pc[c] = "cleanup" /\ l \in exec[c].heal /\ ~on
  PROVE  CutInv'
<1>1. /\ UNCHANGED <<cut, adrift>> /\ call[c].pc = "idle"
      /\ call'[c].pc = "lock" /\ call'[c].link = l /\ call'[c].on = on
      /\ call'[c].attempt = 1
      /\ \A d \in Callers : d # c => call'[d] = call[d]
  BY DEF Begin, CutInv, OutcomeInv, OneInv, EngTypeOK, PartTypeOK
<1>2. StraysOfStopped'
  BY <1>1 DEF CutInv, StraysOfStopped, engVars
<1>3. ASSUME c \in Runs PROVE CallFits(c)' /\ (c \in stopped \/ Owns(c)')
  BY <1>1, <1>3 DEF CutInv, CallFits, Owns, HealWorks, Current, Working, engVars
<1> QED BY <1>1, <1>2, <1>3, EngineCuts

LEMMA RequestCuts ==
  ASSUME CutInv, OutcomeInv', NEW c \in Callers, NEW l \in Links, NEW on \in BOOLEAN,
         Request(c, l, on)
  PROVE  CutInv'
<1>1. CASE Begin(c, l, on)
  BY <1>1, BeginCuts DEF Request
<1>2. CASE Collect(c)
  <2>1. StraysOfStopped'
    BY <1>2, CollectKeeps DEF Request, CutInv, StraysOfStopped, engVars
  <2> QED BY <1>2, <2>1, CollectKeeps, EngineCuts DEF Request
<1> QED BY <1>1, <1>2 DEF Request

LEMMA CutCuts ==
  ASSUME CutInv, OutcomeInv', NEW r \in Runs, Cut(r) \/ Heal(r) PROVE CutInv'
<1>1. exec[r] \in Exec /\ r \in Callers /\ UNCHANGED engVars
  BY EngineAssumption DEF CutInv, OutcomeInv, OneInv, EngTypeOK, Cut, Heal
<1>2. CASE Cut(r)
  <2>1. exec[r].todo \in Seq(Links) /\ exec[r].todo # <<>>
        /\ exec[r].idx \in 1..Len(exec[r].def)
    BY <1>1, <1>2 DEF Cut, At, Exec, CutInv, OutcomeInv, OneInv, IndexOK
  <2>2. Head(exec[r].todo) \in Links
    BY <2>1
  <2>3. Current(r).on \in BOOLEAN
    BY <2>1, CurrentType DEF CutInv, OutcomeInv, OneInv, ScenarioStep
  <2> QED BY <1>1, <1>2, <2>1, <2>2, <2>3, BeginCuts DEF Cut, At
<1>3. CASE Heal(r)
  <2>1. exec[r].heal \in SUBSET Links
    BY <1>1 DEF Exec
  <2> QED BY <1>1, <1>3, <2>1, BeginCuts DEF Heal, At
<1> QED BY <1>2, <1>3

\* What one caller moves to, in its call.
LEMMA StepCall ==
  ASSUME PartTypeOK, NEW c \in Callers, NEW p, NEW n, Step(c, p, n)
  PROVE  /\ call'[c].pc = p /\ call'[c].attempt = n
         /\ call'[c].link = call[c].link /\ call'[c].on = call[c].on
         /\ \A d \in Callers : d # c => call'[d] = call[d]
BY DEF PartTypeOK, Step

LEMMA RetryCall ==
  ASSUME PartTypeOK, NEW c \in Callers, Retry(c)
  PROVE  /\ call'[c].pc \in {"send", "err"}
         /\ call'[c].link = call[c].link /\ call'[c].on = call[c].on
         /\ \A d \in Callers : d # c => call'[d] = call[d]
BY StepCall DEF Retry

\* Serving the request of a caller makes it the one who cut, or nobody.
LEMMA ServeCuts ==
  ASSUME PartTypeOK, NEW request \in [link : Links, by : Callers \cup {NoCaller}],
         Serve(request)
  PROVE  \A l \in Links : cut'[l] = cut[l] \/ cut'[l] = request.by
BY DEF PartTypeOK, Serve

\* A call moves on: what it may do to the links and to the stray requests.
LEMMA AdvanceKeeps ==
  ASSUME ~RuntimeFaults, PartTypeOK, NEW c \in Callers, NEW done \in BOOLEAN,
         Acquire(c) \/ Advance(c, done)
  PROVE  /\ \A d \in Callers : d # c => call'[d] = call[d]
         /\ \A l \in Links : cut'[l] \in {cut[l], c, NoCaller}
         /\ call[c].pc # "idle" /\ call'[c].pc # "idle"
         /\ call'[c].link = call[c].link /\ call'[c].on = call[c].on
         /\ adrift' = adrift \/ (done /\ adrift' = adrift \cup {Asked(c)})
<1>1. /\ \A d \in Callers : d # c => call'[d] = call[d]
      /\ call[c].pc # "idle" /\ call'[c].pc # "idle"
      /\ call'[c].link = call[c].link /\ call'[c].on = call[c].on
  BY StepCall, RetryCall
     DEF Acquire, Advance, Send, RespondChanged, RespondNoop, RespondError, RespondLie,
         VerifyOk, VerifyFail, Goto
<1>2. adrift' = adrift \/ (done /\ adrift' = adrift \cup {Asked(c)})
  BY DEF Acquire, Advance, Send, RespondChanged, RespondNoop, RespondError, RespondLie,
         VerifyOk, VerifyFail, GivenUp
<1>3. UNCHANGED cut \/ Serve(Asked(c))
  BY DEF Acquire, Advance, Send, RespondChanged, RespondNoop, RespondError, RespondLie,
         VerifyOk, VerifyFail, GivenUp
<1>4. \A l \in Links : cut'[l] \in {cut[l], c, NoCaller}
  <2>1. Asked(c).by \in {c, NoCaller}
    BY DEF Asked
  <2> QED BY <1>3, <2>1, AskedType, ServeCuts
<1> QED BY <1>1, <1>2, <1>4

\* A run nobody stopped calls under a live context, so that an answer is a fact.
LEMMA OwnAdvance ==
  ASSUME ~RuntimeFaults, CutInv, NEW r \in Runs, r \notin stopped,
         Acquire(r) \/ Advance(r, FALSE), UNCHANGED engVars
  PROVE  Owns(r)'
<1> USE PartitionAssumption, EngineAssumption
<1>1. Owns(r) /\ CallFits(r) /\ PartTypeOK /\ r \in Callers
      /\ cut \in [Links -> Callers \cup {NoCaller}] /\ call[r].link \in Links
      /\ call[r].on \in BOOLEAN
  BY DEF CutInv, OutcomeInv, OneInv, EngTypeOK, PartTypeOK, Call
<1>2. call[r].pc # "idle" /\ call'[r].link = call[r].link /\ call'[r].on = call[r].on
  BY <1>1, AdvanceKeeps
<1>3. Working(r) /\ UNCHANGED <<run, pc, exec>> /\ (pc[r] = "cleanup" => ~call[r].on)
  BY <1>1, <1>2 DEF CallFits, Working, engVars
<1>4. CASE (Acquire(r) \/ Send(r, FALSE)) /\ call'[r].attempt = call[r].attempt
  <2>1. /\ UNCHANGED cut /\ call[r].pc \notin {"verify", "ok", "err"}
        /\ call'[r].pc \notin {"verify", "ok", "err"}
    BY <1>1, <1>4, StepCall DEF Acquire, Send, Goto
  <2> QED BY <1>1, <1>2, <1>3, <1>4, <2>1 DEF Owns, HealWorks, Working
<1>5. Acquire(r) \/ Send(r, FALSE) => call'[r].attempt = call[r].attempt
  BY <1>1, StepCall DEF Acquire, Send, Goto
<1>6. CASE RespondChanged(r, FALSE)
  <2>1. /\ call[r].pc = "sent" /\ call'[r].pc = "verify"
        /\ cut' = [cut EXCEPT ![call[r].link] = IF call[r].on THEN r ELSE NoCaller]
    BY <1>1, <1>6, StepCall
       DEF RespondChanged, Serve, Asked, Effective, Attached, Goto
  <2>2. HealWorks(r)'
    BY <1>1, <1>2, <2>1 DEF HealWorks
  <2>3. ASSUME NEW l \in Links, cut'[l] = r
        PROVE  /\ pc[r] = "cleanup" /\ ~run[r].keep => l \in exec[r].heal
               /\ l \in run[r].open \/ call[r].link = l
    BY <1>1, <1>3, <2>1, <2>3 DEF Owns
  <2> QED BY <1>2, <1>3, <2>1, <2>2, <2>3 DEF Owns, Working
<1>7. CASE RespondNoop(r, FALSE) \/ VerifyOk(r, FALSE) \/ VerifyFail(r, FALSE)
  <2>1. /\ UNCHANGED cut
        /\ call[r].pc = "sent" => Effective(r) /\ call'[r].pc # "ok"
        /\ call[r].pc \in {"sent", "verify"}
        /\ call'[r].pc \in {"verify", "ok"} \/ ~Effective(r) \/ call[r].pc = "sent"
    BY <1>1, <1>7, StepCall, RetryCall DEF RespondNoop, VerifyOk, VerifyFail, Goto
  <2>2. ~call[r].on => cut[call[r].link] # r
    BY <1>1, <2>1 DEF Owns, HealWorks, Effective, Attached
  <2>3. HealWorks(r)'
    BY <1>2, <2>1, <2>2 DEF HealWorks
  <2>4. ASSUME NEW l \in Links, cut[l] = r
        PROVE  l \in run[r].open \/ (call[r].link = l /\ call'[r].pc \in {"verify", "ok"})
    BY <1>1, <2>1, <2>2, <2>4 DEF Owns, Effective, Attached
  <2> QED BY <1>1, <1>2, <1>3, <2>1, <2>3, <2>4 DEF Owns, Working
<1> QED BY <1>4, <1>5, <1>6, <1>7 DEF Advance, RespondError, RespondLie

LEMMA CallingCuts ==
  ASSUME ~RuntimeFaults, CutInv, OutcomeInv', NEW c \in Callers, Calling(c)
  PROVE  CutInv'
<1>1. CtxDone(c) \in BOOLEAN /\ PartTypeOK /\ UNCHANGED engVars
      /\ (Acquire(c) \/ Advance(c, CtxDone(c)))
  BY DEF CtxDone, Calling, CutInv, OutcomeInv, OneInv, EngTypeOK
<1>2. /\ \A d \in Callers : d # c => call'[d] = call[d]
      /\ \A l \in Links : cut'[l] \in {cut[l], c, NoCaller}
      /\ call[c].pc # "idle" /\ call'[c].pc # "idle"
      /\ call'[c].link = call[c].link /\ call'[c].on = call[c].on
      /\ adrift' = adrift \/ (CtxDone(c) /\ adrift' = adrift \cup {Asked(c)})
  BY <1>1, AdvanceKeeps
<1>3. CtxDone(c) => c \in stopped
  BY DEF CtxDone, CutInv, OutcomeInv, Told
<1>4. StraysOfStopped'
  <2>1. Asked(c).by \in {c, NoCaller} /\ NoCaller \notin Runs
    BY PartitionAssumption, EngineAssumption DEF Asked
  <2> QED BY <1>1, <1>2, <1>3, <2>1 DEF CutInv, StraysOfStopped, engVars
<1>5. ASSUME c \in Runs PROVE CallFits(c)' /\ (c \in stopped \/ Owns(c)')
  <2>1. CallFits(c)'
    BY <1>1, <1>2, <1>5 DEF CutInv, CallFits, Current, engVars
  <2>2. c \in stopped \/ CtxDone(c) = FALSE
    BY <1>1, <1>3
  <2> QED BY <1>1, <1>5, <2>1, <2>2, OwnAdvance
<1> QED BY <1>1, <1>2, <1>4, <1>5, EngineCuts

LEMMA StrayCuts ==
  ASSUME CutInv, OutcomeInv', NEW request \in adrift, Drift(request), UNCHANGED engVars
  PROVE  CutInv'
<1> USE PartitionAssumption, EngineAssumption
<1>1. /\ request \in [link : Links, by : Callers \cup {NoCaller}]
      /\ PartTypeOK /\ UNCHANGED call /\ adrift' \subseteq adrift
  BY DEF CutInv, OutcomeInv, OneInv, EngTypeOK, PartTypeOK, Drift
<1>2. \A l \in Links : cut'[l] = cut[l] \/ cut'[l] = request.by
  BY <1>1, ServeCuts DEF Drift
<1>3. \A s \in Runs : FileFits(s)'
  BY FilesKept DEF OutcomeInv, engVars
<1>4. \A s \in Runs : CallFits(s)' /\ (s \in stopped' \/ Owns(s)')
  BY <1>1, <1>2, OwnsKept DEF engVars, CutInv, StraysOfStopped
<1>5. StraysOfStopped'
  BY <1>1 DEF CutInv, StraysOfStopped, engVars
<1> QED BY <1>3, <1>4, <1>5 DEF CutInv

LEMMA RestartCuts ==
  ASSUME CutInv, OutcomeInv', Restart PROVE CutInv'
<1> USE PartitionAssumption, EngineAssumption
<1> DEFINE requests == {Asked(c) : c \in {d \in Callers : call[d].pc = "sent"}}
<1>1. /\ PartTypeOK /\ PartRestart
      /\ stopped' = stopped \cup {r \in Runs : run[r].status # "none" /\ ~Durable(r)}
      /\ \A r \in Runs : run'[r] = Loaded(r) /\ pc'[r] = "none"
  BY DEF Restart, CutInv, OutcomeInv, OneInv, EngTypeOK
<1>2. \A r \in Runs : FileFits(r)'
  BY RestartFiles
<1>3. ASSUME NEW r \in Runs, Working(r) PROVE r \in stopped'
  <2>1. run[r].status # "none" /\ ~Durable(r)
    BY <1>3 DEF Working, CutInv, OutcomeInv, OneInv, EngTypeOK, StatusAt, Points, FileFits
  <2> QED BY <1>1, <2>1
<1>4. ASSUME NEW request \in requests, request.by \in Runs
      PROVE  request.by \in stopped'
  <2>1. PICK c \in Callers : call[c].pc = "sent" /\ request = Asked(c)
    OBVIOUS
  <2>2. request.by = c
    BY <1>4, <2>1 DEF Asked
  <2>3. Working(c)
    BY <1>4, <2>1, <2>2 DEF CutInv, CallFits, Working
  <2> QED BY <1>3, <1>4, <2>2, <2>3
<1>5. \A request \in requests : request \in [link : Links, by : Callers \cup {NoCaller}]
  BY <1>1, AskedType
<1>6. GivenUp(requests)
  BY <1>1 DEF PartRestart
<1> HIDE DEF requests
<1>7. StraysOfStopped'
  <2>1. adrift' = adrift \/ adrift' = adrift \cup requests
    BY <1>6 DEF GivenUp
  <2>2. stopped \subseteq stopped'
    BY <1>1
  <2> QED BY <1>4, <2>1, <2>2 DEF CutInv, StraysOfStopped
<1>8. ASSUME NEW r \in Runs, NEW l \in Links, cut'[l] = r, r \notin stopped'
      PROVE  cut[l] = r
  <2>1. CASE UNCHANGED cut
    BY <1>8, <2>1
  <2>2. ASSUME NEW request \in requests, Serve(request) PROVE cut[l] = r
    <3>1. cut'[l] = cut[l] \/ cut'[l] = request.by
      BY <1>1, <1>5, <2>2, ServeCuts
    <3> QED BY <1>4, <1>8, <3>1
  <2> QED BY <1>6, <2>1, <2>2 DEF GivenUp
<1>9. ASSUME NEW r \in Runs
      PROVE  CallFits(r)' /\ (r \in stopped' \/ Owns(r)')
  <2>1. call'[r].pc = "idle"
    BY <1>1 DEF PartRestart
  <2>2. ASSUME r \notin stopped', NEW l \in Links, cut'[l] = r
        PROVE  l \in run'[r].open
    <3>1. cut[l] = r /\ r \notin stopped /\ ~Working(r)
      BY <1>1, <1>3, <1>8, <2>2
    <3>2. l \in run[r].open
      BY <3>1 DEF CutInv, Owns
    <3>3. Durable(r) /\ FileFits(r)
      BY <1>1, <2>2, <3>2 DEF CutInv, FileFits
    <3>4. run'[r] = run[r]
      BY <1>1, <3>3 DEF FileFits, Durable, Loaded, Active, Outcomes
    <3> QED BY <3>2, <3>4
  <2> QED BY <1>1, <2>1, <2>2 DEF CallFits, Owns, HealWorks
<1> QED BY <1>2, <1>7, <1>9 DEF CutInv

\* Requests of users that move no run and no partition.
LEMMA ButtonCuts ==
  ASSUME CutInv, OutcomeInv', NEW r \in Runs, PressNext(r) \/ Abort(r) PROVE CutInv'
<1>1. /\ UNCHANGED <<partVars, run, pc, exec, file, saved, begun>>
      /\ stopped \subseteq stopped'
  BY DEF PressNext, Abort
<1>2. \A s \in Runs : FileFits(s)'
  BY <1>1, FilesKept DEF OutcomeInv
<1>3. \A s \in Runs : CallFits(s)' /\ (s \in stopped' \/ Owns(s)')
  BY <1>1, OwnsKept DEF partVars
<1>4. StraysOfStopped'
  BY <1>1 DEF CutInv, StraysOfStopped, partVars
<1> QED BY <1>2, <1>3, <1>4 DEF CutInv

LEMMA StutterCuts ==
  ASSUME CutInv, OutcomeInv', UNCHANGED vars PROVE CutInv'
<1>1. \A s \in Runs : FileFits(s)'
  BY FilesKept DEF OutcomeInv, vars, engVars
<1>2. \A s \in Runs : CallFits(s)' /\ (s \in stopped' \/ Owns(s)')
  BY OwnsKept DEF vars, engVars, partVars
<1>3. StraysOfStopped'
  BY DEF CutInv, StraysOfStopped, vars, engVars, partVars
<1> QED BY <1>1, <1>2, <1>3 DEF CutInv

LEMMA CutNextInv == ~RuntimeFaults /\ CutInv /\ [Next]_vars => CutInv'
<1> SUFFICES ASSUME ~RuntimeFaults, CutInv, [Next]_vars PROVE CutInv'
  OBVIOUS
<1>1. OutcomeInv'
  BY OutcomeNextInv DEF CutInv
<1>2. ASSUME NEW r \in Runs, Execute(r) PROVE CutInv'
  BY <1>1, <1>2, MoveCuts, LeavingCuts, CutCuts, CutDoneCuts, CutFailedCuts, HealedCuts,
     FinishCuts, TruncateCuts, WriteCuts
     DEF Execute
<1>3. CASE UNCHANGED vars
  BY <1>1, <1>3, StutterCuts
<1>4. CASE Next
  BY <1>1, <1>2, <1>4, StartCuts, ButtonCuts, RequestCuts, CallingCuts, StrayCuts,
     RestartCuts
     DEF Next
<1> QED BY <1>3, <1>4

\* If the container engine answers truly and within its contexts, every link a
\* run has cut is on its list or about to be, unless the run was stopped: the
\* cleanup finds it, and a run that ended without keeping has none.
THEOREM EngineTracksCuts == ~RuntimeFaults => (Spec => []CutsAreTracked)
<1> SUFFICES ASSUME ~RuntimeFaults PROVE Spec => []CutsAreTracked
  OBVIOUS
<1>1. CutInv /\ [Next]_vars => CutInv'
  BY CutNextInv
<1> QED BY <1>1, InitCutInv, CutInvImplies, PTL DEF Spec
==============================================================================
