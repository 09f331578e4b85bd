--------------------------- MODULE SendController ---------------------------
(***************************************************************************)
(* The sustained wallet send: internal/walletsvc/send.go.                  *)
(*                                                                         *)
(* A run has a producer that paces jobs into a channel and workers that    *)
(* take them; Start, Stop and the end of a run meet under the controller's *)
(* lock.  Counters belong to the controller, not to the run, and Start     *)
(* resets them.  What a send does is its outcome.  The sampler of the rate *)
(* is left out.                                                            *)
(***************************************************************************)
EXTENDS Integers, FiniteSets

CONSTANTS
  Workers,    \* SendRequest.Workers
  MaxGen,     \* bound: runs
  MaxSends    \* bound: sends begun by a run

SendAssumption == {Workers, MaxGen, MaxSends} \subseteq Nat \ {0}

VARIABLES
  running, draining,      \* Controller.running, draining
  gen,                    \* Controller.gen
  reason,                 \* Controller.stopReason, "" while there is none
  attempted, ended,       \* Controller.attempted; the sum of its four outcomes
  prod,                   \* where each run's producer is
  ctx,                    \* its prodCtx: "live", "stopped" or "expired"
  jobs, closed,           \* its channel: jobs queued, closed?
  busy,                   \* its workers inside SendOne
  stops,                  \* runs whose cancel a Stop holds and has not called
  asked, begun, late      \* history: runs Stop caught; sends begun; those after ctx

lockVars == <<running, draining, gen, reason>>
countVars == <<attempted, ended>>
runVars == <<prod, ctx, jobs, closed, busy>>
history == <<asked, begun, late>>
vars == <<lockVars, countVars, runVars, stops, history>>

Gens == 1..MaxGen

SendTypeOK ==
  /\ running \in BOOLEAN /\ draining \in BOOLEAN
  /\ gen \in 0..MaxGen
  /\ reason \in {"", "duration", "stopped"}
  /\ attempted \in 0..MaxSends /\ ended \in 0..attempted
  /\ prod \in [Gens -> {"none", "start", "pace", "offer", "drain", "end", "done"}]
  /\ ctx \in [Gens -> {"live", "stopped", "expired"}]
  /\ jobs \in [Gens -> 0..Workers] /\ closed \in [Gens -> BOOLEAN]
  /\ busy \in [Gens -> 0..Workers]
  /\ stops \in SUBSET Gens /\ asked \in SUBSET Gens
  /\ begun \in [Gens -> 0..MaxSends] /\ late \in [Gens -> 0..MaxSends]

Init ==
  /\ running = FALSE /\ draining = FALSE /\ gen = 0 /\ reason = ""
  /\ attempted = 0 /\ ended = 0
  /\ prod = [g \in Gens |-> "none"] /\ ctx = [g \in Gens |-> "live"]
  /\ jobs = [g \in Gens |-> 0] /\ closed = [g \in Gens |-> FALSE]
  /\ busy = [g \in Gens |-> 0]
  /\ stops = {} /\ asked = {}
  /\ begun = [g \in Gens |-> 0] /\ late = [g \in Gens |-> 0]

------------------------------------------------------------------------------
(* Requests *)

Goes(g, point) == prod' = [prod EXCEPT ![g] = point]

\* Mutant: only a draining send is in the way.
StartBeside(g) ==
  /\ g \in Gens /\ g = gen + 1
  /\ ~draining
  /\ running' = TRUE /\ draining' = FALSE /\ reason' = "" /\ gen' = g
  /\ attempted' = 0 /\ ended' = 0
  /\ Goes(g, "start")
  /\ UNCHANGED <<ctx, jobs, closed, busy, stops, history>>

\* Start, up to the unlock: refuse, or claim the send and reset the counters.
Start(g) ==
  /\ g \in Gens /\ g = gen + 1
  /\ ~running /\ ~draining
  /\ running' = TRUE /\ draining' = FALSE /\ reason' = "" /\ gen' = g
  /\ attempted' = 0 /\ ended' = 0
  /\ Goes(g, "start")
  /\ UNCHANGED <<ctx, jobs, closed, busy, stops, history>>

\* Start, after the unlock and the count of the coins: the run is launched,
\* stopped meanwhile or not.
Launch(g) ==
  /\ prod[g] = "start"
  /\ Goes(g, "pace")
  /\ UNCHANGED <<lockVars, countVars, ctx, jobs, closed, busy, stops, history>>

\* Stop, under the lock: it takes the current run's cancel.
Stop ==
  /\ running
  /\ draining' = TRUE /\ reason' = "stopped"
  /\ stops' = stops \cup {gen}
  /\ asked' = asked \cup {gen}
  /\ UNCHANGED <<running, gen, countVars, runVars, begun, late>>

\* Mutant: Stop cancels whatever runs by then.
CancelCurrent(g) ==
  /\ g \in stops
  /\ stops' = stops \ {g}
  /\ ctx' = [ctx EXCEPT ![gen] = IF @ = "live" THEN "stopped" ELSE @]
  /\ UNCHANGED <<lockVars, countVars, prod, jobs, closed, busy, history>>

\* Stop, after the lock.
Cancel(g) ==
  /\ g \in stops
  /\ stops' = stops \ {g}
  /\ ctx' = [ctx EXCEPT ![g] = IF @ = "live" THEN "stopped" ELSE @]
  /\ UNCHANGED <<lockVars, countVars, prod, jobs, closed, busy, history>>

\* DurationSeconds have passed.
Expire(g) ==
  /\ prod[g] \notin {"none", "done"} /\ ctx[g] = "live"
  /\ ctx' = [ctx EXCEPT ![g] = "expired"]
  /\ UNCHANGED <<lockVars, countVars, prod, jobs, closed, busy, stops, history>>

------------------------------------------------------------------------------
(* A run *)

\* Stop producing: the channel is closed.
Drain(g) == Goes(g, "drain") /\ closed' = [closed EXCEPT ![g] = TRUE]

\* Mutant: the limiter waits whatever the context says.
PaceOn(g) ==
  /\ prod[g] = "pace"
  /\ Goes(g, "offer")
  /\ UNCHANGED <<lockVars, countVars, ctx, jobs, closed, busy, stops, history>>

\* Mutant: the channel is left open.
PaceOpen(g) ==
  /\ prod[g] = "pace"
  /\ Goes(g, IF ctx[g] = "live" THEN "offer" ELSE "drain")
  /\ UNCHANGED <<lockVars, countVars, ctx, jobs, closed, busy, stops, history>>

\* lim.Wait: an error if the context is done, or its deadline nearer than the
\* next job.
Pace(g) ==
  /\ prod[g] = "pace"
  /\ \/ ctx[g] = "live" /\ Goes(g, "offer") /\ UNCHANGED closed
     \/ Drain(g)
  /\ UNCHANGED <<lockVars, countVars, ctx, jobs, busy, stops, history>>

\* The select: with the context done and room in the channel, either.
Offer(g) ==
  /\ prod[g] = "offer"
  /\ \/ /\ jobs[g] < Workers
        /\ begun[g] + jobs[g] < MaxSends
        /\ jobs' = [jobs EXCEPT ![g] = @ + 1]
        /\ Goes(g, "pace") /\ UNCHANGED closed
     \/ /\ ctx[g] # "live"
        /\ Drain(g) /\ UNCHANGED jobs
  /\ UNCHANGED <<lockVars, countVars, ctx, busy, stops, history>>

\* A worker takes a job, queued before or after the context ended.
TakeJob(g) ==
  /\ jobs[g] > 0 /\ busy[g] < Workers
  /\ jobs' = [jobs EXCEPT ![g] = @ - 1]
  /\ busy' = [busy EXCEPT ![g] = @ + 1]
  /\ attempted' = attempted + 1
  /\ begun' = [begun EXCEPT ![g] = @ + 1]
  /\ late' = [late EXCEPT ![g] = IF ctx[g] # "live" THEN @ + 1 ELSE @]
  /\ UNCHANGED <<lockVars, ended, prod, ctx, closed, stops, asked>>

\* SendOne returned: a success, a failure, a cancellation or backpressure.
Sent(g) ==
  /\ busy[g] > 0
  /\ busy' = [busy EXCEPT ![g] = @ - 1]
  /\ ended' = ended + 1
  /\ UNCHANGED <<lockVars, attempted, prod, ctx, jobs, closed, stops, history>>

\* Mutant: the workers are not waited for.
DrainedEarly(g) ==
  /\ prod[g] = "drain" /\ closed[g]
  /\ Goes(g, "end")
  /\ UNCHANGED <<lockVars, countVars, ctx, jobs, closed, busy, stops, history>>

\* wg.Wait, for workers that end with the closed channel.
Drained(g) ==
  /\ prod[g] = "drain" /\ closed[g] /\ jobs[g] = 0 /\ busy[g] = 0
  /\ Goes(g, "end")
  /\ UNCHANGED <<lockVars, countVars, ctx, jobs, closed, busy, stops, history>>

\* Under the lock: the run is over, unless a newer one has begun.
End(g) ==
  /\ prod[g] = "end"
  /\ IF gen = g
       THEN /\ running' = FALSE /\ draining' = FALSE
            /\ reason' = IF reason # "" THEN reason
                         ELSE IF ctx[g] = "stopped" THEN "stopped" ELSE "duration"
       ELSE UNCHANGED <<running, draining, reason>>
  /\ Goes(g, "done")
  /\ UNCHANGED <<gen, countVars, ctx, jobs, closed, busy, stops, history>>

Run(g) ==
  Launch(g) \/ Pace(g) \/ Offer(g) \/ TakeJob(g) \/ Sent(g) \/ Drained(g) \/ End(g)

Next ==
  \/ Stop
  \/ \E g \in Gens : Start(g) \/ Cancel(g) \/ Expire(g) \/ Run(g)

\* Goroutines are scheduled, Stop calls its cancel, and a send returns.
Fairness == \A g \in Gens : WF_vars(Run(g)) /\ WF_vars(Cancel(g))

Spec == Init /\ [][Next]_vars
FairSpec == Spec /\ Fairness

------------------------------------------------------------------------------
(* Properties *)

\* "The send is a single global resource": one run is launched, produces or
\* drains at a time, so the end of a run never meets a newer one
\* (send.go:84-95, 200).
OneSend ==
  \A g, h \in Gens :
    /\ prod[g] \notin {"none", "done"}
    /\ prod[h] \notin {"none", "done"}
    => g = h

\* When no send is running the books balance: every attempt has one outcome
\* and no worker is still sending (send.go:195-201, 217-261).
BooksBalance ==
  ~running => attempted = ended /\ \A g \in Gens : busy[g] = 0 /\ jobs[g] = 0

\* Stop cancels the run it found running and no other, however late its cancel
\* comes (send.go:309-314).
StopHitsItsRun == \A g \in Gens : ctx[g] = "stopped" => g \in asked

\* After the context ends only what the channel held and one job already on
\* offer are still sent (send.go:184-197).
StopBoundsSends == \A g \in Gens : late[g] <= Workers + 1

\* A stopped or expired run drains and ends (send.go:122-123, 301-322).
StopEnds == \A g \in Gens : ctx[g] # "live" ~> prod[g] = "done"
==============================================================================
