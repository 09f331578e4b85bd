---------------------------- MODULE RunLifecycle ----------------------------
(***************************************************************************)
(* What the scenario engine promises about runs, whatever a run does: one  *)
(* at a time, running and paused alternate until an outcome, an outcome is *)
(* final, and an outcome on disk survives a restart of the orchestrator.   *)
(***************************************************************************)
CONSTANTS Runs

VARIABLES
  life,      \* what the API reports of each run
  durable    \* runs whose outcome is on disk

lifeVars == <<life, durable>>

Active == {"running", "paused"}
Outcomes == {"passed", "failed", "aborted"}

LifeTypeOK ==
  /\ life \in [Runs -> {"none"} \cup Active \cup Outcomes]
  /\ durable \in SUBSET Runs

LifeInit ==
  /\ life = [r \in Runs |-> "none"]
  /\ durable = {}

Become(r, from, to) ==
  /\ life[r] = from
  /\ life' = [life EXCEPT ![r] = to]
  /\ UNCHANGED durable

Started(r) ==
  /\ \A s \in Runs : life[s] \notin Active
  /\ Become(r, "none", "running")

Paused(r) == Become(r, "running", "paused")

Resumed(r) == Become(r, "paused", "running")

Ended(r) == \E o \in Outcomes : Become(r, "running", o)

Recorded(r) ==
  /\ life[r] \in Outcomes
  /\ durable' = durable \cup {r}
  /\ UNCHANGED life

\* A restart interrupts or forgets every run whose outcome is not on disk.  A
\* run reported aborted by a restart may be reported so again, or lost.
Restarted ==
  /\ \E fate \in [Runs -> {"none", "aborted"}] :
       life' = [r \in Runs |-> IF r \in durable THEN life[r] ELSE
                               IF life[r] = "none" THEN "none" ELSE fate[r]]
  /\ UNCHANGED durable

LifeNext ==
  \/ \E r \in Runs : Started(r) \/ Paused(r) \/ Resumed(r) \/ Ended(r) \/ Recorded(r)
  \/ Restarted

LifeSpec == LifeInit /\ [][LifeNext]_lifeVars
==============================================================================
