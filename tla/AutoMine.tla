------------------------------ MODULE AutoMine ------------------------------
(***************************************************************************)
(* The mining metronome: internal/automine/automine.go, and the requests   *)
(* of internal/api/automine.go that reconfigure it.                        *)
(*                                                                         *)
(* The loop copies the configuration, waits for its timer or for a reset,  *)
(* moves the schedule on and mines with what it copied.  Deadlines are     *)
(* kept as the time left to them, zero or less once they have passed.      *)
(***************************************************************************)
EXTENDS Integers, FiniteSetsExt

CONSTANTS
  Clients,     \* concurrent POST /api/automine requests
  Nodes,       \* nodes to mine on
  Intervals,   \* the intervals in use, in units of time
  MaxLate      \* bound: being later than this is being this late

AutoMineAssumption ==
  /\ Intervals \subseteq Nat \ {0} /\ Intervals # {}
  /\ MaxLate \in Nat /\ \A i \in Intervals : 2 * i < MaxLate

VARIABLES
  cfg,       \* Service.cfg
  left,      \* time left to Service.nextAt
  reset,     \* is there a token in Service.reset?
  pc,        \* where Run is
  copy,      \* the configuration Run has copied
  timer,     \* time left to Run's timer
  req,       \* the requests, and the Config each has made
  copied,    \* history: was the copy taken since the last Configure?
  stale,     \* history: mines begun since Configure with an older copy, to 2
  burst      \* history: times the timer fired since time last passed, to 3

loopVars == <<pc, copy, timer>>
history == <<copied, stale, burst>>
vars == <<cfg, left, reset, loopVars, req, history>>

Config == [enabled : BOOLEAN, interval : Intervals, node : Nodes]

\* A request sets some of the fields.
Fields == {"enabled", "interval", "node"}
Request == [pc : {"idle", "send"}, want : Config]
NoRequest == [pc |-> "idle", want |-> CHOOSE c \in Config : TRUE]

MineTypeOK ==
  /\ cfg \in Config
  /\ left \in -MaxLate..(2 * Max(Intervals))
  /\ reset \in BOOLEAN
  /\ pc \in {"top", "select", "fired", "decide", "mine"}
  /\ copy \in Config
  /\ timer \in -MaxLate..(2 * Max(Intervals))
  /\ req \in [Clients -> Request]
  /\ copied \in BOOLEAN /\ stale \in 0..2 /\ burst \in 0..3

Init ==
  /\ cfg \in Config
  /\ left = cfg.interval
  /\ reset = FALSE
  /\ pc = "top" /\ copy = cfg /\ timer = 0
  /\ req = [c \in Clients |-> NoRequest]
  /\ copied = FALSE /\ stale = 0 /\ burst = 0

------------------------------------------------------------------------------
(* Requests *)

\* postAutoMine fills in what the request leaves out from the Status ...
Read(c, sets, new) ==
  /\ req[c].pc = "idle"
  /\ \A f \in Fields \ sets : new[f] = cfg[f]
  /\ req' = [req EXCEPT ![c] = [pc |-> "send", want |-> new]]
  /\ UNCHANGED <<cfg, left, reset, loopVars, history>>

\* ... and then calls Configure, which restarts the countdown and wakes Run.
Configure(c) ==
  /\ req[c].pc = "send"
  /\ cfg' = req[c].want
  /\ left' = cfg'.interval
  /\ reset' = TRUE
  /\ req' = [req EXCEPT ![c] = NoRequest]
  /\ copied' = FALSE /\ stale' = 0
  /\ UNCHANGED <<loopVars, burst>>

------------------------------------------------------------------------------
(* Run *)

\* Mutant: the loop keeps the configuration it started with.
CopyTime ==
  /\ pc = "top"
  /\ pc' = "select" /\ timer' = left
  /\ UNCHANGED <<cfg, left, reset, copy, req, history>>

\* Under the read lock: the time to wait and the configuration.
Copy ==
  /\ pc = "top"
  /\ pc' = "select" /\ copy' = cfg /\ timer' = left
  /\ copied' = TRUE
  /\ UNCHANGED <<cfg, left, reset, req, stale, burst>>

\* Mutant: the reset is noticed and not consumed.
ResetSticks ==
  /\ pc = "select" /\ reset
  /\ pc' = "top"
  /\ UNCHANGED <<cfg, left, reset, copy, timer, req, history>>

\* select: when both are ready, either may be chosen.
Reset ==
  /\ pc = "select" /\ reset
  /\ pc' = "top" /\ reset' = FALSE
  /\ UNCHANGED <<cfg, left, copy, timer, req, history>>

Fire ==
  /\ pc = "select" /\ timer <= 0
  /\ pc' = "fired"
  /\ burst' = Min({burst + 1, 3})
  /\ UNCHANGED <<cfg, left, reset, copy, timer, req, copied, stale>>

\* Mutant: what was missed is made up for.
AdvanceEach ==
  /\ pc = "fired"
  /\ pc' = "decide"
  /\ left' = left + copy.interval
  /\ UNCHANGED <<cfg, reset, copy, timer, req, history>>

\* Move the schedule on, skipping what was missed, with the copied interval.
Advance ==
  /\ pc = "fired"
  /\ pc' = "decide"
  /\ left' = IF left + copy.interval < 0 THEN copy.interval ELSE left + copy.interval
  /\ UNCHANGED <<cfg, reset, copy, timer, req, history>>

\* Mine on the copied node if the copy says so.
Decide ==
  /\ pc = "decide"
  /\ pc' = IF copy.enabled THEN "mine" ELSE "top"
  /\ stale' = IF copy.enabled /\ ~copied THEN Min({stale + 1, 2}) ELSE stale
  /\ UNCHANGED <<cfg, left, reset, copy, timer, req, copied, burst>>

\* mineOnce returns, with blocks, an error or after its two minutes.
Mined ==
  /\ pc = "mine"
  /\ pc' = "top"
  /\ UNCHANGED <<cfg, left, reset, copy, timer, req, history>>

Tick ==
  /\ left' = Max({left - 1, -MaxLate})
  /\ timer' = Max({timer - 1, -MaxLate})
  /\ burst' = 0
  /\ UNCHANGED <<cfg, reset, pc, copy, req, copied, stale>>

Loop == Copy \/ Reset \/ Fire \/ Advance \/ Decide \/ Mined

Next ==
  \/ \E c \in Clients, sets \in SUBSET Fields, new \in Config : Read(c, sets, new)
  \/ \E c \in Clients : Configure(c)
  \/ Loop
  \/ Tick

\* Run is scheduled, time passes, and mineOnce has a timeout.
Spec == Init /\ [][Next]_vars
FairSpec == Spec /\ WF_vars(Loop) /\ WF_vars(Tick)

------------------------------------------------------------------------------
(* Properties *)

\* Configuring takes hold: of the mines that begin after Configure, at most the
\* first one uses what it replaced, the node or "enabled" included
\* (automine.go:121-157).
StaleAtMostOnce == stale <= 1

\* A loop that fell behind skips forward instead of catching up
\* (automine.go:146-150): at one moment it fires twice at the very most, once
\* late and once on time.
NoCatchingUp == burst <= 2

\* Unless it is disabled or forever reconfigured, it keeps mining, however long
\* a mine takes (automine.go:114-115).
KeepsMining ==
  []<>(pc = "mine") \/ []<>(~cfg.enabled) \/ []<>(\E c \in Clients : req[c].pc = "send")
==============================================================================
