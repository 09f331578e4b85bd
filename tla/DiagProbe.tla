----------------------------- MODULE DiagProbe -----------------------------
(***************************************************************************)
(* Why a node is in the state it is in (internal/diag): the probes of its  *)
(* eight sources, the table of rules that reduces them to one verdict, and *)
(* the cache through which several viewers share a probe.                  *)
(*                                                                         *)
(* A call is one request of GET /api/diagnostics for the node.  A call     *)
(* that probes owns the cache entry it makes, so an entry is named by its  *)
(* call.                                                                   *)
(***************************************************************************)
EXTENDS Integers, Sequences, FiniteSets, FiniteSetsExt

CONSTANTS Calls,      \* requests, each made once
          Self,       \* the node diagnosed
          Worlds,     \* what the sources of the node say: [Sources -> values]
          Crowded,    \* the worlds in which several calls come and things move
          Snapshots,  \* snapshots of the fleet: [nodes -> brief records]
          Rounds,     \* a partition of Sources: the sources of a round answer
                      \*   at one moment, the rounds at different ones
          MaxFails,   \* bound: sources of a round that do not answer
          Frail,      \* bound: the sources that may fail in a crowd
          MaxNow,     \* bound: the ticks of the clock
          MaxAge,     \* the age at which a cached report is too old, in ticks
          MaxMoves,   \* bound: changes of the node's own state
          None

Sources == {"container", "tip", "fsm", "catchup", "peers", "heights",
            "invalid", "health"}

ASSUME DiagAssumption ==
    /\ IsFiniteSet(Calls) /\ None \notin Calls
    /\ Crowded \subseteq Worlds
    /\ \A w \in Worlds : /\ DOMAIN w = Sources /\ w["peers"] \in Nat
                         /\ w["tip"].height \in Nat /\ w["health"] \in {"ok", "failing"}
    /\ \A s \in Snapshots : /\ IsFiniteSet(DOMAIN s)
                            /\ \A n \in DOMAIN s : s[n].height \in Nat
    /\ UNION Rounds = Sources
    /\ MaxFails \in Nat /\ MaxNow \in Nat /\ MaxAge \in Nat /\ MaxMoves \in Nat

VARIABLES world,   \* what the node's sources say now
          snap,    \* the fleet snapshot the observer has
          teranode,\* FALSE: an SV node, without the asset API
          crowd,   \* FALSE: one call comes, and nothing moves (a bound)
          cache,   \* the call whose entry is cached, or None
          last,    \* the call whose report was stored last, or None
          pc,      \* where each call is
          refresh, \* does it ask for a probe of its own (maxAge = 0)?
          joined,  \* the entry whose probe it waits for
          asked, begun, at,  \* when it came, began its probe, ended it
          prev,    \* blocks validated in the sample before its own
          seen,    \* what its probe has read
          class,   \* the verdict of its probe
          answer,  \* the call whose report answered it
          moves, now

node == <<world, snap, teranode, crowd, moves>>
probe == <<begun, prev, seen, class>>
vars == <<node, cache, last, pc, refresh, joined, asked, at, probe, answer, now>>

----------------------------------------------------------------------------
(* The rules                                                               *)

\* Where the fleet is: the nodes that answer, the greatest height and the tip
\* that most of those at that height hold, the smaller hash on a tie.
Fleet(s) ==
    LET up == {n \in DOMAIN s : s[n].up}
        max == IF up = {} THEN 0 ELSE Max({s[n].height : n \in up})
        holders(h) == {n \in up : s[n].hash = h}
        tips == {s[n].hash : n \in {m \in up : s[m].height = max /\ s[m].hash # 0}}
        best == {h \in tips : \A g \in tips :
                    Cardinality(holders(g)) <= Cardinality(holders(h))}
    IN  [max |-> max, tip |-> IF best = {} THEN 0 ELSE Min(best)]

\* Rejections that can explain the present divergence.
Relevant(d, f) ==
    {h \in d["invalid"] : d["tip"].height < h /\ h <= f.max + 1}

\* No block was validated since the previous sample.
Stalled(d, before) == before # None /\ before = d["catchup"].validated

\* Running on the majority's tip, and nothing failed; (a mutant) something did.
InSyncLoose(d, f) == /\ d["tip"] # None /\ d["fsm"] = "RUNNING"
                     /\ f.tip \in {0, d["tip"].hash}
InSync(d, f) == (\A s \in Sources : d[s] # None) /\ InSyncLoose(d, f)

\* Rule r applies to evidence d; a source that did not answer is None.
Applies(r, d, f, brief, before) ==
    LET known(s) == d[s] # None
        behind == IF known("tip") /\ f.max > d["tip"].height
                  THEN f.max - d["tip"].height ELSE 0
        catching == \/ d["fsm"] = "CATCHINGBLOCKS"
                    \/ known("catchup") /\ d["catchup"].on
    IN CASE r = "unreachable"     -> ~known("tip") /\ ~brief.up
         [] r = "container_down"  -> known("container") /\ d["container"] # "running"
         [] r = "partitioned"     -> brief.cut
         [] r = "fsm_idle"        -> d["fsm"] = "IDLE"
         [] r = "catchup_stalled" -> /\ catching /\ known("catchup")
                                     /\ d["catchup"].long /\ Stalled(d, before)
         [] r = "catching_up"     -> catching
         [] r = "catchup_failed"  -> known("catchup") /\ d["catchup"].failed
         [] r = "no_peers"        -> d["peers"] = 0
         [] r = "minority_tip"    -> /\ known("tip") /\ f.tip # 0
                                     /\ d["tip"].hash # f.tip
                                     /\ d["tip"].height + 1 >= f.max
                                     /\ known("invalid") /\ Relevant(d, f) # {}
         [] r = "behind"          -> behind > 1
         [] r = "unhealthy"       -> d["health"] = "failing"
         [] r = "in_sync"         -> InSync(d, f)
         [] r = "unknown"         -> TRUE

\* (a mutant) A partition is looked at after the lag it produces.
RulesLate == <<"unreachable", "container_down", "fsm_idle", "catchup_stalled",
               "catching_up", "catchup_failed", "no_peers", "minority_tip",
               "behind", "partitioned", "unhealthy", "in_sync", "unknown">>
Rules == <<"unreachable", "container_down", "partitioned", "fsm_idle",
           "catchup_stalled", "catching_up", "catchup_failed", "no_peers",
           "minority_tip", "behind", "unhealthy", "in_sync", "unknown">>

Classes == {Rules[i] : i \in DOMAIN Rules} \cup {"not_applicable"}

ASSUME NoVerdict == None \notin Classes

\* The first rule that applies.
Evaluate(d, s, before) ==
    LET on == [i \in DOMAIN Rules |-> Applies(Rules[i], d, Fleet(s), s[Self], before)]
    IN  Rules[CHOOSE i \in DOMAIN Rules : on[i] /\ \A j \in 1..i - 1 : ~on[j]]

----------------------------------------------------------------------------
(* The probes and the cache                                                *)

\* An SV node has a container and a tip only.
Asked == IF teranode THEN Sources ELSE {"container", "tip"}

Nothing == [s \in {} |-> None]

DiagTypeOK ==
    /\ DOMAIN world = Sources /\ moves \in 0..MaxMoves
    /\ snap \in Snapshots /\ teranode \in BOOLEAN /\ crowd \in BOOLEAN
    /\ {cache, last} \subseteq Calls \cup {None}
    /\ pc \in [Calls -> {"idle", "joined", "waiting", "stuck", "probing", "answered"}]
    /\ refresh \in [Calls -> BOOLEAN]
    /\ joined \in [Calls -> Calls \cup {None}] /\ answer \in [Calls -> Calls \cup {None}]
    /\ asked \in [Calls -> 0..MaxNow] /\ begun \in [Calls -> 0..MaxNow]
    /\ at \in [Calls -> 0..MaxNow] /\ now \in 0..MaxNow
    /\ class \in [Calls -> Classes \cup {None}]
    /\ \A c \in Calls :
         /\ DOMAIN seen[c] \subseteq Asked
         /\ class[c] # None => /\ DOMAIN seen[c] = Asked
                               /\ pc[c] = "answered" /\ answer[c] = c
         /\ joined[c] # None => /\ begun[joined[c]] <= now
                                /\ pc[joined[c]] \in {"probing", "answered"}

Init ==
    /\ world \in Worlds /\ snap \in Snapshots /\ teranode \in BOOLEAN
    /\ crowd = (world \in Crowded)
    /\ cache = None /\ last = None
    /\ pc = [c \in Calls |-> "idle"]
    /\ refresh = [c \in Calls |-> FALSE]
    /\ joined = [c \in Calls |-> None]
    /\ asked = [c \in Calls |-> 0] /\ begun = asked /\ at = asked
    /\ prev = joined /\ class = joined /\ answer = joined
    /\ seen = [c \in Calls |-> Nothing]
    /\ moves = 0 /\ now = 0

\* The cached report is young enough for c.
Young(c) == /\ cache # None /\ pc[cache] = "answered"
            /\ ~refresh'[c] /\ now - at[cache] < MaxAge

\* Under the lock: the cached report, or a new entry and a probe.
Decide(c) ==
    IF Young(c)
    THEN /\ pc' = [pc EXCEPT ![c] = "answered"] /\ answer' = [answer EXCEPT ![c] = cache]
         /\ UNCHANGED <<probe, cache>>
    ELSE /\ pc' = [pc EXCEPT ![c] = "probing"] /\ cache' = c
         /\ begun' = [begun EXCEPT ![c] = now]
         /\ prev' = [prev EXCEPT ![c] =
               IF last = None \/ "catchup" \notin DOMAIN seen[last] \/ seen[last]["catchup"] = None
               THEN None ELSE seen[last]["catchup"].validated]
         /\ UNCHANGED <<answer, seen, class>>

\* A request comes.  With a probe in flight it leaves the lock to join it.
Call(c) ==
    /\ pc[c] = "idle" /\ (crowd \/ \A d \in Calls : pc[d] = "idle")
    /\ \E r \in BOOLEAN : refresh' = [refresh EXCEPT ![c] = r]
    /\ asked' = [asked EXCEPT ![c] = now]
    /\ IF cache # None /\ pc[cache] = "probing"
       THEN /\ pc' = [pc EXCEPT ![c] = "joined"] /\ joined' = [joined EXCEPT ![c] = cache]
            /\ UNCHANGED <<probe, cache, answer>>
       ELSE Decide(c) /\ UNCHANGED joined
    /\ UNCHANGED <<node, last, at, now>>

\* Without the lock it looks the channel up in the entry: the probe that has
\* ended has taken it out, and nothing is ever received from no channel.
Join(c) ==
    /\ pc[c] = "joined"
    /\ pc' = [pc EXCEPT ![c] = IF pc[joined[c]] = "probing" THEN "waiting" ELSE "stuck"]
    /\ UNCHANGED <<node, cache, last, refresh, joined, asked, at, probe, answer, now>>

\* (a mutant) It takes the report of the probe it waited for.
WakeShared(c) ==
    /\ pc[c] = "waiting" /\ pc[joined[c]] = "answered"
    /\ pc' = [pc EXCEPT ![c] = "answered"]
    /\ answer' = [answer EXCEPT ![c] = joined[c]]
    /\ UNCHANGED <<node, cache, last, refresh, joined, asked, at, probe, now>>

\* The probe it waited for has ended; the cache is looked up again.
Wake(c) ==
    /\ pc[c] = "waiting" /\ pc[joined[c]] = "answered"
    /\ UNCHANGED refresh /\ Decide(c)
    /\ UNCHANGED <<node, last, joined, asked, at, now>>

\* The sources of round r answer, but those of F.
Read(c, r, F) ==
    /\ pc[c] = "probing" /\ r \cap DOMAIN seen[c] = {} /\ r \cap Asked # {}
    /\ seen' = [seen EXCEPT ![c] = [s \in DOMAIN @ \cup (r \cap Asked) |->
                    IF s \in DOMAIN @ THEN @[s] ELSE IF s \in F THEN None ELSE world[s]]]
    /\ UNCHANGED <<node, cache, last, pc, refresh, joined, asked, at, begun, prev, class, answer, now>>

\* (a mutant) The entry takes the place of the one cached since.
FinishCached(c) ==
    /\ pc[c] = "probing" /\ DOMAIN seen[c] = Asked
    /\ class' = [class EXCEPT ![c] =
          IF teranode THEN Evaluate(seen[c], snap, prev[c]) ELSE "not_applicable"]
    /\ pc' = [pc EXCEPT ![c] = "answered"] /\ answer' = [answer EXCEPT ![c] = c]
    /\ at' = [at EXCEPT ![c] = now]
    /\ last' = c /\ cache' = c
    /\ UNCHANGED <<node, refresh, joined, asked, begun, prev, seen, now>>

\* All have answered or failed: the verdict, and the report for the others.
Finish(c) ==
    /\ pc[c] = "probing" /\ DOMAIN seen[c] = Asked
    /\ class' = [class EXCEPT ![c] =
          IF teranode THEN Evaluate(seen[c], snap, prev[c]) ELSE "not_applicable"]
    /\ pc' = [pc EXCEPT ![c] = "answered"] /\ answer' = [answer EXCEPT ![c] = c]
    /\ at' = [at EXCEPT ![c] = now]
    /\ last' = c
    /\ UNCHANGED <<node, cache, refresh, joined, asked, begun, prev, seen, now>>

\* The node changes: what one source says.
Move(s, w) ==
    /\ crowd /\ moves < MaxMoves /\ w[s] # world[s]
    /\ world' = [world EXCEPT ![s] = w[s]] /\ moves' = moves + 1
    /\ UNCHANGED <<snap, teranode, crowd, cache, last, pc, refresh, joined, asked, at, probe, answer, now>>

Tick ==
    /\ crowd /\ now < MaxNow /\ now' = now + 1
    /\ UNCHANGED <<node, cache, last, pc, refresh, joined, asked, at, probe, answer>>

\* Bound: in a crowd all sources answer at one moment, and one of Frail may fail.
Reads(c) == \E r \in IF crowd THEN {Sources} ELSE Rounds :
            \E F \in SUBSET (IF crowd THEN Frail ELSE r) :
                Cardinality(F) <= MaxFails /\ Read(c, r, F)

Step(c) == Join(c) \/ Wake(c) \/ Reads(c) \/ Finish(c)

Next == \/ \E c \in Calls : Call(c) \/ Step(c)
        \/ \E s \in Sources, w \in Crowded : Move(s, w)
        \/ Tick

Spec == Init /\ [][Next]_vars

\* Goroutines run and every probe of a source ends within its timeout.
FairSpec == Spec /\ \A c \in Calls : WF_vars(Step(c))

----------------------------------------------------------------------------
(* Properties                                                              *)

\* Missing evidence is never read as health (diag.go:5, rules.go:56): a node
\* is in sync only if all eight sources answered and none of them, nor the
\* fleet, shows anything that would explain a fault.
InSyncIsProven ==
    \A c \in Calls : class[c] = "in_sync" =>
        LET d == seen[c]
            f == Fleet(snap)
        IN  /\ \A s \in Sources : d[s] # None
            /\ d["container"] = "running" /\ d["fsm"] = "RUNNING" /\ ~d["catchup"].on
            /\ ~d["catchup"].failed /\ d["peers"] > 0 /\ d["health"] = "ok"
            /\ ~snap[Self].cut /\ f.tip \in {0, d["tip"].hash} /\ f.max <= d["tip"].height + 1

\* A cause outranks its symptoms (rules.go:52-54): a node is said to lag, to
\* have no peers or to sit on a minority tip only if nothing was seen that
\* would bring that about, and a fork is never reported as lag.
CauseOutranksSymptom ==
    \A c \in Calls : class[c] \in {"behind", "no_peers", "minority_tip"} =>
        LET d == seen[c]
        IN  /\ d["container"] \in {"running", None} /\ ~snap[Self].cut
            /\ d["fsm"] \notin {"IDLE", "CATCHINGBLOCKS"}
            /\ d["catchup"] # None => ~d["catchup"].on /\ ~d["catchup"].failed
            /\ class[c] = "behind" =>
                 ~ /\ d["invalid"] # None /\ Relevant(d, Fleet(snap)) # {}
                   /\ Fleet(snap).tip \notin {0, d["tip"].hash}
                   /\ d["tip"].height = Fleet(snap).max

\* What a verdict claims was seen, and what was seen is claimed (rules.go:52-56).
VerdictIsSound == InSyncIsProven /\ CauseOutranksSymptom

\* Whoever asks for a refresh is answered with evidence gathered since then,
\* however many probes of other calls it joined (logs.go:128).
RefreshIsFresh ==
    \A c \in Calls : answer[c] # None /\ refresh[c] => begun[answer[c]] >= asked[c]

\* The cache never falls back: of the probes that have ended, none began
\* after the one whose report the cache shows, in whatever order they end.
CacheIsNewest ==
    cache # None /\ pc[cache] = "answered" =>
        \A c \in Calls : class[c] # None => begun[c] <= begun[cache]

\* Probes and cache are well formed, and the cache is in order (probe.go:157-163).
DiagInv == DiagTypeOK /\ CacheIsNewest

\* Every call is answered (probe.go:134: concurrent callers join the probe in
\* flight).
CallsAnswered == \A c \in Calls : pc[c] # "idle" ~> pc[c] = "answered"
=============================================================================
