-------------------------- MODULE DiagProbeProofs --------------------------
(***************************************************************************)
(* The safety of the diagnostics of a node, for any requests, any worlds   *)
(* and any snapshots of the fleet.  DiagInd says what a probe has read,    *)
(* where every call is and which probe each of them was answered by; the   *)
(* soundness of a verdict then only depends on the table of rules.         *)
(***************************************************************************)
EXTENDS DiagProbe, FiniteSetTheorems, WellFoundedInduction, TLAPS

------------------------------------------------------------------------------
(* The table of rules *)

\* The rules above rule i do not apply, and it does.
Ranked(o, i) == o[i] /\ \A j \in 1..i - 1 : ~o[j]

\* Some rule applies, and so a first one does.
LEMMA FirstRule ==
  ASSUME NEW o, o[13]
  PROVE  \E i \in 1..13 : Ranked(o, i)
<1>1. /\ 1..0 = {} /\ 1..1 = {1} /\ 1..2 = {1, 2} /\ 1..3 = {1, 2, 3} /\ 1..4 = {1, 2, 3, 4}
      /\ 1..5 = {1, 2, 3, 4, 5} /\ 1..6 = {1, 2, 3, 4, 5, 6} /\ 1..7 = {1, 2, 3, 4, 5, 6, 7}
  OBVIOUS
<1>2. /\ 1..8 = {1, 2, 3, 4, 5, 6, 7, 8} /\ 1..9 = {1, 2, 3, 4, 5, 6, 7, 8, 9}
      /\ 1..10 = {1, 2, 3, 4, 5, 6, 7, 8, 9, 10}
      /\ 1..11 = {1, 2, 3, 4, 5, 6, 7, 8, 9, 10, 11}
      /\ 1..12 = {1, 2, 3, 4, 5, 6, 7, 8, 9, 10, 11, 12}
  OBVIOUS
<1>3. CASE \E i \in 1..7 : o[i]
  <2>1. \/ Ranked(o, 1) \/ Ranked(o, 2) \/ Ranked(o, 3) \/ Ranked(o, 4) \/ Ranked(o, 5)
        \/ Ranked(o, 6) \/ Ranked(o, 7)
    BY <1>1, <1>3 DEF Ranked
  <2> QED BY <2>1
<1>4. CASE \A i \in 1..7 : ~o[i]
  <2>1. \/ Ranked(o, 8) \/ Ranked(o, 9) \/ Ranked(o, 10) \/ Ranked(o, 11) \/ Ranked(o, 12)
        \/ Ranked(o, 13)
    BY <1>1, <1>2, <1>4 DEF Ranked
  <2> QED BY <2>1
<1> QED BY <1>3, <1>4

\* The verdict is that of the first rule that applies.
LEMMA VerdictRanked ==
  ASSUME NEW d, NEW s, NEW before
  PROVE  LET on == [i \in DOMAIN Rules |->
                      Applies(Rules[i], d, Fleet(s), s[Self], before)] IN
         \E i \in 1..13 : Ranked(on, i) /\ Evaluate(d, s, before) = Rules[i]
<1> DEFINE on == [i \in DOMAIN Rules |->
                    Applies(Rules[i], d, Fleet(s), s[Self], before)]
<1>1. DOMAIN Rules = 1..13 /\ Rules[13] = "unknown"
  BY DEF Rules
<1>2. on[13]
  <2>1. on[13] = Applies("unknown", d, Fleet(s), s[Self], before)
    BY <1>1
  <2>2. Applies("unknown", d, Fleet(s), s[Self], before)
    BY DEF Applies
  <2> QED BY <2>1, <2>2
<1>3. Evaluate(d, s, before) = Rules[CHOOSE i \in 1..13 : Ranked(on, i)]
  BY <1>1 DEF Evaluate, Ranked
<1> HIDE DEF on
<1>4. \E i \in 1..13 : Ranked(on, i)
  BY <1>2, FirstRule
<1> QED BY <1>3, <1>4 DEF on

\* The class that a rule reports, and the rules above it.
LEMMA VerdictIs ==
  ASSUME NEW d, NEW s, NEW before, NEW i \in 1..13, Evaluate(d, s, before) = Rules[i]
  PROVE  /\ Applies(Rules[i], d, Fleet(s), s[Self], before)
         /\ \A j \in 1..i - 1 : ~Applies(Rules[j], d, Fleet(s), s[Self], before)
<1> DEFINE on == [k \in DOMAIN Rules |->
                    Applies(Rules[k], d, Fleet(s), s[Self], before)]
<1>1. PICK k \in 1..13 : Ranked(on, k) /\ Evaluate(d, s, before) = Rules[k]
  BY VerdictRanked
<1>2. \A k1, k2 \in 1..13 : Rules[k1] = Rules[k2] => k1 = k2
  BY DEF Rules
<1>3. k = i
  BY <1>1, <1>2
<1>4. DOMAIN Rules = 1..13 /\ 1..i - 1 \subseteq 1..13
  BY DEF Rules
<1>5. \A j \in 1..13 : on[j] = Applies(Rules[j], d, Fleet(s), s[Self], before)
  BY <1>4
<1> HIDE DEF on
<1> QED BY <1>1, <1>3, <1>4, <1>5 DEF Ranked

\* A set of naturals with an upper bound has a largest member: of the sets of
\* what is above a member, take a least one.
LEMMA LargestOfFinite ==
  ASSUME NEW S \in SUBSET Nat, IsFiniteSet(S), S # {}
  PROVE  \E m \in S : \A i \in S : m >= i
<1> DEFINE Above(i) == {j \in S : j > i}
           Tops == {Above(i) : i \in S}
<1>1. \A i \in S : Above(i) \in FiniteSubsetsOf(S)
  BY FS_FiniteSubsetsOfFinite
<1>2. IsWellFoundedOn(StrictSubsetOrdering(S), FiniteSubsetsOf(S))
  BY FS_StrictSubsetOrderingWellFounded
<1>3. PICK T \in Tops : \A U \in Tops : <<U, T>> \notin StrictSubsetOrdering(S)
  <2>1. Tops \subseteq FiniteSubsetsOf(S) /\ Tops # {}
    BY <1>1
  <2> QED BY <1>2, <2>1, WFMin
<1>4. PICK m \in S : T = Above(m)
  BY <1>3
<1>5. ASSUME NEW j \in S, j > m PROVE FALSE
  <2>1. Above(j) \in Tops
    OBVIOUS
  <2>2. Above(j) \subseteq Above(m) /\ j \in Above(m) /\ j \notin Above(j)
    <3>1. \A x \in S : x \in Nat
      OBVIOUS
    <3>2. m \in Nat /\ j \in Nat /\ ~(j > j)
      BY <1>5, <3>1
    <3>3. \A x \in S : x > j => x > m
      BY <1>5, <3>1, <3>2
    <3> QED BY <1>5, <3>2, <3>3
  <2>3. Above(j) # Above(m)
    BY <2>2
  <2>4. <<Above(j), Above(m)>> \in StrictSubsetOrdering(S)
    BY <2>2, <2>3 DEF StrictSubsetOrdering
  <2> QED BY <1>3, <1>4, <2>1, <2>4
<1>6. \A i \in S : m >= i
  BY <1>5
<1> QED BY <1>6

\* The fleet's height is a height.
LEMMA FleetHeight ==
  ASSUME NEW s \in Snapshots
  PROVE  Fleet(s).max \in Nat
<1> DEFINE up == {n \in DOMAIN s : s[n].up}
           heights == {s[n].height : n \in up}
<1>1. IsFiniteSet(DOMAIN s) /\ \A n \in DOMAIN s : s[n].height \in Nat
  BY DiagAssumption
<1>2. Fleet(s).max = IF up = {} THEN 0 ELSE Max(heights)
  BY DEF Fleet
<1>3. CASE up # {}
  <2>1. IsFiniteSet(up)
    BY <1>1, FS_Subset
  <2>2. IsFiniteSet(heights)
    <3> DEFINE height == [n \in up |-> s[n].height]
    <3>1. height \in [up -> heights] /\ \A t \in heights : \E n \in up : height[n] = t
      OBVIOUS
    <3> HIDE DEF height, up, heights
    <3>2. height \in Surjection(up, heights)
      BY <3>1 DEF Surjection
    <3> QED BY <2>1, <3>2, FS_Surjection
  <2>3. heights \in SUBSET Nat /\ heights # {}
    BY <1>1, <1>3
  <2> HIDE DEF heights
  <2>4. \E m \in heights : \A i \in heights : m >= i
    BY <2>2, <2>3, LargestOfFinite
  <2>5. Max(heights) \in heights
    BY <2>4 DEF Max
  <2> QED BY <1>2, <1>3, <2>3, <2>5
<1> QED BY <1>2, <1>3

\* Evidence is what the sources of some world said, or that they did not answer.
Evidence(d) == \A s \in DOMAIN d : d[s] = None \/ \E w \in Worlds : d[s] = w[s]

LEMMA EvidenceTypes ==
  ASSUME NEW d, DOMAIN d = Sources, Evidence(d)
  PROVE  /\ d["peers"] # None => d["peers"] \in Nat
         /\ d["tip"] # None => d["tip"].height \in Nat
         /\ d["health"] # None => d["health"] \in {"ok", "failing"}
BY DiagAssumption DEF Evidence, Sources

\* In sync: the eleven rules above do not apply.
LEMMA InSyncVerdict ==
  ASSUME NEW d, NEW s \in Snapshots, NEW before, DOMAIN d = Sources, Evidence(d),
         Evaluate(d, s, before) = "in_sync"
  PROVE  LET f == Fleet(s) IN
         /\ \A x \in Sources : d[x] # None
         /\ d["container"] = "running" /\ d["fsm"] = "RUNNING" /\ ~d["catchup"].on
         /\ ~d["catchup"].failed /\ d["peers"] > 0 /\ d["health"] = "ok"
         /\ ~s[Self].cut /\ f.tip \in {0, d["tip"].hash} /\ f.max <= d["tip"].height + 1
<1> DEFINE f == Fleet(s)
           rule(r) == Applies(r, d, f, s[Self], before)
<1>1. Rules[12] = "in_sync" /\ 12 \in 1..13
  BY DEF Rules
<1>2. rule(Rules[12]) /\ \A j \in 1..11 : ~rule(Rules[j])
  BY <1>1, VerdictIs
<1>3. /\ rule("in_sync") /\ ~rule("container_down") /\ ~rule("partitioned")
      /\ ~rule("catching_up") /\ ~rule("catchup_failed") /\ ~rule("no_peers")
      /\ ~rule("behind") /\ ~rule("unhealthy")
  BY <1>1, <1>2 DEF Rules
<1>4. f.max \in Nat
  BY FleetHeight
<1> HIDE DEF f
<1>5. InSync(d, f)
  BY <1>3 DEF Applies
<1>6. (\A x \in Sources : d[x] # None) /\ d["fsm"] = "RUNNING" /\ f.tip \in {0, d["tip"].hash}
  BY <1>5 DEF InSync, InSyncLoose
<1>7. d["container"] = "running"
  BY <1>3, <1>6 DEF Applies, Sources
<1>8. ~s[Self].cut
  BY <1>3 DEF Applies
<1>9. ~d["catchup"].on
  BY <1>3, <1>6 DEF Applies, Sources
<1>10. ~d["catchup"].failed
  BY <1>3, <1>6 DEF Applies, Sources
<1>11. /\ d["peers"] \in Nat /\ d["tip"].height \in Nat /\ d["health"] \in {"ok", "failing"}
  BY <1>6, EvidenceTypes DEF Sources
<1>12. d["peers"] > 0
  <2>1. d["peers"] # 0
    BY <1>3 DEF Applies
  <2> QED BY <1>11, <2>1
<1>13. d["health"] = "ok"
  BY <1>3, <1>11 DEF Applies
<1>14. f.max <= d["tip"].height + 1
  <2> DEFINE h == d["tip"].height
  <2>1. ~((IF f.max > h THEN f.max - h ELSE 0) > 1)
    BY <1>3, <1>6 DEF Applies, Sources
  <2>2. h \in Nat
    BY <1>11
  <2> HIDE DEF h
  <2>3. f.max <= h + 1
    BY <1>4, <2>1, <2>2
  <2> QED BY <2>3 DEF h
<1> QED BY <1>6, <1>7, <1>8, <1>9, <1>10, <1>12, <1>13, <1>14 DEF f

\* A symptom: no cause above it applies.
LEMMA SymptomVerdict ==
  ASSUME NEW d, NEW s \in Snapshots, NEW before, DOMAIN d = Sources, Evidence(d),
         Evaluate(d, s, before) \in {"behind", "no_peers", "minority_tip"}
  PROVE  /\ d["container"] \in {"running", None} /\ ~s[Self].cut
         /\ d["fsm"] \notin {"IDLE", "CATCHINGBLOCKS"}
         /\ d["catchup"] # None => ~d["catchup"].on /\ ~d["catchup"].failed
         /\ Evaluate(d, s, before) = "behind" =>
              ~ /\ d["invalid"] # None /\ Relevant(d, Fleet(s)) # {}
                /\ Fleet(s).tip \notin {0, d["tip"].hash}
                /\ d["tip"].height = Fleet(s).max
<1> DEFINE f == Fleet(s)
           rule(r) == Applies(r, d, f, s[Self], before)
<1>1. PICK i \in 8..10 : Evaluate(d, s, before) = Rules[i]
  <2>1. Rules[8] = "no_peers" /\ Rules[9] = "minority_tip" /\ Rules[10] = "behind"
    BY DEF Rules
  <2> QED BY <2>1
<1>2. rule(Rules[i]) /\ \A j \in 1..i - 1 : ~rule(Rules[j])
  BY <1>1, VerdictIs
<1>3. \A j \in 1..7 : ~rule(Rules[j])
  BY <1>2
<1>4. /\ ~rule("container_down") /\ ~rule("partitioned") /\ ~rule("fsm_idle")
      /\ ~rule("catching_up") /\ ~rule("catchup_failed")
  BY <1>3 DEF Rules
<1>5. f.max \in Nat
  BY FleetHeight
<1> HIDE DEF f
<1>6. d["container"] \in {"running", None} /\ ~s[Self].cut
  BY <1>4 DEF Applies
<1>7. d["fsm"] \notin {"IDLE", "CATCHINGBLOCKS"}
  BY <1>4 DEF Applies
<1>8. d["catchup"] # None => ~d["catchup"].on /\ ~d["catchup"].failed
  BY <1>4 DEF Applies
<1>9. ASSUME Evaluate(d, s, before) = "behind", d["tip"].height = f.max PROVE FALSE
  <2>1. rule("behind")
    BY <1>1, <1>2, <1>9
  <2>2. (IF d["tip"] # None /\ f.max > d["tip"].height THEN f.max - d["tip"].height ELSE 0) > 1
    BY <2>1 DEF Applies
  <2> QED BY <1>5, <1>9, <2>2
<1> QED BY <1>6, <1>7, <1>8, <1>9 DEF f

------------------------------------------------------------------------------
(* The probes and the cache *)

\* What the node says now is what some world says, source by source, and so is
\* what a probe has read; a verdict is the rules' about all that was asked.
Gathered ==
  /\ \A s \in Sources : \E w \in Worlds : world[s] = w[s]
  /\ DOMAIN seen = Calls /\ \A c \in Calls : Evidence(seen[c])
  /\ \A c \in Calls : class[c] # None =>
       IF teranode THEN \E before : class[c] = Evaluate(seen[c], snap, before)
       ELSE class[c] = "not_applicable"

\* Only answered calls have an answer, of a probe that has ended, and no probe
\* began before its call came.
Answers ==
  \A c \in Calls :
    /\ pc[c] # "answered" => answer[c] = None
    /\ answer[c] # None => pc[answer[c]] = "answered"
    /\ asked[c] <= now /\ begun[c] <= now
    /\ pc[c] = "probing" => begun[c] >= asked[c]
    /\ pc[c] = "joined" \/ pc[c] = "waiting" => joined[c] # None

\* The entry in the cache is that of the last probe to begin.
Newest ==
  cache # None => /\ pc[cache] \in {"probing", "answered"}
                  /\ \A c \in Calls : begun[c] <= begun[cache]

DiagInd == DiagTypeOK /\ Gathered /\ Answers /\ Newest /\ RefreshIsFresh

\* One call's entry in a table is written.
LEMMA OneEntry ==
  ASSUME NEW T, NEW f \in [Calls -> T], NEW c \in Calls, NEW v \in T,
         NEW g, g = [f EXCEPT ![c] = v]
  PROVE  g \in [Calls -> T] /\ g[c] = v /\ \A d \in Calls : d # c => g[d] = f[d]
OBVIOUS

\* The tables.
LEMMA Tables ==
  ASSUME DiagTypeOK
  PROVE  /\ pc \in [Calls -> {"idle", "joined", "waiting", "stuck", "probing", "answered"}]
         /\ refresh \in [Calls -> BOOLEAN]
         /\ joined \in [Calls -> Calls \cup {None}] /\ answer \in [Calls -> Calls \cup {None}]
         /\ asked \in [Calls -> 0..MaxNow] /\ begun \in [Calls -> 0..MaxNow]
         /\ at \in [Calls -> 0..MaxNow] /\ now \in 0..MaxNow /\ now \in Nat
         /\ class \in [Calls -> Classes \cup {None}]
         /\ cache \in Calls \cup {None} /\ None \notin Calls /\ MaxNow \in Nat
         /\ \A c \in Calls : asked[c] \in Nat /\ begun[c] \in Nat
BY DiagAssumption DEF DiagTypeOK

\* Every class the rules report is a class.
LEMMA ClassType ==
  ASSUME NEW d, NEW s, NEW before
  PROVE  Evaluate(d, s, before) \in Classes /\ "not_applicable" \in Classes
<1>1. PICK i \in 1..13 : Evaluate(d, s, before) = Rules[i]
  BY VerdictRanked
<1>2. DOMAIN Rules = 1..13
  BY DEF Rules
<1> QED BY <1>1, <1>2 DEF Classes

LEMMA DiagIndImplies == DiagInd => DiagInv /\ VerdictIsSound /\ RefreshIsFresh
<1> SUFFICES ASSUME DiagInd PROVE DiagInv /\ VerdictIsSound /\ RefreshIsFresh
  OBVIOUS
<1>1. DiagTypeOK /\ Gathered /\ Newest
  BY DEF DiagInd
<1>2. CacheIsNewest
  BY <1>1 DEF Newest, CacheIsNewest
<1>3. ASSUME NEW c \in Calls, class[c] # None, class[c] # "not_applicable"
      PROVE  /\ DOMAIN seen[c] = Sources /\ Evidence(seen[c]) /\ snap \in Snapshots
             /\ \E before : class[c] = Evaluate(seen[c], snap, before)
  <2>1. DOMAIN seen[c] = Asked /\ snap \in Snapshots
    BY <1>1, <1>3 DEF DiagTypeOK
  <2>2. teranode
    BY <1>1, <1>3 DEF Gathered
  <2> QED BY <1>1, <1>3, <2>1, <2>2 DEF Gathered, Asked
<1>4. None \notin {"in_sync", "behind", "no_peers", "minority_tip"}
  <2>1. DOMAIN Rules = 1..13 /\ Rules[12] = "in_sync" /\ Rules[8] = "no_peers"
        /\ Rules[9] = "minority_tip" /\ Rules[10] = "behind"
    BY DEF Rules
  <2>2. {"in_sync", "behind", "no_peers", "minority_tip"} \subseteq Classes
    BY <2>1 DEF Classes
  <2> QED BY <2>2, NoVerdict
<1>5. InSyncIsProven
  <2> SUFFICES ASSUME NEW c \in Calls, class[c] = "in_sync"
               PROVE  LET d == seen[c]
                          f == Fleet(snap) IN
                      /\ \A s \in Sources : d[s] # None
                      /\ d["container"] = "running" /\ d["fsm"] = "RUNNING" /\ ~d["catchup"].on
                      /\ ~d["catchup"].failed /\ d["peers"] > 0 /\ d["health"] = "ok"
                      /\ ~snap[Self].cut /\ f.tip \in {0, d["tip"].hash}
                      /\ f.max <= d["tip"].height + 1
    BY DEF InSyncIsProven
  <2>1. class[c] # None /\ class[c] # "not_applicable"
    BY <1>4
  <2>2. PICK before : class[c] = Evaluate(seen[c], snap, before)
    BY <1>3, <2>1
  <2>3. DOMAIN seen[c] = Sources /\ Evidence(seen[c]) /\ snap \in Snapshots
    BY <1>3, <2>1
  <2> QED BY <2>2, <2>3, InSyncVerdict
<1>6. CauseOutranksSymptom
  <2> SUFFICES ASSUME NEW c \in Calls, class[c] \in {"behind", "no_peers", "minority_tip"}
               PROVE  LET d == seen[c] IN
                      /\ d["container"] \in {"running", None} /\ ~snap[Self].cut
                      /\ d["fsm"] \notin {"IDLE", "CATCHINGBLOCKS"}
                      /\ d["catchup"] # None => ~d["catchup"].on /\ ~d["catchup"].failed
                      /\ class[c] = "behind" =>
                           ~ /\ d["invalid"] # None /\ Relevant(d, Fleet(snap)) # {}
                             /\ Fleet(snap).tip \notin {0, d["tip"].hash}
                             /\ d["tip"].height = Fleet(snap).max
    BY DEF CauseOutranksSymptom
  <2>1. class[c] # None /\ class[c] # "not_applicable"
    BY <1>4
  <2>2. PICK before : class[c] = Evaluate(seen[c], snap, before)
    BY <1>3, <2>1
  <2>3. DOMAIN seen[c] = Sources /\ Evidence(seen[c]) /\ snap \in Snapshots
    BY <1>3, <2>1
  <2> DEFINE d == seen[c]
  <2> HIDE DEF d
  <2>4. Evaluate(d, snap, before) \in {"behind", "no_peers", "minority_tip"}
        /\ DOMAIN d = Sources /\ Evidence(d)
    BY <2>2, <2>3 DEF d
  <2>5. /\ d["container"] \in {"running", None} /\ ~snap[Self].cut
        /\ d["fsm"] \notin {"IDLE", "CATCHINGBLOCKS"}
        /\ d["catchup"] # None => ~d["catchup"].on /\ ~d["catchup"].failed
        /\ Evaluate(d, snap, before) = "behind" =>
             ~ /\ d["invalid"] # None /\ Relevant(d, Fleet(snap)) # {}
               /\ Fleet(snap).tip \notin {0, d["tip"].hash}
               /\ d["tip"].height = Fleet(snap).max
    BY <2>3, <2>4, SymptomVerdict
  <2> QED BY <2>2, <2>5 DEF d
<1> QED BY <1>1, <1>2, <1>5, <1>6 DEF DiagInd, DiagInv, VerdictIsSound

LEMMA DiagInit == Init => DiagInd
<1> SUFFICES ASSUME Init PROVE DiagInd
  OBVIOUS
<1>1. /\ world \in Worlds /\ snap \in Snapshots /\ crowd = (world \in Crowded)
      /\ cache = None /\ last = None /\ pc = [c \in Calls |-> "idle"]
      /\ refresh = [c \in Calls |-> FALSE] /\ joined = [c \in Calls |-> None]
      /\ asked = [c \in Calls |-> 0] /\ begun = asked /\ at = asked
      /\ class = joined /\ answer = joined /\ seen = [c \in Calls |-> Nothing]
      /\ moves = 0 /\ now = 0 /\ teranode \in BOOLEAN
  BY DEF Init
<1>2. MaxNow \in Nat /\ MaxMoves \in Nat /\ DOMAIN world = Sources
  BY <1>1, DiagAssumption
<1>3. DOMAIN Nothing = {} /\ Nothing = [s \in {} |-> None]
  BY DEF Nothing
<1>4. \A c \in Calls : seen[c] = Nothing /\ class[c] = None /\ joined[c] = None /\ answer[c] = None
                       /\ pc[c] = "idle" /\ asked[c] = 0 /\ begun[c] = 0
  BY <1>1
<1>5. DiagTypeOK
  <2>1. 0 \in 0..MaxNow /\ 0 \in 0..MaxMoves /\ crowd \in BOOLEAN
    BY <1>1, <1>2
  <2>2. \A c \in Calls : DOMAIN seen[c] \subseteq Asked
    BY <1>3, <1>4
  <2> QED BY <1>1, <1>2, <1>4, <2>1, <2>2 DEF DiagTypeOK
<1>6. Gathered
  BY <1>1, <1>3, <1>4 DEF Gathered, Evidence
<1>7. Answers
  BY <1>1, <1>4 DEF Answers
<1>8. Newest /\ RefreshIsFresh
  BY <1>1, <1>4 DEF Newest, RefreshIsFresh
<1> QED BY <1>5, <1>6, <1>7, <1>8 DEF DiagInd

------------------------------------------------------------------------------
(* Steps *)

\* No verdict is changed, and no evidence that has one.
LEMMA SameGathered ==
  ASSUME Gathered, UNCHANGED <<snap, teranode>>,
         \A s \in Sources : \E w \in Worlds : world'[s] = w[s],
         DOMAIN seen' = Calls, \A c \in Calls : Evidence(seen'[c]),
         \A c \in Calls : class'[c] # None => class'[c] = class[c] /\ seen'[c] = seen[c]
  PROVE  Gathered'
BY DEF Gathered

\* A call is answered from the cache.
LEMMA DiagYoung ==
  ASSUME DiagInd, NEW c \in Calls, pc[c] \in {"idle", "waiting"},
         cache # None, pc[cache] = "answered", refresh' \in [Calls -> BOOLEAN],
         ~refresh'[c], \A d \in Calls : d # c => refresh'[d] = refresh[d],
         asked' \in [Calls -> 0..MaxNow], asked'[c] \in {asked[c], now},
         \A d \in Calls : d # c => asked'[d] = asked[d],
         pc' = [pc EXCEPT ![c] = "answered"], answer' = [answer EXCEPT ![c] = cache],
         UNCHANGED <<node, probe, cache, last, joined, at, now>>
  PROVE  DiagInd'
<1>1. DiagTypeOK /\ Gathered /\ Answers /\ Newest /\ RefreshIsFresh
  BY DEF DiagInd
<1>2. UNCHANGED <<world, snap, teranode, crowd, moves, begun, prev, seen, class>>
  BY DEF node, probe
<1>3. cache \in Calls /\ cache # c
  BY <1>1 DEF DiagTypeOK
<1>4. pc' \in [Calls -> {"idle", "joined", "waiting", "stuck", "probing", "answered"}]
      /\ pc'[c] = "answered" /\ \A d \in Calls : d # c => pc'[d] = pc[d]
  BY <1>1, Tables
<1>5. answer' \in [Calls -> Calls \cup {None}] /\ answer'[c] = cache
      /\ \A d \in Calls : d # c => answer'[d] = answer[d]
  BY <1>1, <1>3, Tables
<1>6. class[c] = None
  BY <1>1 DEF DiagTypeOK
<1>7. DiagTypeOK'
  BY <1>1, <1>2, <1>4, <1>5, <1>6 DEF DiagTypeOK, Asked
<1>8. Gathered'
  BY <1>1, <1>2, SameGathered DEF Gathered
<1>9. Answers'
  BY <1>1, <1>2, <1>3, <1>4, <1>5, Tables DEF Answers
<1>10. Newest'
  BY <1>1, <1>2, <1>3, <1>4 DEF Newest
<1>11. RefreshIsFresh'
  BY <1>1, <1>2, <1>5, Tables DEF RefreshIsFresh
<1> QED BY <1>7, <1>8, <1>9, <1>10, <1>11 DEF DiagInd

\* A call begins a probe, and the cache has a new entry.
LEMMA DiagProbed ==
  ASSUME DiagInd, NEW c \in Calls, pc[c] \in {"idle", "waiting"},
         refresh' \in [Calls -> BOOLEAN],
         \A d \in Calls : d # c => refresh'[d] = refresh[d],
         asked' \in [Calls -> 0..MaxNow], asked'[c] \in {asked[c], now},
         \A d \in Calls : d # c => asked'[d] = asked[d],
         pc' = [pc EXCEPT ![c] = "probing"], cache' = c, begun' = [begun EXCEPT ![c] = now],
         UNCHANGED <<node, answer, seen, class, last, joined, at, now>>
  PROVE  DiagInd'
<1>1. DiagTypeOK /\ Gathered /\ Answers /\ Newest /\ RefreshIsFresh
  BY DEF DiagInd
<1>2. UNCHANGED <<world, snap, teranode, crowd, moves>>
  BY DEF node
<1>3. pc' \in [Calls -> {"idle", "joined", "waiting", "stuck", "probing", "answered"}]
      /\ pc'[c] = "probing" /\ \A d \in Calls : d # c => pc'[d] = pc[d]
  BY <1>1, Tables
<1>4. begun' \in [Calls -> 0..MaxNow] /\ begun'[c] = now
      /\ \A d \in Calls : d # c => begun'[d] = begun[d]
  BY <1>1, Tables
<1>5. class[c] = None /\ answer[c] = None
  BY <1>1 DEF DiagTypeOK, Answers
<1>6. asked[c] <= now /\ now \in Nat /\ asked[c] \in Nat
  BY <1>1, Tables DEF Answers
<1>7. DiagTypeOK'
  <2>1. ASSUME NEW d \in Calls, joined[d] # None
        PROVE  begun'[joined[d]] <= now /\ pc'[joined[d]] \in {"probing", "answered"}
    <3>1. joined[d] \in Calls
      BY <1>1, <2>1, Tables
    <3>2. begun[joined[d]] <= now /\ pc[joined[d]] \in {"probing", "answered"}
      BY <1>1, <2>1 DEF DiagTypeOK
    <3> QED BY <1>3, <1>4, <1>6, <3>1, <3>2
  <2>2. ASSUME NEW d \in Calls, class[d] # None
        PROVE  DOMAIN seen[d] = Asked /\ pc'[d] = "answered" /\ answer[d] = d
    BY <1>1, <1>3, <1>5, <2>2 DEF DiagTypeOK
  <2>3. \A d \in Calls : DOMAIN seen[d] \subseteq Asked
    BY <1>1 DEF DiagTypeOK
  <2> QED BY <1>1, <1>2, <1>3, <1>4, <2>1, <2>2, <2>3 DEF DiagTypeOK, Asked
<1>8. Gathered'
  BY <1>1, <1>2, SameGathered DEF Gathered
<1>9. Answers'
  <2> SUFFICES ASSUME NEW d \in Calls
               PROVE  /\ pc'[d] # "answered" => answer[d] = None
                      /\ answer[d] # None => pc'[answer[d]] = "answered"
                      /\ asked'[d] <= now /\ begun'[d] <= now
                      /\ pc'[d] = "probing" => begun'[d] >= asked'[d]
                      /\ pc'[d] = "joined" \/ pc'[d] = "waiting" => joined[d] # None
    BY DEF Answers
  <2>1. answer[d] # None => answer[d] \in Calls /\ pc[answer[d]] = "answered"
    BY <1>1, Tables DEF Answers
  <2>2. answer[d] # None => pc'[answer[d]] = "answered"
    BY <1>3, <2>1
  <2>3. CASE d = c
    BY <1>3, <1>4, <1>5, <1>6, <2>2, <2>3
  <2>4. CASE d # c
    BY <1>1, <1>3, <1>4, <2>2, <2>4 DEF Answers
  <2> QED BY <2>3, <2>4
<1>10. Newest'
  <2>1. \A d \in Calls : begun'[d] <= begun'[c]
    BY <1>1, <1>4, <1>6 DEF Answers
  <2> QED BY <1>3, <2>1 DEF Newest
<1>11. RefreshIsFresh'
  <2>1. ASSUME NEW d \in Calls, answer[d] # None, refresh'[d]
        PROVE  begun'[answer[d]] >= asked'[d]
    <3>1. d # c /\ answer[d] \in Calls /\ answer[d] # c
      BY <1>1, <1>5, <2>1, Tables DEF Answers
    <3> QED BY <1>1, <1>4, <2>1, <3>1 DEF RefreshIsFresh
  <2> QED BY <2>1 DEF RefreshIsFresh
<1> QED BY <1>7, <1>8, <1>9, <1>10, <1>11 DEF DiagInd

\* The lock is left with a report or with a probe of one's own.
LEMMA DiagDecide ==
  ASSUME DiagInd, NEW c \in Calls, pc[c] \in {"idle", "waiting"}, Decide(c),
         refresh' \in [Calls -> BOOLEAN],
         \A d \in Calls : d # c => refresh'[d] = refresh[d],
         asked' \in [Calls -> 0..MaxNow], asked'[c] \in {asked[c], now},
         \A d \in Calls : d # c => asked'[d] = asked[d],
         UNCHANGED <<node, last, joined, at, now>>
  PROVE  DiagInd'
<1>1. CASE Young(c)
  <2>1. /\ pc' = [pc EXCEPT ![c] = "answered"] /\ answer' = [answer EXCEPT ![c] = cache]
        /\ UNCHANGED <<probe, cache>>
    BY <1>1 DEF Decide
  <2>2. cache # None /\ pc[cache] = "answered" /\ ~refresh'[c]
    BY <1>1 DEF Young
  <2> QED BY <2>1, <2>2, DiagYoung
<1>2. CASE ~Young(c)
  <2>1. /\ pc' = [pc EXCEPT ![c] = "probing"] /\ cache' = c
        /\ begun' = [begun EXCEPT ![c] = now] /\ UNCHANGED <<answer, seen, class>>
    BY <1>2 DEF Decide
  <2> QED BY <2>1, DiagProbed
<1> QED BY <1>1, <1>2

\* A call waits for a probe, or has come too late for it.
LEMMA DiagWaits ==
  ASSUME DiagInd, NEW c \in Calls, pc[c] \in {"idle", "joined"},
         NEW next \in {"joined", "waiting", "stuck"}, pc' = [pc EXCEPT ![c] = next],
         refresh' \in [Calls -> BOOLEAN],
         \A d \in Calls : d # c => refresh'[d] = refresh[d],
         asked' \in [Calls -> 0..MaxNow], asked'[c] \in {asked[c], now},
         \A d \in Calls : d # c => asked'[d] = asked[d],
         joined' \in [Calls -> Calls \cup {None}],
         joined'[c] \in Calls, pc[joined'[c]] \in {"probing", "answered"},
         \A d \in Calls : d # c => joined'[d] = joined[d],
         UNCHANGED <<node, probe, cache, answer, last, at, now>>
  PROVE  DiagInd'
<1>1. DiagTypeOK /\ Gathered /\ Answers /\ Newest /\ RefreshIsFresh
  BY DEF DiagInd
<1>2. UNCHANGED <<world, snap, teranode, crowd, moves, begun, prev, seen, class>>
  BY DEF node, probe
<1>3. pc' \in [Calls -> {"idle", "joined", "waiting", "stuck", "probing", "answered"}]
      /\ pc'[c] = next /\ \A d \in Calls : d # c => pc'[d] = pc[d]
  BY <1>1, Tables
<1>4. class[c] = None /\ answer[c] = None
  BY <1>1 DEF DiagTypeOK, Answers
<1>5. asked[c] <= now /\ now \in Nat /\ asked[c] \in Nat /\ None \notin Calls
  BY <1>1, Tables DEF Answers
<1>6. DiagTypeOK'
  <2>1. ASSUME NEW d \in Calls, joined'[d] # None
        PROVE  begun[joined'[d]] <= now /\ pc'[joined'[d]] \in {"probing", "answered"}
    <3>1. joined'[d] \in Calls /\ pc[joined'[d]] \in {"probing", "answered"}
      BY <1>1, <2>1 DEF DiagTypeOK
    <3>2. joined'[d] # c
      BY <3>1
    <3> QED BY <1>1, <1>3, <3>1, <3>2 DEF Answers
  <2>2. ASSUME NEW d \in Calls, class[d] # None
        PROVE  DOMAIN seen[d] = Asked /\ pc'[d] = "answered" /\ answer[d] = d
    BY <1>1, <1>3, <1>4, <2>2 DEF DiagTypeOK
  <2>3. \A d \in Calls : DOMAIN seen[d] \subseteq Asked
    BY <1>1 DEF DiagTypeOK
  <2> QED BY <1>1, <1>2, <1>3, <2>1, <2>2, <2>3 DEF DiagTypeOK, Asked
<1>7. Gathered'
  BY <1>1, <1>2, SameGathered DEF Gathered
<1>8. Answers'
  <2> SUFFICES ASSUME NEW d \in Calls
               PROVE  /\ pc'[d] # "answered" => answer[d] = None
                      /\ answer[d] # None => pc'[answer[d]] = "answered"
                      /\ asked'[d] <= now /\ begun[d] <= now
                      /\ pc'[d] = "probing" => begun[d] >= asked'[d]
                      /\ pc'[d] = "joined" \/ pc'[d] = "waiting" => joined'[d] # None
    BY <1>2 DEF Answers
  <2>1. answer[d] # None => answer[d] \in Calls /\ pc[answer[d]] = "answered"
    BY <1>1, Tables DEF Answers
  <2>2. answer[d] # None => pc'[answer[d]] = "answered"
    BY <1>3, <2>1
  <2>3. begun[d] <= now
    BY <1>1 DEF Answers
  <2>4. CASE d = c
    BY <1>3, <1>4, <1>5, <2>2, <2>3, <2>4
  <2>5. CASE d # c
    BY <1>1, <1>3, <2>2, <2>3, <2>5 DEF Answers
  <2> QED BY <2>4, <2>5
<1>9. Newest'
  <2>1. cache # None => cache # c
    BY <1>1 DEF Newest
  <2>2. cache # None => cache \in Calls
    BY <1>1, Tables
  <2> QED BY <1>1, <1>2, <1>3, <2>1, <2>2 DEF Newest
<1>10. RefreshIsFresh'
  BY <1>1, <1>2, <1>4 DEF RefreshIsFresh
<1> QED BY <1>6, <1>7, <1>8, <1>9, <1>10 DEF DiagInd

LEMMA DiagCall == ASSUME DiagInd, NEW c \in Calls, Call(c) PROVE DiagInd'
<1>1. DiagTypeOK /\ pc[c] = "idle" /\ UNCHANGED <<node, last, at, now>>
  BY DEF DiagInd, Call
<1>2. /\ refresh' \in [Calls -> BOOLEAN] /\ \A d \in Calls : d # c => refresh'[d] = refresh[d]
  BY <1>1, Tables DEF Call
<1>3. /\ asked' \in [Calls -> 0..MaxNow] /\ asked'[c] = now
      /\ \A d \in Calls : d # c => asked'[d] = asked[d]
  BY <1>1, Tables DEF Call
<1>4. CASE /\ cache # None /\ pc[cache] = "probing"
           /\ pc' = [pc EXCEPT ![c] = "joined"] /\ joined' = [joined EXCEPT ![c] = cache]
           /\ UNCHANGED <<probe, cache, answer>>
  <2>1. cache \in Calls
    BY <1>1, <1>4, Tables
  <2>2. /\ joined' \in [Calls -> Calls \cup {None}] /\ joined'[c] = cache
        /\ \A d \in Calls : d # c => joined'[d] = joined[d]
    BY <1>1, <1>4, <2>1, Tables
  <2> QED BY <1>1, <1>2, <1>3, <1>4, <2>1, <2>2, DiagWaits
<1>5. CASE Decide(c) /\ UNCHANGED joined
  BY <1>1, <1>2, <1>3, <1>5, DiagDecide
<1> QED BY <1>4, <1>5 DEF Call

LEMMA DiagJoin == ASSUME DiagInd, NEW c \in Calls, Join(c) \/ Wake(c) PROVE DiagInd'
<1>1. DiagTypeOK /\ Answers
  BY DEF DiagInd
<1>2. refresh \in [Calls -> BOOLEAN] /\ asked \in [Calls -> 0..MaxNow]
      /\ joined \in [Calls -> Calls \cup {None}]
  BY <1>1, Tables
<1>3. CASE Join(c)
  <2>1. pc[c] = "joined" /\ UNCHANGED <<node, cache, last, refresh, joined, asked, at, probe, answer, now>>
    BY <1>3 DEF Join
  <2>2. PICK next \in {"joined", "waiting", "stuck"} : pc' = [pc EXCEPT ![c] = next]
    BY <1>3 DEF Join
  <2>3. joined[c] \in Calls /\ pc[joined[c]] \in {"probing", "answered"}
    BY <1>1, <1>2, <2>1 DEF Answers, DiagTypeOK
  <2> QED BY <1>2, <2>1, <2>2, <2>3, DiagWaits
<1>4. CASE Wake(c)
  <2>1. pc[c] = "waiting" /\ Decide(c) /\ UNCHANGED <<node, last, refresh, joined, asked, at, now>>
    BY <1>4 DEF Wake
  <2> QED BY <1>2, <2>1, DiagDecide
<1> QED BY <1>3, <1>4

LEMMA DiagRead ==
  ASSUME DiagInd, NEW c \in Calls, NEW r, NEW F, Read(c, r, F)
  PROVE  DiagInd'
<1>1. DiagTypeOK /\ Gathered /\ Answers /\ Newest /\ RefreshIsFresh
  BY DEF DiagInd
<1>2. /\ UNCHANGED <<node, cache, last, pc, refresh, joined, asked, at, begun, prev, class, answer,
                     now>>
      /\ pc[c] = "probing"
  BY DEF Read
<1>3. UNCHANGED <<world, snap, teranode, crowd, moves>>
  BY <1>2 DEF node
<1> DEFINE read == [s \in DOMAIN seen[c] \cup (r \cap Asked) |->
                      IF s \in DOMAIN seen[c] THEN seen[c][s]
                      ELSE IF s \in F THEN None ELSE world[s]]
<1>4. seen' = [seen EXCEPT ![c] = read] /\ DOMAIN seen = Calls
  BY <1>1 DEF Read, Gathered
<1>5. DOMAIN read \subseteq Asked /\ Evidence(read)
  <2>1. DOMAIN seen[c] \subseteq Asked /\ Evidence(seen[c]) /\ Asked \subseteq Sources
    BY <1>1 DEF DiagTypeOK, Gathered, Asked, Sources
  <2>2. ASSUME NEW s \in DOMAIN read PROVE read[s] = None \/ \E w \in Worlds : read[s] = w[s]
    <3>1. CASE s \in DOMAIN seen[c]
      BY <2>1, <3>1 DEF Evidence
    <3>2. CASE s \notin DOMAIN seen[c]
      <4>1. s \in Sources /\ read[s] \in {None, world[s]}
        BY <2>1, <3>2
      <4> QED BY <1>1, <4>1 DEF Gathered
    <3> QED BY <3>1, <3>2
  <2> QED BY <2>1, <2>2 DEF Evidence
<1> HIDE DEF read
<1>6. DOMAIN seen' = Calls /\ seen'[c] = read /\ \A d \in Calls : d # c => seen'[d] = seen[d]
  BY <1>4
<1>7. class[c] = None
  BY <1>1, <1>2 DEF DiagTypeOK
<1>8. DiagTypeOK'
  <2>1. Asked' = Asked
    BY <1>3 DEF Asked
  <2>2. \A d \in Calls : DOMAIN seen'[d] \subseteq Asked
    BY <1>1, <1>5, <1>6 DEF DiagTypeOK
  <2>3. \A d \in Calls : class[d] # None => DOMAIN seen'[d] = Asked
    BY <1>1, <1>6, <1>7 DEF DiagTypeOK
  <2> QED BY <1>1, <1>2, <1>3, <2>1, <2>2, <2>3 DEF DiagTypeOK
<1>9. Gathered'
  BY <1>1, <1>2, <1>3, <1>5, <1>6, <1>7, SameGathered DEF Gathered
<1> QED BY <1>1, <1>2, <1>8, <1>9 DEF DiagInd, Answers, Newest, RefreshIsFresh

LEMMA DiagFinish == ASSUME DiagInd, NEW c \in Calls, Finish(c) PROVE DiagInd'
<1>1. DiagTypeOK /\ Gathered /\ Answers /\ Newest /\ RefreshIsFresh
  BY DEF DiagInd
<1>2. /\ UNCHANGED <<node, cache, refresh, joined, asked, begun, prev, seen, now>>
      /\ pc[c] = "probing" /\ DOMAIN seen[c] = Asked /\ last' = c
  BY DEF Finish
<1>3. UNCHANGED <<world, snap, teranode, crowd, moves>> /\ Asked' = Asked
  BY <1>2 DEF node, Asked
<1>4. pc' \in [Calls -> {"idle", "joined", "waiting", "stuck", "probing", "answered"}]
      /\ pc'[c] = "answered" /\ \A d \in Calls : d # c => pc'[d] = pc[d]
  BY <1>1, Tables DEF Finish
<1>5. answer' \in [Calls -> Calls \cup {None}] /\ answer'[c] = c
      /\ \A d \in Calls : d # c => answer'[d] = answer[d]
  BY <1>1, Tables DEF Finish
<1>6. at' \in [Calls -> 0..MaxNow]
  BY <1>1, Tables DEF Finish
<1> DEFINE verdict == IF teranode THEN Evaluate(seen[c], snap, prev[c]) ELSE "not_applicable"
<1>7. class' \in [Calls -> Classes \cup {None}] /\ class'[c] = verdict
      /\ \A d \in Calls : d # c => class'[d] = class[d]
  <2>1. verdict \in Classes \cup {None}
    BY ClassType
  <2>2. class' = [class EXCEPT ![c] = verdict]
    BY DEF Finish
  <2> HIDE DEF verdict
  <2> QED BY <1>1, <2>1, <2>2, Tables
<1>8. DiagTypeOK'
  <2>1. ASSUME NEW d \in Calls, joined[d] # None
        PROVE  begun[joined[d]] <= now /\ pc'[joined[d]] \in {"probing", "answered"}
    BY <1>1, <1>4, <2>1, Tables DEF DiagTypeOK
  <2>2. ASSUME NEW d \in Calls, class'[d] # None
        PROVE  DOMAIN seen[d] = Asked /\ pc'[d] = "answered" /\ answer'[d] = d
    BY <1>1, <1>2, <1>4, <1>5, <1>7, <2>2 DEF DiagTypeOK
  <2>3. \A d \in Calls : DOMAIN seen[d] \subseteq Asked
    BY <1>1 DEF DiagTypeOK
  <2> QED BY <1>1, <1>2, <1>3, <1>4, <1>5, <1>6, <1>7, <2>1, <2>2, <2>3 DEF DiagTypeOK
<1>9. Gathered'
  <2>1. ASSUME NEW d \in Calls, class'[d] # None
        PROVE  IF teranode THEN \E before : class'[d] = Evaluate(seen[d], snap, before)
               ELSE class'[d] = "not_applicable"
    <3>1. CASE d = c
      BY <1>7, <3>1
    <3>2. CASE d # c
      BY <1>1, <1>7, <2>1, <3>2 DEF Gathered
    <3> QED BY <3>1, <3>2
  <2> QED BY <1>1, <1>2, <1>3, <2>1 DEF Gathered
<1>10. Answers'
  <2> SUFFICES ASSUME NEW d \in Calls
               PROVE  /\ pc'[d] # "answered" => answer'[d] = None
                      /\ answer'[d] # None => pc'[answer'[d]] = "answered"
                      /\ pc'[d] = "probing" => begun[d] >= asked[d]
                      /\ pc'[d] = "joined" \/ pc'[d] = "waiting" => joined[d] # None
    BY <1>1, <1>2 DEF Answers
  <2>1. answer[d] # None => answer[d] \in Calls /\ pc[answer[d]] = "answered"
    BY <1>1, Tables DEF Answers
  <2>2. answer'[d] # None => pc'[answer'[d]] = "answered"
    BY <1>4, <1>5, <2>1
  <2> QED BY <1>1, <1>4, <1>5, <2>2 DEF Answers
<1>11. Newest'
  BY <1>1, <1>2, <1>4, Tables DEF Newest
<1>12. RefreshIsFresh'
  BY <1>1, <1>2, <1>5 DEF RefreshIsFresh, Answers
<1> QED BY <1>8, <1>9, <1>10, <1>11, <1>12 DEF DiagInd

LEMMA DiagMove ==
  ASSUME DiagInd, NEW x \in Sources, NEW w \in Crowded, Move(x, w)
  PROVE  DiagInd'
<1>1. DiagTypeOK /\ Gathered
  BY DEF DiagInd
<1>2. /\ UNCHANGED <<snap, teranode, crowd, cache, last, pc, refresh, joined, asked, at, begun, prev,
                     seen, class, answer, now>>
      /\ world' = [world EXCEPT ![x] = w[x]] /\ moves' = moves + 1 /\ moves < MaxMoves
  BY DEF Move, probe
<1>3. w \in Worlds /\ MaxMoves \in Nat
  BY DiagAssumption
<1>4. DOMAIN world' = Sources /\ \A s \in Sources : \E v \in Worlds : world'[s] = v[s]
  BY <1>1, <1>2, <1>3 DEF DiagTypeOK, Gathered
<1>5. moves' \in 0..MaxMoves
  BY <1>1, <1>2, <1>3 DEF DiagTypeOK
<1>6. DiagTypeOK'
  BY <1>1, <1>2, <1>4, <1>5 DEF DiagTypeOK, Asked
<1>7. Gathered'
  BY <1>1, <1>2, <1>4 DEF Gathered
<1> QED BY <1>2, <1>6, <1>7 DEF DiagInd, Answers, Newest, RefreshIsFresh

LEMMA DiagTick == ASSUME DiagInd, Tick PROVE DiagInd'
<1>1. DiagTypeOK /\ Gathered /\ Answers
  BY DEF DiagInd
<1>2. /\ UNCHANGED <<world, snap, teranode, crowd, moves, cache, last, pc, refresh, joined, asked, at,
                     begun, prev, seen, class, answer>>
      /\ now' = now + 1 /\ now < MaxNow
  BY DEF Tick, node, probe
<1>3. now \in Nat /\ MaxNow \in Nat /\ now' \in 0..MaxNow
  <2>1. now \in Nat /\ MaxNow \in Nat /\ now \in 0..MaxNow
    BY <1>1, Tables
  <2> QED BY <1>2, <2>1
<1>4. \A c \in Calls : asked[c] <= now' /\ begun[c] <= now'
  BY <1>1, <1>2, <1>3, Tables DEF Answers
<1>5. DiagTypeOK'
  <2>1. \A c \in Calls : joined[c] # None =>
          begun[joined[c]] <= now' /\ pc[joined[c]] \in {"probing", "answered"}
    BY <1>1, <1>4, Tables DEF DiagTypeOK
  <2> QED BY <1>1, <1>2, <1>3, <2>1 DEF DiagTypeOK, Asked
<1>6. Gathered' /\ Answers'
  BY <1>1, <1>2, <1>4 DEF Gathered, Answers
<1> QED BY <1>2, <1>5, <1>6 DEF DiagInd, Newest, RefreshIsFresh

LEMMA DiagNext == DiagInd /\ [Next]_vars => DiagInd'
<1> SUFFICES ASSUME DiagInd, [Next]_vars PROVE DiagInd'
  OBVIOUS
<1>1. CASE UNCHANGED vars
  <2>1. UNCHANGED <<world, snap, teranode, crowd, moves, cache, last, pc, refresh, joined, asked, at,
                    begun, prev, seen, class, answer, now>>
    BY <1>1 DEF vars, node, probe
  <2>2. DiagTypeOK'
    BY <2>1 DEF DiagInd, DiagTypeOK, Asked
  <2>3. Gathered'
    BY <2>1 DEF DiagInd, Gathered
  <2> QED BY <2>1, <2>2, <2>3 DEF DiagInd, Answers, Newest, RefreshIsFresh
<1>2. ASSUME NEW c \in Calls, Call(c) \/ Step(c) PROVE DiagInd'
  <2>1. CASE Reads(c)
    <3>1. PICK r, F : Read(c, r, F)
      BY <2>1 DEF Reads
    <3> QED BY <3>1, DiagRead
  <2> QED BY <1>2, <2>1, DiagCall, DiagJoin, DiagFinish DEF Step
<1> QED BY <1>1, <1>2, DiagMove, DiagTick DEF Next

LEMMA DiagInvariant == Spec => []DiagInd
BY DiagInit, DiagNext, PTL DEF Spec

\* The cache never falls back, in whatever order probes end, for any number of
\* calls.
THEOREM CacheInOrder == Spec => []DiagInv
BY DiagInvariant, DiagIndImplies, PTL

\* No verdict says more than was seen: health is never read into a source that
\* did not answer and no symptom is reported above its cause, for any worlds and
\* any fleet.
THEOREM VerdictsAreSound == Spec => []VerdictIsSound
BY DiagInvariant, DiagIndImplies, PTL

\* Whoever asks for fresh evidence gets it, however calls join and probe.
THEOREM RefreshesAreFresh == Spec => []RefreshIsFresh
BY DiagInvariant, DiagIndImplies, PTL
=============================================================================
