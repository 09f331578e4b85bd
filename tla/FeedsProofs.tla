----------------------------- MODULE FeedsProofs -----------------------------
(***************************************************************************)
(* The two feeds of MCFeeds.                                               *)
(*                                                                         *)
(* The alert log, for any nodes, keys, builds, failed saves and restarts:  *)
(* what was answered stays, and no node learns anything else.  Its         *)
(* invariant has four parts, each over its own state: the log, the         *)
(* keyring, what the host may serve, and what the nodes hold.              *)
(*                                                                         *)
(* The event feed, with one publisher and for any sizes of ring, window    *)
(* and channel: the IDs of the ring are consecutive, so what a browser     *)
(* that missed nothing has, is sent and is still to be sent adds up.       *)
(***************************************************************************)
EXTENDS MCFeeds, Sequences, SequenceTheorems, FiniteSetTheorems, WellFoundedInduction, TLAPS

LogTypes ==
  /\ up \in BOOLEAN /\ lost \in BOOLEAN
  /\ faults \in 0..MaxFaults /\ made \in 0..MaxMade
  /\ file \in [Alerts!Seqs -> 0..made] /\ mem \in [Alerts!Seqs -> 0..made]
  /\ job \in [Requests -> 0..MaxSeq] /\ cast \in 0..MaxSeq
  /\ kept \in SUBSET (Alerts!Seqs \X (1..made))

\* The log on disk is part of the one in memory, and all of it as long as no
\* save has failed; what was answered is on disk, and a broadcast has read what
\* is in memory.
LogKept ==
  /\ up => \A s \in Alerts!Seqs : file[s] \in {0, mem[s]}
  /\ up /\ ~lost => mem = file
  /\ ~up => \A s \in Alerts!Seqs : mem[s] = 0
  /\ \A e \in kept : file[e[1]] = e[2]
  /\ cast # 0 => mem[cast] # 0

RingTypes ==
  /\ keyFile \in SUBSET (Names \cup {"torn"}) /\ keyring \in SUBSET (Names \cup {"miner"})
  /\ keys \in SUBSET Names

\* Answered keys are on disk, unless the file was cut short, and in the ring.
RingKept ==
  /\ "torn" \notin keyFile => keys \subseteq keyFile
  /\ up => keys \subseteq keyring /\ "miner" \in keyring

HostTypes ==
  /\ wm \in [Nodes -> Alerts!None..MaxSeq] /\ sync \in [Nodes -> Alerts!None..MaxSeq]
  /\ dflt \in 0..MaxSeq /\ push \in SUBSET (Nodes \X Alerts!Seqs)
  /\ meant \in [Nodes -> 0..MaxSeq]

\* Nothing that may be served is beyond what a node was to learn.
Limits ==
  \A n \in Nodes : /\ dflt <= meant[n] /\ wm[n] <= meant[n] /\ sync[n] <= meant[n]
                   /\ \A s \in Alerts!Seqs : <<n, s>> \in push => s <= meant[n]

\* Nodes hold what is on disk, unless a save has failed, and no more than they
\* were to learn.
NodesFollow ==
  /\ has \in [Nodes -> Seq(1..made)]
  /\ \A n \in Nodes : Len(has[n]) <= meant[n]
  /\ ~lost => \A n \in Nodes : \A i \in 1..Len(has[n]) : has[n][i] = file[i]

AlertInd ==
  /\ LogTypes /\ LogKept /\ RingTypes /\ RingKept
  /\ HostTypes /\ Limits /\ NodesFollow

LEMMA AlertConstants ==
  /\ MaxSeq \in Nat /\ MaxMade \in Nat /\ MaxFaults \in Nat
  /\ Alerts!Seqs = 1..MaxSeq /\ Alerts!None = -1
  /\ "miner" \notin Names /\ "torn" \notin Names
BY FeedsAssumption DEF Alerts!AlertAssumption, Alerts!Seqs, Alerts!None

LEMMA AlertIndImplies == AlertInd => AlertsInv
<1> SUFFICES ASSUME AlertInd PROVE AlertsInv
  OBVIOUS
<1>1. LogTypes /\ LogKept /\ RingTypes /\ RingKept /\ HostTypes /\ Limits /\ NodesFollow
  BY DEF AlertInd
<1>2. ASSUME NEW n \in Nodes
      PROVE  /\ Len(has[n]) <= MaxSeq /\ Len(has[n]) <= meant[n]
             /\ \A i \in 1..Len(has[n]) : i \in Alerts!Seqs
  <2>1. Len(has[n]) <= meant[n] /\ meant[n] \in 0..MaxSeq /\ has[n] \in Seq(1..made)
    BY <1>1 DEF NodesFollow, HostTypes
  <2>2. Len(has[n]) \in Nat
    BY <2>1, LenProperties
  <2> QED BY <2>1, <2>2, AlertConstants
<1>3. Alerts!AlertTypeOK
  BY <1>1, <1>2 DEF Alerts!AlertTypeOK, LogTypes, RingTypes, HostTypes, NodesFollow
<1>4. Alerts!BuiltIsKept
  <2> SUFFICES ASSUME up, NEW e \in kept PROVE mem[e[1]] = e[2]
    BY DEF Alerts!BuiltIsKept
  <2>1. e \in Alerts!Seqs \X (1..made) /\ file[e[1]] = e[2] /\ made \in Nat
    BY <1>1, AlertConstants DEF LogTypes, LogKept
  <2>2. file[e[1]] \in {0, mem[e[1]]}
    BY <1>1, <2>1 DEF LogKept
  <2> QED BY <2>1, <2>2
<1>5. Alerts!OneAlertPerSequence
  BY <1>1 DEF Alerts!OneAlertPerSequence, LogKept, NodesFollow
<1>6. Alerts!NeverAhead /\ Alerts!KeysKept
  BY <1>1, <1>2 DEF Alerts!NeverAhead, Alerts!KeysKept, RingKept
<1> QED BY <1>3, <1>4, <1>5, <1>6 DEF AlertsInv

LEMMA AlertInit == Alerts!Init => AlertInd
<1> SUFFICES ASSUME Alerts!Init PROVE AlertInd
  OBVIOUS
<1>1. LogTypes /\ LogKept
  <2>1. /\ up = FALSE /\ lost = FALSE /\ faults = 0 /\ made = 0 /\ cast = 0 /\ kept = {}
        /\ job = [r \in Requests |-> 0]
        /\ file = [s \in Alerts!Seqs |-> 0] /\ mem = [s \in Alerts!Seqs |-> 0]
    BY DEF Alerts!Init
  <2>2. 0 \in 0..MaxSeq /\ 0 \in 0..MaxMade /\ 0 \in 0..MaxFaults /\ 0 \in 0..made
    BY <2>1, AlertConstants
  <2>3. LogTypes
    BY <2>1, <2>2 DEF LogTypes
  <2> QED BY <2>1, <2>3 DEF LogKept
<1>2. RingTypes /\ RingKept
  BY DEF Alerts!Init, RingTypes, RingKept
<1>3. HostTypes /\ Limits
  BY AlertConstants DEF Alerts!Init, HostTypes, Limits
<1>4. NodesFollow
  <2>1. /\ has = [n \in Nodes |-> <<>>] /\ meant = [n \in Nodes |-> 0]
    BY DEF Alerts!Init
  <2>2. <<>> \in Seq(1..made) /\ Len(<<>>) = 0
    OBVIOUS
  <2> QED BY <2>1, <2>2 DEF NodesFollow
<1> QED BY <1>1, <1>2, <1>3, <1>4 DEF AlertInd

------------------------------------------------------------------------------
(* What a step leaves alone *)

logVars == <<up, lost, faults, made, file, mem, job, cast, kept>>
ringVars == <<keyFile, keyring, keys>>

LEMMA LogStays == ASSUME AlertInd, UNCHANGED logVars PROVE LogTypes' /\ LogKept'
<1>1. LogTypes /\ LogKept
  BY DEF AlertInd
<1> QED BY <1>1 DEF LogTypes, LogKept, logVars

LEMMA RingStays == ASSUME AlertInd, UNCHANGED ringVars, up' => up PROVE RingTypes' /\ RingKept'
<1>1. RingTypes /\ RingKept
  BY DEF AlertInd
<1> QED BY <1>1 DEF RingTypes, RingKept, ringVars

\* Limits that do not rise, of nodes that may learn as much as before.
LEMMA HostStays ==
  ASSUME AlertInd, UNCHANGED <<wm, sync, dflt>>, push' \subseteq push, meant' = meant
  PROVE  HostTypes' /\ Limits'
<1>1. HostTypes /\ Limits
  BY DEF AlertInd
<1> QED BY <1>1 DEF HostTypes, Limits

\* A process that has stopped serves nothing.
LEMMA HostStops ==
  ASSUME AlertInd, Alerts!Stopped, meant' = meant
  PROVE  HostTypes' /\ Limits'
<1>1. HostTypes /\ \A n \in Nodes : meant[n] \in Nat
  BY AlertConstants DEF AlertInd, HostTypes
<1>2. /\ wm' = [n \in Nodes |-> Alerts!None] /\ sync' = [n \in Nodes |-> Alerts!None]
      /\ dflt' = 0 /\ push' = {}
  BY DEF Alerts!Stopped
<1> QED BY <1>1, <1>2, AlertConstants DEF HostTypes, Limits

\* More to learn, and no more to serve than that.
LEMMA NodesStay ==
  ASSUME AlertInd, UNCHANGED <<has, file, lost, made>>, meant' \in [Nodes -> 0..MaxSeq],
         \A n \in Nodes : meant[n] <= meant'[n]
  PROVE  NodesFollow'
<1>1. NodesFollow /\ \A n \in Nodes : meant[n] \in Nat /\ Len(has[n]) \in Nat
  BY AlertConstants, LenProperties DEF AlertInd, NodesFollow, HostTypes
<1>2. \A n \in Nodes : meant'[n] \in Nat
  BY AlertConstants
<1>3. \A n \in Nodes : Len(has[n]) <= meant'[n]
  BY <1>1, <1>2 DEF NodesFollow
<1> QED BY <1>1, <1>3 DEF NodesFollow

\* What a node was to learn only grows.
LEMMA Raised ==
  ASSUME AlertInd, NEW ns \in SUBSET Nodes, NEW s \in 0..MaxSeq, Alerts!Raise(ns, s)
  PROVE  /\ meant' \in [Nodes -> 0..MaxSeq]
         /\ \A n \in Nodes : meant[n] <= meant'[n] /\ (n \in ns => s <= meant'[n])
<1>1. meant \in [Nodes -> 0..MaxSeq] /\ MaxSeq \in Nat
  BY AlertConstants DEF AlertInd, HostTypes
<1>2. meant' = [n \in Nodes |-> IF n \in ns /\ s > meant[n] THEN s ELSE meant[n]]
  BY DEF Alerts!Raise
<1> QED BY <1>1, <1>2

\* The latest sequence of a log is one of its sequences, or 0.
LEMMA LatestIsSeq == ASSUME NEW f PROVE Alerts!Latest(f) \in 0..MaxSeq
<1> DEFINE S == {0} \cup {s \in Alerts!Seqs : f[s] # 0}
           D == {MaxSeq - x : x \in S}
<1>1. MaxSeq \in Nat /\ S \subseteq 0..MaxSeq /\ 0 \in S
  BY AlertConstants
<1>2. D \in SUBSET Nat /\ D # {}
  BY <1>1
<1>3. PICK m \in D : \A i \in D : m <= i
  <2>1. PICK m \in D : \A i \in D : <<i, m>> \notin OpToRel(<, Nat)
    <3> HIDE DEF D
    <3> QED BY <1>2, NatLessThanWellFounded, WFMin
  <2>2. ASSUME NEW i \in D PROVE m <= i
    <3>1. i \in Nat /\ m \in Nat /\ ~(i < m)
      BY <1>2, <2>1 DEF OpToRel
    <3> QED BY <3>1
  <2> QED BY <2>2
<1>4. PICK x \in S : m = MaxSeq - x
  BY <1>3
<1>5. ASSUME NEW y \in S PROVE x >= y
  <2>1. MaxSeq - y \in D
    OBVIOUS
  <2>2. MaxSeq - x <= MaxSeq - y
    <3> HIDE DEF D, S
    <3> QED BY <1>3, <1>4, <2>1
  <2>3. x \in Int /\ y \in Int
    <3> HIDE DEF S
    <3> QED BY <1>1
  <2> QED BY <1>1, <2>2, <2>3
<1>6. Alerts!Max(S) \in S
  <2> HIDE DEF S
  <2> QED BY <1>5 DEF Alerts!Max
<1> QED BY <1>1, <1>6 DEF Alerts!Latest
------------------------------------------------------------------------------
(* The process, the log and the keyring *)

\* A new process has what is on disk (log.go:27-46, keyring.go:36-46).
LEMMA OpenKeeps ==
  ASSUME AlertInd, NEW w \in 0..MaxSeq, Alerts!Open(w)
  PROVE  AlertInd'
<1>1. /\ LogTypes /\ LogKept /\ RingTypes /\ RingKept /\ HostTypes /\ Limits
      /\ MaxSeq \in Nat
  BY AlertConstants DEF AlertInd
<1>2. /\ meant' \in [Nodes -> 0..MaxSeq]
      /\ \A n \in Nodes : meant[n] <= meant'[n] /\ w <= meant'[n]
  BY Raised DEF Alerts!Open
<1>3. LogTypes' /\ LogKept'
  <2>1. /\ ~up /\ up' = TRUE /\ mem' = file
        /\ UNCHANGED <<lost, faults, made, file, job, cast, kept>>
    BY DEF Alerts!Open, Alerts!disk
  <2>2. cast = 0
    <3>1. cast # 0 => cast \in Alerts!Seqs
      BY <1>1, AlertConstants DEF LogTypes
    <3> QED BY <1>1, <2>1, <3>1 DEF LogKept
  <2>3. LogTypes'
    BY <1>1, <2>1 DEF LogTypes
  <2> QED BY <1>1, <2>1, <2>2, <2>3 DEF LogKept
<1>4. RingTypes' /\ RingKept'
  BY <1>1 DEF Alerts!Open, Alerts!disk, Alerts!Readable, RingTypes, RingKept
<1>5. HostTypes'
  BY <1>1, <1>2, AlertConstants DEF Alerts!Open, HostTypes
<1>6. Limits'
  <2>1. ASSUME NEW n \in Nodes
        PROVE  /\ sync[n] <= meant'[n] /\ -1 <= meant'[n]
               /\ \A s \in Alerts!Seqs : <<n, s>> \in push => s <= meant'[n]
    <3>1. /\ meant[n] \in Nat /\ meant'[n] \in Nat /\ sync[n] \in Int /\ meant[n] <= meant'[n]
          /\ sync[n] <= meant[n]
          /\ \A s \in Alerts!Seqs : s \in Int /\ (<<n, s>> \in push => s <= meant[n])
      BY <1>1, <1>2, AlertConstants DEF HostTypes, Limits
    <3> QED BY <3>1
  <2> QED BY <1>2, <2>1, AlertConstants DEF Alerts!Open, Limits
<1>7. NodesFollow'
  BY <1>2, NodesStay DEF Alerts!Open, Alerts!disk
<1> QED BY <1>3, <1>4, <1>5, <1>6, <1>7 DEF AlertInd

LEMMA ExitKeeps == ASSUME AlertInd, Alerts!Exit PROVE AlertInd'
<1>1. LogTypes /\ LogKept /\ RingTypes /\ RingKept
  BY DEF AlertInd
<1>2. LogTypes' /\ LogKept'
  <2>1. 0 \in 0..MaxSeq /\ 0 \in 0..made
    BY <1>1, AlertConstants DEF LogTypes
  <2> QED BY <1>1, <2>1 DEF Alerts!Exit, Alerts!Stopped, Alerts!disk, Alerts!history, LogTypes, LogKept
<1>3. RingTypes' /\ RingKept'
  BY <1>1 DEF Alerts!Exit, Alerts!Stopped, Alerts!disk, Alerts!history, RingTypes, RingKept
<1>4. HostTypes' /\ Limits'
  BY HostStops DEF Alerts!Exit, Alerts!history
<1>5. NodesFollow'
  BY NodesStay DEF AlertInd, HostTypes, Alerts!Exit, Alerts!disk, Alerts!history
<1> QED BY <1>2, <1>3, <1>4, <1>5 DEF AlertInd

LEMMA ChooseKeeps ==
  ASSUME AlertInd, NEW r \in Requests, NEW asked \in 0..MaxSeq, Alerts!Choose(r, asked)
  PROVE  AlertInd'
<1>1. job' \in [Requests -> 0..MaxSeq]
  <2> DEFINE s == IF asked = 0 THEN Alerts!Latest(mem) + 1 ELSE asked
  <2>1. job' = [job EXCEPT ![r] = s] /\ job'[r] \in 1..MaxSeq /\ job \in [Requests -> 0..MaxSeq]
    BY AlertConstants DEF AlertInd, LogTypes, Alerts!Choose
  <2> HIDE DEF s
  <2>2. s \in 0..MaxSeq
    BY <2>1, AlertConstants
  <2> QED BY <2>1, <2>2
<1>2. UNCHANGED <<up, lost, faults, made, file, mem, cast, kept, keyFile, keyring, keys>>
  BY DEF Alerts!Choose, Alerts!disk, Alerts!history
<1>3. UNCHANGED <<wm, dflt, push, sync, has, meant>>
  BY DEF Alerts!Choose, Alerts!host, Alerts!history
<1>4. LogTypes' /\ LogKept'
  BY <1>1, <1>2 DEF AlertInd, LogTypes, LogKept
<1>5. RingTypes' /\ RingKept'
  BY <1>2, RingStays DEF ringVars
<1>6. HostTypes' /\ Limits'
  BY <1>3, HostStays
<1>7. NodesFollow'
  BY <1>2, <1>3, NodesStay DEF AlertInd, HostTypes
<1> QED BY <1>4, <1>5, <1>6, <1>7 DEF AlertInd

\* Of two numbers, the greater.
LEMMA GreaterOfTwo ==
  ASSUME NEW a \in Int, NEW b \in Int
  PROVE  Alerts!Max({a, b}) \in {a, b} /\ Alerts!Max({a, b}) >= a /\ Alerts!Max({a, b}) >= b
<1>1. \E x \in {a, b} : \A y \in {a, b} : x >= y
  <2>1. a >= b \/ b >= a
    OBVIOUS
  <2> QED BY <2>1
<1>2. Alerts!Max({a, b}) \in {a, b} /\ \A y \in {a, b} : Alerts!Max({a, b}) >= y
  BY <1>1 DEF Alerts!Max
<1> QED BY <1>2

\* The log with one more entry.
Logged(s, a) == [mem EXCEPT ![s] = a]

\* It is in memory and, unless the save fails, on disk:
\* nothing that was there goes (log.go:60-82, 126-147).
LEMMA AppendKeeps ==
  ASSUME AlertInd, NEW s \in Alerts!Seqs, NEW a \in 1..MaxMade, up, mem[s] \in {0, a},
         made' \in 0..MaxMade, made <= made', a <= made'
  PROVE  /\ Logged(s, a) \in [Alerts!Seqs -> 0..made'] /\ file \in [Alerts!Seqs -> 0..made']
         /\ Logged(s, a)[s] = a
         /\ \A x \in Alerts!Seqs : file[x] \in {0, Logged(s, a)[x]}
         /\ \A e \in kept : file[e[1]] = e[2] /\ Logged(s, a)[e[1]] = e[2]
         /\ \A x \in Alerts!Seqs : mem[x] # 0 => Logged(s, a)[x] = mem[x]
<1>1. LogTypes /\ LogKept /\ MaxMade \in Nat
  BY AlertConstants DEF AlertInd
<1>2. made \in Nat /\ made' \in Nat /\ a \in 0..made'
  BY <1>1 DEF LogTypes
<1>3. \A v \in 0..made : v \in 0..made'
  BY <1>2
<1>4. mem \in [Alerts!Seqs -> 0..made] /\ file \in [Alerts!Seqs -> 0..made]
  BY <1>1 DEF LogTypes
<1>5. \A x \in Alerts!Seqs : Logged(s, a)[x] = IF x = s THEN a ELSE mem[x]
  BY <1>4 DEF Logged
<1>6. Logged(s, a) \in [Alerts!Seqs -> 0..made'] /\ file \in [Alerts!Seqs -> 0..made']
  BY <1>2, <1>3, <1>4 DEF Logged
<1>7. \A x \in Alerts!Seqs : file[x] \in {0, Logged(s, a)[x]}
  BY <1>1, <1>5 DEF LogKept
<1>8. ASSUME NEW e \in kept PROVE file[e[1]] = e[2] /\ Logged(s, a)[e[1]] = e[2]
  <2>1. e[1] \in Alerts!Seqs /\ e[2] \in 1..made /\ file[e[1]] = e[2]
    BY <1>1 DEF LogTypes, LogKept
  <2>2. e[2] # 0
    BY <1>2, <2>1
  <2> QED BY <1>7, <2>1, <2>2
<1> QED BY <1>5, <1>6, <1>7, <1>8

LEMMA RecordKeeps ==
  ASSUME AlertInd, NEW r \in Requests, NEW a \in 1..MaxMade,
         NEW outcome \in Alerts!Outcomes, Alerts!Record(r, a, outcome)
  PROVE  AlertInd'
<1> DEFINE s == job[r]
           content == IF Alerts!Free(s, a) THEN [mem EXCEPT ![s] = a] ELSE mem
<1>1. /\ LogTypes /\ LogKept /\ RingTypes /\ RingKept /\ HostTypes /\ Limits /\ NodesFollow
      /\ MaxMade \in Nat /\ MaxSeq \in Nat /\ MaxFaults \in Nat /\ Alerts!Seqs = 1..MaxSeq
  BY AlertConstants DEF AlertInd
<1>2. up /\ s \in Alerts!Seqs
  <2>1. up /\ job[r] # 0 /\ job[r] \in 0..MaxSeq
    BY <1>1 DEF Alerts!Record, LogTypes
  <2> QED BY <1>1, <2>1
<1>3. made' \in 0..MaxMade /\ made <= made' /\ a <= made'
  <2>1. made' = Alerts!Max({a, made}) /\ made \in 0..MaxMade
    BY <1>1 DEF Alerts!Record, LogTypes
  <2>2. made \in Int /\ a \in Int
    BY <1>1, <2>1
  <2>3. made' \in {a, made} /\ made' >= a /\ made' >= made
    BY <2>1, <2>2, GreaterOfTwo
  <2> QED BY <1>1, <2>1, <2>2, <2>3
<1>4. made \in Nat /\ made' \in Nat
  BY <1>1, <1>3 DEF LogTypes
<1>5. /\ outcome = "ok" \/ (Alerts!Free(s, a) /\ faults < MaxFaults)
      /\ faults' = IF outcome = "ok" THEN faults ELSE faults + 1
      /\ IF Alerts!Free(s, a) THEN file' = (IF outcome # "fails" THEN content ELSE file)
                              ELSE file' = file
      /\ kept' = IF outcome = "ok" /\ Alerts!Free(s, a) THEN kept \cup {<<s, a>>} ELSE kept
      /\ lost' = (lost \/ outcome = "fails")
      /\ UNCHANGED <<keyFile, has, keys, meant>>
  BY DEF Alerts!Record, Alerts!Save
\* The log grows by the entry at most, and by the whole of it if it was answered.
<1>6. /\ content \in [Alerts!Seqs -> 0..made'] /\ file' \in [Alerts!Seqs -> 0..made']
      /\ \A x \in Alerts!Seqs : /\ file'[x] \in {0, content[x]}
                                /\ file[x] # 0 => file'[x] = file[x]
                                /\ mem[x] # 0 => content[x] = mem[x]
      /\ kept' \in SUBSET (Alerts!Seqs \X (1..made')) /\ \A e \in kept' : file'[e[1]] = e[2]
      /\ ~lost' => file' = content
  <2>1. /\ file \in [Alerts!Seqs -> 0..made] /\ mem \in [Alerts!Seqs -> 0..made]
        /\ kept \in SUBSET (Alerts!Seqs \X (1..made))
        /\ \A x \in Alerts!Seqs : file[x] \in {0, mem[x]}
        /\ \A e \in kept : file[e[1]] = e[2]
        /\ ~lost => mem = file
    BY <1>1, <1>2 DEF LogTypes, LogKept
  <2>2. \A v \in 0..made : v \in 0..made'
    BY <1>3, <1>4
  <2>3. \A v \in 1..made : v \in 1..made'
    BY <1>3, <1>4
  <2>4. a \in 1..made'
    BY <1>1, <1>3, <1>4
  <2>5. kept \in SUBSET (Alerts!Seqs \X (1..made'))
    BY <2>1, <2>3
  <2>6. CASE ~Alerts!Free(s, a)
    <3>1. content = mem /\ file' = file /\ kept' = kept /\ (~lost' => ~lost)
      BY <1>5, <2>6
    <3>2. mem \in [Alerts!Seqs -> 0..made'] /\ file \in [Alerts!Seqs -> 0..made']
      BY <2>1, <2>2
    <3> HIDE DEF content
    <3> QED BY <2>1, <2>5, <3>1, <3>2
  <2>7. CASE Alerts!Free(s, a)
    <3>1. mem[s] \in {0, a} /\ content = Logged(s, a)
      BY <2>7 DEF Alerts!Free, Logged
    <3>2. /\ file' = (IF outcome # "fails" THEN content ELSE file)
          /\ lost' = (lost \/ outcome = "fails")
          /\ kept' = IF outcome = "ok" THEN kept \cup {<<s, a>>} ELSE kept
      BY <1>5, <2>7
    <3>3. /\ content \in [Alerts!Seqs -> 0..made'] /\ file \in [Alerts!Seqs -> 0..made']
          /\ content[s] = a
          /\ \A x \in Alerts!Seqs : file[x] \in {0, content[x]}
          /\ \A e \in kept : file[e[1]] = e[2] /\ content[e[1]] = e[2]
          /\ \A x \in Alerts!Seqs : mem[x] # 0 => content[x] = mem[x]
      <4> HIDE DEF content, s
      <4> QED BY <1>2, <1>3, <3>1, AppendKeeps
    <3> HIDE DEF content, s
    <3>4. CASE outcome = "fails"
      <4>1. file' = file /\ kept' = kept /\ lost'
        BY <3>2, <3>4
      <4> QED BY <2>5, <3>3, <4>1
    <3>5. CASE outcome # "fails"
      <4>1. file' = content
        BY <3>2, <3>5
      <4>2. \A x \in Alerts!Seqs : file[x] # 0 => content[x] = file[x]
        BY <3>3
      <4>3. kept' \in SUBSET (Alerts!Seqs \X (1..made'))
        BY <1>2, <2>4, <2>5, <3>2
      <4>4. \A e \in kept' : content[e[1]] = e[2]
        BY <3>2, <3>3
      <4> QED BY <3>3, <4>1, <4>2, <4>3, <4>4
    <3> QED BY <3>4, <3>5
  <2> QED BY <2>6, <2>7
<1>7. faults' \in 0..MaxFaults /\ lost' \in BOOLEAN
  <2>1. faults \in 0..MaxFaults /\ lost \in BOOLEAN
    BY <1>1 DEF LogTypes
  <2>2. lost' \in BOOLEAN
    BY <1>5
  <2>3. faults' = faults \/ (faults < MaxFaults /\ faults' = faults + 1)
    BY <1>5
  <2> QED BY <1>1, <2>1, <2>2, <2>3
<1>8. NodesFollow'
  <2>1. /\ has \in [Nodes -> Seq(1..made)] /\ \A n \in Nodes : Len(has[n]) <= meant[n]
        /\ ~lost => \A n \in Nodes : \A i \in 1..Len(has[n]) : has[n][i] = file[i]
        /\ meant \in [Nodes -> 0..MaxSeq]
    BY <1>1 DEF NodesFollow, HostTypes
  <2>2. \A v \in 1..made : v \in 1..made'
    BY <1>3, <1>4
  <2>3. ASSUME NEW n \in Nodes
        PROVE  /\ has[n] \in Seq(1..made')
               /\ \A i \in 1..Len(has[n]) : i \in Alerts!Seqs /\ has[n][i] # 0
    <3>1. /\ has[n] \in Seq(1..made) /\ Len(has[n]) \in Nat
          /\ \A i \in 1..Len(has[n]) : has[n][i] \in 1..made
          /\ Len(has[n]) <= MaxSeq
      <4>1. has[n] \in Seq(1..made) /\ meant[n] \in 0..MaxSeq /\ Len(has[n]) <= meant[n]
        BY <2>1
      <4>2. Len(has[n]) \in Nat /\ \A i \in 1..Len(has[n]) : has[n][i] \in 1..made
        BY <4>1, LenProperties, ElementOfSeq
      <4> QED BY <1>1, <4>1, <4>2
    <3>2. has[n] \in Seq(1..made')
      <4>1. 1..made \subseteq 1..made'
        BY <2>2
      <4> QED BY <3>1, <4>1, SeqMonotonic
    <3> QED BY <1>1, <1>4, <3>1, <3>2
  <2>4. has' = has /\ meant' = meant /\ (~lost' => ~lost)
    BY <1>5
  <2>5. has \in [Nodes -> Seq(1..made')]
    BY <2>1, <2>3
  <2>6. ASSUME ~lost', NEW n \in Nodes, NEW i \in 1..Len(has[n]) PROVE has[n][i] = file'[i]
    <3>1. has[n][i] = file[i] /\ i \in Alerts!Seqs /\ has[n][i] # 0
      BY <2>1, <2>3, <2>4, <2>6
    <3> HIDE DEF content
    <3> QED BY <1>6, <3>1
  <2> QED BY <2>1, <2>4, <2>5, <2>6 DEF NodesFollow
<1>9. CASE outcome = "crash"
  <2>1. Alerts!Stopped
    BY <1>9 DEF Alerts!Record
  <2>2. LogTypes' /\ LogKept'
    <3>1. /\ up' = FALSE /\ job' = [x \in Requests |-> 0] /\ mem' = [x \in Alerts!Seqs |-> 0]
          /\ cast' = 0
      BY <2>1 DEF Alerts!Stopped
    <3>2. 0 \in 0..made' /\ 0 \in 0..MaxSeq
      BY <1>1, <1>4
    <3> HIDE DEF content
    <3>3. LogTypes'
      BY <1>3, <1>6, <1>7, <3>1, <3>2 DEF LogTypes
    <3> QED BY <1>6, <3>1, <3>3 DEF LogKept
  <2>3. RingTypes' /\ RingKept'
    BY <1>1, <1>5, <2>1 DEF Alerts!Stopped, RingTypes, RingKept
  <2>4. HostTypes' /\ Limits'
    BY <1>5, <2>1, HostStops
  <2> QED BY <1>8, <2>2, <2>3, <2>4 DEF AlertInd
<1>10. CASE outcome # "crash"
  <2>1. /\ mem' = content /\ job' = [job EXCEPT ![r] = 0]
        /\ UNCHANGED <<up, keyring, wm, dflt, push, sync, cast>>
    BY <1>10 DEF Alerts!Record, Alerts!host
  <2>2. LogTypes' /\ LogKept'
    <3>1. /\ job \in [Requests -> 0..MaxSeq] /\ cast \in 0..MaxSeq
          /\ cast # 0 => mem[cast] # 0
      BY <1>1 DEF LogTypes, LogKept
    <3>2. job' \in [Requests -> 0..MaxSeq]
      <4>1. 0 \in 0..MaxSeq
        BY <1>1
      <4> QED BY <2>1, <3>1, <4>1
    <3>3. cast # 0 => content[cast] # 0
      <4>1. cast # 0 => cast \in Alerts!Seqs
        BY <1>1, <3>1
      <4> HIDE DEF content
      <4> QED BY <1>6, <3>1, <4>1
    <3> HIDE DEF content
    <3>4. LogTypes'
      BY <1>2, <1>3, <1>6, <1>7, <2>1, <3>1, <3>2 DEF LogTypes
    <3> QED BY <1>2, <1>6, <2>1, <3>3, <3>4 DEF LogKept
  <2>3. RingTypes' /\ RingKept'
    BY <1>5, <2>1, RingStays DEF ringVars
  <2>4. HostTypes' /\ Limits'
    BY <1>5, <2>1, HostStays
  <2> QED BY <1>8, <2>2, <2>3, <2>4 DEF AlertInd
<1> QED BY <1>9, <1>10

\* A key is in the ring, and the file is cut short at worst (keyring.go:75-92, 149).
LEMMA NewKeyKeeps ==
  ASSUME AlertInd, NEW name \in Names \cup {"miner"}, NEW outcome \in Alerts!Outcomes,
         NEW content \in SUBSET (Names \cup {"torn"}), Alerts!NewKey(name, outcome, content)
  PROVE  AlertInd'
<1>1. /\ LogTypes /\ LogKept /\ RingTypes /\ RingKept
      /\ MaxSeq \in Nat /\ MaxFaults \in Nat
  BY AlertConstants DEF AlertInd
<1>2. /\ up /\ name \notin keyring /\ keyFile' = content
      /\ outcome = "ok" \/ faults < MaxFaults
      /\ faults' = IF outcome = "ok" THEN faults ELSE faults + 1
      /\ keys' = IF outcome = "ok" THEN keys \cup {name} ELSE keys
      /\ UNCHANGED <<file, made, has, lost, kept, meant>>
  BY DEF Alerts!NewKey
<1>3. content \in IF outcome = "ok" THEN {(keyring \cup {name}) \ {"miner"}}
                  ELSE {keyFile, {"torn"}, (keyring \cup {name}) \ {"miner"}}
  BY DEF Alerts!NewKey
<1>4. faults' \in 0..MaxFaults
  <2>1. faults \in 0..MaxFaults /\ (faults' = faults \/ (faults < MaxFaults /\ faults' = faults + 1))
    BY <1>1, <1>2 DEF LogTypes
  <2> QED BY <1>1, <2>1
<1>5. /\ keys \in SUBSET Names /\ keyring \in SUBSET (Names \cup {"miner"})
      /\ keys \subseteq keyring /\ "miner" \in keyring
      /\ "torn" \notin keyFile => keys \subseteq keyFile
  BY <1>1, <1>2 DEF RingTypes, RingKept
<1>6. name \in Names /\ keys' \in SUBSET Names
  BY <1>2, <1>5
<1>7. "torn" \notin keyFile' => keys' \subseteq keyFile'
  <2>1. "miner" \notin keys' /\ keys' \subseteq keyring \cup {name}
    BY <1>2, <1>5, <1>6, AlertConstants
  <2>2. CASE content = (keyring \cup {name}) \ {"miner"}
    BY <1>2, <2>1, <2>2
  <2>3. CASE outcome # "ok" /\ content = keyFile
    BY <1>2, <1>5, <2>3
  <2>4. CASE content = {"torn"}
    BY <1>2, <2>4
  <2> QED BY <1>3, <2>2, <2>3, <2>4
<1>8. NodesFollow'
  BY <1>2, NodesStay DEF AlertInd, HostTypes
<1>9. CASE outcome = "crash"
  <2>1. Alerts!Stopped
    BY <1>9 DEF Alerts!NewKey
  <2>2. LogTypes' /\ LogKept'
    <3>1. 0 \in 0..MaxSeq /\ 0 \in 0..made
      BY <1>1, AlertConstants DEF LogTypes
    <3> QED BY <1>1, <1>2, <1>4, <2>1, <3>1 DEF Alerts!Stopped, LogTypes, LogKept
  <2>3. RingTypes' /\ RingKept'
    BY <1>2, <1>6, <1>7, <2>1 DEF Alerts!Stopped, RingTypes, RingKept
  <2>4. HostTypes' /\ Limits'
    BY <1>2, <2>1, HostStops
  <2> QED BY <1>8, <2>2, <2>3, <2>4 DEF AlertInd
<1>10. CASE outcome # "crash"
  <2>1. keyring' = keyring \cup {name} /\ UNCHANGED <<up, job, mem, wm, dflt, push, sync, cast>>
    BY <1>10 DEF Alerts!NewKey, Alerts!host
  <2>2. LogTypes' /\ LogKept'
    BY <1>1, <1>2, <1>4, <2>1 DEF LogTypes, LogKept
  <2>3. RingTypes' /\ RingKept'
    BY <1>2, <1>5, <1>6, <1>7, <2>1 DEF RingTypes, RingKept
  <2>4. HostTypes' /\ Limits'
    BY <1>2, <2>1, HostStays
  <2> QED BY <1>8, <2>2, <2>3, <2>4 DEF AlertInd
<1> QED BY <1>9, <1>10

------------------------------------------------------------------------------
(* The host and the broadcast *)

\* A node takes the entry after its latest: it has what the log has.
LEMMA Taken ==
  ASSUME AlertInd, NEW n \in Nodes, Alerts!Next1(n) \in Alerts!Seqs, mem[Alerts!Next1(n)] # 0
  PROVE  LET h == Append(has[n], mem[Alerts!Next1(n)])
         IN /\ h \in Seq(1..made) /\ Len(h) = Alerts!Next1(n)
            /\ ~lost => \A i \in 1..Len(h) : h[i] = file[i]
<1> DEFINE k == Alerts!Next1(n)
           h == Append(has[n], mem[k])
<1>1. LogTypes /\ LogKept /\ NodesFollow
  BY DEF AlertInd
<1>2. has[n] \in Seq(1..made) /\ Len(has[n]) \in Nat /\ k = Len(has[n]) + 1
  BY <1>1, LenProperties DEF NodesFollow, Alerts!Next1
<1>3. mem[k] \in 1..made
  <2>1. mem[k] \in 0..made /\ made \in Nat
    BY <1>1, AlertConstants DEF LogTypes
  <2> QED BY <2>1
<1> HIDE DEF k
<1>4. h \in Seq(1..made) /\ Len(h) = k
  BY <1>2, <1>3, AppendProperties
<1>5. ASSUME ~lost, NEW i \in 1..Len(h) PROVE h[i] = file[i]
  <2>1. mem = file
    BY <1>1, <1>5 DEF LogKept, k
  <2>2. CASE i = k
    BY <1>2, <1>3, <2>1, <2>2, AppendProperties
  <2>3. CASE i # k
    <3>1. i \in 1..Len(has[n])
      BY <1>2, <1>4, <2>3
    <3>2. h[i] = has[n][i]
      BY <1>2, <1>3, <3>1, AppendProperties
    <3> QED BY <1>1, <1>5, <3>1, <3>2 DEF NodesFollow
  <2> QED BY <2>2, <2>3
<1> QED BY <1>4, <1>5 DEF k

\* The nodes that take it were to learn that far.
LEMMA TakingKeeps ==
  ASSUME AlertInd, NEW ns \in SUBSET Nodes, UNCHANGED <<mem, file, lost, made>>,
         meant' \in [Nodes -> 0..MaxSeq], \A n \in Nodes : meant[n] <= meant'[n],
         \A n \in ns : /\ Alerts!Next1(n) \in Alerts!Seqs /\ mem[Alerts!Next1(n)] # 0
                       /\ Alerts!Next1(n) <= meant'[n],
         has' = [n \in Nodes |-> IF n \in ns THEN Append(has[n], mem[Alerts!Next1(n)]) ELSE has[n]]
  PROVE  NodesFollow'
<1>1. /\ has \in [Nodes -> Seq(1..made)] /\ \A n \in Nodes : Len(has[n]) <= meant[n]
      /\ ~lost => \A n \in Nodes : \A i \in 1..Len(has[n]) : has[n][i] = file[i]
  BY DEF AlertInd, NodesFollow
<1>2. ASSUME NEW n \in Nodes
      PROVE  /\ has'[n] \in Seq(1..made) /\ Len(has'[n]) <= meant'[n]
             /\ ~lost => \A i \in 1..Len(has'[n]) : has'[n][i] = file[i]
  <2>1. CASE n \in ns
    <3>1. has'[n] = Append(has[n], mem[Alerts!Next1(n)])
      BY <2>1
    <3>2. Alerts!Next1(n) \in Alerts!Seqs /\ mem[Alerts!Next1(n)] # 0
      BY <2>1
    <3>3. /\ has'[n] \in Seq(1..made) /\ Len(has'[n]) = Alerts!Next1(n)
          /\ ~lost => \A i \in 1..Len(has'[n]) : has'[n][i] = file[i]
      BY <3>1, <3>2, Taken
    <3> QED BY <2>1, <3>3
  <2>2. CASE n \notin ns
    <3>1. has'[n] = has[n]
      BY <2>2
    <3>2. Len(has[n]) \in Nat /\ meant[n] \in Nat /\ meant'[n] \in Nat
      BY <1>1, LenProperties, AlertConstants DEF AlertInd, HostTypes
    <3>3. Len(has[n]) <= meant'[n]
      BY <1>1, <3>2
    <3> QED BY <1>1, <3>1, <3>3
  <2> QED BY <2>1, <2>2
<1>3. has' \in [Nodes -> Seq(1..made)]
  BY <1>2
<1> QED BY <1>2, <1>3 DEF NodesFollow

\* A stream serves its node within its limit (host.go:240-302).
LEMMA StreamKeeps ==
  ASSUME AlertInd, NEW n \in Nodes, NEW limit \in 0..MaxSeq, limit <= meant[n],
         UNCHANGED <<mem, file, lost, made, meant>>,
         IF Alerts!Serves(n, limit) THEN Alerts!Take(n, mem[Alerts!Next1(n)]) ELSE has' = has
  PROVE  NodesFollow'
<1>1. meant' \in [Nodes -> 0..MaxSeq] /\ \A m \in Nodes : meant[m] <= meant'[m]
  BY AlertConstants DEF AlertInd, HostTypes
<1>2. CASE Alerts!Serves(n, limit)
  <2>1. /\ Alerts!Next1(n) \in Alerts!Seqs /\ mem[Alerts!Next1(n)] # 0
        /\ Alerts!Next1(n) <= limit
    BY <1>2 DEF Alerts!Serves
  <2>2. Alerts!Next1(n) <= meant'[n]
    <3>1. Alerts!Next1(n) \in Nat /\ limit \in Nat /\ meant[n] \in Nat /\ meant'[n] = meant[n]
      BY <1>1, <2>1, AlertConstants DEF AlertInd, HostTypes
    <3> QED BY <2>1, <3>1
  <2>3. has' = [m \in Nodes |-> IF m \in {n} THEN Append(has[m], mem[Alerts!Next1(m)]) ELSE has[m]]
    BY <1>2 DEF Alerts!Take, AlertInd, NodesFollow
  <2> QED BY <1>1, <2>1, <2>2, <2>3, TakingKeeps
<1>3. CASE ~Alerts!Serves(n, limit)
  BY <1>1, <1>3, NodesStay
<1> QED BY <1>2, <1>3

\* Pushing to a node raises its watermark, its stream open or not (host.go:209-239).
LEMMA PushKeeps ==
  ASSUME AlertInd, NEW n \in Nodes, NEW s \in Alerts!Seqs, NEW opens \in BOOLEAN,
         Alerts!Push(n, s, opens)
  PROVE  AlertInd'
<1>1. HostTypes /\ Limits /\ s \in 0..MaxSeq /\ MaxSeq \in Nat
  BY AlertConstants DEF AlertInd
<1>2. /\ meant' \in [Nodes -> 0..MaxSeq] /\ s <= meant'[n]
      /\ \A m \in Nodes : meant[m] <= meant'[m]
  BY <1>1, Raised DEF Alerts!Push
<1>3. /\ wm' = [wm EXCEPT ![n] = s]
      /\ push' = IF opens THEN push \cup {<<n, s>>} ELSE push
      /\ UNCHANGED <<up, lost, faults, made, file, mem, job, cast, kept>>
      /\ UNCHANGED <<keyFile, keyring, keys, dflt, sync, has>>
  BY DEF Alerts!Push, Alerts!disk
<1>4. HostTypes'
  <2>1. wm' \in [Nodes -> Alerts!None..MaxSeq]
    <3>1. s \in Alerts!None..MaxSeq
      BY <1>1, AlertConstants
    <3> QED BY <1>1, <1>3, <3>1 DEF HostTypes
  <2> QED BY <1>1, <1>2, <1>3, <2>1 DEF HostTypes
<1>5. Limits'
  <2>1. ASSUME NEW m \in Nodes
        PROVE  /\ dflt <= meant'[m] /\ wm'[m] <= meant'[m] /\ sync[m] <= meant'[m]
               /\ \A x \in Alerts!Seqs : <<m, x>> \in push' => x <= meant'[m]
    <3>1. /\ meant[m] \in Int /\ meant'[m] \in Int /\ meant[m] <= meant'[m]
          /\ dflt \in Int /\ wm[m] \in Int /\ sync[m] \in Int
          /\ dflt <= meant[m] /\ wm[m] <= meant[m] /\ sync[m] <= meant[m]
          /\ \A x \in Alerts!Seqs : x \in Int /\ (<<m, x>> \in push => x <= meant[m])
      BY <1>1, <1>2, AlertConstants DEF HostTypes, Limits
    <3>2. wm'[m] = IF m = n THEN s ELSE wm[m]
      BY <1>1, <1>3 DEF HostTypes
    <3>3. \A x \in Alerts!Seqs : <<m, x>> \in push' => <<m, x>> \in push \/ (m = n /\ x = s)
      BY <1>3
    <3>4. dflt <= meant'[m] /\ sync[m] <= meant'[m] /\ wm[m] <= meant'[m]
      BY <3>1
    <3>5. \A x \in Alerts!Seqs : <<m, x>> \in push' => x <= meant'[m]
      BY <1>2, <3>1, <3>3
    <3> QED BY <1>2, <3>2, <3>4, <3>5
  <2> QED BY <1>3, <2>1 DEF Limits
<1>6. LogTypes' /\ LogKept' /\ RingTypes' /\ RingKept'
  BY <1>3, LogStays, RingStays DEF logVars, ringVars
<1>7. NodesFollow'
  BY <1>2, <1>3, NodesStay
<1> QED BY <1>4, <1>5, <1>6, <1>7 DEF AlertInd

LEMMA PullKeeps ==
  ASSUME AlertInd, NEW n \in Nodes, NEW s \in Alerts!Seqs,
         Alerts!Pull(n, s) \/ Alerts!PushEnds(n, s)
  PROVE  AlertInd'
<1>1. /\ <<n, s>> \in push /\ push' \subseteq push
      /\ UNCHANGED <<up, lost, faults, made, file, mem, job, cast, kept>>
      /\ UNCHANGED <<keyFile, keyring, keys, wm, dflt, sync, meant>>
  BY DEF Alerts!Pull, Alerts!PushEnds, Alerts!disk, Alerts!history
<1>2. s \in 0..MaxSeq /\ s <= meant[n]
  BY <1>1, AlertConstants DEF AlertInd, Limits
<1>3. NodesFollow'
  <2>1. CASE Alerts!Pull(n, s)
    <3>1. IF Alerts!Serves(n, s) THEN Alerts!Take(n, mem[Alerts!Next1(n)]) ELSE has' = has
      BY <2>1 DEF Alerts!Pull
    <3> QED BY <1>1, <1>2, <3>1, StreamKeeps
  <2>2. CASE Alerts!PushEnds(n, s)
    BY <1>1, <2>2, NodesStay DEF AlertInd, HostTypes, Alerts!PushEnds
  <2> QED BY <2>1, <2>2
<1>4. LogTypes' /\ LogKept' /\ RingTypes' /\ RingKept' /\ HostTypes' /\ Limits'
  BY <1>1, LogStays, RingStays, HostStays DEF logVars, ringVars
<1> QED BY <1>3, <1>4 DEF AlertInd

\* A stream begins with the watermark of its node (host.go:270).
LEMMA ServeKeeps == ASSUME AlertInd, NEW n \in Nodes, Alerts!Serve(n) PROVE AlertInd'
<1>1. HostTypes /\ Limits
  BY DEF AlertInd
<1>2. /\ sync' = [sync EXCEPT ![n] = Alerts!Watermark(n)]
      /\ UNCHANGED <<up, lost, faults, made, file, mem, job, cast, kept>>
      /\ UNCHANGED <<keyFile, keyring, keys, wm, dflt, push, meant, has>>
  BY DEF Alerts!Serve, Alerts!disk, Alerts!history
<1>3. Alerts!Watermark(n) \in Alerts!None..MaxSeq /\ Alerts!Watermark(n) <= meant[n]
  BY <1>1, AlertConstants DEF Alerts!Watermark, HostTypes, Limits
<1>4. HostTypes' /\ Limits'
  BY <1>1, <1>2, <1>3 DEF HostTypes, Limits
<1>5. LogTypes' /\ LogKept' /\ RingTypes' /\ RingKept'
  BY <1>2, LogStays, RingStays DEF logVars, ringVars
<1>6. NodesFollow'
  BY <1>1, <1>2, NodesStay DEF HostTypes
<1> QED BY <1>4, <1>5, <1>6 DEF AlertInd

LEMMA ServedKeeps == ASSUME AlertInd, NEW n \in Nodes, Alerts!Served(n) PROVE AlertInd'
<1>1. HostTypes /\ Limits
  BY DEF AlertInd
<1>2. /\ sync[n] # Alerts!None
      /\ sync' = sync \/ sync' = [sync EXCEPT ![n] = Alerts!None]
      /\ UNCHANGED <<up, lost, faults, made, file, mem, job, cast, kept>>
      /\ UNCHANGED <<keyFile, keyring, keys, wm, dflt, push, meant>>
  BY DEF Alerts!Served, Alerts!disk, Alerts!history
<1>3. sync[n] \in 0..MaxSeq /\ sync[n] <= meant[n] /\ meant[n] \in Nat
  <2>1. sync[n] \in -1..MaxSeq /\ sync[n] # -1 /\ meant[n] \in 0..MaxSeq /\ MaxSeq \in Nat
    BY <1>1, <1>2, AlertConstants DEF HostTypes
  <2> QED BY <1>1, <2>1 DEF Limits
<1>4. HostTypes' /\ Limits'
  <2>1. Alerts!None \in Alerts!None..MaxSeq /\ Alerts!None <= meant[n]
    BY <1>3, AlertConstants
  <2> QED BY <1>1, <1>2, <2>1 DEF HostTypes, Limits
<1>5. LogTypes' /\ LogKept' /\ RingTypes' /\ RingKept'
  BY <1>2, LogStays, RingStays DEF logVars, ringVars
<1>6. NodesFollow'
  <2>1. IF Alerts!Serves(n, sync[n]) THEN Alerts!Take(n, mem[Alerts!Next1(n)]) ELSE has' = has
    BY DEF Alerts!Served
  <2> QED BY <1>2, <1>3, <2>1, StreamKeeps
<1> QED BY <1>4, <1>5, <1>6 DEF AlertInd

LEMMA JoinKeeps == ASSUME AlertInd, NEW s \in Alerts!Seqs, Alerts!Join(s) PROVE AlertInd'
<1>1. /\ mem[s] # 0 /\ cast' = s
      /\ UNCHANGED <<up, lost, faults, made, file, mem, job, kept>>
      /\ UNCHANGED <<keyFile, keyring, keys, wm, dflt, push, sync, meant, has>>
  BY DEF Alerts!Join, Alerts!disk, Alerts!host, Alerts!history
<1>2. LogTypes' /\ LogKept'
  BY <1>1, AlertConstants DEF AlertInd, LogTypes, LogKept
<1>3. RingTypes' /\ RingKept' /\ HostTypes' /\ Limits'
  BY <1>1, RingStays, HostStays DEF ringVars
<1>4. NodesFollow'
  BY <1>1, NodesStay DEF AlertInd, HostTypes
<1> QED BY <1>2, <1>3, <1>4 DEF AlertInd

\* The subscribed nodes that lack it next take it (gossip.go:160-198).
LEMMA PublishKeeps ==
  ASSUME AlertInd, NEW mesh \in SUBSET Nodes, Alerts!Publish(mesh)
  PROVE  AlertInd'
<1>1. LogTypes /\ LogKept /\ HostTypes /\ Limits
  BY DEF AlertInd
<1>2. /\ cast # 0 /\ cast' = 0 /\ Alerts!Raise(mesh, cast)
      /\ has' = [n \in Nodes |-> IF n \in mesh /\ Alerts!Next1(n) = cast
                                 THEN Append(has[n], mem[cast]) ELSE has[n]]
      /\ UNCHANGED <<up, lost, faults, made, file, mem, job, kept>>
      /\ UNCHANGED <<keyFile, keyring, keys, wm, dflt, push, sync>>
  BY DEF Alerts!Publish, Alerts!disk, Alerts!host
<1>3. cast \in 0..MaxSeq /\ cast \in Alerts!Seqs /\ mem[cast] # 0 /\ MaxSeq \in Nat
  BY <1>1, <1>2, AlertConstants DEF LogTypes, LogKept
<1>4. /\ meant' \in [Nodes -> 0..MaxSeq]
      /\ \A n \in Nodes : meant[n] <= meant'[n] /\ (n \in mesh => cast <= meant'[n])
  BY <1>2, <1>3, Raised
<1>5. LogTypes' /\ LogKept'
  BY <1>1, <1>2, AlertConstants DEF LogTypes, LogKept
<1>6. RingTypes' /\ RingKept'
  BY <1>2, RingStays DEF ringVars
<1>7. HostTypes' /\ Limits'
  <2>1. ASSUME NEW n \in Nodes
        PROVE  /\ dflt <= meant'[n] /\ wm[n] <= meant'[n] /\ sync[n] <= meant'[n]
               /\ \A x \in Alerts!Seqs : <<n, x>> \in push => x <= meant'[n]
    <3>1. /\ meant[n] \in Int /\ meant'[n] \in Int /\ meant[n] <= meant'[n]
          /\ dflt \in Int /\ wm[n] \in Int /\ sync[n] \in Int
          /\ dflt <= meant[n] /\ wm[n] <= meant[n] /\ sync[n] <= meant[n]
          /\ \A x \in Alerts!Seqs : x \in Int /\ (<<n, x>> \in push => x <= meant[n])
      BY <1>1, <1>3, <1>4, AlertConstants DEF HostTypes, Limits
    <3> QED BY <3>1
  <2> QED BY <1>1, <1>2, <1>4, <2>1 DEF HostTypes, Limits
<1>8. NodesFollow'
  <2> DEFINE ns == {n \in mesh : Alerts!Next1(n) = cast}
  <2>1. has' = [n \in Nodes |-> IF n \in ns THEN Append(has[n], mem[Alerts!Next1(n)]) ELSE has[n]]
    BY <1>2
  <2>2. \A n \in ns : /\ Alerts!Next1(n) \in Alerts!Seqs /\ mem[Alerts!Next1(n)] # 0
                      /\ Alerts!Next1(n) <= meant'[n]
    BY <1>3, <1>4
  <2>3. ns \in SUBSET Nodes
    OBVIOUS
  <2> HIDE DEF ns
  <2> QED BY <1>2, <1>4, <2>1, <2>2, <2>3, TakingKeeps
<1> QED BY <1>5, <1>6, <1>7, <1>8 DEF AlertInd

------------------------------------------------------------------------------
LEMMA AlertNext == AlertInd /\ (Alerts!Next \/ UNCHANGED alertVars) => AlertInd'
<1> SUFFICES ASSUME AlertInd, Alerts!Next \/ UNCHANGED alertVars PROVE AlertInd'
  OBVIOUS
<1>1. CASE UNCHANGED alertVars
  <2>1. LogTypes' /\ LogKept' /\ RingTypes' /\ RingKept' /\ HostTypes' /\ Limits'
    BY <1>1, LogStays, RingStays, HostStays DEF alertVars, logVars, ringVars
  <2>2. NodesFollow'
    BY <1>1 DEF alertVars, AlertInd, NodesFollow
  <2> QED BY <2>1, <2>2 DEF AlertInd
<1>2. CASE Alerts!Process
  <2>1. 0 \in 0..MaxSeq /\ Alerts!Latest(file) \in 0..MaxSeq
    BY LatestIsSeq, AlertConstants
  <2> QED BY <1>2, <2>1, OpenKeeps, ExitKeeps DEF Alerts!Process
<1>3. ASSUME NEW r \in Requests, Alerts!Build(r) PROVE AlertInd'
  BY <1>3, ChooseKeeps, RecordKeeps DEF Alerts!Build
<1>4. CASE Alerts!AddKey
  BY <1>4, NewKeyKeeps DEF Alerts!AddKey
<1>5. ASSUME NEW n \in Nodes, Alerts!Deliver(n) PROVE AlertInd'
  BY <1>5, PushKeeps, PullKeeps, ServeKeeps, ServedKeeps DEF Alerts!Deliver
<1>6. CASE Alerts!Broadcast
  BY <1>6, JoinKeeps, PublishKeeps DEF Alerts!Broadcast
<1> QED BY <1>1, <1>2, <1>3, <1>4, <1>5, <1>6 DEF Alerts!Next

LEMMA AlertInvariant == Spec => []AlertInd
<1>1. Init => AlertInd
  BY AlertInit DEF Init
<1>2. AlertInd /\ [Next]_vars => AlertInd'
  BY AlertNext DEF Next, vars
<1> QED BY <1>1, <1>2, PTL DEF Spec

\* An answered alert and an answered key stay, nodes hold what the log has and no
\* more than they were to learn, for any nodes, builds, failed saves and crashes.
THEOREM AlertsAreSafe == Spec => []AlertsInv
BY AlertInvariant, AlertIndImplies, PTL

------------------------------------------------------------------------------
(* The event feed, with one publisher: IDs are taken outside the lock of the *)
(* bus, and two publishers may append theirs in the wrong order              *)

OneProducer == \A p, q \in Producers : p = q

\* Consecutive numbers up to top, and from the one after last.
Counts(s, top) == s \in Seq(Int) /\ \A i \in 1..Len(s) : s[i] = top - Len(s) + i
Follows(s, last) == \A i \in 1..Len(s) : s[i] = last + i

LEMMA StreamConstants ==
  /\ RingMax \in Nat /\ RecentMax \in Nat /\ BufferMax \in Nat
  /\ MaxEvents \in Nat /\ MaxEpochs \in Nat
  /\ RingMax >= 1 /\ RecentMax >= 1 /\ BufferMax >= 1 /\ MaxEpochs >= 1
  /\ Events!Ids = 1..MaxEvents
BY FeedsAssumption DEF Events!StreamAssumption, Events!Ids

LEMMA EmptyCounts == ASSUME NEW top PROVE Counts(<<>>, top)
BY DEF Counts

\* The ends of consecutive numbers.
LEMMA CountsEnds ==
  ASSUME NEW s, NEW top \in Int, Counts(s, top), s # <<>>
  PROVE  /\ Len(s) \in Nat /\ Len(s) >= 1
         /\ s[Len(s)] = top /\ Head(s) = top - Len(s) + 1
<1>1. s \in Seq(Int) /\ Len(s) \in Nat /\ Len(s) >= 1 /\ Head(s) = s[1]
  BY LenProperties, EmptySeq DEF Counts
<1>2. 1 \in 1..Len(s) /\ Len(s) \in 1..Len(s)
  BY <1>1
<1> QED BY <1>1, <1>2 DEF Counts

LEMMA RangeOfCounts ==
  ASSUME NEW s, NEW top \in Int, Counts(s, top)
  PROVE  Events!Range(s) = (top - Len(s) + 1)..top
<1>1. s \in Seq(Int) /\ Len(s) \in Nat /\ DOMAIN s = 1..Len(s)
  BY LenProperties DEF Counts
<1>2. ASSUME NEW x \in Events!Range(s) PROVE x \in (top - Len(s) + 1)..top
  <2>1. PICK i \in 1..Len(s) : x = s[i]
    BY <1>1 DEF Events!Range
  <2> QED BY <1>1, <2>1 DEF Counts
<1>3. ASSUME NEW x \in (top - Len(s) + 1)..top PROVE x \in Events!Range(s)
  <2>1. x - top + Len(s) \in 1..Len(s)
    BY <1>1
  <2>2. s[x - top + Len(s)] = x
    BY <1>1, <2>1 DEF Counts
  <2> QED BY <1>1, <2>1, <2>2 DEF Events!Range
<1> QED BY <1>2, <1>3

LEMMA AppendCounts ==
  ASSUME NEW s, NEW top \in Int, Counts(s, top)
  PROVE  Counts(Append(s, top + 1), top + 1) /\ Len(Append(s, top + 1)) = Len(s) + 1
<1>1. s \in Seq(Int) /\ Len(s) \in Nat
  BY LenProperties DEF Counts
<1>2. /\ Append(s, top + 1) \in Seq(Int) /\ Len(Append(s, top + 1)) = Len(s) + 1
      /\ \A i \in 1..Len(s) : Append(s, top + 1)[i] = s[i]
      /\ Append(s, top + 1)[Len(s) + 1] = top + 1
  BY <1>1, AppendProperties
<1>3. ASSUME NEW i \in 1..(Len(s) + 1) PROVE Append(s, top + 1)[i] = top + 1 - (Len(s) + 1) + i
  <2>1. CASE i = Len(s) + 1
    BY <1>1, <1>2, <2>1
  <2>2. CASE i # Len(s) + 1
    <3>1. i \in 1..Len(s)
      BY <1>1, <2>2
    <3> QED BY <1>1, <1>2, <3>1 DEF Counts
  <2> QED BY <2>1, <2>2
<1> QED BY <1>2, <1>3 DEF Counts

LEMMA TailCounts ==
  ASSUME NEW s, NEW top \in Int, Counts(s, top), s # <<>>
  PROVE  Counts(Tail(s), top) /\ Len(Tail(s)) = Len(s) - 1
<1>1. s \in Seq(Int) /\ Len(s) \in Nat /\ Len(s) >= 1
  BY CountsEnds DEF Counts
<1>2. /\ Tail(s) \in Seq(Int) /\ Len(Tail(s)) = Len(s) - 1
      /\ \A i \in 1..Len(Tail(s)) : Tail(s)[i] = s[i + 1]
  BY <1>1, HeadTailProperties
<1>3. ASSUME NEW i \in 1..(Len(s) - 1) PROVE Tail(s)[i] = top - (Len(s) - 1) + i
  <2>1. i + 1 \in 1..Len(s) /\ Tail(s)[i] = s[i + 1]
    BY <1>1, <1>2
  <2> QED BY <1>1, <2>1 DEF Counts
<1> QED BY <1>2, <1>3 DEF Counts

\* The last of consecutive numbers are consecutive (bus.go:83-91).
LEMMA LastOfCounts ==
  ASSUME NEW s, NEW top \in Int, Counts(s, top), NEW n \in Nat, n >= 1
  PROVE  /\ Counts(Events!LastOf(s, n), top)
         /\ Len(Events!LastOf(s, n)) = IF Len(s) > n THEN n ELSE Len(s)
<1>1. s \in Seq(Int) /\ Len(s) \in Nat
  BY LenProperties DEF Counts
<1> DEFINE m == IF Len(s) > n THEN Len(s) - n + 1 ELSE 1
<1>2. m \in 1..(Len(s) + 1) /\ Len(s) - m + 1 = (IF Len(s) > n THEN n ELSE Len(s)) /\ m \in Int
  BY <1>1
<1>3. Events!LastOf(s, n) = SubSeq(s, m, Len(s))
  BY DEF Events!LastOf
<1> HIDE DEF m
<1>4. /\ SubSeq(s, m, Len(s)) \in Seq(Int) /\ Len(SubSeq(s, m, Len(s))) = Len(s) - m + 1
      /\ \A i \in 1..(Len(s) - m + 1) : SubSeq(s, m, Len(s))[i] = s[m + i - 1]
  <2>1. \A i \in m..Len(s) : i \in 1..Len(s)
    BY <1>1, <1>2
  <2> QED BY <1>1, <1>2, <2>1, SubSeqProperties
<1>5. ASSUME NEW i \in 1..(Len(s) - m + 1)
      PROVE  SubSeq(s, m, Len(s))[i] = top - (Len(s) - m + 1) + i
  <2>1. m + i - 1 \in 1..Len(s)
    BY <1>1, <1>2
  <2>2. s[m + i - 1] = top - Len(s) + (m + i - 1)
    BY <2>1 DEF Counts
  <2> QED BY <1>1, <1>2, <1>4, <2>2
<1> QED BY <1>2, <1>3, <1>4, <1>5 DEF Counts

\* Sets of positions are counted the same in either module.
LEMMA Cards == ASSUME NEW S PROVE Events!Cardinality(S) = Cardinality(S)
BY DEF Events!Cardinality, Cardinality

\* The newer of consecutive numbers are consecutive (bus.go:70-81).
LEMMA NewerCounts ==
  ASSUME NEW s, NEW top \in Int, Counts(s, top), NEW after \in Int
  PROVE  /\ Counts(Events!Newer(s, after), top)
         /\ Len(Events!Newer(s, after)) = IF after >= top THEN 0
                                          ELSE IF Len(s) < top - after THEN Len(s) ELSE top - after
<1>1. s \in Seq(Int) /\ Len(s) \in Nat /\ DOMAIN s = 1..Len(s)
  BY LenProperties DEF Counts
<1> DEFINE at == {i \in DOMAIN s : s[i] > after}
           lo == IF after - top + Len(s) + 1 > 1 THEN after - top + Len(s) + 1 ELSE 1
           n == IF lo > Len(s) THEN 0 ELSE Len(s) - lo + 1
           want == IF after >= top THEN 0 ELSE IF Len(s) < top - after THEN Len(s) ELSE top - after
           q == Events!Newer(s, after)
<1>2. lo \in Nat /\ lo >= 1
  BY <1>1
<1>3. at = lo..Len(s)
  BY <1>1 DEF Counts
<1>4. n \in Nat /\ n = want
  <2>1. /\ lo = IF after - top + Len(s) + 1 > 1 THEN after - top + Len(s) + 1 ELSE 1
        /\ n = IF lo > Len(s) THEN 0 ELSE Len(s) - lo + 1
        /\ want = IF after >= top THEN 0 ELSE IF Len(s) < top - after THEN Len(s) ELSE top - after
    OBVIOUS
  <2> HIDE DEF lo, n, want
  <2>2. n \in Nat
    <3>1. Len(s) \in Nat /\ lo \in Nat
      BY <1>1, <1>2
    <3>2. CASE lo > Len(s)
      BY <2>1, <3>2
    <3>3. CASE ~(lo > Len(s))
      BY <2>1, <3>1, <3>3
    <3> QED BY <3>2, <3>3
  <2>3. CASE after >= top
    BY <1>1, <2>1, <2>3
  <2>4. CASE ~(after >= top) /\ Len(s) < top - after
    BY <1>1, <2>1, <2>4
  <2>5. CASE ~(after >= top) /\ ~(Len(s) < top - after)
    <3>1. want = top - after
      BY <2>1, <2>5
    <3>2. CASE after - top + Len(s) + 1 > 1
      BY <1>1, <2>1, <2>5, <3>1, <3>2
    <3>3. CASE ~(after - top + Len(s) + 1 > 1)
      BY <1>1, <2>1, <2>5, <3>1, <3>3
    <3> QED BY <3>2, <3>3
  <2> QED BY <2>2, <2>3, <2>4, <2>5
<1>5. q = [j \in 1..Events!Cardinality(at) |->
             s[CHOOSE i \in at : Events!Cardinality({k \in at : k <= i}) = j]]
  BY DEF Events!Newer
<1>6. n = IF lo > Len(s) THEN 0 ELSE Len(s) - lo + 1
  OBVIOUS
<1> HIDE DEF at, lo, q, n, want
<1>7. Events!Cardinality(at) = n
  <2>1. Cardinality(lo..Len(s)) = IF lo > Len(s) THEN 0 ELSE Len(s) - lo + 1
    <3>1. lo \in Int /\ Len(s) \in Int
      BY <1>1, <1>2
    <3> QED BY <3>1, FS_Interval
  <2> QED BY <1>3, <1>6, <2>1, Cards
<1>8. ASSUME NEW i \in at PROVE Events!Cardinality({k \in at : k <= i}) = i - lo + 1
  <2>1. i \in Int /\ i >= lo /\ {k \in at : k <= i} = lo..i
    BY <1>1, <1>2, <1>3
  <2>2. Cardinality(lo..i) = i - lo + 1
    BY <1>2, <2>1, FS_Interval
  <2> QED BY <2>1, <2>2, Cards
<1>9. ASSUME NEW j \in 1..n PROVE q[j] = top - n + j
  <2>1. j \in Int /\ j >= 1 /\ j <= n /\ n = Len(s) - lo + 1
    BY <1>4, <1>6
  <2>2. lo + j - 1 \in at /\ lo + j - 1 \in 1..Len(s)
    BY <1>1, <1>2, <1>3, <2>1
  <2>3. \A i \in at : i - lo + 1 = j <=> i = lo + j - 1
    BY <1>1, <1>2, <1>3, <2>1
  <2>4. \A i \in at : Events!Cardinality({k \in at : k <= i}) = j <=> i = lo + j - 1
    BY <1>8, <2>3
  <2>5. (CHOOSE i \in at : Events!Cardinality({k \in at : k <= i}) = j) = lo + j - 1
    BY <2>2, <2>4
  <2>6. q[j] = s[lo + j - 1]
    BY <1>5, <1>7, <2>5
  <2>7. s[lo + j - 1] = top - Len(s) + (lo + j - 1)
    BY <2>2 DEF Counts
  <2> QED BY <1>1, <1>2, <2>1, <2>6, <2>7
<1>10. q \in Seq(Int) /\ Len(q) = n
  <2>1. DOMAIN q = 1..n /\ q = [j \in 1..n |-> q[j]]
    BY <1>5, <1>7
  <2>2. ASSUME NEW j \in 1..n PROVE q[j] \in Int
    BY <1>4, <1>9, <2>2
  <2>3. q \in [1..n -> Int]
    BY <2>1, <2>2
  <2> QED BY <1>4, <2>1, <2>3, SeqDef
<1> QED BY <1>4, <1>9, <1>10 DEF Counts, q, want

------------------------------------------------------------------------------
(* The inductive invariant of the event feed *)

\* The newest ID of the ring.
Top == IF ring = <<>> THEN 0 ELSE ring[Len(ring)]

\* IDs enter the ring one after the other.
BusInOrder ==
  /\ Counts(ring, Top) /\ Len(ring) <= Top
  /\ \A p \in Producers : taken[p] # 0 => taken[p] = seq /\ Top = seq - 1
  /\ (\A p \in Producers : taken[p] = 0) => Top = seq

\* A step has the events after its mark to count.
StepFollows == mark <= Top /\ since = (mark + 1)..Top

\* The display is in order, and lastId its end as far as this process goes.
ShownInOrder ==
  /\ Events!DisplayInOrder
  /\ \A i \in 1..Len(known) : /\ known[i].epoch <= epoch
                              /\ known[i].epoch = epoch => known[i].id <= lastId

Seen == Events!Range(known) \cup missed

\* What a live browser has not seen of the ring is on its way.
OnItsWay ==
  stage = "live" =>
    \A id \in Events!Range(ring) : \/ id \in Events!Range(replay) \cup Events!Range(queue)
                                   \/ Events!Here(id) \in Seen

\* Does the display show another process?
Foreign == known # <<>> /\ known[1].epoch # epoch

\* A browser that missed nothing shows all IDs of one process up to lastId, and
\* what is on its way follows without a gap.
WholeDisplay ==
  /\ Len(known) = lastId
  /\ \A i \in 1..Len(known) : known[i].id = i /\ known[i].epoch = known[1].epoch
  /\ ~Foreign => lastId <= Top

WholeQueue ==
  stage \in {"subscribed", "live"} => Counts(queue, Top) /\ Len(queue) <= Top

WholeReplay ==
  stage = "live" =>
    IF Foreign THEN replay = <<>> /\ Len(queue) = Top
    ELSE /\ Follows(replay, lastId) /\ lastId + Len(replay) <= Top
         /\ Top - Len(queue) <= lastId + Len(replay)

Whole == missed = {} => WholeDisplay /\ WholeQueue /\ WholeReplay

EventInd ==
  /\ Events!StreamTypeOK /\ BusInOrder /\ StepFollows
  /\ ShownInOrder /\ OnItsWay /\ Whole

\* The ring and its end.
LEMMA TopFacts ==
  ASSUME Events!StreamTypeOK, BusInOrder
  PROVE  /\ Top \in Nat /\ Top <= MaxEvents /\ Top <= seq /\ seq \in Nat /\ seq <= MaxEvents
         /\ ring \in Seq(1..MaxEvents) /\ Len(ring) \in Nat
         /\ ring = <<>> <=> Top = 0
         /\ ring = <<>> <=> Len(ring) = 0
         /\ Events!Newest(ring) = Top
         /\ Events!Range(ring) = (Top - Len(ring) + 1)..Top
         /\ epoch \in 1..MaxEpochs /\ lastId \in Nat /\ lastId <= MaxEvents
<1>1. /\ ring \in Seq(1..MaxEvents) /\ seq \in 0..MaxEvents /\ MaxEvents \in Nat
      /\ epoch \in 1..MaxEpochs /\ lastId \in 0..MaxEvents
  BY StreamConstants DEF Events!StreamTypeOK
<1>2. Len(ring) \in Nat /\ (ring = <<>> <=> Len(ring) = 0)
  BY <1>1, LenProperties, EmptySeq
<1>3. Events!Newest(ring) = Top
  BY DEF Events!Newest, Events!Last, Top
<1>4. Top \in Nat /\ Top <= MaxEvents /\ (ring = <<>> <=> Top = 0)
  <2>1. CASE ring = <<>>
    BY <1>1, <2>1 DEF Top
  <2>2. CASE ring # <<>>
    <3>1. Len(ring) \in 1..Len(ring) /\ Top = ring[Len(ring)]
      BY <1>2, <2>2 DEF Top
    <3>2. ring[Len(ring)] \in 1..MaxEvents
      BY <1>1, <3>1, ElementOfSeq
    <3> QED BY <1>1, <2>2, <3>1, <3>2
  <2> QED BY <2>1, <2>2
<1>5. Top <= seq
  BY <1>1, <1>4 DEF BusInOrder
<1>6. Events!Range(ring) = (Top - Len(ring) + 1)..Top
  BY <1>4, RangeOfCounts DEF BusInOrder
<1> QED BY <1>1, <1>2, <1>3, <1>4, <1>5, <1>6

\* Consecutive numbers that are IDs.
LEMMA CountsAreIds ==
  ASSUME NEW s, NEW top \in Nat, Counts(s, top), top <= MaxEvents, Len(s) <= top
  PROVE  s \in Seq(Events!Ids)
<1>1. /\ Len(s) \in Nat /\ s \in [1..Len(s) -> Int] /\ MaxEvents \in Nat
      /\ Events!Ids = 1..MaxEvents
  BY StreamConstants, LenProperties DEF Counts
<1>2. ASSUME NEW i \in 1..Len(s) PROVE s[i] \in 1..MaxEvents
  <2>1. s[i] = top - Len(s) + i
    BY DEF Counts
  <2> QED BY <1>1, <2>1
<1>3. s \in [1..Len(s) -> 1..MaxEvents]
  BY <1>1, <1>2
<1> QED BY <1>1, <1>3, SeqDef

LEMMA EventIndImplies == EventInd => DisplayInv /\ StepCountsItsEvents
<1> SUFFICES ASSUME EventInd PROVE DisplayInv /\ StepCountsItsEvents
  OBVIOUS
<1>1. /\ Events!StreamTypeOK /\ BusInOrder /\ StepFollows
      /\ ShownInOrder /\ OnItsWay /\ Whole
  BY DEF EventInd
<1>2. Events!NothingSkipped
  <2> SUFFICES ASSUME stage = "live", replay = <<>>, queue = <<>>, missed = {},
                      NEW id \in Events!Range(ring)
               PROVE  Events!Here(id) \in Events!Range(known)
    BY DEF Events!NothingSkipped
  <2>1. Events!Range(replay) = {} /\ Events!Range(queue) = {}
    BY DEF Events!Range
  <2> QED BY <1>1, <2>1 DEF OnItsWay, Seen
<1>3. Events!OneProcessShown
  <2> SUFFICES ASSUME missed = {}, NEW i \in DOMAIN known, NEW j \in DOMAIN known
               PROVE  known[i].epoch = known[j].epoch
    BY DEF Events!OneProcessShown
  <2>1. DOMAIN known = 1..Len(known)
    BY <1>1, LenProperties DEF Events!StreamTypeOK
  <2> QED BY <1>1, <2>1 DEF Whole, WholeDisplay
<1>4. StepCountsItsEvents
  <2>1. /\ Top \in Nat /\ Len(ring) \in Nat /\ mark \in Nat /\ Counts(ring, Top)
        /\ Events!Range(ring) = (Top - Len(ring) + 1)..Top
        /\ mark <= Top /\ since = (mark + 1)..Top
    BY <1>1, TopFacts, StreamConstants DEF Events!StreamTypeOK, BusInOrder, StepFollows
  <2> DEFINE q == Events!Newer(ring, mark)
  <2>2. /\ Counts(q, Top)
        /\ Len(q) = IF mark >= Top THEN 0
                    ELSE IF Len(ring) < Top - mark THEN Len(ring) ELSE Top - mark
    BY <2>1, NewerCounts
  <2>4. Events!Since(mark) = q
    BY DEF Events!Since
  <2> HIDE DEF q
  <2>3. Events!Range(q) = (Top - Len(q) + 1)..Top
    <3>1. Top \in Int /\ Counts(q, Top)
      BY <2>1, <2>2
    <3> QED BY <3>1, RangeOfCounts
  <2>5. (Top - Len(q) + 1)..Top = ((mark + 1)..Top) \cap ((Top - Len(ring) + 1)..Top)
    <3>1. CASE mark >= Top
      BY <2>1, <2>2, <3>1
    <3>2. CASE mark < Top /\ Len(ring) < Top - mark
      <4>1. Len(q) = Len(ring) /\ mark + 1 <= Top - Len(ring) + 1
        BY <2>1, <2>2, <3>2
      <4> QED BY <2>1, <4>1
    <3>3. CASE mark < Top /\ ~(Len(ring) < Top - mark)
      BY <2>1, <2>2, <3>3
    <3> QED BY <2>1, <3>1, <3>2, <3>3
  <2> QED BY <2>1, <2>3, <2>4, <2>5 DEF StepCountsItsEvents, Events!StepCountsItsEvents
<1> QED BY <1>1, <1>2, <1>3, <1>4 DEF DisplayInv, ShownInOrder

LEMMA EventInit == Events!Init => EventInd
<1> SUFFICES ASSUME Events!Init PROVE EventInd
  OBVIOUS
<1>1. /\ epoch = 1 /\ seq = 0 /\ taken = [p \in Producers |-> 0] /\ ring = <<>>
      /\ mark = 0 /\ since = {} /\ stage = "down" /\ queue = <<>> /\ replay = <<>>
      /\ known = <<>> /\ lastId = 0 /\ missed = {}
  BY DEF Events!Init
<1>2. Top = 0 /\ Len(<<>>) = 0 /\ \A S : <<>> \in Seq(S)
  BY <1>1 DEF Top
<1>3. Events!StreamTypeOK
  <2>1. 1 \in 1..MaxEpochs /\ 0 \in 0..MaxEvents /\ 0 <= RingMax /\ 0 <= BufferMax
    BY StreamConstants
  <2> QED BY <1>1, <1>2, <2>1 DEF Events!StreamTypeOK, Events!Stages
<1>4. BusInOrder /\ StepFollows
  BY <1>1, <1>2, EmptyCounts DEF BusInOrder, StepFollows
<1>5. ShownInOrder /\ OnItsWay
  BY <1>1, <1>2 DEF ShownInOrder, OnItsWay, Events!DisplayInOrder
<1>6. Whole
  BY <1>1, <1>2 DEF Whole, WholeDisplay, WholeQueue, WholeReplay, Foreign
<1> QED BY <1>3, <1>4, <1>5, <1>6 DEF EventInd

------------------------------------------------------------------------------
(* The bus *)

LEMMA IndParts ==
  EventInd => /\ Events!StreamTypeOK /\ BusInOrder /\ StepFollows
              /\ ShownInOrder /\ OnItsWay /\ Whole
BY DEF EventInd

LEMMA TakeIdKeeps ==
  ASSUME OneProducer, EventInd, NEW p \in Producers, Events!TakeId(p)
  PROVE  EventInd'
<1>1. /\ Events!StreamTypeOK /\ BusInOrder /\ StepFollows
      /\ ShownInOrder /\ OnItsWay /\ Whole
  BY IndParts
<1>2. /\ taken[p] = 0 /\ seq < MaxEvents /\ seq' = seq + 1
      /\ taken' = [taken EXCEPT ![p] = seq + 1]
      /\ UNCHANGED <<epoch, ring, mark, since, stage, queue, replay, known, lastId, missed>>
  BY DEF Events!TakeId, Events!stepVars, Events!uiVars
<1>3. seq \in Nat /\ seq + 1 \in 0..MaxEvents /\ MaxEvents \in Nat
  BY <1>1, <1>2, TopFacts, StreamConstants
<1>4. Events!StreamTypeOK'
  BY <1>1, <1>2, <1>3 DEF Events!StreamTypeOK
<1>5. Top' = Top /\ Top = seq
  <2>1. \A q \in Producers : taken[q] = 0
    BY <1>2 DEF OneProducer
  <2> QED BY <1>1, <1>2, <2>1 DEF BusInOrder, Top
<1>6. \A q \in Producers : taken'[q] = seq + 1
  BY <1>1, <1>2 DEF OneProducer, Events!StreamTypeOK
<1>7. BusInOrder'
  BY <1>1, <1>2, <1>3, <1>5, <1>6 DEF BusInOrder
<1>8. StepFollows' /\ ShownInOrder' /\ OnItsWay'
  BY <1>1, <1>2, <1>5 DEF StepFollows, ShownInOrder, OnItsWay, Seen, Events!DisplayInOrder, Events!Here
<1>9. Whole'
  BY <1>1, <1>2, <1>5 DEF Whole, WholeDisplay, WholeQueue, WholeReplay, Foreign
<1> QED BY <1>4, <1>7, <1>8, <1>9 DEF EventInd

\* The event appended is offered to the subscription or known to be missed
\* (bus.go:37-53).
LEMMA DeliverKeeps ==
  ASSUME OneProducer, EventInd, NEW p \in Producers, Events!Deliver(p)
  PROVE  EventInd'
<1> DEFINE id == taken[p]
           open == stage \in {"subscribed", "live"}
<1>1. /\ Events!StreamTypeOK /\ BusInOrder /\ StepFollows
      /\ ShownInOrder /\ OnItsWay /\ Whole
  BY IndParts
<1>2. /\ id # 0 /\ ring' = Events!LastOf(Append(ring, id), RingMax)
      /\ taken' = [taken EXCEPT ![p] = 0] /\ since' = since \cup {id}
      /\ IF open /\ Len(queue) < BufferMax
           THEN queue' = Append(queue, id) /\ missed' = missed
           ELSE /\ missed' = IF open THEN missed \cup {Events!Here(id)} ELSE missed
                /\ queue' = queue
      /\ UNCHANGED <<epoch, seq, mark, stage, replay, known, lastId>>
  BY DEF Events!Deliver
<1>3. id = seq /\ Top = seq - 1 /\ id = Top + 1
  <2>1. id = seq /\ Top = seq - 1
    BY <1>1, <1>2 DEF BusInOrder
  <2> QED BY <1>1, <2>1, TopFacts
<1>4. /\ Top \in Nat /\ seq \in Nat /\ seq <= MaxEvents /\ Len(ring) \in Nat /\ Len(ring) <= Top
      /\ Counts(ring, Top) /\ MaxEvents \in Nat /\ RingMax \in Nat /\ RingMax >= 1
      /\ BufferMax \in Nat /\ Events!Range(ring) = (Top - Len(ring) + 1)..Top
  BY <1>1, TopFacts, StreamConstants DEF BusInOrder
<1>5. /\ Counts(ring', Top + 1)
      /\ Len(ring') = IF Len(ring) + 1 > RingMax THEN RingMax ELSE Len(ring) + 1
  <2>1. Counts(Append(ring, Top + 1), Top + 1) /\ Len(Append(ring, Top + 1)) = Len(ring) + 1
    BY <1>4, AppendCounts
  <2>2. ring' = Events!LastOf(Append(ring, Top + 1), RingMax)
    BY <1>2, <1>3
  <2>3. Top + 1 \in Int
    BY <1>4
  <2> DEFINE a == Append(ring, Top + 1)
  <2>4. Counts(a, Top + 1) /\ Len(a) = Len(ring) + 1 /\ ring' = Events!LastOf(a, RingMax)
    BY <2>1, <2>2
  <2> HIDE DEF a
  <2>5. /\ Counts(Events!LastOf(a, RingMax), Top + 1)
        /\ Len(Events!LastOf(a, RingMax)) = IF Len(a) > RingMax THEN RingMax ELSE Len(a)
    BY <1>4, <2>3, <2>4, LastOfCounts
  <2> QED BY <2>4, <2>5
<1>6. Len(ring') \in Nat /\ Len(ring') >= 1 /\ Len(ring') <= RingMax /\ Len(ring') <= Len(ring) + 1
  BY <1>4, <1>5
<1>7. ring' # <<>> /\ Top' = Top + 1
  <2>1. ring' # <<>>
    BY <1>6
  <2>2. ring'[Len(ring')] = Top + 1
    BY <1>4, <1>5, <2>1, CountsEnds
  <2> QED BY <2>1, <2>2 DEF Top
<1>8. Events!Range(ring') \subseteq Events!Range(ring) \cup {id}
  <2>1. Events!Range(ring') = (Top + 1 - Len(ring') + 1)..(Top + 1)
    <3>1. Top' = Top + 1 /\ Top' \in Int /\ Counts(ring', Top')
      BY <1>4, <1>5, <1>7
    <3>2. Events!Range(ring') = (Top' - Len(ring') + 1)..Top'
      BY <3>1, RangeOfCounts
    <3>3. Top' - Len(ring') + 1 = Top + 1 - Len(ring') + 1
      BY <1>4, <1>6, <3>1
    <3> QED BY <3>1, <3>2, <3>3
  <2> QED BY <1>3, <1>4, <1>6, <2>1
<1>9. id \in 1..MaxEvents /\ Events!Here(id) \in Events!Event
  <2>1. id \in 1..MaxEvents
    BY <1>3, <1>4
  <2> QED BY <1>1, <1>2, <2>1, StreamConstants DEF Events!Here, Events!Event, Events!StreamTypeOK
<1>10. queue \in Seq(1..MaxEvents) /\ Len(queue) \in Nat /\ Len(queue) <= BufferMax
  BY <1>1, StreamConstants, LenProperties DEF Events!StreamTypeOK
<1>11. /\ queue' \in Seq(1..MaxEvents) /\ Len(queue') <= BufferMax
       /\ Events!Range(queue) \subseteq Events!Range(queue')
       /\ open => id \in Events!Range(queue') \/ Events!Here(id) \in missed'
       /\ missed \subseteq missed' /\ missed' \in SUBSET Events!Event
  <2>1. CASE open /\ Len(queue) < BufferMax
    <3>1. queue' = Append(queue, id) /\ missed' = missed
      BY <1>2, <2>1
    <3> HIDE DEF id
    <3>2. /\ queue' \in Seq(1..MaxEvents) /\ Len(queue') = Len(queue) + 1
          /\ \A i \in 1..Len(queue) : queue'[i] = queue[i]
          /\ queue'[Len(queue) + 1] = id
      BY <1>9, <1>10, <3>1, AppendProperties
    <3>3. DOMAIN queue' = 1..(Len(queue) + 1) /\ DOMAIN queue = 1..Len(queue)
      BY <1>10, <3>2, LenProperties
    <3>4. Len(queue) + 1 \in 1..(Len(queue) + 1) /\ \A i \in 1..Len(queue) : i \in 1..(Len(queue) + 1)
      BY <1>10
    <3>5. Events!Range(queue) \subseteq Events!Range(queue') /\ id \in Events!Range(queue')
      BY <3>2, <3>3, <3>4 DEF Events!Range
    <3> QED BY <1>1, <1>4, <1>10, <2>1, <3>1, <3>2, <3>5 DEF Events!StreamTypeOK
  <2>2. CASE ~(open /\ Len(queue) < BufferMax)
    BY <1>1, <1>2, <1>9, <1>10, <2>2 DEF Events!StreamTypeOK
  <2> QED BY <2>1, <2>2
<1>12. Events!StreamTypeOK'
  <2>1. ring' \in Seq(Events!Ids)
    <3>1. Top + 1 \in Nat /\ Top + 1 <= MaxEvents /\ Len(ring') <= Top + 1
      BY <1>3, <1>4, <1>6
    <3> QED BY <1>5, <3>1, CountsAreIds
  <2>2. taken' \in [Producers -> 0..MaxEvents]
    BY <1>1, <1>2, <1>4 DEF Events!StreamTypeOK
  <2>3. since' \in SUBSET Events!Ids
    BY <1>1, <1>2, <1>9, StreamConstants DEF Events!StreamTypeOK
  <2> HIDE DEF id, open
  <2> QED BY <1>1, <1>2, <1>6, <1>11, <2>1, <2>2, <2>3, StreamConstants DEF Events!StreamTypeOK
<1>13. BusInOrder'
  <2>1. \A q \in Producers : taken'[q] = 0
    BY <1>1, <1>2 DEF OneProducer, Events!StreamTypeOK
  <2>2. Top' = seq' /\ Len(ring') <= Top'
    BY <1>2, <1>3, <1>4, <1>6, <1>7
  <2> QED BY <1>5, <1>7, <2>1, <2>2 DEF BusInOrder
<1>14. StepFollows'
  <2>1. mark \in Nat /\ mark <= Top /\ since = (mark + 1)..Top
    BY <1>1, StreamConstants DEF StepFollows, Events!StreamTypeOK
  <2>2. since' = (mark + 1)..(Top + 1)
    BY <1>2, <1>3, <1>4, <2>1
  <2> QED BY <1>2, <1>4, <1>7, <2>1, <2>2 DEF StepFollows
<1>15. ShownInOrder'
  BY <1>1, <1>2 DEF ShownInOrder, Events!DisplayInOrder
<1>16. OnItsWay'
  <2> SUFFICES ASSUME stage' = "live", NEW x \in Events!Range(ring')
               PROVE  \/ x \in Events!Range(replay') \cup Events!Range(queue')
                      \/ Events!Here(x)' \in Seen'
    BY DEF OnItsWay, Events!Here
  <2>1. open /\ stage = "live"
    BY <1>2
  <2>2. Events!Here(x)' = Events!Here(x) /\ Seen \subseteq Seen'
    BY <1>2, <1>11 DEF Events!Here, Seen
  <2>3. CASE x = id
    BY <1>11, <2>1, <2>2, <2>3 DEF Seen
  <2>4. CASE x # id
    BY <1>1, <1>2, <1>8, <1>11, <2>1, <2>2, <2>4 DEF OnItsWay
  <2> QED BY <2>3, <2>4
<1>17. Whole'
  <2> SUFFICES ASSUME missed' = {} PROVE WholeDisplay' /\ WholeQueue' /\ WholeReplay'
    BY DEF Whole
  <2>1. missed = {} /\ (open => queue' = Append(queue, id)) /\ (~open => queue' = queue)
    BY <1>2, <1>11
  <2>2. /\ WholeDisplay /\ WholeQueue /\ WholeReplay
        /\ known' = known /\ lastId' = lastId /\ (Foreign' <=> Foreign)
    BY <1>1, <1>2, <2>1 DEF Whole, Foreign
  <2>3. lastId \in Nat
    BY <1>1, TopFacts
  <2>4. WholeDisplay'
    BY <1>4, <1>7, <2>2, <2>3 DEF WholeDisplay
  <2>5. open => /\ Counts(queue, Top) /\ Len(queue) <= Top
                /\ Counts(queue', Top + 1) /\ Len(queue') = Len(queue) + 1
    <3> SUFFICES ASSUME open PROVE /\ Counts(queue, Top) /\ Len(queue) <= Top
                                   /\ Counts(queue', Top + 1) /\ Len(queue') = Len(queue) + 1
      OBVIOUS
    <3>1. Counts(queue, Top) /\ Len(queue) <= Top
      BY <2>2 DEF WholeQueue
    <3>2. queue' = Append(queue, Top + 1)
      BY <1>3, <2>1
    <3> QED BY <1>4, <3>1, <3>2, AppendCounts
  <2>6. WholeQueue'
    BY <1>2, <1>4, <1>7, <1>10, <2>5 DEF WholeQueue
  <2>7. WholeReplay'
    <3> SUFFICES ASSUME stage' = "live"
                 PROVE  IF Foreign' THEN replay' = <<>> /\ Len(queue') = Top'
                        ELSE /\ Follows(replay', lastId')
                             /\ lastId' + Len(replay') <= Top'
                             /\ Top' - Len(queue') <= lastId' + Len(replay')
      BY DEF WholeReplay
    <3>1. open /\ stage = "live" /\ replay' = replay
      BY <1>2
    <3>2. Len(queue') = Len(queue) + 1
      BY <2>5, <3>1
    <3>3. Len(replay) \in Nat
      BY <1>1, LenProperties DEF Events!StreamTypeOK
    <3>4. CASE Foreign
      <4>1. replay = <<>> /\ Len(queue) = Top
        BY <2>2, <3>1, <3>4 DEF WholeReplay
      <4> QED BY <1>7, <2>2, <3>1, <3>2, <3>4, <4>1
    <3>5. CASE ~Foreign
      <4>1. /\ Follows(replay, lastId) /\ lastId + Len(replay) <= Top
            /\ Top - Len(queue) <= lastId + Len(replay)
        BY <2>2, <3>1, <3>5 DEF WholeReplay
      <4>2. lastId + Len(replay) <= Top + 1 /\ Top + 1 - (Len(queue) + 1) <= lastId + Len(replay)
        BY <1>4, <1>10, <2>3, <3>3, <4>1
      <4>3. lastId' = lastId /\ Top' = Top + 1 /\ replay' = replay /\ ~Foreign'
        BY <1>7, <2>2, <3>1, <3>5
      <4>4. Follows(replay', lastId')
        BY <4>1, <4>3
      <4>5. lastId' + Len(replay') <= Top' /\ Top' - Len(queue') <= lastId' + Len(replay')
        BY <1>4, <1>10, <2>3, <3>2, <3>3, <4>2, <4>3
      <4> QED BY <4>3, <4>4, <4>5
    <3> QED BY <3>4, <3>5
  <2> QED BY <2>4, <2>6, <2>7
<1> QED BY <1>12, <1>13, <1>14, <1>15, <1>16, <1>17 DEF EventInd

LEMMA StartStepKeeps ==
  ASSUME EventInd, Events!StartStep
  PROVE  EventInd'
<1>1. /\ Events!StreamTypeOK /\ BusInOrder /\ StepFollows
      /\ ShownInOrder /\ OnItsWay /\ Whole
  BY IndParts
<1>2. /\ mark' = Events!Newest(Events!Recent(1)) /\ since' = {}
      /\ UNCHANGED <<epoch, seq, taken, ring, stage, queue, replay, known, lastId, missed>>
  BY DEF Events!StartStep, Events!busVars, Events!uiVars
<1>3. Top \in Nat /\ Top <= MaxEvents /\ Counts(ring, Top) /\ (ring = <<>> <=> Top = 0)
      /\ Len(ring) \in Nat /\ (ring = <<>> <=> Len(ring) = 0) /\ MaxEvents \in Nat
  BY <1>1, TopFacts, StreamConstants DEF BusInOrder
<1>4. mark' = Top
  <2> DEFINE r == Events!LastOf(ring, 1)
  <2>1. Counts(r, Top) /\ Len(r) = IF Len(ring) > 1 THEN 1 ELSE Len(ring)
    <3>1. Top \in Int /\ 1 \in Nat /\ 1 >= 1
      BY <1>3
    <3> QED BY <1>3, <3>1, LastOfCounts
  <2>2. mark' = Events!Newest(r)
    BY <1>2 DEF Events!Recent
  <2> HIDE DEF r
  <2>3. mark' = IF r = <<>> THEN 0 ELSE r[Len(r)]
    BY <2>2 DEF Events!Newest, Events!Last
  <2>4. CASE r = <<>>
    <3>1. Len(r) = 0
      BY <2>4
    <3>2. Len(ring) = 0
      BY <1>3, <2>1, <3>1
    <3> QED BY <1>3, <2>3, <2>4, <3>2
  <2>5. CASE r # <<>>
    BY <1>3, <2>1, <2>3, <2>5, CountsEnds
  <2> QED BY <2>4, <2>5
<1>5. Top' = Top
  BY <1>2 DEF Top
<1>6. Events!StreamTypeOK'
  BY <1>1, <1>2, <1>3, <1>4 DEF Events!StreamTypeOK
<1>7. BusInOrder' /\ ShownInOrder' /\ OnItsWay'
  BY <1>1, <1>2, <1>5 DEF BusInOrder, ShownInOrder, OnItsWay, Seen, Events!DisplayInOrder, Events!Here
<1>8. StepFollows'
  BY <1>2, <1>3, <1>4, <1>5 DEF StepFollows
<1>9. Whole'
  BY <1>1, <1>2, <1>5 DEF Whole, WholeDisplay, WholeQueue, WholeReplay, Foreign
<1> QED BY <1>6, <1>7, <1>8, <1>9 DEF EventInd

\* The bus of a new process counts from 1 again: what is on display is another's.
LEMMA RestartKeeps ==
  ASSUME EventInd, Events!Restart
  PROVE  EventInd'
<1>1. Events!StreamTypeOK /\ ShownInOrder /\ Whole
  BY IndParts
<1>2. /\ epoch < MaxEpochs /\ epoch' = epoch + 1 /\ seq' = 0 /\ ring' = <<>>
      /\ taken' = [p \in Producers |-> 0] /\ mark' = 0 /\ since' = {}
      /\ stage' = "down" /\ queue' = <<>> /\ replay' = <<>>
      /\ UNCHANGED <<known, lastId, missed>>
  BY DEF Events!Restart
<1>3. epoch \in Nat /\ epoch + 1 \in 1..MaxEpochs /\ MaxEvents \in Nat /\ lastId \in Nat
  <2>1. epoch \in 1..MaxEpochs /\ MaxEpochs \in Nat /\ MaxEvents \in Nat /\ lastId \in 0..MaxEvents
    BY <1>1, StreamConstants DEF Events!StreamTypeOK
  <2> QED BY <1>2, <2>1
<1>4. Top' = 0 /\ Len(<<>>) = 0 /\ \A S : <<>> \in Seq(S)
  BY <1>2 DEF Top
<1>5. \A i \in 1..Len(known) : known[i].epoch \in Nat /\ known[i].epoch <= epoch
  <2>1. known \in Seq(Events!Event)
    BY <1>1 DEF Events!StreamTypeOK
  <2>2. \A i \in 1..Len(known) : known[i] \in Events!Event
    BY <2>1, ElementOfSeq
  <2>3. \A i \in 1..Len(known) : known[i].epoch \in 1..MaxEpochs
    BY <2>2 DEF Events!Event
  <2> QED BY <1>1, <2>3, StreamConstants DEF ShownInOrder
<1>6. \A i \in 1..Len(known) : known[i].epoch <= epoch' /\ known[i].epoch # epoch'
  BY <1>2, <1>3, <1>5
<1>7. Events!StreamTypeOK'
  <2>1. 0 \in 0..MaxEvents /\ 0 <= RingMax /\ 0 <= BufferMax
    BY StreamConstants
  <2> QED BY <1>1, <1>2, <1>3, <1>4, <2>1 DEF Events!StreamTypeOK, Events!Stages
<1>8. BusInOrder' /\ StepFollows'
  BY <1>2, <1>4, EmptyCounts DEF BusInOrder, StepFollows
<1>9. ShownInOrder' /\ OnItsWay'
  BY <1>1, <1>2, <1>6 DEF ShownInOrder, OnItsWay, Events!DisplayInOrder
<1>10. Whole'
  <2> SUFFICES ASSUME missed' = {} PROVE WholeDisplay' /\ WholeQueue' /\ WholeReplay'
    BY DEF Whole
  <2>1. WholeDisplay
    BY <1>1, <1>2 DEF Whole
  <2>2. ~Foreign' => lastId = 0
    <3> SUFFICES ASSUME ~Foreign' PROVE lastId = 0
      OBVIOUS
    <3>1. known = <<>> \/ known[1].epoch = epoch'
      BY <1>2 DEF Foreign
    <3>2. CASE known = <<>>
      BY <1>4, <2>1, <3>2 DEF WholeDisplay
    <3>3. CASE known # <<>>
      <4>1. Len(known) \in Nat /\ Len(known) # 0
        BY <1>1, <3>3, LenProperties, EmptySeq DEF Events!StreamTypeOK
      <4>2. 1 \in 1..Len(known)
        BY <4>1
      <4> QED BY <1>6, <3>1, <3>3, <4>2
    <3> QED BY <3>2, <3>3
  <2>3. WholeDisplay'
    BY <1>2, <1>3, <1>4, <2>1, <2>2 DEF WholeDisplay
  <2> QED BY <1>2, <2>3 DEF WholeQueue, WholeReplay
<1> QED BY <1>7, <1>8, <1>9, <1>10 DEF EventInd

------------------------------------------------------------------------------
(* The browser *)

\* A step of the connection that leaves the bus, the step and the display alone.
LEMMA BusStays ==
  ASSUME EventInd, UNCHANGED <<epoch, seq, taken, ring, mark, since>>
  PROVE  BusInOrder' /\ StepFollows' /\ Top' = Top
<1>1. BusInOrder /\ StepFollows /\ Top' = Top
  BY IndParts DEF Top
<1> QED BY <1>1 DEF BusInOrder, StepFollows

LEMMA DisplayStays ==
  ASSUME EventInd, UNCHANGED <<epoch, seq, taken, ring, mark, since, known, lastId>>
  PROVE  ShownInOrder' /\ (WholeDisplay => WholeDisplay') /\ (Foreign' <=> Foreign)
<1>1. ShownInOrder /\ Top' = Top
  BY IndParts, BusStays
<1> QED BY <1>1 DEF ShownInOrder, Events!DisplayInOrder, WholeDisplay, Foreign

\* A fetch that failed, and a connection that is opened or breaks.
LEMMA LinkKeeps ==
  ASSUME EventInd, Events!SyncFailed \/ Events!Connect \/ Events!Disconnect
  PROVE  EventInd'
<1>1. Events!StreamTypeOK /\ Whole
  BY IndParts
<1>2. /\ UNCHANGED <<epoch, seq, taken, ring, mark, since, known, lastId, missed>>
      /\ replay' = replay \/ replay' = <<>>
      /\ queue' = queue \/ queue' = <<>>
      /\ stage' \in {"down", "synced", "subscribed"}
      /\ stage' = "subscribed" => queue' = <<>>
  BY DEF Events!SyncFailed, Events!Connect, Events!Disconnect, Events!busVars, Events!stepVars
<1>3. Len(<<>>) = 0 /\ \A S : <<>> \in Seq(S)
  OBVIOUS
<1>4. Events!StreamTypeOK'
  <2>1. 0 <= BufferMax
    BY StreamConstants
  <2>2. queue' \in Seq(Events!Ids) /\ Len(queue') <= BufferMax /\ replay' \in Seq(Events!Ids)
    BY <1>1, <1>2, <1>3, <2>1 DEF Events!StreamTypeOK
  <2> QED BY <1>1, <1>2, <2>2 DEF Events!StreamTypeOK, Events!Stages
<1>5. BusInOrder' /\ StepFollows' /\ Top' = Top
  BY <1>2, BusStays
<1>6. ShownInOrder' /\ (WholeDisplay => WholeDisplay')
  BY <1>2, DisplayStays
<1>7. OnItsWay'
  BY <1>2 DEF OnItsWay
<1>8. Whole'
  <2> SUFFICES ASSUME missed' = {} PROVE WholeDisplay' /\ WholeQueue' /\ WholeReplay'
    BY DEF Whole
  <2>1. WholeDisplay'
    BY <1>1, <1>2, <1>6 DEF Whole
  <2>2. Top \in Nat
    BY IndParts, TopFacts
  <2>3. WholeQueue'
    BY <1>2, <1>3, <1>5, <2>2, EmptyCounts DEF WholeQueue
  <2> QED BY <1>2, <2>1, <2>3 DEF WholeReplay
<1> QED BY <1>4, <1>5, <1>6, <1>7, <1>8 DEF EventInd

\* What is on display.
LEMMA KnownFacts ==
  ASSUME EventInd
  PROVE  /\ known \in Seq(Events!Event) /\ Len(known) \in Nat /\ DOMAIN known = 1..Len(known)
         /\ \A i \in 1..Len(known) : /\ known[i] \in Events!Event
                                     /\ known[i].epoch \in Nat /\ known[i].id \in Nat
                                     /\ known[i].epoch <= epoch /\ known[i].id >= 1
                                     /\ known[i].epoch = epoch => known[i].id <= lastId
         /\ \A i, j \in 1..Len(known) :
              i < j => \/ known[i].epoch < known[j].epoch
                       \/ known[i].epoch = known[j].epoch /\ known[i].id < known[j].id
         /\ epoch \in Nat /\ epoch \in 1..MaxEpochs /\ lastId \in Nat /\ lastId <= MaxEvents
<1>1. Events!StreamTypeOK /\ BusInOrder /\ ShownInOrder
  BY IndParts
<1>2. known \in Seq(Events!Event) /\ Len(known) \in Nat /\ DOMAIN known = 1..Len(known)
  BY <1>1, LenProperties DEF Events!StreamTypeOK
<1>3. \A i \in 1..Len(known) : known[i] \in Events!Event
  BY <1>2, ElementOfSeq
<1>4. ASSUME NEW i \in 1..Len(known)
      PROVE  known[i].epoch \in Nat /\ known[i].id \in Nat /\ known[i].id >= 1
  <2>1. known[i].epoch \in 1..MaxEpochs /\ known[i].id \in 1..MaxEvents
    BY <1>3, StreamConstants DEF Events!Event
  <2> QED BY <2>1, StreamConstants
<1>5. epoch \in 1..MaxEpochs /\ epoch \in Nat /\ lastId \in Nat /\ lastId <= MaxEvents
  BY <1>1, TopFacts, StreamConstants
<1> QED BY <1>1, <1>2, <1>3, <1>4, <1>5 DEF ShownInOrder, Events!DisplayInOrder

\* Showing an event keeps the order, and leaves it seen (hooks.ts:73-78).
LEMMA ShowKeeps ==
  ASSUME EventInd, NEW id \in 1..MaxEvents, Events!Show(id), epoch' = epoch
  PROVE  /\ known' \in Seq(Events!Event) /\ lastId' \in 0..MaxEvents
         /\ missed' \in SUBSET Events!Event /\ missed \subseteq missed'
         /\ Events!Range(known) \subseteq Events!Range(known')
         /\ Events!Here(id) \in Seen'
         /\ ShownInOrder'
<1>1. Events!StreamTypeOK /\ MaxEvents \in Nat /\ id \in Nat
  BY IndParts, StreamConstants
<1>2. /\ known \in Seq(Events!Event) /\ Len(known) \in Nat /\ DOMAIN known = 1..Len(known)
      /\ epoch \in 1..MaxEpochs /\ lastId \in Nat /\ lastId <= MaxEvents
  BY KnownFacts
<1>3. Events!Here(id) \in Events!Event
  BY <1>2, StreamConstants DEF Events!Here, Events!Event
<1>4. CASE id <= lastId
  <2>1. /\ missed' = missed \cup ({Events!Here(id)} \ Events!Range(known))
        /\ known' = known /\ lastId' = lastId
    BY <1>4 DEF Events!Show
  <2>2. ShownInOrder'
    BY <2>1, IndParts DEF ShownInOrder, Events!DisplayInOrder
  <2> QED BY <1>1, <1>2, <1>3, <2>1, <2>2 DEF Seen, Events!StreamTypeOK
<1>5. CASE ~(id <= lastId)
  <2> DEFINE n == Len(known) + 1
  <2>1. known' = Append(known, Events!Here(id)) /\ lastId' = id /\ missed' = missed
    BY <1>5 DEF Events!Show
  <2>2. /\ known' \in Seq(Events!Event) /\ Len(known') = n /\ DOMAIN known' = 1..n
        /\ \A i \in 1..Len(known) : known'[i] = known[i]
        /\ known'[n] = Events!Here(id)
    BY <1>2, <1>3, <2>1, AppendProperties, LenProperties
  <2>3. n \in 1..n /\ \A i \in 1..Len(known) : i \in 1..n
    BY <1>2
  <2>4. Events!Range(known) \subseteq Events!Range(known') /\ Events!Here(id) \in Events!Range(known')
    <3> HIDE DEF n
    <3> QED BY <1>2, <2>2, <2>3 DEF Events!Range
  <2>5. known'[n].epoch = epoch /\ known'[n].id = id
    BY <2>2 DEF Events!Here
  <2>6. ASSUME NEW i \in 1..n
        PROVE  known'[i].epoch <= epoch' /\ (known'[i].epoch = epoch' => known'[i].id <= lastId')
    <3>1. CASE i = n
      BY <1>1, <1>2, <2>1, <2>5, <3>1, StreamConstants
    <3>2. CASE i # n
      <4>1. i \in 1..Len(known) /\ known'[i] = known[i]
        BY <1>2, <2>2, <3>2
      <4>2. /\ known[i].epoch <= epoch /\ known[i].id \in Nat
            /\ known[i].epoch = epoch => known[i].id <= lastId
        BY <4>1, KnownFacts
      <4> QED BY <1>1, <1>2, <1>5, <2>1, <4>1, <4>2
    <3> QED BY <3>1, <3>2
  <2>7. ASSUME NEW i \in 1..n, NEW j \in 1..n, i < j
        PROVE  \/ known'[i].epoch < known'[j].epoch
               \/ known'[i].epoch = known'[j].epoch /\ known'[i].id < known'[j].id
    <3>1. i \in 1..Len(known) /\ known'[i] = known[i]
      BY <1>2, <2>2, <2>7
    <3>2. CASE j = n
      <4>1. /\ known[i].epoch \in Nat /\ known[i].epoch <= epoch /\ known[i].id \in Nat
            /\ known[i].epoch = epoch => known[i].id <= lastId
            /\ epoch \in Nat
        BY <3>1, KnownFacts
      <4> QED BY <1>1, <1>2, <1>5, <2>5, <3>1, <3>2, <4>1
    <3>3. CASE j # n
      <4>1. j \in 1..Len(known) /\ known'[j] = known[j]
        BY <1>2, <2>2, <3>3
      <4> QED BY <2>7, <3>1, <4>1, KnownFacts
    <3> QED BY <3>2, <3>3
  <2>8. ShownInOrder'
    <3> HIDE DEF n
    <3> QED BY <2>2, <2>6, <2>7 DEF ShownInOrder, Events!DisplayInOrder
  <2>9. lastId' \in 0..MaxEvents
    BY <1>1, <2>1
  <2> QED BY <1>1, <2>1, <2>2, <2>4, <2>8, <2>9 DEF Seen, Events!StreamTypeOK
<1> QED BY <1>4, <1>5

\* The next event of a whole display keeps it whole.
LEMMA ShowWhole ==
  ASSUME EventInd, WholeDisplay, NEW id, id = lastId + 1, Events!Show(id),
         epoch' = epoch, ring' = ring, ~Foreign, id <= Top
  PROVE  WholeDisplay' /\ ~Foreign' /\ lastId' = lastId + 1
<1>1. /\ known \in Seq(Events!Event) /\ Len(known) \in Nat
      /\ lastId \in Nat /\ lastId = Len(known) /\ Top' = Top
  BY KnownFacts DEF WholeDisplay, Top
<1>2. ~(id <= lastId)
  BY <1>1
<1>3. known' = Append(known, Events!Here(id)) /\ lastId' = id
  BY <1>2 DEF Events!Show
<1>4. epoch \in 1..MaxEpochs /\ Top <= MaxEvents /\ id >= 1 /\ id \in Nat /\ Top \in Nat
  BY <1>1, IndParts, TopFacts
<1>5. Events!Here(id) \in Events!Event
  <2>1. id \in 1..MaxEvents
    BY <1>4, StreamConstants
  <2> QED BY <1>4, <2>1, StreamConstants DEF Events!Here, Events!Event
<1>6. /\ Len(known') = Len(known) + 1 /\ \A i \in 1..Len(known) : known'[i] = known[i]
      /\ known'[Len(known) + 1] = Events!Here(id)
  BY <1>1, <1>3, <1>5, AppendProperties
<1>7. known'[id].id = id /\ known'[id].epoch = epoch
  BY <1>1, <1>6 DEF Events!Here
<1>8. known'[1].epoch = epoch
  <2>1. CASE Len(known) = 0
    BY <1>1, <1>7, <2>1
  <2>2. CASE Len(known) # 0
    <3>1. 1 \in 1..Len(known) /\ known # <<>>
      BY <1>1, <2>2
    <3> QED BY <1>6, <3>1 DEF Foreign
  <2> QED BY <2>1, <2>2
<1>9. ASSUME NEW i \in 1..Len(known') PROVE known'[i].id = i /\ known'[i].epoch = epoch
  <2>1. CASE i = id
    BY <1>7, <2>1
  <2>2. CASE i # id
    <3>1. i \in 1..Len(known) /\ 1 \in 1..Len(known)
      BY <1>1, <1>6, <2>2
    <3>2. known[i].id = i /\ known[i].epoch = known[1].epoch
      BY <3>1 DEF WholeDisplay
    <3> QED BY <1>6, <1>8, <3>1, <3>2
  <2> QED BY <2>1, <2>2
<1>10. ~Foreign'
  BY <1>8 DEF Foreign
<1> QED BY <1>1, <1>3, <1>6, <1>8, <1>9, <1>10 DEF WholeDisplay

\* What this process has on display of a whole one.
LEMMA WholeShows ==
  ASSUME EventInd, WholeDisplay, NEW id, Events!Here(id) \in Events!Range(known)
  PROVE  id \in 1..lastId /\ ~Foreign
<1>1. DOMAIN known = 1..Len(known) /\ Len(known) = lastId /\ lastId \in Nat
  BY KnownFacts DEF WholeDisplay
<1>2. PICK i \in 1..Len(known) : known[i] = Events!Here(id)
  BY <1>1 DEF Events!Range
<1>3. known[i].id = i /\ known[i].epoch = known[1].epoch
  BY <1>2 DEF WholeDisplay
<1>4. known[i].id = id /\ known[i].epoch = epoch
  BY <1>2 DEF Events!Here
<1> QED BY <1>1, <1>3, <1>4 DEF Foreign

\* What the ring has after lastId is sent again, and what it no longer has of it
\* is known to be missed (server.go:361-366).
LEMMA ReplayKeeps ==
  ASSUME EventInd, Events!Replay
  PROVE  EventInd'
<1> DEFINE q == Events!Newer(ring, lastId)
           late == {id \in 1..Top : id <= lastId \/ id \notin Events!Range(ring)}
<1>1. /\ Events!StreamTypeOK /\ BusInOrder /\ ShownInOrder /\ Whole
  BY IndParts
<1>2. /\ Top \in Nat /\ Top <= MaxEvents /\ Len(ring) \in Nat /\ Events!Newest(ring) = Top
      /\ Events!Range(ring) = (Top - Len(ring) + 1)..Top /\ lastId \in Nat
      /\ Counts(ring, Top) /\ Len(ring) <= Top
  BY <1>1, TopFacts DEF BusInOrder
<1>3. /\ stage = "subscribed" /\ stage' = "live" /\ replay' = q
      /\ missed' = missed \cup ({Events!Here(id) : id \in late} \ Events!Range(known))
      /\ UNCHANGED <<epoch, seq, taken, ring, mark, since, queue, known, lastId>>
  BY <1>2 DEF Events!Replay, Events!Since, Events!busVars, Events!stepVars
<1>4. /\ Counts(q, Top)
      /\ Len(q) = IF lastId >= Top THEN 0
                  ELSE IF Len(ring) < Top - lastId THEN Len(ring) ELSE Top - lastId
  <2>1. Top \in Int /\ lastId \in Int
    BY <1>2
  <2> QED BY <1>2, <2>1, NewerCounts
<1>5. late \subseteq 1..Top
  OBVIOUS
<1>6. \A id \in late : id \in 1..MaxEvents
  BY <1>2, <1>5, StreamConstants
<1>7. /\ \A id \in 1..Top : id <= lastId => id \in late
      /\ \A id \in 1..Top : id \notin Events!Range(ring) => id \in late
  OBVIOUS
<1> HIDE DEF q, late
<1>8. Len(q) \in Nat /\ Len(q) <= Top
  BY <1>2, <1>4
<1>9. Events!Range(q) = (Top - Len(q) + 1)..Top
  <2>1. Top \in Int
    BY <1>2
  <2> QED BY <1>4, <2>1, RangeOfCounts
<1>10. BusInOrder' /\ StepFollows' /\ Top' = Top
  BY <1>3, BusStays
<1>11. ShownInOrder' /\ (WholeDisplay => WholeDisplay') /\ (Foreign' <=> Foreign)
  BY <1>3, DisplayStays
<1>12. Events!StreamTypeOK'
  <2>1. q \in Seq(Events!Ids)
    BY <1>2, <1>4, <1>8, CountsAreIds
  <2>2. \A id \in late : Events!Here(id) \in Events!Event
    <3>1. epoch \in 1..MaxEpochs
      BY <1>1 DEF Events!StreamTypeOK
    <3> QED BY <1>6, <3>1, StreamConstants DEF Events!Here, Events!Event
  <2>3. missed' \in SUBSET Events!Event
    BY <1>1, <1>3, <2>2 DEF Events!StreamTypeOK
  <2> QED BY <1>1, <1>3, <2>1, <2>3 DEF Events!StreamTypeOK, Events!Stages
<1>13. OnItsWay'
  <2> SUFFICES ASSUME NEW id \in Events!Range(ring)
               PROVE  id \in Events!Range(q) \/ Events!Here(id) \in Events!Range(known) \cup missed'
    BY <1>3 DEF OnItsWay, Seen, Events!Here
  <2>1. id \in Int /\ id <= Top /\ id >= Top - Len(ring) + 1 /\ id >= 1
    BY <1>2
  <2>2. CASE id <= lastId
    <3>1. id \in late
      BY <1>2, <1>7, <2>1, <2>2
    <3> QED BY <1>3, <3>1
  <2>3. CASE id > lastId
    <3>1. id >= Top - Len(q) + 1
      BY <1>2, <1>4, <2>1, <2>3
    <3> QED BY <1>2, <1>8, <1>9, <2>1, <3>1
  <2> QED BY <1>2, <2>1, <2>2, <2>3
<1>14. Whole'
  <2> SUFFICES ASSUME missed' = {} PROVE WholeDisplay' /\ WholeQueue' /\ WholeReplay'
    BY DEF Whole
  <2>1. /\ WholeDisplay /\ WholeQueue
        /\ \A id \in late : Events!Here(id) \in Events!Range(known)
    BY <1>1, <1>3 DEF Whole
  <2>2. \A id \in late : id \in 1..lastId /\ ~Foreign
    BY <2>1, WholeShows
  <2>3. Counts(queue, Top) /\ Len(queue) <= Top /\ Len(queue) \in Nat
    BY <1>3, <2>1, LenProperties DEF WholeQueue, Counts
  <2>4. WholeQueue'
    BY <1>3, <1>10, <2>3 DEF WholeQueue
  <2>5. CASE Foreign
    <3>1. lastId >= 1
      <4>1. known # <<>> /\ Len(known) \in Nat /\ lastId = Len(known) /\ known \in Seq(Events!Event)
        BY <2>1, <2>5, KnownFacts DEF Foreign, WholeDisplay
      <4> QED BY <4>1, EmptySeq
    <3>2. 1 \notin 1..Top
      BY <1>2, <1>7, <2>2, <2>5, <3>1
    <3>3. Top = 0 /\ Len(q) = 0
      BY <1>2, <1>8, <3>2
    <3>4. q = <<>> /\ Len(queue) = Top
      BY <1>4, <2>3, <3>3, EmptySeq DEF Counts
    <3> QED BY <1>3, <1>10, <1>11, <2>1, <2>4, <2>5, <3>4 DEF WholeReplay
  <2>6. CASE ~Foreign
    <3>1. lastId <= Top
      BY <2>1, <2>6 DEF WholeDisplay
    <3>2. Len(q) = Top - lastId
      <4> SUFFICES ASSUME Len(q) # Top - lastId PROVE FALSE
        OBVIOUS
      <4>1. lastId < Top /\ Len(ring) < Top - lastId
        BY <1>2, <1>4, <3>1
      <4> DEFINE id == lastId + 1
      <4>2. id \in 1..Top /\ id < Top - Len(ring) + 1 /\ id \in Int /\ id > lastId
        BY <1>2, <4>1
      <4> HIDE DEF id
      <4>3. id \in late
        BY <1>2, <1>7, <4>2
      <4> QED BY <1>2, <2>2, <4>2, <4>3
    <3>3. Follows(q, lastId)
      <4>1. ASSUME NEW i \in 1..Len(q) PROVE q[i] = lastId + i
        <5>1. q[i] = Top - Len(q) + i
          BY <1>4 DEF Counts
        <5> QED BY <1>2, <1>8, <3>2, <5>1
      <4> QED BY <4>1 DEF Follows
    <3>4. lastId + Len(q) <= Top /\ Top - Len(queue) <= lastId + Len(q)
      BY <1>2, <1>8, <2>3, <3>2
    <3> QED BY <1>3, <1>10, <1>11, <2>1, <2>4, <2>6, <3>3, <3>4 DEF WholeReplay, Follows
  <2> QED BY <2>5, <2>6
<1> QED BY <1>10, <1>11, <1>12, <1>13, <1>14 DEF EventInd

\* The next of a sequence of IDs, and the others.
LEMMA NextOf ==
  ASSUME NEW s \in Seq(Events!Ids), s # <<>>
  PROVE  /\ Head(s) \in 1..MaxEvents /\ Head(s) = s[1]
         /\ Tail(s) \in Seq(Events!Ids)
         /\ Len(s) \in Nat /\ Len(s) >= 1 /\ Len(Tail(s)) = Len(s) - 1
         /\ \A i \in 1..Len(Tail(s)) : Tail(s)[i] = s[i + 1]
         /\ Events!Range(s) \subseteq {Head(s)} \cup Events!Range(Tail(s))
<1>1. Len(s) \in Nat /\ Len(s) >= 1 /\ DOMAIN s = 1..Len(s)
  BY LenProperties, EmptySeq
<1>2. /\ Head(s) \in Events!Ids /\ Head(s) = s[1]
      /\ Tail(s) \in Seq(Events!Ids) /\ Len(Tail(s)) = Len(s) - 1
      /\ \A i \in 1..Len(Tail(s)) : Tail(s)[i] = s[i + 1]
  BY HeadTailProperties
<1>3. DOMAIN Tail(s) = 1..(Len(s) - 1)
  BY <1>2, LenProperties
<1>4. ASSUME NEW x \in Events!Range(s), x # Head(s) PROVE x \in Events!Range(Tail(s))
  <2>1. PICK i \in 1..Len(s) : x = s[i]
    BY <1>1 DEF Events!Range
  <2> DEFINE j == i - 1
  <2>2. j \in 1..(Len(s) - 1) /\ i = j + 1
    BY <1>1, <1>2, <1>4, <2>1
  <2> HIDE DEF j
  <2>3. Tail(s)[j] = x
    BY <1>2, <2>1, <2>2
  <2> QED BY <1>3, <2>2, <2>3 DEF Events!Range
<1> QED BY <1>1, <1>2, <1>4, StreamConstants

\* The replay comes before what the channel holds (server.go:358-376).
LEMMA ReceiveKeeps ==
  ASSUME EventInd, Events!Receive
  PROVE  EventInd'
<1>1. /\ Events!StreamTypeOK /\ BusInOrder /\ ShownInOrder /\ OnItsWay /\ Whole
      /\ replay \in Seq(Events!Ids) /\ queue \in Seq(Events!Ids)
  BY IndParts DEF Events!StreamTypeOK
<1>2. /\ stage = "live" /\ stage' = "live"
      /\ UNCHANGED <<epoch, seq, taken, ring, mark, since>>
  BY DEF Events!Receive, Events!busVars, Events!stepVars
<1> DEFINE fromRing == replay # <<>> /\ Events!Show(Head(replay)) /\ replay' = Tail(replay) /\ queue' = queue
           fromChannel == /\ replay = <<>> /\ queue # <<>> /\ Events!Show(Head(queue))
                          /\ queue' = Tail(queue) /\ replay' = replay
           h == IF replay # <<>> THEN Head(replay) ELSE Head(queue)
<1>3. fromRing \/ fromChannel
  BY DEF Events!Receive
<1>4. h \in 1..MaxEvents /\ Events!Show(h)
  BY <1>1, <1>3, NextOf
<1>5. /\ known' \in Seq(Events!Event) /\ lastId' \in 0..MaxEvents
      /\ missed' \in SUBSET Events!Event /\ missed \subseteq missed'
      /\ Events!Range(known) \subseteq Events!Range(known')
      /\ Events!Here(h) \in Seen'
      /\ ShownInOrder'
  <2> HIDE DEF h
  <2> QED BY <1>2, <1>4, ShowKeeps
<1>6. /\ Top \in Nat /\ Top <= MaxEvents /\ lastId \in Nat /\ Top \in Int
  BY <1>1, TopFacts
<1>7. BusInOrder' /\ StepFollows' /\ Top' = Top
  BY <1>2, BusStays
<1>8. Events!StreamTypeOK'
  <2>1. /\ queue' \in Seq(Events!Ids) /\ Len(queue') <= BufferMax /\ replay' \in Seq(Events!Ids)
    <3>1. Len(queue) <= BufferMax /\ BufferMax \in Nat /\ Len(queue) \in Nat
      BY <1>1, StreamConstants, LenProperties DEF Events!StreamTypeOK
    <3>2. CASE fromRing
      BY <1>1, <3>1, <3>2, NextOf
    <3>3. CASE fromChannel
      <4>1. Len(Tail(queue)) = Len(queue) - 1 /\ Tail(queue) \in Seq(Events!Ids)
        BY <1>1, <3>3, NextOf
      <4> QED BY <1>1, <3>1, <3>3, <4>1
    <3> QED BY <1>3, <3>2, <3>3
  <2> QED BY <1>1, <1>2, <1>5, <2>1 DEF Events!StreamTypeOK, Events!Stages
<1>9. OnItsWay'
  <2> SUFFICES ASSUME NEW id \in Events!Range(ring)
               PROVE  \/ id \in Events!Range(replay') \cup Events!Range(queue')
                      \/ Events!Here(id) \in Events!Range(known') \cup missed'
    BY <1>2 DEF OnItsWay, Seen, Events!Here
  <2>1. Events!Here(h) \in Events!Range(known') \cup missed'
    BY <1>2, <1>5 DEF Seen, Events!Here
  <2>2. \/ id \in Events!Range(replay) \cup Events!Range(queue)
        \/ Events!Here(id) \in Events!Range(known) \cup missed
    BY <1>1, <1>2 DEF OnItsWay, Seen
  <2>3. CASE fromRing
    <3>1. Events!Range(replay) \subseteq {h} \cup Events!Range(replay')
      BY <1>1, <2>3, NextOf
    <3> QED BY <1>5, <2>1, <2>2, <2>3, <3>1
  <2>4. CASE fromChannel
    <3>1. Events!Range(queue) \subseteq {h} \cup Events!Range(queue')
      BY <1>1, <2>4, NextOf
    <3> QED BY <1>5, <2>1, <2>2, <2>4, <3>1
  <2> QED BY <1>3, <2>3, <2>4
<1>10. Whole'
  <2> SUFFICES ASSUME missed' = {} PROVE WholeDisplay' /\ WholeQueue' /\ WholeReplay'
    BY DEF Whole
  <2>1. missed = {} /\ WholeDisplay /\ WholeQueue /\ WholeReplay
    BY <1>1, <1>5 DEF Whole
  <2>2. Counts(queue, Top) /\ Len(queue) <= Top /\ Len(queue) \in Nat
    BY <1>2, <2>1, LenProperties DEF WholeQueue, Counts
  <2>3. CASE fromRing
    <3>1. /\ Head(replay) = replay[1] /\ Len(replay) \in Nat /\ Len(replay) >= 1
          /\ Len(Tail(replay)) = Len(replay) - 1
          /\ \A i \in 1..Len(Tail(replay)) : Tail(replay)[i] = replay[i + 1]
      BY <1>1, <2>3, NextOf
    <3>2. /\ ~Foreign /\ Follows(replay, lastId) /\ lastId + Len(replay) <= Top
          /\ Top - Len(queue) <= lastId + Len(replay)
      BY <1>2, <2>1, <2>3 DEF WholeReplay
    <3>3. h = lastId + 1 /\ h <= Top
      <4>1. 1 \in 1..Len(replay) /\ h = replay[1]
        BY <2>3, <3>1
      <4>2. replay[1] = lastId + 1
        BY <3>2, <4>1 DEF Follows
      <4> QED BY <1>6, <3>1, <3>2, <4>1, <4>2
    <3>4. WholeDisplay' /\ ~Foreign' /\ lastId' = lastId + 1
      <4> HIDE DEF h
      <4> QED BY <1>2, <1>4, <2>1, <3>2, <3>3, ShowWhole
    <3>5. Follows(Tail(replay), lastId + 1)
      <4>1. ASSUME NEW i \in 1..Len(Tail(replay)) PROVE Tail(replay)[i] = lastId + 1 + i
        <5>1. i + 1 \in 1..Len(replay) /\ Tail(replay)[i] = replay[i + 1]
          BY <3>1
        <5>2. replay[i + 1] = lastId + (i + 1)
          BY <3>2, <5>1 DEF Follows
        <5> QED BY <1>6, <5>1, <5>2
      <4> QED BY <4>1 DEF Follows
    <3>6. WholeQueue'
      BY <1>7, <2>2, <2>3 DEF WholeQueue
    <3>7. /\ lastId + 1 + Len(Tail(replay)) <= Top
          /\ Top - Len(queue) <= lastId + 1 + Len(Tail(replay))
      <4> DEFINE m == Len(Tail(replay))
      <4>1. m = Len(replay) - 1 /\ Len(replay) \in Nat
        BY <3>1
      <4>2. lastId + Len(replay) <= Top /\ Top - Len(queue) <= lastId + Len(replay)
        BY <3>2
      <4> HIDE DEF m
      <4>3. lastId + 1 + m = lastId + Len(replay)
        BY <1>6, <4>1
      <4>4. lastId + 1 + m <= Top /\ Top - Len(queue) <= lastId + 1 + m
        BY <4>2, <4>3
      <4> QED BY <4>4 DEF m
    <3> QED BY <1>7, <2>3, <3>4, <3>5, <3>6, <3>7 DEF WholeReplay, Follows
  <2>4. CASE fromChannel
    <3>1. /\ Counts(Tail(queue), Top) /\ Len(Tail(queue)) = Len(queue) - 1
          /\ Len(queue) >= 1 /\ h = Top - Len(queue) + 1
      BY <1>6, <2>2, <2>4, TailCounts, CountsEnds
    <3>2. WholeQueue'
      <4>1. Len(Tail(queue)) <= Top
        BY <1>6, <2>2, <3>1
      <4> QED BY <1>7, <2>4, <3>1, <4>1 DEF WholeQueue
    <3>3. CASE Foreign
      <4>1. Len(queue) = Top
        BY <1>2, <2>1, <3>3 DEF WholeReplay
      <4>2. lastId >= 1
        <5>1. known # <<>> /\ Len(known) \in Nat /\ lastId = Len(known) /\ known \in Seq(Events!Event)
          BY <2>1, <3>3, KnownFacts DEF Foreign, WholeDisplay
        <5> QED BY <5>1, EmptySeq
      <4>3. h <= lastId
        BY <1>6, <3>1, <4>1, <4>2
      <4>4. missed' = missed \cup ({Events!Here(h)} \ Events!Range(known))
        BY <1>4, <4>3 DEF Events!Show
      <4>5. Events!Here(h) \in Events!Range(known)
        BY <4>4
      <4> QED BY <2>1, <3>3, <4>5, WholeShows
    <3>4. CASE ~Foreign
      <4>1. /\ lastId <= Top /\ Top - Len(queue) <= lastId
        <5>1. Len(replay) = 0 /\ Top - Len(queue) <= lastId + Len(replay) /\ lastId + Len(replay) <= Top
          BY <1>2, <2>1, <2>4, <3>4 DEF WholeReplay
        <5> QED BY <1>6, <2>2, <5>1
      <4>2. ~Foreign' /\ WholeDisplay' /\ lastId' \in Nat /\ lastId' <= Top
            /\ Top - Len(Tail(queue)) <= lastId'
        <5>1. CASE h <= lastId
          <6>1. UNCHANGED <<known, lastId>>
            BY <1>4, <5>1 DEF Events!Show
          <6>2. WholeDisplay' /\ ~Foreign'
            BY <1>2, <2>1, <3>4, <6>1, DisplayStays
          <6>3. Top - Len(Tail(queue)) <= lastId
            BY <1>6, <2>2, <3>1, <5>1
          <6> QED BY <1>6, <4>1, <6>1, <6>2, <6>3
        <5>2. CASE ~(h <= lastId)
          <6>1. h = lastId + 1 /\ h <= Top
            BY <1>6, <2>2, <3>1, <4>1, <5>2
          <6>2. WholeDisplay' /\ ~Foreign' /\ lastId' = lastId + 1
            <7> HIDE DEF h
            <7> QED BY <1>2, <1>4, <2>1, <3>4, <6>1, ShowWhole
          <6>3. lastId + 1 <= Top /\ Top - Len(Tail(queue)) <= lastId + 1
            <7>1. lastId + 1 = Top - Len(queue) + 1 /\ Len(Tail(queue)) = Len(queue) - 1
              BY <3>1, <6>1
            <7>2. lastId + 1 <= Top
              BY <6>1
            <7> DEFINE m == Len(Tail(queue))
            <7>3. m = Len(queue) - 1 /\ lastId + 1 = Top - Len(queue) + 1
              BY <7>1
            <7> HIDE DEF h, m
            <7>4. Top - m = lastId + 1 /\ lastId + 1 \in Nat
              BY <1>6, <2>2, <7>3
            <7>5. Top - m <= lastId + 1
              BY <7>4
            <7> QED BY <7>2, <7>5 DEF m
          <6>4. lastId + 1 \in Nat
            BY <1>6
          <6> QED BY <6>2, <6>3, <6>4
        <5> QED BY <5>1, <5>2
      <4>3. replay' = <<>> /\ Len(<<>>) = 0
        BY <2>4
      <4>4. lastId' + 0 <= Top /\ Top - Len(Tail(queue)) <= lastId' + 0
        BY <4>2
      <4>5. Follows(<<>>, lastId')
        BY DEF Follows
      <4>6. WholeReplay'
        BY <1>7, <2>4, <4>2, <4>3, <4>4 DEF WholeReplay, Follows
      <4> QED BY <3>2, <4>2, <4>6
    <3> QED BY <3>3, <3>4
  <2> QED BY <1>3, <2>3, <2>4
<1> QED BY <1>5, <1>7, <1>8, <1>9, <1>10 DEF EventInd

\* Consecutive IDs as the events of this process.
LEMMA EventsOf ==
  ASSUME EventInd, NEW s, NEW top \in Nat, Counts(s, top), top <= MaxEvents, Len(s) <= top
  PROVE  /\ Events!Events(s) \in Seq(Events!Event) /\ Len(Events!Events(s)) = Len(s)
         /\ Len(s) \in Nat
         /\ \A i \in 1..Len(s) : /\ Events!Events(s)[i].epoch = epoch
                                 /\ Events!Events(s)[i].id = top - Len(s) + i
<1>1. /\ s \in Seq(Events!Ids) /\ Len(s) \in Nat /\ DOMAIN s = 1..Len(s)
      /\ \A i \in 1..Len(s) : s[i] \in Events!Ids
  BY CountsAreIds, LenProperties, ElementOfSeq
<1> DEFINE e == Events!Events(s)
<1>2. e = [i \in 1..Len(s) |-> Events!Here(s[i])]
  BY <1>1 DEF Events!Events
<1>3. \A i \in 1..Len(s) : Events!Here(s[i]) \in Events!Event
  BY <1>1, KnownFacts DEF Events!Here, Events!Event
<1> HIDE DEF e
<1>4. e \in [1..Len(s) -> Events!Event]
  BY <1>2, <1>3
<1>5. e \in Seq(Events!Event) /\ Len(e) = Len(s)
  BY <1>1, <1>2, <1>4, SeqDef
<1>6. \A i \in 1..Len(s) : e[i].epoch = epoch /\ e[i].id = s[i]
  BY <1>2 DEF Events!Here
<1> QED BY <1>1, <1>5, <1>6 DEF Counts, e

\* The window of recent events (server.go:336-342).
LEMMA WindowFacts ==
  ASSUME EventInd
  PROVE  LET evs == Events!Recent(RecentMax) IN
         /\ Counts(evs, Top) /\ Len(evs) \in Nat /\ Len(evs) <= Top
         /\ Events!Newest(evs) = Top
         /\ Top > 0 => evs # <<>> /\ Head(evs) = Top - Len(evs) + 1
<1> DEFINE evs == Events!Recent(RecentMax)
<1>1. /\ Top \in Nat /\ Top \in Int /\ Counts(ring, Top) /\ Len(ring) <= Top /\ Len(ring) \in Nat
      /\ ring = <<>> <=> Top = 0
      /\ ring = <<>> <=> Len(ring) = 0
  BY IndParts, TopFacts DEF BusInOrder
<1>2. /\ Counts(evs, Top)
      /\ Len(evs) = IF Len(ring) > RecentMax THEN RecentMax ELSE Len(ring)
  BY <1>1, StreamConstants, LastOfCounts DEF Events!Recent
<1> HIDE DEF evs
<1>3. /\ Len(evs) \in Nat /\ Len(evs) <= Top /\ evs \in Seq(Int)
      /\ Len(evs) = 0 <=> Top = 0
  BY <1>1, <1>2, StreamConstants DEF Counts
<1>4. CASE evs = <<>>
  <2>1. Len(evs) = 0
    BY <1>4
  <2> QED BY <1>1, <1>2, <1>3, <1>4, <2>1 DEF Events!Newest, evs
<1>5. CASE evs # <<>>
  <2>1. evs[Len(evs)] = Top /\ Head(evs) = Top - Len(evs) + 1
    BY <1>1, <1>2, <1>5, CountsEnds
  <2>2. Events!Newest(evs) = Top
    BY <1>5, <2>1 DEF Events!Newest, Events!Last
  <2> QED BY <1>2, <1>3, <1>5, <2>1, <2>2 DEF evs
<1> QED BY <1>4, <1>5

\* The first of a whole display is found by its ID, 1, and tells its process
\* (hooks.ts:47-49).
LEMMA SameProcess ==
  ASSUME EventInd, WholeDisplay, known # <<>>,
         NEW evs, evs # <<>>, Head(evs) = 1, ~Events!Restarted(evs)
  PROVE  known[1].epoch = epoch
<1> DEFINE at == {i \in 1..Len(known) : known[i].id = Head(evs)}
           first == IF at # {} THEN Events!Min(at) ELSE 0
<1>1. Len(known) \in Nat /\ Len(known) # 0
  BY KnownFacts, EmptySeq
<1>2. at = {1}
  BY <1>1 DEF WholeDisplay
<1>3. evs # <<>> /\ first # 0 /\ known[first].epoch # epoch => Events!Restarted(evs)
  BY DEF Events!Restarted, Events!SelectInSeq
<1>4. first = IF at # {} THEN Events!Min(at) ELSE 0
  OBVIOUS
<1> HIDE DEF at, first
<1>5. Events!Min({1}) = 1
  BY DEF Events!Min
<1>6. first = 1
  BY <1>2, <1>4, <1>5
<1> QED BY <1>3, <1>6

\* The display started over.
LEMMA ShownAgain ==
  ASSUME EventInd, NEW s, Counts(s, Top), Len(s) <= Top,
         known' = Events!Events(s), lastId' = Top, epoch' = epoch, Top' = Top
  PROVE  /\ known' \in Seq(Events!Event) /\ lastId' \in 0..MaxEvents
         /\ ShownInOrder'
         /\ Len(s) = Top => WholeDisplay'
<1>1. /\ Top \in Nat /\ Top <= MaxEvents /\ MaxEvents \in Nat /\ epoch \in Nat
  BY IndParts, TopFacts, KnownFacts, StreamConstants
<1>2. /\ known' \in Seq(Events!Event) /\ Len(known') = Len(s) /\ Len(s) \in Nat
      /\ \A i \in 1..Len(s) : known'[i].epoch = epoch /\ known'[i].id = Top - Len(s) + i
  BY <1>1, EventsOf
<1>3. DOMAIN known' = 1..Len(s)
  BY <1>2, LenProperties
<1>4. ASSUME NEW i \in 1..Len(s), NEW j \in 1..Len(s), i < j
      PROVE  known'[i].epoch = known'[j].epoch /\ known'[i].id < known'[j].id
  <2>1. Top - Len(s) + i < Top - Len(s) + j
    BY <1>1, <1>2, <1>4
  <2> QED BY <1>2, <2>1
<1>5. ASSUME NEW i \in 1..Len(s)
      PROVE  known'[i].epoch <= epoch' /\ (known'[i].epoch = epoch' => known'[i].id <= lastId')
  <2>1. known'[i].id <= Top
    BY <1>1, <1>2
  <2> QED BY <1>1, <1>2, <2>1
<1>6. ShownInOrder'
  BY <1>2, <1>3, <1>4, <1>5 DEF ShownInOrder, Events!DisplayInOrder
<1>7. ASSUME Len(s) = Top PROVE WholeDisplay'
  <2>1. ASSUME NEW i \in 1..Len(s) PROVE known'[i].id = i /\ known'[i].epoch = known'[1].epoch
    <3>1. 1 \in 1..Len(s) /\ Top - Len(s) + i = i
      BY <1>1, <1>2, <1>7
    <3> QED BY <1>2, <3>1
  <2>2. lastId' <= Top'
    BY <1>1
  <2> QED BY <1>2, <1>7, <2>1, <2>2 DEF WholeDisplay
<1> QED BY <1>1, <1>2, <1>6, <1>7

\* The display with newer events at its end.
LEMMA ShownMore ==
  ASSUME EventInd, NEW s, Counts(s, Top), Len(s) <= Top,
         s # <<>> => Len(s) <= Top - lastId,
         known' = known \o Events!Events(s), lastId' = (IF s = <<>> THEN lastId ELSE Top),
         epoch' = epoch, Top' = Top
  PROVE  /\ known' \in Seq(Events!Event) /\ lastId' \in 0..MaxEvents
         /\ ShownInOrder'
         /\ WholeDisplay /\ lastId <= Top /\ Len(s) = Top - lastId /\ ~Foreign => WholeDisplay'
<1> DEFINE e == Events!Events(s)
           n == Len(known)
           m == Len(s)
<1>1. /\ Top \in Nat /\ Top <= MaxEvents /\ MaxEvents \in Nat /\ epoch \in Nat
      /\ lastId \in Nat /\ lastId <= MaxEvents /\ n \in Nat
  BY IndParts, TopFacts, KnownFacts, StreamConstants
<1>2. /\ e \in Seq(Events!Event) /\ Len(e) = m /\ m \in Nat
      /\ \A i \in 1..m : e[i].epoch = epoch /\ e[i].id = Top - m + i
  BY <1>1, EventsOf
<1>3. known \in Seq(Events!Event) /\ known' = known \o e
  BY KnownFacts
<1>4. s = <<>> <=> m = 0
  BY EmptySeq DEF Counts
<1>5. lastId' = (IF m = 0 THEN lastId ELSE Top) /\ (m # 0 => m <= Top - lastId)
  BY <1>4
<1> HIDE DEF e, m, n
<1>6. /\ known' \in Seq(Events!Event) /\ Len(known') = n + m
      /\ \A i \in 1..(n + m) : known'[i] = IF i <= n THEN known[i] ELSE e[i - n]
  BY <1>2, <1>3, ConcatProperties DEF n
<1>7. DOMAIN known' = 1..(n + m)
  BY <1>6, LenProperties
<1>8. \A i \in 1..n : i \in 1..(n + m) /\ known'[i] = known[i]
  BY <1>1, <1>2, <1>6
<1>9. ASSUME NEW i \in 1..(n + m), i > n
      PROVE  /\ i - n \in 1..m /\ m # 0
             /\ known'[i].epoch = epoch /\ known'[i].id = Top - m + (i - n)
             /\ known'[i].id > lastId /\ known'[i].id <= Top
  <2>1. i - n \in 1..m /\ m # 0 /\ ~(i <= n)
    BY <1>1, <1>2, <1>9
  <2> DEFINE k == i - n
  <2>2. k \in 1..m /\ known'[i] = e[k]
    BY <1>6, <2>1
  <2> HIDE DEF k
  <2>3. known'[i].epoch = epoch /\ known'[i].id = Top - m + k
    BY <1>2, <2>2
  <2>4. Top - m + k > lastId /\ Top - m + k <= Top
    BY <1>1, <1>2, <1>5, <2>1, <2>2
  <2> QED BY <2>1, <2>3, <2>4 DEF k
<1>10. lastId' \in 0..MaxEvents /\ lastId' \in Nat /\ lastId <= lastId' /\ (m # 0 => lastId' = Top)
  BY <1>1, <1>2, <1>5
<1>11. ASSUME NEW i \in 1..(n + m)
       PROVE  known'[i].epoch <= epoch' /\ (known'[i].epoch = epoch' => known'[i].id <= lastId')
  <2>1. CASE i <= n
    <3>1. i \in 1..n
      BY <1>1, <2>1
    <3>2. /\ known[i].epoch <= epoch /\ known[i].id \in Nat
          /\ known[i].epoch = epoch => known[i].id <= lastId
      BY <3>1, KnownFacts DEF n
    <3>3. known[i].epoch = epoch => known[i].id <= lastId'
      BY <1>1, <1>10, <3>2
    <3> QED BY <1>8, <3>1, <3>2, <3>3
  <2>2. CASE i > n
    <3>1. known'[i].epoch = epoch /\ known'[i].id <= Top /\ m # 0
      BY <1>9, <2>2
    <3>2. lastId' = Top /\ epoch <= epoch'
      BY <1>1, <1>10, <3>1
    <3> QED BY <3>1, <3>2
  <2>3. i <= n \/ i > n
    BY <1>1, <1>2
  <2> QED BY <2>1, <2>2, <2>3
<1>12. ASSUME NEW i \in 1..(n + m), NEW j \in 1..(n + m), i < j
       PROVE  \/ known'[i].epoch < known'[j].epoch
              \/ known'[i].epoch = known'[j].epoch /\ known'[i].id < known'[j].id
  <2>1. CASE j <= n
    <3>1. i \in 1..n /\ j \in 1..n
      BY <1>1, <1>12, <2>1
    <3> QED BY <1>8, <1>12, <3>1, KnownFacts DEF n
  <2>2. CASE i <= n /\ j > n
    <3>1. i \in 1..n
      BY <1>1, <2>2
    <3>2. known'[j].epoch = epoch /\ known'[j].id > lastId /\ known'[j].id = Top - m + (j - n)
      BY <1>9, <2>2
    <3>3. /\ known[i].epoch \in Nat /\ known[i].epoch <= epoch /\ known[i].id \in Nat
          /\ known[i].epoch = epoch => known[i].id <= lastId
      BY <3>1, KnownFacts DEF n
    <3>4. known'[j].id \in Int
      BY <1>1, <1>2, <3>2
    <3>5. known'[i] = known[i]
      BY <1>8, <3>1
    <3>6. CASE known[i].epoch = epoch
      <4>1. known[i].id < known'[j].id
        BY <1>1, <3>2, <3>3, <3>4, <3>6
      <4> QED BY <3>2, <3>5, <3>6, <4>1
    <3>7. CASE known[i].epoch # epoch
      <4>1. known[i].epoch < epoch
        BY <1>1, <3>3, <3>7
      <4> QED BY <3>2, <3>5, <4>1
    <3> QED BY <3>6, <3>7
  <2>3. CASE i > n
    <3>1. j > n
      BY <1>1, <1>12, <2>3
    <3>2. /\ known'[i].epoch = epoch /\ known'[i].id = Top - m + (i - n)
          /\ known'[j].epoch = epoch /\ known'[j].id = Top - m + (j - n)
      BY <1>9, <2>3, <3>1
    <3>3. Top - m + (i - n) < Top - m + (j - n)
      BY <1>1, <1>2, <1>12
    <3> QED BY <3>2, <3>3
  <2>4. (i <= n \/ i > n) /\ (j <= n \/ j > n)
    BY <1>1, <1>2
  <2> QED BY <2>1, <2>2, <2>3, <2>4
<1>13. ShownInOrder'
  BY <1>6, <1>7, <1>11, <1>12 DEF ShownInOrder, Events!DisplayInOrder
<1>14. ASSUME WholeDisplay, lastId <= Top, m = Top - lastId, ~Foreign PROVE WholeDisplay'
  <2>1. n = lastId /\ n + m = Top
    BY <1>1, <1>14 DEF WholeDisplay, n
  <2>2. lastId' = Top
    BY <1>1, <1>5, <1>14
  <2>3. ASSUME NEW i \in 1..(n + m) PROVE known'[i].id = i /\ known'[i].epoch = epoch
    <3>1. CASE i <= n
      <4>1. i \in 1..n /\ 1 \in 1..n /\ known # <<>>
        BY <1>1, <3>1 DEF n
      <4>2. known[i].id = i /\ known[i].epoch = known[1].epoch /\ known[1].epoch = epoch
        BY <1>14, <4>1 DEF WholeDisplay, Foreign, n
      <4> QED BY <1>8, <4>1, <4>2
    <3>2. CASE i > n
      <4>1. known'[i].epoch = epoch /\ known'[i].id = Top - m + (i - n)
        BY <1>9, <3>2
      <4>2. Top - m + (i - n) = i
        BY <1>1, <1>2, <2>1
      <4> QED BY <4>1, <4>2
    <3>3. i <= n \/ i > n
      BY <1>1, <1>2
    <3> QED BY <3>1, <3>2, <3>3
  <2>4. \A i \in 1..Len(known') : known'[i].id = i /\ known'[i].epoch = known'[1].epoch
    <3>1. \A i \in 1..(n + m) : 1 \in 1..(n + m)
      BY <1>1, <1>2
    <3> QED BY <1>6, <2>3, <3>1
  <2>5. Len(known') = lastId' /\ lastId' <= Top'
    BY <1>1, <1>6, <2>1, <2>2
  <2> QED BY <2>4, <2>5 DEF WholeDisplay
<1> QED BY <1>6, <1>10, <1>13, <1>14 DEF m

\* What is fetched follows what is on display, or starts it over; without a gap
\* if the window reaches back to the first event (hooks.ts:43-62).
LEMMA SyncKeeps ==
  ASSUME EventInd, Events!Sync
  PROVE  EventInd'
<1> DEFINE evs == Events!Recent(RecentMax)
           fresh == Events!Newer(evs, lastId)
           gone == {id \in 1..seq : evs # <<>> /\ id < Head(evs)}
<1>1. /\ stage' = "synced"
      /\ IF Events!Restarted(evs)
           THEN known' = Events!Events(evs) /\ lastId' = Events!Newest(evs)
           ELSE /\ known' = known \o Events!Events(fresh)
                /\ lastId' = IF fresh = <<>> THEN lastId ELSE Events!Newest(evs)
      /\ missed' = missed \cup {Events!Here(id) : id \in gone}
      /\ UNCHANGED <<epoch, seq, taken, ring, mark, since, queue, replay>>
  BY DEF Events!Sync, Events!busVars, Events!stepVars
<1>2. /\ Events!StreamTypeOK /\ BusInOrder /\ ShownInOrder /\ Whole
  BY IndParts
<1>3. /\ Top \in Nat /\ Top <= MaxEvents /\ Top <= seq /\ seq \in Nat /\ seq <= MaxEvents
      /\ lastId \in Nat /\ lastId <= MaxEvents /\ MaxEvents \in Nat
      /\ epoch \in 1..MaxEpochs /\ epoch \in Nat
  BY <1>2, TopFacts, KnownFacts, StreamConstants
<1>4. /\ Counts(evs, Top) /\ Len(evs) \in Nat /\ Len(evs) <= Top /\ Events!Newest(evs) = Top
      /\ Top > 0 => evs # <<>> /\ Head(evs) = Top - Len(evs) + 1
  BY WindowFacts
<1>5. gone \subseteq 1..seq /\ (evs # <<>> => \A id \in 1..seq : id < Head(evs) => id \in gone)
  OBVIOUS
<1>6. Events!Restarted(evs) \/ (~Events!Restarted(evs) /\ (lastId > 0 => ~(Events!Newest(evs) < lastId)))
  BY DEF Events!Restarted
<1> HIDE DEF evs, gone
<1>7. /\ Counts(fresh, Top)
      /\ Len(fresh) = IF lastId >= Top THEN 0
                      ELSE IF Len(evs) < Top - lastId THEN Len(evs) ELSE Top - lastId
  <2>1. Top \in Int /\ lastId \in Int
    BY <1>3
  <2> QED BY <1>4, <2>1, NewerCounts
<1> HIDE DEF fresh
<1>8. Len(fresh) \in Nat /\ Len(fresh) <= Top /\ (fresh # <<>> => Len(fresh) <= Top - lastId)
  <2>1. fresh # <<>> => Len(fresh) # 0
    BY <1>7, EmptySeq DEF Counts
  <2> QED BY <1>3, <1>4, <1>7, <2>1
<1>9. BusInOrder' /\ StepFollows' /\ Top' = Top
  BY <1>1, BusStays
<1>10. /\ known' \in Seq(Events!Event) /\ lastId' \in 0..MaxEvents /\ ShownInOrder'
  <2>1. CASE Events!Restarted(evs)
    BY <1>1, <1>4, <1>9, <2>1, ShownAgain
  <2>2. CASE ~Events!Restarted(evs)
    BY <1>1, <1>4, <1>7, <1>8, <1>9, <2>2, ShownMore
  <2> QED BY <2>1, <2>2
<1>11. Events!StreamTypeOK'
  <2>1. \A id \in gone : id \in 1..MaxEvents
    BY <1>3, <1>5
  <2>2. \A id \in gone : Events!Here(id) \in Events!Event
    BY <1>3, <2>1, StreamConstants DEF Events!Here, Events!Event
  <2>3. missed' \in SUBSET Events!Event
    BY <1>1, <1>2, <2>2 DEF Events!StreamTypeOK
  <2> QED BY <1>1, <1>2, <1>10, <2>3 DEF Events!StreamTypeOK, Events!Stages
<1>12. OnItsWay'
  BY <1>1 DEF OnItsWay
<1>13. Whole'
  <2> SUFFICES ASSUME missed' = {} PROVE WholeDisplay'
    BY <1>1 DEF Whole, WholeQueue, WholeReplay
  <2>1. WholeDisplay /\ gone = {}
    BY <1>1, <1>2 DEF Whole
  <2>2. Len(evs) = Top /\ (Top > 0 => evs # <<>> /\ Head(evs) = 1)
    <3>1. CASE Top = 0
      BY <1>3, <1>4, <3>1
    <3>2. CASE Top > 0
      <4>1. 1 \in 1..seq /\ evs # <<>> /\ Head(evs) = Top - Len(evs) + 1
        BY <1>3, <1>4, <3>2
      <4>2. ~(1 < Head(evs))
        BY <1>5, <2>1, <4>1
      <4>3. Len(evs) = Top
        BY <1>3, <1>4, <4>1, <4>2
      <4>4. Head(evs) = 1
        BY <1>3, <4>1, <4>3
      <4> QED BY <4>1, <4>3, <4>4
    <3> QED BY <1>3, <3>1, <3>2
  <2>3. CASE Events!Restarted(evs)
    BY <1>1, <1>4, <1>9, <2>2, <2>3, ShownAgain
  <2>4. CASE ~Events!Restarted(evs)
    <3>1. lastId <= Top
      BY <1>3, <1>4, <1>6, <2>4
    <3>2. Len(fresh) = Top - lastId
      BY <1>3, <1>7, <2>2, <3>1
    <3>3. ~Foreign
      <4>1. CASE known = <<>>
        BY <4>1 DEF Foreign
      <4>2. CASE known # <<>>
        <5>1. Len(known) \in Nat /\ Len(known) # 0 /\ lastId = Len(known)
          BY <2>1, <4>2, KnownFacts, EmptySeq DEF WholeDisplay
        <5>2. Top > 0
          BY <1>3, <3>1, <5>1
        <5>3. known[1].epoch = epoch
          BY <2>1, <2>2, <2>4, <4>2, <5>2, SameProcess
        <5> QED BY <5>3 DEF Foreign
      <4> QED BY <4>1, <4>2
    <3> QED BY <1>1, <1>4, <1>7, <1>8, <1>9, <2>1, <2>4, <3>1, <3>2, <3>3, ShownMore
  <2> QED BY <2>3, <2>4
<1> QED BY <1>9, <1>10, <1>11, <1>12, <1>13 DEF EventInd

LEMMA EventNext == OneProducer /\ EventInd /\ (Events!Next \/ UNCHANGED eventVars) => EventInd'
<1> SUFFICES ASSUME OneProducer, EventInd, Events!Next \/ UNCHANGED eventVars PROVE EventInd'
  OBVIOUS
<1>1. ASSUME NEW p \in Producers, Events!TakeId(p) PROVE EventInd'
  BY <1>1, TakeIdKeeps
<1>2. ASSUME NEW p \in Producers, Events!Deliver(p) PROVE EventInd'
  BY <1>2, DeliverKeeps
<1>3. CASE Events!StartStep
  BY <1>3, StartStepKeeps
<1>4. CASE Events!Restart
  BY <1>4, RestartKeeps
<1>5. CASE Events!Sync
  BY <1>5, SyncKeeps
<1>6. CASE Events!SyncFailed \/ Events!Connect \/ Events!Disconnect
  BY <1>6, LinkKeeps
<1>7. CASE Events!Replay
  BY <1>7, ReplayKeeps
<1>8. CASE Events!Receive
  BY <1>8, ReceiveKeeps
<1>9. CASE UNCHANGED eventVars
  <2>1. Events!StreamTypeOK /\ OnItsWay /\ Whole
    BY IndParts
  <2>2. UNCHANGED <<epoch, seq, taken, ring, mark, since, stage, queue, replay,
                    known, lastId, missed>>
    BY <1>9 DEF eventVars
  <2>3. Events!StreamTypeOK'
    BY <2>1, <2>2 DEF Events!StreamTypeOK
  <2>4. BusInOrder' /\ StepFollows' /\ Top' = Top
    BY <2>2, BusStays
  <2>5. ShownInOrder' /\ (WholeDisplay => WholeDisplay') /\ (Foreign' <=> Foreign)
    BY <2>2, DisplayStays
  <2>6. OnItsWay'
    BY <2>1, <2>2 DEF OnItsWay, Seen, Events!Here
  <2>7. Whole'
    <3>1. (WholeQueue => WholeQueue') /\ (WholeReplay => WholeReplay')
      BY <2>2, <2>4, <2>5 DEF WholeQueue, WholeReplay
    <3> QED BY <2>1, <2>2, <2>5, <3>1 DEF Whole
  <2> QED BY <2>3, <2>4, <2>5, <2>6, <2>7 DEF EventInd
<1> QED BY <1>1, <1>2, <1>3, <1>4, <1>5, <1>6, <1>7, <1>8, <1>9 DEF Events!Next

LEMMA EventInvariant == OneProducer => (Spec => []EventInd)
<1> SUFFICES ASSUME OneProducer PROVE Spec => []EventInd
  OBVIOUS
<1>1. Init => EventInd
  BY EventInit DEF Init
<1>2. EventInd /\ [Next]_vars => EventInd'
  BY EventNext DEF Next, vars
<1> QED BY <1>1, <1>2, PTL DEF Spec

\* What the browser shows is in order, whole and of one process, but for what it
\* is known to have missed (server.go:358-366, hooks.ts:46-61), with one publisher:
\* two may put their events into the ring in the wrong order (bus.go:39).
THEOREM EventsAreWhole == OneProducer => (Spec => []DisplayInv)
<1> SUFFICES ASSUME OneProducer PROVE Spec => []DisplayInv
  OBVIOUS
<1>1. Spec => []EventInd
  BY EventInvariant
<1>2. EventInd => DisplayInv
  BY EventIndImplies
<1> QED BY <1>1, <1>2, PTL

\* A step counts the events since its start (executor.go:888-910), with one
\* publisher.
THEOREM StepsCountTheirs == OneProducer => (Spec => []StepCountsItsEvents)
<1> SUFFICES ASSUME OneProducer PROVE Spec => []StepCountsItsEvents
  OBVIOUS
<1>1. Spec => []EventInd
  BY EventInvariant
<1>2. EventInd => StepCountsItsEvents
  BY EventIndImplies
<1> QED BY <1>1, <1>2, PTL
==============================================================================
