------------------------------ MODULE AlertLog ------------------------------
(***************************************************************************)
(* What the publisher of alerts remembers and gives away: the alert log    *)
(* and the sync host (bsv-regtest/alerts), the keyring (internal/api) and  *)
(* the process that opens them, which may crash and start again.           *)
(*                                                                         *)
(* An alert is a number; the numbers are given out in the order in which   *)
(* alerts are built, so two alerts built for one sequence differ, unless   *)
(* the same alert is built twice within a second.  The nodes (external)    *)
(* ask for the sequence after their latest one and keep what they get.     *)
(***************************************************************************)
EXTENDS Integers, Sequences, FiniteSets, FiniteSetsExt, TLC

CONSTANTS
  Nodes,      \* peers of the alert network
  Requests,   \* concurrent builds
  Names,      \* names of keys
  MaxSeq,     \* bound: alert sequences
  MaxMade,    \* bound: alerts built
  MaxFaults   \* bound: writes cut short

AlertAssumption ==
  /\ {MaxSeq, MaxMade, MaxFaults} \subseteq Nat
  /\ Names \cap {"miner", "torn"} = {}

Seqs == 1..MaxSeq
None == -1    \* no watermark, no stream

VARIABLES
  up, faults,     \* is the process running?  writes cut short so far
  file, mem,      \* the log on disk and in memory: the alert at each sequence, or 0
  made, job,      \* alerts built; the sequence each build has chosen, or 0
  keyFile, ring,  \* the keyring on disk ("torn" if cut short) and in memory
  wm, dflt,       \* Host.watermarks, Host.defaultWM
  push,           \* open push streams: <<node, upTo>>
  sync,           \* what each inbound stream may learn, None if there is none
  cast,           \* the sequence a broadcast has read, or 0
  has,            \* the alerts each node holds, by sequence
  lost,           \* history: has the log failed to save an alert?
  kept, keys,     \* history: alerts and keys whose request was answered
  meant           \* history: the highest sequence each node was to learn

disk == <<file, keyFile>>
host == <<wm, dflt, push, sync>>
history == <<lost, kept, keys, meant>>
vars == <<up, faults, disk, mem, made, job, ring, host, cast, has, history>>

AlertTypeOK ==
  /\ up \in BOOLEAN /\ faults \in 0..MaxFaults /\ made \in 0..MaxMade
  /\ {file, mem} \subseteq [Seqs -> 0..made] /\ job \in [Requests -> 0..MaxSeq]
  /\ keyFile \subseteq Names \cup {"torn"} /\ ring \subseteq Names \cup {"miner"}
  /\ wm \in [Nodes -> None..MaxSeq] /\ dflt \in 0..MaxSeq
  /\ push \subseteq Nodes \X Seqs /\ sync \in [Nodes -> None..MaxSeq]
  /\ cast \in 0..MaxSeq
  /\ has \in [Nodes -> Seq(1..made)] /\ \A n \in Nodes : Len(has[n]) <= MaxSeq
  /\ kept \subseteq Seqs \X (1..made) /\ keys \subseteq Names
  /\ meant \in [Nodes -> 0..MaxSeq] /\ lost \in BOOLEAN

Init ==
  /\ up = FALSE /\ faults = 0 /\ made = 0 /\ job = [r \in Requests |-> 0]
  /\ file = [s \in Seqs |-> 0] /\ mem = file /\ keyFile = {} /\ ring = {}
  /\ wm = [n \in Nodes |-> None] /\ dflt = 0
  /\ push = {} /\ sync = [n \in Nodes |-> None] /\ cast = 0
  /\ has = [n \in Nodes |-> <<>>]
  /\ lost = FALSE /\ kept = {} /\ keys = {} /\ meant = [n \in Nodes |-> 0]

Raise(ns, s) == meant' = [n \in Nodes |-> IF n \in ns /\ s > meant[n] THEN s ELSE meant[n]]

------------------------------------------------------------------------------
(* The process *)

\* Mutant: one past the latest.
LatestAfter(entries) == Max({0} \cup {s \in Seqs : entries[s] # 0}) + 1

Latest(entries) == Max({0} \cup {s \in Seqs : entries[s] # 0})

\* Mutant: a keyring that cannot be decoded counts as none.
ReadableAlways(content) == TRUE

\* What OpenKeyring makes of its file; a file it cannot decode stops the start.
Readable(content) == "torn" \notin content

\* run of the orchestrator, whose default watermark is 0, or an alertctl
\* command; "serve" serves what its flag says, the whole log by default.
Open(watermark) ==
  /\ ~up /\ Readable(keyFile)
  /\ up' = TRUE /\ mem' = file /\ ring' = (keyFile \cap Names) \cup {"miner"}
  /\ dflt' = watermark /\ wm' = [n \in Nodes |-> None]
  /\ Raise(Nodes, watermark)
  /\ UNCHANGED <<faults, disk, made, job, push, sync, cast, has, lost, kept, keys>>

\* The process ends; memory, requests and streams go with it.
Stopped ==
  /\ up' = FALSE /\ job' = [r \in Requests |-> 0]
  /\ mem' = [s \in Seqs |-> 0] /\ ring' = {}
  /\ wm' = [n \in Nodes |-> None] /\ dflt' = 0
  /\ push' = {} /\ sync' = [n \in Nodes |-> None] /\ cast' = 0

\* A command is over, a signal, a crash: at any time.
Exit == up /\ Stopped /\ UNCHANGED <<faults, disk, made, has, history>>

------------------------------------------------------------------------------
(* The log *)

\* BuildAlert, up to the signature: a sequence is asked for, or the next one.
Choose(r, asked) ==
  /\ up /\ job[r] = 0
  /\ job' = [job EXCEPT ![r] = IF asked = 0 THEN Latest(mem) + 1 ELSE asked]
  /\ job'[r] \in Seqs
  /\ UNCHANGED <<up, faults, disk, mem, made, ring, host, cast, has, history>>

\* Mutant: an append takes the sequence it has chosen.
FreeAlways(s, a) == TRUE

\* Log.Append refuses a sequence that holds another alert.
Free(s, a) == mem[s] \in {0, a}

\* Mutant: the file is written in place.
SaveInPlace(ok, content) == file' = IF ok THEN content ELSE [s \in Seqs |-> 0]

\* saveLocked writes a temporary file and renames it: nothing, or everything.
Save(ok, content) == file' = IF ok THEN content ELSE file

\* Log.Append, in one piece under its lock.  The entry is in memory before the
\* save is tried, and stays there if it fails.  "crash": the process ends after
\* the rename and before the answer.
Record(r, a, outcome) ==
  /\ up /\ job[r] # 0
  /\ a \in {made + 1, mem[job[r]]} \cap (1..MaxMade)
  /\ made' = Max({a, made})
  /\ outcome = "ok" \/ (Free(job[r], a) /\ faults < MaxFaults)
  /\ faults' = IF outcome = "ok" THEN faults ELSE faults + 1
  /\ LET s == job[r]
         content == IF Free(s, a) THEN [mem EXCEPT ![s] = a] ELSE mem
     IN /\ IF Free(s, a) THEN Save(outcome # "fails", content) ELSE UNCHANGED file
        /\ kept' = IF outcome = "ok" /\ Free(s, a) THEN kept \cup {<<s, a>>} ELSE kept
        /\ lost' = (lost \/ outcome = "fails")
        /\ IF outcome = "crash" THEN Stopped
           ELSE /\ mem' = content /\ job' = [job EXCEPT ![r] = 0]
                /\ UNCHANGED <<up, ring, host, cast>>
  /\ UNCHANGED <<keyFile, has, keys, meant>>

------------------------------------------------------------------------------
(* The keyring *)

\* Keyring.New: its file is truncated, then written.  "fails" and "crash" may
\* leave it as it was or cut it short.
NewKey(name, outcome, content) ==
  /\ up /\ name \notin ring
  /\ outcome = "ok" \/ faults < MaxFaults
  /\ faults' = IF outcome = "ok" THEN faults ELSE faults + 1
  /\ LET all == (ring \cup {name}) \ {"miner"} IN
     content \in IF outcome = "ok" THEN {all} ELSE {keyFile, {"torn"}, all}
  /\ keyFile' = content
  /\ keys' = IF outcome = "ok" THEN keys \cup {name} ELSE keys
  /\ IF outcome = "crash" THEN Stopped
     ELSE ring' = ring \cup {name} /\ UNCHANGED <<up, job, mem, host, cast>>
  /\ UNCHANGED <<file, made, has, lost, kept, meant>>

------------------------------------------------------------------------------
(* The host *)

Watermark(n) == IF wm[n] = None THEN dflt ELSE wm[n]

\* Host.Push, up to its first frame.  The watermark is set as soon as the peer
\* is connected, whether its stream opens or not.
Push(n, s, opens) ==
  /\ up /\ mem[s] # 0 /\ <<n, s>> \notin push
  /\ wm' = [wm EXCEPT ![n] = s]
  /\ Raise({n}, s)
  /\ push' = IF opens THEN push \cup {<<n, s>>} ELSE push
  /\ UNCHANGED <<up, faults, disk, mem, made, job, ring, dflt, sync, cast, has, lost, kept, keys>>

Next1(n) == Len(has[n]) + 1
Take(n, a) == has' = [has EXCEPT ![n] = Append(@, a)]

\* Mutant: the limit is not looked at.
ServesAll(n, limit) == Next1(n) \in Seqs /\ mem[Next1(n)] # 0

\* What a stream that may serve up to a limit answers to the node's request.
Serves(n, limit) == Next1(n) <= limit /\ Next1(n) \in Seqs /\ mem[Next1(n)] # 0

\* Push, one request of the peer: served, or the end of the stream.
Pull(n, s) ==
  /\ <<n, s>> \in push
  /\ IF Serves(n, s) THEN Take(n, mem[Next1(n)]) /\ UNCHANGED push
                     ELSE push' = push \ {<<n, s>>} /\ UNCHANGED has
  /\ UNCHANGED <<up, faults, disk, mem, made, job, ring, wm, dflt, sync, cast, history>>

\* The peer closes the stream, or its deadline passes.
PushEnds(n, s) ==
  /\ <<n, s>> \in push /\ push' = push \ {<<n, s>>}
  /\ UNCHANGED <<up, faults, disk, mem, made, job, ring, wm, dflt, sync, cast, has, history>>

\* serve reads the watermark once, when a peer opens a stream.
Serve(n) ==
  /\ up /\ sync[n] = None
  /\ sync' = [sync EXCEPT ![n] = Watermark(n)]
  /\ UNCHANGED <<up, faults, disk, mem, made, job, ring, wm, dflt, push, cast, has, history>>

\* serve, one request of the peer: served, or the end of the stream.
Served(n) ==
  /\ sync[n] # None
  /\ IF Serves(n, sync[n]) THEN Take(n, mem[Next1(n)]) /\ UNCHANGED sync
                           ELSE sync' = [sync EXCEPT ![n] = None] /\ UNCHANGED has
  /\ UNCHANGED <<up, faults, disk, mem, made, job, ring, wm, dflt, push, cast, history>>

------------------------------------------------------------------------------
(* alertctl broadcast *)

\* The wire is read from the log, then the network is joined (StartGossip).
Join(s) ==
  /\ up /\ cast = 0 /\ mem[s] # 0 /\ cast' = s
  /\ UNCHANGED <<up, faults, disk, mem, made, job, ring, host, has, history>>

\* Publish waits for a subscribed peer; without one the command fails.  It
\* reaches the nodes subscribed at that moment.
Publish(mesh) ==
  /\ cast # 0 /\ cast' = 0
  /\ Raise(mesh, cast)
  /\ has' = [n \in Nodes |-> IF n \in mesh /\ Next1(n) = cast
                             THEN Append(has[n], mem[cast]) ELSE has[n]]
  /\ UNCHANGED <<up, faults, disk, mem, made, job, ring, host, lost, kept, keys>>

------------------------------------------------------------------------------
Outcomes == {"ok", "fails", "crash"}

Process == Exit \/ \E w \in {0, Latest(file)} : Open(w)
Build(r) == \/ \E s \in 0..MaxSeq : Choose(r, s)
            \/ \E a \in 1..MaxMade, o \in Outcomes : Record(r, a, o)
AddKey == \E k \in Names \cup {"miner"}, o \in Outcomes, c \in SUBSET (Names \cup {"torn"}) : NewKey(k, o, c)
Deliver(n) == \/ \E s \in Seqs : Pull(n, s) \/ PushEnds(n, s) \/ \E b \in BOOLEAN : Push(n, s, b)
              \/ Serve(n) \/ Served(n)
Broadcast == (\E s \in Seqs : Join(s)) \/ \E mesh \in SUBSET Nodes : Publish(mesh)

Next ==
  \/ Process
  \/ \E r \in Requests : Build(r)
  \/ AddKey
  \/ \E n \in Nodes : Deliver(n)
  \/ Broadcast

Spec == Init /\ [][Next]_vars

------------------------------------------------------------------------------
(* Properties *)

\* An alert whose build was answered is in the log of every process that runs
\* from then on, at its sequence: a crash loses no answered alert, a failed save
\* does not undo earlier ones, and no later build replaces it (log.go:60-82,
\* 126-147).
BuiltIsKept == up => \A e \in kept : mem[e[1]] = e[2]

\* What a node holds at a sequence is what the log of every running process
\* has there, whichever way the node learned it, so no two nodes differ; unless
\* a save of the log has failed: then the alert is in memory only, may be
\* delivered, and its sequence is given again after a restart (log.go:60-82,
\* server.go:496-505).
OneAlertPerSequence ==
  up /\ ~lost => \A n \in Nodes : \A i \in 1..Len(has[n]) : has[n][i] = mem[i]

\* A node never learns more than a push, a broadcast or the default watermark
\* of a process was for it, although its watermark is set before the stream is
\* open and an inbound stream keeps the one it began with (host.go:33-34, 218,
\* 270).
NeverAhead == \A n \in Nodes : Len(has[n]) <= meant[n]

\* A key whose creation was answered is in the ring of every process that runs
\* from then on: a keyring cut short by a crash stops the start, and is not
\* taken for an empty one (keyring.go:36-46, 149).
KeysKept == up => keys \subseteq ring
=============================================================================
