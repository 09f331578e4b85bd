----------------------------- MODULE FleetWatch -----------------------------
(***************************************************************************)
(* The fleet observer: internal/observe/fleet.go.                          *)
(*                                                                         *)
(* Every node has a poll of its state, a probe of its alert sequence and a *)
(* refresh of every watched outpoint, each in a loop of its own; requests  *)
(* and scenario steps refresh, watch, unwatch and partition beside them.   *)
(* Only the writes to the snapshot are made under Fleet.mu: what they      *)
(* write was asked for earlier.  Tips and sequences are numbers, -1 while  *)
(* unknown; of the other fields of a node only those of the alert plane    *)
(* and the partition flag differ in how they are written.  Rounds, in      *)
(* which the loops of the nodes wait for one another, are left out.        *)
(***************************************************************************)
EXTENDS Integers

CONSTANTS
  Nodes,      \* inventory nodes
  Outpoints,  \* outputs somebody may watch
  Callers,    \* who refreshes: "loop" and others (HTTP, scenario steps)
  MaxTip,     \* bound: blocks
  MaxSeq,     \* bound: alerts
  MaxChanges  \* bound: changes to nodes, outputs and partitions

ASSUME FleetAssumption ==
  /\ "loop" \in Callers
  /\ {MaxTip, MaxSeq, MaxChanges} \subseteq Nat

VARIABLES
  kind,     \* configuration: "teranode" or "svnode"
  up, tip, seq, utxo, freeze,  \* the nodes: reachable? height, alerts, outputs,
                               \* height from which an output is frozen
  hub,      \* the hub's alert sequence
  changes,  \* how often any of these or a partition has changed
  cut,      \* Fleet.partSet
  snap,     \* Fleet.snap.Nodes: reachable, tip, alert sequence, partition flag
  snapHub,  \* Fleet.snap.Hub.Sequence
  poll,     \* a node's poll: where it is and the state it is going to write
  watched, view,  \* Fleet.watched: outpoints, and their PerNode status
  fetch,    \* a caller's Refresh of an outpoint on a node
  told      \* history: the last event about each subject

world == <<kind, up, tip, seq, utxo, freeze, hub, changes>>
vars == <<world, cut, snap, snapHub, poll, watched, view, fetch, told>>

Never == MaxTip + 2
Status == {"OK", "SPENT", "NOT_FOUND", "FROZEN"}
NodeState == [reach : BOOLEAN, tip : -1..MaxTip, seq : -1..MaxSeq, cut : BOOLEAN]
Unknown == [reach |-> FALSE, tip |-> -1, seq |-> -1, cut |-> FALSE]
Idle == [at |-> "idle", st |-> Unknown]
Views == Outpoints \X Nodes

FleetTypeOK ==
  /\ snap \in [Nodes -> NodeState] /\ snapHub \in 0..MaxSeq
  /\ poll \in [Nodes -> [at : {"idle", "store"}, st : NodeState]]
  /\ watched \subseteq Outpoints
  /\ view \in [Views -> Status \cup {"none"}]
  /\ \A p \in Views : p[1] \notin watched => view[p] = "none"
  /\ fetch \in [Callers \X Views ->
                  Status \cup {"idle", "begun", "unspent", "missing"}]

Init ==
  /\ kind \in [Nodes -> {"teranode", "svnode"}]
  /\ up = [n \in Nodes |-> TRUE] /\ tip = [n \in Nodes |-> 0]
  /\ seq = [n \in Nodes |-> 0] /\ hub = 0 /\ changes = 0
  /\ utxo = [p \in Views |-> "NOT_FOUND"] /\ freeze = [o \in Outpoints |-> Never]
  /\ cut = [n \in Nodes |-> FALSE]
  /\ snap = [n \in Nodes |-> Unknown] /\ snapHub = 0
  /\ poll = [n \in Nodes |-> Idle]
  /\ watched = {} /\ view = [p \in Views |-> "none"]
  /\ fetch = [f \in Callers \X Views |-> "idle"]
  /\ told = [tip |-> [n \in Nodes |-> -1], seq |-> [n \in Nodes |-> -1],
             view |-> view, hub |-> 0]

------------------------------------------------------------------------------
(* The nodes *)

\* An output as a node would report it now.
Actual(o, n) ==
  IF utxo[<<o, n>>] = "OK" /\ tip[n] + 1 >= freeze[o] THEN "FROZEN" ELSE utxo[<<o, n>>]

Changed == changes < MaxChanges /\ changes' = changes + 1

World ==
  /\ Changed
  /\ \/ \E n \in Nodes :
          \/ up' = [up EXCEPT ![n] = ~@] /\ UNCHANGED <<tip, seq, utxo, freeze, hub>>
          \/ tip[n] < MaxTip /\ tip' = [tip EXCEPT ![n] = @ + 1]
             /\ UNCHANGED <<up, seq, utxo, freeze, hub>>
          \/ seq[n] < MaxSeq /\ seq' = [seq EXCEPT ![n] = @ + 1]
             /\ UNCHANGED <<up, tip, utxo, freeze, hub>>
     \/ \E p \in Views : utxo[p] # "SPENT"
          /\ utxo' = [utxo EXCEPT ![p] = IF @ = "OK" THEN "SPENT" ELSE "OK"]
          /\ UNCHANGED <<up, tip, seq, freeze, hub>>
     \/ \E o \in Outpoints : freeze[o] = Never /\ freeze' = [freeze EXCEPT ![o] = MaxTip + 1]
          /\ UNCHANGED <<up, tip, seq, utxo, hub>>
     \/ hub < MaxSeq /\ hub' = hub + 1 /\ UNCHANGED <<up, tip, seq, utxo, freeze>>
  /\ UNCHANGED <<kind, cut, snap, snapHub, poll, watched, view, fetch, told>>

------------------------------------------------------------------------------
(* Nodes, alert sequences and the hub *)

\* pollNode, pollSVNode: the state is copied and the partition flags are read;
\* of the node's answer, a new tip is announced before it is stored.
Ask(n) ==
  /\ poll[n].at = "idle"
  /\ poll' = [poll EXCEPT ![n] = [at |-> "store", st |->
       [snap[n] EXCEPT !.cut = cut[n], !.reach = up[n], !.tip = IF up[n] THEN tip[n] ELSE @]]]
  /\ told' = [told EXCEPT !.tip[n] = IF up[n] THEN tip[n] ELSE @]
  /\ UNCHANGED <<world, cut, snap, snapHub, watched, view, fetch>>

\* Mutant: the state is written as it was copied, alert fields included.
StoreAll(n) ==
  /\ poll[n].at = "store"
  /\ snap' = [snap EXCEPT ![n] = poll[n].st]
  /\ poll' = [poll EXCEPT ![n] = Idle]
  /\ UNCHANGED <<world, cut, snapHub, watched, view, fetch, told>>

\* Mutant: the partition flag is kept too.
StoreOldFlag(n) ==
  /\ poll[n].at = "store"
  /\ snap' = [snap EXCEPT ![n] = [poll[n].st EXCEPT !.seq = snap[n].seq, !.cut = snap[n].cut]]
  /\ poll' = [poll EXCEPT ![n] = Idle]
  /\ UNCHANGED <<world, cut, snapHub, watched, view, fetch, told>>

\* The state is written back, but for the fields pollAlertSeqs maintains.
Store(n) ==
  /\ poll[n].at = "store"
  /\ snap' = [snap EXCEPT ![n] = [poll[n].st EXCEPT !.seq = snap[n].seq]]
  /\ poll' = [poll EXCEPT ![n] = Idle]
  /\ UNCHANGED <<world, cut, snapHub, watched, view, fetch, told>>

\* pollAlertSeqs.  Nobody else writes a sequence, so that answer and write are
\* one step; likewise for the hub.
Probe(n) ==
  /\ up[n]
  /\ told' = [told EXCEPT !.seq[n] = IF seq[n] # snap[n].seq THEN seq[n] ELSE @]
  /\ snap' = [snap EXCEPT ![n].seq = seq[n]]
  /\ UNCHANGED <<world, cut, snapHub, poll, watched, view, fetch>>

\* pollHub; pollArcade treats the tip of arcade alike.
PollHub ==
  /\ told' = [told EXCEPT !.hub = IF hub # snapHub THEN hub ELSE @]
  /\ snapHub' = hub
  /\ UNCHANGED <<world, cut, snap, poll, watched, view, fetch>>

\* SetPartition.
SetPartition(n) ==
  /\ Changed
  /\ cut' = [cut EXCEPT ![n] = ~@]
  /\ UNCHANGED <<kind, up, tip, seq, utxo, freeze, hub, snap, snapHub, poll, watched, view, fetch, told>>

------------------------------------------------------------------------------
(* Outpoints *)

Watch(o) == watched' = watched \cup {o}

\* POST /api/watch.
PostWatch(o) ==
  /\ Watch(o)
  /\ UNCHANGED <<world, cut, snap, snapHub, poll, view, fetch, told>>

\* DELETE /api/watch.
Unwatch(o) ==
  /\ watched' = watched \ {o}
  /\ view' = [p \in Views |-> IF p[1] = o THEN "none" ELSE view[p]]
  /\ UNCHANGED <<world, cut, snap, snapHub, poll, fetch, told>>

Goes(c, p, to) == fetch' = [fetch EXCEPT ![<<c, p>>] = to]
Quiet == UNCHANGED <<world, cut, snap, snapHub, poll, view, told>>

\* pollWatched copies the watched outpoints.
Begin(p) ==
  /\ p[1] \in watched
  /\ fetch[<<"loop", p>>] = "idle"
  /\ Goes("loop", p, "begun")
  /\ Quiet /\ UNCHANGED watched

\* Refresh, of what the loop copied or of anything by a request or a step: the
\* outpoint is watched and its output asked for with Asset.UTXOs, or gettxout
\* of an SV node.  An error ends the refresh.
Refresh(c, p) ==
  /\ fetch[<<c, p>>] = IF c = "loop" THEN "begun" ELSE "idle"
  /\ Watch(p[1])
  /\ Goes(c, p, IF ~up[p[2]] THEN "idle"
                ELSE IF kind[p[2]] = "teranode" THEN Actual(p[1], p[2])
                ELSE IF utxo[p] = "OK" THEN "unspent" ELSE "missing")
  /\ Quiet

\* SVFrozen: the blacklist now, at the height of the snapshot plus one; an
\* output whose blacklist cannot be read counts as not frozen.
Blacklist(c, p) ==
  /\ fetch[<<c, p>>] = "unspent"
  /\ Goes(c, p, IF up[p[2]] /\ snap[p[2]].tip + 1 >= freeze[p[1]] THEN "FROZEN" ELSE "OK")
  /\ Quiet /\ UNCHANGED watched

\* getrawtransaction: a transaction the node knows by now has its output spent.
RawTransaction(c, p) ==
  /\ fetch[<<c, p>>] = "missing"
  /\ Goes(c, p, IF up[p[2]] /\ utxo[p] # "NOT_FOUND" THEN "SPENT" ELSE "NOT_FOUND")
  /\ Quiet /\ UNCHANGED watched

\* Mutant: a status is announced the first time only.
RecordFirst(c, p) ==
  /\ fetch[<<c, p>>] \in Status
  /\ IF p[1] \in watched
       THEN /\ told' = [told EXCEPT !.view[p] = IF view[p] = "none" THEN fetch[<<c, p>>] ELSE @]
            /\ view' = [view EXCEPT ![p] = fetch[<<c, p>>]]
       ELSE UNCHANGED <<told, view>>
  /\ Goes(c, p, "idle")
  /\ UNCHANGED <<world, cut, snap, snapHub, poll, watched>>

\* Mutant: a refresh under way when its outpoint is unwatched records it.
RecordAnyway(c, p) ==
  /\ fetch[<<c, p>>] \in Status
  /\ told' = [told EXCEPT !.view[p] = fetch[<<c, p>>]]
  /\ view' = [view EXCEPT ![p] = fetch[<<c, p>>]]
  /\ Goes(c, p, "idle")
  /\ UNCHANGED <<world, cut, snap, snapHub, poll, watched>>

\* record: unless it was unwatched meanwhile, announced when it is news.
Record(c, p) ==
  /\ fetch[<<c, p>>] \in Status
  /\ IF p[1] \in watched
       THEN /\ told' = [told EXCEPT !.view[p] = IF view[p] # fetch[<<c, p>>]
                                                  THEN fetch[<<c, p>>] ELSE @]
            /\ view' = [view EXCEPT ![p] = fetch[<<c, p>>]]
       ELSE UNCHANGED <<told, view>>
  /\ Goes(c, p, "idle")
  /\ UNCHANGED <<world, cut, snap, snapHub, poll, watched>>

Refreshing(c, p) ==
  Blacklist(c, p) \/ RawTransaction(c, p) \/ Record(c, p)

PollNode(n) == Ask(n) \/ Store(n)

Next ==
  \/ World
  \/ PollHub
  \/ \E n \in Nodes : PollNode(n) \/ Probe(n) \/ SetPartition(n)
  \/ \E o \in Outpoints : PostWatch(o) \/ Unwatch(o)
  \/ \E p \in Views : Begin(p)
  \/ \E c \in Callers, p \in Views : Refresh(c, p) \/ Refreshing(c, p)

\* Fleet.Run's loops go round, and a refresh once begun ends: every call has
\* four seconds.
Fairness ==
  /\ \A n \in Nodes : WF_vars(PollNode(n)) /\ SF_vars(Probe(n))
  /\ \A c \in Callers, p \in Views : WF_vars(Refreshing(c, p))
  /\ \A p \in Views : WF_vars(Begin(p)) /\ WF_vars(Refresh("loop", p))

Spec == Init /\ [][Next]_vars
FairSpec == Spec /\ Fairness

------------------------------------------------------------------------------
(* Properties *)

\* The feed and the snapshot tell the same story, whoever recorded last: the
\* last event about a subject carries the value on display (fleet.go:367, 431,
\* 485, 578).
FeedAgrees ==
  /\ \A n \in Nodes : told.seq[n] = snap[n].seq
  /\ \A n \in Nodes : told.tip[n] = IF poll[n].at = "store" THEN poll[n].st.tip ELSE snap[n].tip
  /\ \A p \in Views : view[p] # "none" => told.view[p] = view[p]
  /\ told.hub = snapHub

\* What the observer keeps is well formed and agrees (fleet.go:367-578).
FleetInv == FleetTypeOK /\ FeedAgrees

\* A node's alert sequence on display never falls, although every poll of the
\* node writes back a state it copied before its requests (fleet.go:516-517).
SequenceForward == [][\A n \in Nodes : snap'[n].seq >= snap[n].seq]_vars

\* Once a node stays reachable and is left in peace, its tip, its partition
\* flag and its watched outputs are shown as they are, freezes of an SV node
\* included, which are derived from the height on display (fleet.go:308-331).
NodeSettles ==
  \A n \in Nodes : <>[]up[n] =>
    <>[](snap[n].reach /\ snap[n].tip = tip[n] /\ snap[n].cut = cut[n])
ViewSettles ==
  \A o \in Outpoints, n \in Nodes :
    <>[](up[n] /\ o \in watched) => <>[](view[<<o, n>>] = Actual(o, n))

\* Nodes and outputs alike (fleet.go:308-331, 455-485).
Settles == NodeSettles /\ ViewSettles
==============================================================================
