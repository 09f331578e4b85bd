-------------------------- MODULE FleetWatchProofs --------------------------
(***************************************************************************)
(* Proofs about FleetWatch, for any nodes, outpoints and callers, whatever *)
(* the bounds.  The invariant adds to FleetInv the types of what the       *)
(* module leaves to TLC and the one fact that keeps a node's sequence from *)
(* falling: what is on display was the node's own number.                  *)
(***************************************************************************)
EXTENDS FleetWatch, TLAPS

WorldTypeOK ==
  /\ kind \in [Nodes -> {"teranode", "svnode"}] /\ up \in [Nodes -> BOOLEAN]
  /\ tip \in [Nodes -> 0..MaxTip] /\ seq \in [Nodes -> 0..MaxSeq]
  /\ utxo \in [Views -> Status] /\ freeze \in [Outpoints -> Int] /\ hub \in 0..MaxSeq
  /\ cut \in [Nodes -> BOOLEAN]

ToldTypeOK ==
  told \in [tip : [Nodes -> -1..MaxTip], seq : [Nodes -> -1..MaxSeq],
            view : [Views -> Status \cup {"none"}], hub : 0..MaxSeq]

NotAhead == \A n \in Nodes : snap[n].seq <= seq[n]

WatchInv == WorldTypeOK /\ ToldTypeOK /\ FleetInv /\ NotAhead

\* The invariant holds when the observer starts (fleet.go:150-187).
LEMMA WatchInit == Init => WatchInv
BY FleetAssumption DEF Init, WatchInv, WorldTypeOK, ToldTypeOK, FleetInv, FleetTypeOK,
   FeedAgrees, NotAhead, Unknown, Idle, NodeState, Status, Never, Views

\* A poll of a node keeps the invariant (fleet.go:449-567).
LEMMA PollKeeps ==
  ASSUME WatchInv, NEW n \in Nodes, PollNode(n)
  PROVE  WatchInv'
<1> USE FleetAssumption DEF WatchInv, FleetInv
<1>1. CASE Ask(n)
  <2>1. WorldTypeOK' /\ NotAhead'
    BY <1>1 DEF Ask, WorldTypeOK, NotAhead, world
  <2>2. ToldTypeOK'
    BY <1>1 DEF Ask, ToldTypeOK, WorldTypeOK
  <2>3. FleetTypeOK'
    <3> DEFINE st == [snap[n] EXCEPT !.cut = cut[n], !.reach = up[n],
                                     !.tip = IF up[n] THEN tip[n] ELSE @]
    <3>1. st \in NodeState
      <4>1. snap[n] \in NodeState /\ up[n] \in BOOLEAN /\ cut[n] \in BOOLEAN
        BY DEF FleetTypeOK, WorldTypeOK
      <4>2. (IF up[n] THEN tip[n] ELSE snap[n].tip) \in -1..MaxTip
        BY <4>1 DEF WorldTypeOK, NodeState
      <4> QED BY <4>1, <4>2 DEF NodeState
    <3>2. poll' = [poll EXCEPT ![n] = [at |-> "store", st |-> st]]
      BY <1>1 DEF Ask
    <3>3. poll' \in [Nodes -> [at : {"idle", "store"}, st : NodeState]]
      <4> HIDE DEF st
      <4> QED BY <3>1, <3>2 DEF FleetTypeOK
    <3> QED BY <1>1, <3>3 DEF Ask, FleetTypeOK
  <2>4. FeedAgrees'
    BY <1>1 DEF Ask, FeedAgrees, FleetTypeOK, ToldTypeOK, NodeState
  <2> QED BY <2>1, <2>2, <2>3, <2>4
<1>2. CASE Store(n)
  <2>1. WorldTypeOK' /\ NotAhead' /\ ToldTypeOK'
    BY <1>2 DEF Store, WorldTypeOK, NotAhead, ToldTypeOK, FleetTypeOK, NodeState, world
  <2>2. FleetTypeOK'
    BY <1>2 DEF Store, FleetTypeOK, NodeState, Status, Idle, Unknown
  <2>3. FeedAgrees'
    BY <1>2 DEF Store, FeedAgrees, FleetTypeOK, NodeState, Idle
  <2> QED BY <2>1, <2>2, <2>3
<1> QED BY <1>1, <1>2 DEF PollNode

\* The writers of a single field keep it: the probe of a sequence, the poll of
\* the hub, a partition (fleet.go:286-306, 335-369, 578-643).
LEMMA FieldsKeep ==
  ASSUME WatchInv, PollHub \/ \E n \in Nodes : Probe(n) \/ SetPartition(n)
  PROVE  WatchInv'
<1> USE FleetAssumption DEF WatchInv, FleetInv
<1>1. CASE PollHub
  BY <1>1 DEF PollHub, WorldTypeOK, ToldTypeOK, FleetTypeOK, FeedAgrees, NotAhead, world
<1>2. ASSUME NEW n \in Nodes, Probe(n) PROVE WatchInv'
  <2>1. WorldTypeOK' /\ NotAhead'
    BY <1>2 DEF Probe, WorldTypeOK, NotAhead, FleetTypeOK, NodeState, world
  <2>4. ToldTypeOK'
    <3>1. (IF seq[n] # snap[n].seq THEN seq[n] ELSE told.seq[n]) \in -1..MaxSeq
      BY DEF WorldTypeOK, ToldTypeOK
    <3> QED BY <1>2, <3>1 DEF Probe, ToldTypeOK
  <2>2. FleetTypeOK'
    <3>1. [snap[n] EXCEPT !.seq = seq[n]] \in NodeState
      BY DEF FleetTypeOK, WorldTypeOK, NodeState
    <3>2. snap' = [snap EXCEPT ![n] = [snap[n] EXCEPT !.seq = seq[n]]]
      BY <1>2 DEF Probe, FleetTypeOK
    <3>3. snap' \in [Nodes -> NodeState]
      BY <3>1, <3>2 DEF FleetTypeOK
    <3> QED BY <1>2, <3>3 DEF Probe, FleetTypeOK
  <2>3. FeedAgrees'
    BY <1>2 DEF Probe, FeedAgrees, FleetTypeOK, WorldTypeOK, ToldTypeOK, NodeState
  <2> QED BY <2>1, <2>2, <2>3, <2>4
<1>3. ASSUME NEW n \in Nodes, SetPartition(n) PROVE WatchInv'
  <2>1. WorldTypeOK'
    BY <1>3 DEF SetPartition, WorldTypeOK
  <2> QED BY <1>3, <2>1 DEF SetPartition, ToldTypeOK, FleetTypeOK, FeedAgrees, NotAhead
<1> QED BY <1>1, <1>2, <1>3

\* What the nodes do keeps it (the environment of fleet.go).
LEMMA WorldKeeps ==
  ASSUME WatchInv, World
  PROVE  WatchInv'
<1> USE FleetAssumption DEF WatchInv, FleetInv
<1>1. WorldTypeOK'
  <2>1. ASSUME NEW n \in Nodes, up' = [up EXCEPT ![n] = ~@] PROVE up' \in [Nodes -> BOOLEAN]
    BY <2>1 DEF WorldTypeOK
  <2>2. ASSUME NEW n \in Nodes, tip[n] < MaxTip, tip' = [tip EXCEPT ![n] = @ + 1]
        PROVE  tip' \in [Nodes -> 0..MaxTip]
    BY <2>2 DEF WorldTypeOK
  <2>3. ASSUME NEW n \in Nodes, seq[n] < MaxSeq, seq' = [seq EXCEPT ![n] = @ + 1]
        PROVE  seq' \in [Nodes -> 0..MaxSeq]
    BY <2>3 DEF WorldTypeOK
  <2>4. ASSUME NEW p \in Views, utxo' = [utxo EXCEPT ![p] = IF @ = "OK" THEN "SPENT" ELSE "OK"]
        PROVE  utxo' \in [Views -> Status]
    BY <2>4 DEF WorldTypeOK, Status
  <2>5. ASSUME NEW o \in Outpoints, freeze' = [freeze EXCEPT ![o] = MaxTip + 1]
        PROVE  freeze' \in [Outpoints -> Int]
    BY <2>5 DEF WorldTypeOK
  <2>6. ASSUME hub < MaxSeq, hub' = hub + 1 PROVE hub' \in 0..MaxSeq
    BY <2>6 DEF WorldTypeOK
  <2> QED BY <2>1, <2>2, <2>3, <2>4, <2>5, <2>6 DEF World, WorldTypeOK
<1>2. NotAhead'
  <2>1. CASE seq' = seq
    BY <2>1 DEF World, NotAhead
  <2>2. ASSUME NEW n \in Nodes, seq' = [seq EXCEPT ![n] = @ + 1] PROVE NotAhead'
    BY <2>2 DEF World, NotAhead, WorldTypeOK, FleetTypeOK, NodeState
  <2> QED BY <2>1, <2>2 DEF World
<1>3. ToldTypeOK' /\ FleetTypeOK' /\ FeedAgrees'
  BY DEF World, ToldTypeOK, FleetTypeOK, FeedAgrees
<1> QED BY <1>1, <1>2, <1>3

\* A request that watches, unwatches or asks for an output keeps it
\* (fleet.go:251-267, 685-705).
LEMMA OutpointsKeep ==
  ASSUME WatchInv,
         \/ \E o \in Outpoints : PostWatch(o) \/ Unwatch(o)
         \/ \E p \in Views : Begin(p)
         \/ \E c \in Callers, p \in Views : Refresh(c, p)
  PROVE  WatchInv'
<1> USE FleetAssumption DEF WatchInv, FleetInv
<1>1. ASSUME NEW o \in Outpoints, PostWatch(o) PROVE WatchInv'
  BY <1>1 DEF PostWatch, Watch, WorldTypeOK, ToldTypeOK, FleetTypeOK, FeedAgrees, NotAhead, world
<1>2. ASSUME NEW o \in Outpoints, Unwatch(o) PROVE WatchInv'
  <2>1. WorldTypeOK' /\ ToldTypeOK' /\ NotAhead'
    BY <1>2 DEF Unwatch, WorldTypeOK, ToldTypeOK, NotAhead, world
  <2>2. FleetTypeOK'
    BY <1>2 DEF Unwatch, FleetTypeOK
  <2>3. FeedAgrees'
    BY <1>2 DEF Unwatch, FeedAgrees, FleetTypeOK
  <2> QED BY <2>1, <2>2, <2>3
<1>3. ASSUME NEW p \in Views, Begin(p) PROVE WatchInv'
  BY <1>3 DEF Begin, Goes, Quiet, WorldTypeOK, ToldTypeOK, FleetTypeOK, FeedAgrees, NotAhead, world
<1>4. ASSUME NEW c \in Callers, NEW p \in Views, Refresh(c, p) PROVE WatchInv'
  <2>1. WorldTypeOK' /\ ToldTypeOK' /\ NotAhead' /\ FeedAgrees'
    BY <1>4 DEF Refresh, Quiet, WorldTypeOK, ToldTypeOK, NotAhead, FeedAgrees, world
  <2>2. p[1] \in Outpoints /\ p[2] \in Nodes /\ p = <<p[1], p[2]>>
    BY DEF Views
  <2>3. Actual(p[1], p[2]) \in Status
    BY <2>2 DEF Actual, WorldTypeOK, Status
  <2>4. fetch' \in [Callers \X Views -> Status \cup {"idle", "begun", "unspent", "missing"}]
    BY <1>4, <2>3 DEF Refresh, Goes, FleetTypeOK
  <2>5. FleetTypeOK'
    BY <1>4, <2>2, <2>4 DEF Refresh, Watch, Quiet, FleetTypeOK
  <2> QED BY <2>1, <2>5
<1> QED BY <1>1, <1>2, <1>3, <1>4

\* What follows the answer about an output keeps it (fleet.go:373-447).
LEMMA RefreshingKeeps ==
  ASSUME WatchInv, NEW c \in Callers, NEW p \in Views, Refreshing(c, p)
  PROVE  WatchInv'
<1> USE FleetAssumption DEF WatchInv, FleetInv
<1>1. CASE Blacklist(c, p)
  BY <1>1 DEF Blacklist, Goes, Quiet, Status, WorldTypeOK, ToldTypeOK, FleetTypeOK, FeedAgrees,
     NotAhead, world
<1>2. CASE RawTransaction(c, p)
  BY <1>2 DEF RawTransaction, Goes, Quiet, Status, WorldTypeOK, ToldTypeOK, FleetTypeOK,
     FeedAgrees, NotAhead, world
<1>3. CASE Record(c, p)
  <2>1. WorldTypeOK' /\ NotAhead'
    BY <1>3 DEF Record, WorldTypeOK, NotAhead, world
  <2>2. ToldTypeOK'
    BY <1>3 DEF Record, ToldTypeOK
  <2>3. FleetTypeOK'
    BY <1>3 DEF Record, Goes, Status, FleetTypeOK
  <2>4. FeedAgrees'
    <3>1. told'.tip = told.tip /\ told'.seq = told.seq /\ told'.hub = told.hub
      BY <1>3 DEF Record, ToldTypeOK
    <3>2. ASSUME NEW q \in Views, view'[q] # "none" PROVE told'.view[q] = view'[q]
      <4>1. CASE p[1] \notin watched
        BY <1>3, <3>2, <4>1 DEF Record, FeedAgrees
      <4>2. CASE p[1] \in watched
        <5>1. /\ view' = [view EXCEPT ![p] = fetch[<<c, p>>]]
              /\ told'.view = [told.view EXCEPT ![p] = IF view[p] # fetch[<<c, p>>]
                                                        THEN fetch[<<c, p>>] ELSE @]
              /\ fetch[<<c, p>>] # "none"
          BY <1>3, <4>2 DEF Record, ToldTypeOK, Status
        <5>2. view \in [Views -> Status \cup {"none"}] /\ told.view \in [Views -> Status \cup {"none"}]
          BY DEF FleetTypeOK, ToldTypeOK
        <5>3. CASE q = p
          BY <5>1, <5>2, <5>3 DEF FeedAgrees
        <5>4. CASE q # p
          BY <3>2, <5>1, <5>2, <5>4 DEF FeedAgrees
        <5> QED BY <5>3, <5>4
      <4> QED BY <4>1, <4>2
    <3>3. UNCHANGED <<snap, snapHub, poll>>
      BY <1>3 DEF Record
    <3> QED BY <3>1, <3>2, <3>3 DEF FeedAgrees
  <2> QED BY <2>1, <2>2, <2>3, <2>4
<1> QED BY <1>1, <1>2, <1>3 DEF Refreshing

\* Every step keeps the invariant.
LEMMA WatchStep == WatchInv /\ [Next]_vars => WatchInv'
<1> SUFFICES ASSUME WatchInv, [Next]_vars PROVE WatchInv'
  OBVIOUS
<1>1. CASE UNCHANGED vars
  BY <1>1 DEF vars, world, WatchInv, WorldTypeOK, ToldTypeOK, FleetInv, FleetTypeOK, FeedAgrees,
     NotAhead
<1>2. CASE Next
  BY <1>2, PollKeeps, FieldsKeep, WorldKeeps, OutpointsKeep, RefreshingKeeps DEF Next
<1> QED BY <1>1, <1>2

\* So it holds in every reachable state.
LEMMA WatchAlways == Spec => []WatchInv
BY WatchInit, WatchStep, PTL DEF Spec

\* The feed and the snapshot tell the same story in every reachable state,
\* whatever requests, polls and partitions overlap (fleet.go:251-643).
THEOREM FleetSafe == Spec => []FleetInv
<1>1. WatchInv => FleetInv
  BY DEF WatchInv
<1> QED BY <1>1, WatchAlways, PTL

\* A node's alert sequence on display never falls: a poll keeps what the probe of the
\* sequences maintains (fleet.go:335-369, 515-516).
THEOREM FleetForward == Spec => SequenceForward
<1>1. ASSUME WatchInv, [Next]_vars
      PROVE  [\A n \in Nodes : snap'[n].seq >= snap[n].seq]_vars
  <2> SUFFICES ASSUME NEW n \in Nodes, Next PROVE snap'[n].seq >= snap[n].seq
    BY <1>1
  <2>1. snap[n].seq \in Int /\ seq[n] \in Int /\ snap[n].seq <= seq[n]
    BY <1>1, FleetAssumption DEF WatchInv, FleetInv, FleetTypeOK, NodeState, WorldTypeOK, NotAhead
  <2>2. CASE snap' = snap
    BY <2>1, <2>2
  <2>3. ASSUME NEW m \in Nodes, Store(m) PROVE snap'[n].seq >= snap[n].seq
    BY <1>1, <2>1, <2>3 DEF Store, WatchInv, FleetInv, FleetTypeOK, NodeState
  <2>4. ASSUME NEW m \in Nodes, Probe(m) PROVE snap'[n].seq >= snap[n].seq
    BY <1>1, <2>1, <2>4 DEF Probe, WatchInv, FleetInv, FleetTypeOK, NodeState
  <2> QED BY <2>2, <2>3, <2>4 DEF Next, World, PollHub, PollNode, Ask, SetPartition, PostWatch,
             Unwatch, Begin, Refresh, Refreshing, Blacklist, RawTransaction, Record, Quiet
<1> QED BY <1>1, WatchAlways, PTL DEF Spec, SequenceForward
=============================================================================
