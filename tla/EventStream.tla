----------------------------- MODULE EventStream -----------------------------
(***************************************************************************)
(* The event bus (internal/observe/bus.go) and the two that depend on its  *)
(* order: a browser following it over server-sent events (Server.sse in    *)
(* internal/api/server.go, useLive in sim/ui/src/hooks.ts) and a scenario  *)
(* step counting the events since its start (countEvents in executor.go).  *)
(*                                                                         *)
(* An event is its ID and the orchestrator process that published it; what *)
(* it says is left out.                                                    *)
(***************************************************************************)
EXTENDS Integers, SequencesExt

CONSTANTS
  Producers,    \* goroutines that publish
  RingMax,      \* NewBus(max)
  RecentMax,    \* events useLive asks for when it synchronises (300)
  BufferMax,    \* capacity of the subscription's channel (256)
  MaxEvents,    \* bound: IDs per process
  MaxEpochs     \* bound: orchestrator processes

StreamAssumption ==
  {RingMax, RecentMax, BufferMax, MaxEvents, MaxEpochs} \subseteq Nat \ {0}

VARIABLES
  epoch,      \* which orchestrator process is running
  seq,        \* Bus.seq
  taken,      \* the ID each producer has taken and not appended, 0 if none
  ring,       \* Bus.ring: IDs
  mark,       \* event ID a step counts from
  since,      \* history: events appended since the step started
  stage,      \* the browser's connection
  queue,      \* the subscription's channel
  replay,     \* what the handler has still to send of Since(after)
  known,      \* useLive: events on display
  lastId,     \* useLive: lastId
  missed      \* history: events the browser was not sent, or was and dropped

busVars == <<epoch, seq, taken, ring>>
stepVars == <<mark, since>>
uiVars == <<stage, queue, replay, known, lastId, missed>>
vars == <<busVars, stepVars, uiVars>>

Ids == 1..MaxEvents
Event == [epoch : 1..MaxEpochs, id : Ids]
Here(id) == [epoch |-> epoch, id |-> id]

\* "down": not connected.  "synced": recent events merged.  "subscribed": the
\* handler has subscribed, and not yet read Since(after).
Stages == {"down", "synced", "subscribed", "live"}

StreamTypeOK ==
  /\ epoch \in 1..MaxEpochs
  /\ seq \in 0..MaxEvents
  /\ taken \in [Producers -> 0..MaxEvents]
  /\ ring \in Seq(Ids) /\ Len(ring) <= RingMax
  /\ mark \in 0..MaxEvents
  /\ since \in SUBSET Ids
  /\ stage \in Stages
  /\ queue \in Seq(Ids) /\ Len(queue) <= BufferMax
  /\ replay \in Seq(Ids)
  /\ known \in Seq(Event)
  /\ lastId \in 0..MaxEvents
  /\ missed \in SUBSET Event

Init ==
  /\ epoch = 1 /\ seq = 0
  /\ taken = [p \in Producers |-> 0]
  /\ ring = <<>>
  /\ mark = 0 /\ since = {}
  /\ stage = "down" /\ queue = <<>> /\ replay = <<>>
  /\ known = <<>> /\ lastId = 0 /\ missed = {}

------------------------------------------------------------------------------
(* The bus *)

\* The last elements of s, at most n.
LastOf(s, n) == SubSeq(s, IF Len(s) > n THEN Len(s) - n + 1 ELSE 1, Len(s))

\* The elements of s that are greater, in their order: SelectSeq, of which the
\* proofs could say nothing because it is recursive.
Newer(s, after) ==
  LET at == {i \in DOMAIN s : s[i] > after}
  IN [j \in 1..Cardinality(at) |-> s[CHOOSE i \in at : Cardinality({k \in at : k <= i}) = j]]

\* Mutant: after is included.
SinceIncluding(after) == Newer(ring, after - 1)

Since(after) == Newer(ring, after)
Recent(n) == LastOf(ring, n)
Newest(s) == IF s = <<>> THEN 0 ELSE Last(s)

\* Publish takes the event's ID before it takes the lock.
TakeId(p) ==
  /\ taken[p] = 0 /\ seq < MaxEvents
  /\ seq' = seq + 1
  /\ taken' = [taken EXCEPT ![p] = seq + 1]
  /\ UNCHANGED <<epoch, ring, stepVars, uiVars>>

\* Under the lock: append, trim, and offer the event to the subscription.
Deliver(p) ==
  LET id == taken[p] IN
  /\ id # 0
  /\ ring' = LastOf(Append(ring, id), RingMax)
  /\ taken' = [taken EXCEPT ![p] = 0]
  /\ since' = since \cup {id}
  /\ IF stage \in {"subscribed", "live"} /\ Len(queue) < BufferMax
       THEN queue' = Append(queue, id) /\ UNCHANGED missed
       ELSE /\ missed' = IF stage \in {"subscribed", "live"}
                           THEN missed \cup {Here(id)} ELSE missed
            /\ UNCHANGED queue
  /\ UNCHANGED <<epoch, seq, mark, stage, replay, known, lastId>>

\* A scenario step starts: it counts from the newest event on.
StartStep ==
  /\ mark' = Newest(Recent(1))
  /\ since' = {}
  /\ <<mark', since'>> # stepVars
  /\ UNCHANGED <<busVars, uiVars>>

\* A new orchestrator: an empty bus that counts from 1, and no connections.
Restart ==
  /\ epoch < MaxEpochs
  /\ epoch' = epoch + 1
  /\ seq' = 0 /\ ring' = <<>>
  /\ taken' = [p \in Producers |-> 0]
  /\ mark' = 0 /\ since' = {}
  /\ stage' = "down" /\ queue' = <<>> /\ replay' = <<>>
  /\ UNCHANGED <<known, lastId, missed>>

------------------------------------------------------------------------------
(* The browser *)

\* Mutant: only the highest ID is compared.
RestartedByHeight(evs) == lastId > 0 /\ Newest(evs) < lastId

\* Does what sync fetched belong to another process than what is on display?
Restarted(evs) ==
  \/ lastId > 0 /\ Newest(evs) < lastId
  \/ /\ evs # <<>>
     /\ LET at == SelectInSeq(known, LAMBDA e : e.id = Head(evs)) IN
          at # 0 /\ known[at].epoch # epoch

Events(ids) == [i \in DOMAIN ids |-> Here(ids[i])]

\* sync: fetch the recent events, start over after a restart, else add the new
\* ones.  What the window no longer covers is missed.
Sync ==
  LET evs == Recent(RecentMax)
      fresh == Newer(evs, lastId)
      gone == {id \in 1..seq : evs # <<>> /\ id < Head(evs)} IN
  /\ stage = "down"
  /\ stage' = "synced"
  /\ IF Restarted(evs)
       THEN known' = Events(evs) /\ lastId' = Newest(evs)
       ELSE /\ known' = known \o Events(fresh)
            /\ lastId' = IF fresh = <<>> THEN lastId ELSE Newest(evs)
  /\ missed' = missed \cup {Here(id) : id \in gone}
  /\ UNCHANGED <<busVars, stepVars, queue, replay>>

\* The fetch failed: the stream is opened all the same, from the old lastId.
SyncFailed ==
  /\ stage = "down"
  /\ stage' = "synced"
  /\ UNCHANGED <<busVars, stepVars, queue, replay, known, lastId, missed>>

\* EventSource: the handler subscribes before it reads what to replay.
Connect ==
  /\ stage = "synced"
  /\ stage' = "subscribed"
  /\ queue' = <<>>
  /\ UNCHANGED <<busVars, stepVars, replay, known, lastId, missed>>

\* Mutant: nothing is replayed.
ReplayNothing ==
  /\ stage = "subscribed"
  /\ stage' = "live"
  /\ replay' = <<>>
  /\ UNCHANGED <<busVars, stepVars, queue, known, lastId, missed>>

\* The URL carries lastId, which changes again only once events arrive.
Replay ==
  /\ stage = "subscribed"
  /\ stage' = "live"
  /\ replay' = Since(lastId)
  /\ LET late == {id \in 1..Newest(ring) : id <= lastId \/ id \notin Range(ring)} IN
       missed' = missed \cup ({Here(id) : id \in late} \ Range(known))
  /\ UNCHANGED <<busVars, stepVars, queue, known, lastId>>

\* Mutant: everything received is shown.
ShowAll(id) ==
  /\ known' = Append(known, Here(id)) /\ lastId' = id
  /\ UNCHANGED missed

\* The 'event' listener drops what it thinks it has.
Show(id) ==
  IF id <= lastId
    THEN /\ missed' = missed \cup ({Here(id)} \ Range(known))
         /\ UNCHANGED <<known, lastId>>
    ELSE /\ known' = Append(known, Here(id)) /\ lastId' = id
         /\ UNCHANGED missed

Receive ==
  /\ stage = "live"
  /\ \/ /\ replay # <<>>
        /\ Show(Head(replay))
        /\ replay' = Tail(replay) /\ UNCHANGED queue
     \/ /\ replay = <<>> /\ queue # <<>>
        /\ Show(Head(queue))
        /\ queue' = Tail(queue) /\ UNCHANGED replay
  /\ UNCHANGED <<busVars, stepVars, stage>>

\* The stream breaks: what was under way is lost, and useLive starts over.
Disconnect ==
  /\ stage # "down"
  /\ stage' = "down"
  /\ queue' = <<>> /\ replay' = <<>>
  /\ UNCHANGED <<busVars, stepVars, known, lastId, missed>>

Next ==
  \/ \E p \in Producers : TakeId(p) \/ Deliver(p)
  \/ StartStep \/ Restart
  \/ Sync \/ SyncFailed \/ Connect \/ Replay \/ Receive \/ Disconnect

Spec == Init /\ [][Next]_vars

------------------------------------------------------------------------------
(* Properties *)

\* The display is in order and repeats nothing: the replay and the channel may
\* both carry an event, and a reconnection replays (server.go:358-366,
\* hooks.ts:73).
DisplayInOrder ==
  \A i, j \in DOMAIN known :
    i < j => \/ known[i].epoch < known[j].epoch
             \/ known[i].epoch = known[j].epoch /\ known[i].id < known[j].id

\* Once the browser has nothing left to receive, it shows every event of the
\* ring it did not miss to a full buffer, the window or the order of arrival:
\* subscribing before replaying leaves no gap (server.go:358-366).
NothingSkipped ==
  stage = "live" /\ replay = <<>> /\ queue = <<>> /\ missed = {} =>
    \A id \in Range(ring) : Here(id) \in Range(known)

\* A browser that missed nothing never mixes the events of two processes, even
\* when a fetch fails (hooks.ts:46-61).
OneProcessShown ==
  missed = {} => \A i, j \in DOMAIN known : known[i].epoch = known[j].epoch

\* The events a step counts are the events since its start: "at least `min`
\* matching bus events exist since `since` (default: this step's start)"
\* (examples/scenarios/README.md:165), as far as the ring still has them.
StepCountsItsEvents == Range(Since(mark)) = since \cap Range(ring)
==============================================================================
