------------------------------- MODULE MCFeeds -------------------------------
(***************************************************************************)
(* The two feeds whose readers follow a sequence from the last number they *)
(* have: events (EventStream) and alerts (AlertLog).  They share no state, *)
(* so their product would show nothing more: a behaviour is one of one     *)
(* feed, and the other stays as it begins.                                 *)
(***************************************************************************)
EXTENDS Integers

CONSTANTS
  Producers, RingMax, RecentMax, BufferMax, MaxEvents, MaxEpochs,  \* EventStream
  Nodes, Requests, Names, MaxSeq, MaxMade, MaxFaults               \* AlertLog

VARIABLES
  feed,   \* the feed this behaviour is of
  epoch, seq, taken, ring, mark, since, stage, queue, replay, known, lastId,
  missed,
  up, faults, file, mem, made, job, keyFile, keyring, wm, dflt, push, sync,
  cast, has, lost, kept, keys, meant

Events == INSTANCE EventStream
Alerts == INSTANCE AlertLog WITH ring <- keyring

ASSUME FeedsAssumption ==
  Events!StreamAssumption /\ Alerts!AlertAssumption

eventVars == <<epoch, seq, taken, ring, mark, since, stage, queue, replay,
               known, lastId, missed>>
alertVars == <<up, faults, file, mem, made, job, keyFile, keyring, wm, dflt,
               push, sync, cast, has, lost, kept, keys, meant>>
vars == <<feed, eventVars, alertVars>>

Init ==
  /\ feed \in {"events", "alerts"}
  /\ Events!Init /\ Alerts!Init

Next ==
  /\ UNCHANGED feed
  /\ \/ feed = "events" /\ Events!Next /\ UNCHANGED alertVars
     \/ feed = "alerts" /\ Alerts!Next /\ UNCHANGED eventVars

Spec == Init /\ [][Next]_vars

------------------------------------------------------------------------------
(* Properties *)

\* The browser's display is in order, whole and of one process, but for what it
\* was too slow for (server.go:358-366, hooks.ts:46-61).
DisplayInv ==
  /\ Events!StreamTypeOK /\ Events!DisplayInOrder
  /\ Events!NothingSkipped /\ Events!OneProcessShown

\* A step counts the events since its start (executor.go:888-910).
StepCountsItsEvents == Events!StepCountsItsEvents

\* An answered alert stays in the log and an answered key in the ring, and nodes
\* hold what the log has and no more than they were to learn (log.go:60-82,
\* 126-147, server.go:496-505, keyring.go:149, host.go:33-34, 218, 270).
AlertsInv ==
  /\ Alerts!AlertTypeOK /\ Alerts!BuiltIsKept
  /\ Alerts!OneAlertPerSequence /\ Alerts!NeverAhead /\ Alerts!KeysKept
==============================================================================
