------------------------------ MODULE Partition ------------------------------
(***************************************************************************)
(* Network partitions: Server.Partition and verifyAttachment of            *)
(* internal/api/server.go, with the container engine they drive and the    *)
(* display flag the fleet keeps.                                           *)
(*                                                                         *)
(* A link is one node on one plane (p2p or alert).  Scenario runs and HTTP *)
(* requests call Partition concurrently; netMu serialises them.  Each of   *)
(* three attempts asks the engine for the change and then polls the        *)
(* container until the change shows.  When a context or the orchestrator   *)
(* ends, a request may be with the engine, which serves it when it can.    *)
(***************************************************************************)
EXTENDS Integers

CONSTANTS
  Links,          \* node/plane pairs whose attachment can change
  Callers,        \* everything that calls Partition
  NoCaller,       \* nobody: netMu is free, or the link is attached
  RuntimeFaults,  \* may the container engine fail, lie, or outlast a context?
  StrayRequests   \* may it serve a request after the caller has given up on it?

ASSUME PartitionAssumption ==
  /\ NoCaller \notin Callers
  /\ RuntimeFaults \in BOOLEAN /\ StrayRequests \in BOOLEAN

Attempts == 3

VARIABLES
  cut,      \* who cut each link, NoCaller while it is attached (engine state)
  shown,    \* links the fleet shows as partitioned (Fleet.partSet)
  adrift,   \* requests nobody waits for, still with the engine
  netMu,    \* holder of Server.netMu
  call,     \* the Partition call each caller is making
  unsure    \* history: links whose last call failed or a stray request changed,
            \* or cut before a restart

partVars == <<cut, shown, adrift, netMu, call, unsure>>

Attached(l) == cut[l] = NoCaller

Call == [pc : {"idle", "lock", "send", "sent", "verify", "ok", "err"},
         link : Links, on : BOOLEAN, attempt : 1..Attempts]

\* The states in which a caller is between Lock and the deferred Unlock.
Critical == {"send", "sent", "verify"}

PartTypeOK ==
  /\ cut \in [Links -> Callers \cup {NoCaller}]
  /\ shown \in SUBSET Links
  /\ adrift \in SUBSET [link : Links, by : Callers \cup {NoCaller}]
  /\ netMu \in Callers \cup {NoCaller}
  /\ call \in [Callers -> Call]
  /\ unsure \in SUBSET Links

PartInit ==
  /\ cut = [l \in Links |-> NoCaller]
  /\ shown = {} /\ adrift = {}
  /\ netMu = NoCaller
  /\ \E l \in Links :
       call = [c \in Callers |->
                 [pc |-> "idle", link |-> l, on |-> FALSE, attempt |-> 1]]
  /\ unsure = {}

------------------------------------------------------------------------------
\* Does the runtime show link l as the call of c wants it?
Effective(c) == Attached(call[c].link) = ~call[c].on

\* Move the call of c to pc, in its n-th attempt.
Step(c, pc, n) ==
  call' = [call EXCEPT ![c] =
             [pc |-> pc, link |-> @.link, on |-> @.on, attempt |-> n]]

Goto(c, pc) == Step(c, pc, call[c].attempt)

Begin(c, l, on) ==
  /\ call[c].pc = "idle"
  /\ call' = [call EXCEPT ![c] =
                [pc |-> "lock", link |-> l, on |-> on, attempt |-> 1]]
  /\ UNCHANGED <<cut, shown, adrift, netMu, unsure>>

\* Mutant: the lock is not waited for.
AcquireHeld(c) ==
  /\ call[c].pc = "lock"
  /\ netMu' = c
  /\ Goto(c, "send")
  /\ UNCHANGED <<cut, shown, adrift, unsure>>

Acquire(c) ==
  /\ call[c].pc = "lock"
  /\ netMu = NoCaller
  /\ netMu' = c
  /\ Goto(c, "send")
  /\ UNCHANGED <<cut, shown, adrift, unsure>>

\* Mutant: the attempts are not counted.
RetrySame(c) ==
  /\ Goto(c, "send")
  /\ UNCHANGED <<netMu, unsure>>

\* One attempt failed: the next one, or the error after the last.
Retry(c) ==
  \/ /\ call[c].attempt < Attempts
     /\ Step(c, "send", call[c].attempt + 1)
     /\ UNCHANGED <<netMu, unsure>>
  \/ /\ call[c].attempt = Attempts
     /\ Step(c, "err", 1)
     /\ netMu' = NoCaller
     /\ unsure' = unsure \cup {call[c].link}

\* NetworkDisconnect / NetworkConnect: a dead context never reaches the engine.
Send(c, ctxDone) ==
  /\ call[c].pc = "send"
  /\ IF ctxDone THEN Retry(c) ELSE Goto(c, "sent") /\ UNCHANGED <<netMu, unsure>>
  /\ UNCHANGED <<cut, shown, adrift>>

\* What the request of c asks of the engine.
Asked(c) == [link |-> call[c].link, by |-> IF call[c].on THEN c ELSE NoCaller]

\* The engine serves a request: a link already as asked stays as it is.
Serve(request) ==
  cut' = [cut EXCEPT ![request.link] =
            IF Attached(request.link) = (request.by = NoCaller) THEN @ ELSE request.by]

\* The engine changes the attachment and says so.
RespondChanged(c, ctxDone) ==
  /\ call[c].pc = "sent"
  /\ ~Effective(c)
  /\ ~ctxDone
  /\ Serve(Asked(c))
  /\ Goto(c, "verify")
  /\ UNCHANGED <<shown, adrift, netMu, unsure>>

\* Nothing to change: connecting an attached container is an "already" error,
\* which is tolerated; disconnecting a detached one may be an error, which is not.
RespondNoop(c, ctxDone) ==
  /\ call[c].pc = "sent"
  /\ Effective(c)
  /\ \/ ~ctxDone /\ Goto(c, "verify") /\ UNCHANGED <<netMu, unsure>>
     \/ (call[c].on \/ ctxDone) /\ Retry(c)
  /\ UNCHANGED <<cut, shown, adrift>>

\* Requests the engine may have served, may serve later, or not at all.
GivenUp(requests) ==
  \/ UNCHANGED <<cut, adrift>>
  \/ (\E request \in requests : Serve(request)) /\ UNCHANGED adrift
  \/ StrayRequests /\ adrift' = adrift \cup requests /\ UNCHANGED cut

\* The reply is an error, because the context ended or the engine failed.
RespondError(c, ctxDone) ==
  /\ call[c].pc = "sent"
  /\ ctxDone \/ RuntimeFaults
  /\ GivenUp({Asked(c)})
  /\ Retry(c)
  /\ UNCHANGED shown

\* The engine serves a request nobody waits for.
Drift(request) ==
  /\ request \in adrift
  /\ adrift' = adrift \ {request}
  /\ Serve(request)
  /\ unsure' = unsure \cup {request.link}
  /\ UNCHANGED <<shown, netMu, call>>

\* "Concurrent teardowns have been seen to leave one container still attached":
\* the reply is a success and nothing changed.
RespondLie(c, ctxDone) ==
  /\ call[c].pc = "sent"
  /\ RuntimeFaults /\ ~ctxDone
  /\ Goto(c, "verify")
  /\ UNCHANGED <<cut, shown, adrift, netMu, unsure>>

\* Mutant: a heal leaves the display flag.
VerifyOkStillShown(c, ctxDone) ==
  /\ call[c].pc = "verify"
  /\ Effective(c)
  /\ ~ctxDone
  /\ shown' = IF call[c].on THEN shown \cup {call[c].link} ELSE shown
  /\ netMu' = NoCaller
  /\ unsure' = unsure \ {call[c].link}
  /\ Step(c, "ok", 1)
  /\ UNCHANGED <<cut, adrift>>

\* Mutant: the engine's reply is believed.
VerifyOkUnseen(c, ctxDone) ==
  /\ call[c].pc = "verify"
  /\ ~ctxDone
  /\ shown' = IF call[c].on THEN shown \cup {call[c].link}
                            ELSE shown \ {call[c].link}
  /\ netMu' = NoCaller
  /\ unsure' = unsure \ {call[c].link}
  /\ Step(c, "ok", 1)
  /\ UNCHANGED <<cut, adrift>>

\* verifyAttachment saw the wanted state: record it for display and return.
VerifyOk(c, ctxDone) ==
  /\ call[c].pc = "verify"
  /\ Effective(c)
  /\ ~ctxDone
  /\ shown' = IF call[c].on THEN shown \cup {call[c].link}
                            ELSE shown \ {call[c].link}
  /\ netMu' = NoCaller
  /\ unsure' = unsure \ {call[c].link}
  /\ Step(c, "ok", 1)
  /\ UNCHANGED <<cut, adrift>>

\* It did not within 5 s, could not ask, or the context ended first.
VerifyFail(c, ctxDone) ==
  /\ call[c].pc = "verify"
  /\ ~Effective(c) \/ ctxDone \/ RuntimeFaults
  /\ Retry(c)
  /\ UNCHANGED <<cut, shown, adrift>>

\* The caller takes the result.
Collect(c) ==
  /\ call[c].pc \in {"ok", "err"}
  /\ call' = [call EXCEPT ![c] =
                [pc |-> "idle", link |-> @.link, on |-> FALSE, attempt |-> 1]]
  /\ UNCHANGED <<cut, shown, adrift, netMu, unsure>>

\* Everything the call does between Begin and Collect.
Advance(c, ctxDone) ==
  \/ Send(c, ctxDone)
  \/ RespondChanged(c, ctxDone)
  \/ RespondNoop(c, ctxDone)
  \/ RespondError(c, ctxDone)
  \/ RespondLie(c, ctxDone)
  \/ VerifyOk(c, ctxDone)
  \/ VerifyFail(c, ctxDone)

\* The orchestrator process is replaced: netMu, the calls and the display flags
\* are memory; the attachments are not, and neither is a request once sent.
PartRestart ==
  /\ GivenUp({Asked(c) : c \in {d \in Callers : call[d].pc = "sent"}})
  /\ shown' = {}
  /\ netMu' = NoCaller
  /\ call' = [c \in Callers |-> [pc |-> "idle", link |-> call[c].link,
                                 on |-> FALSE, attempt |-> 1]]
  /\ unsure' = {l \in Links : cut'[l] # NoCaller}

------------------------------------------------------------------------------
\* The component on its own: any caller, any call, any context.
PartNext ==
  \/ \E c \in Callers, l \in Links, on \in BOOLEAN : Begin(c, l, on)
  \/ \E c \in Callers : Acquire(c)
  \/ \E c \in Callers, ctxDone \in BOOLEAN : Advance(c, ctxDone)
  \/ \E c \in Callers : Collect(c)
  \/ \E request \in adrift : Drift(request)
  \/ PartRestart

\* sync.Mutex hands itself over to a waiter that has starved (strong fairness);
\* the engine answers and verifyAttachment gives up after 5 s (weak fairness).
PartFairness ==
  \A c \in Callers :
    /\ SF_partVars(Acquire(c))
    /\ WF_partVars(\E ctxDone \in BOOLEAN : Advance(c, ctxDone))

PartSpec == PartInit /\ [][PartNext]_partVars
PartFairSpec == PartSpec /\ PartFairness

------------------------------------------------------------------------------
\* A caller works on the engine or the display exactly while it holds netMu
\* (server.go:1039): what makes a verified attachment still true on return.
Serialised ==
  \A c \in Callers : call[c].pc \in Critical <=> netMu = c

\* The fleet's display flag (fleet.go:286) and the container engine disagree
\* about a link only while a call is working on it, after a call on it failed
\* or one given up on took effect, or when it was cut before a restart.
DisplayTruthful ==
  \A l \in Links :
    (l \in shown) = Attached(l) =>
       \/ l \in unsure
       \/ \E c \in Callers : netMu = c /\ call[c].link = l

\* A call reports success (server.go:1062-1068) only in a state where the link
\* is as asked, in the engine and on the display.
SuccessIsReal ==
  [][\A c \in Callers :
       call[c].pc # "ok" /\ call'[c].pc = "ok" =>
         /\ (cut'[call[c].link] = NoCaller) = ~call[c].on
         /\ (call[c].link \in shown') = call[c].on]_partVars

\* Three attempts and the lock's fairness bound every call: whoever asks for a
\* partition gets an answer, whatever the engine does, short of a restart.
CallsReturn ==
  \A c \in Callers : call[c].pc = "lock" ~> call[c].pc \in {"ok", "err", "idle"}
==============================================================================
