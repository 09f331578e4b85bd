# A TLA+ model of the chaos-test orchestrator

The orchestrator drives a regtest network of Teranode and SV nodes: it cuts and heals their
container networks, runs scenarios written in YAML, mines on a metronome, publishes alerts, funds a
wallet and sends its transactions, watches what becomes of them, and streams what it sees to a
browser. This directory holds TLA+ modules of its stateful parts, the configurations TLC checks them
with, and proofs TLAPS checks for every value of the constants.

`PROJECT.json` lists the runs, the code lines behind every definition (`map`), the plausible bugs
each property is known to catch (`mutants`), the disagreements found (`findings`), the hazards of
the code (`hazards`) and the theorems.

## Inventory of the system

| component | state it keeps | operations | what is hard | what makes it correct |
|---|---|---|---|---|
| Partitions (`internal/api/server.go` `Partition`) | container attachments (in the engine), `netMu`, `Fleet.partSet` | `Partition`, `verifyAttachment`, `POST /api/partition` | concurrent callers, an engine that lies, fails or is late, three attempts | calls are serialised, a success is real, the display follows the engine, calls return |
| Scenario engine (`internal/scenario/engine.go`) | `Engine.runs`, one goroutine and `next` channel per run, run files | `Start`, `Next`, `Abort`, `execute`, `cleanup`, `save`, `loadRuns` | requests against goroutines, aborts anywhere, crashes with torn files | one run at a time, justified outcomes, cuts tracked and healed, aborts end runs |
| Executor (`executor.go`) | the step's variables and results | actions, assertions with windows, expressions | tips read one after the other, retries, aborts between any two reads | the outcome is the hard verdicts, a tip agreed on was real, counts are of real events, an abort is prompt |
| Event bus (`internal/observe/bus.go`), SSE, `useLive` | ring, sequence, subscriptions; `known`, `lastId` in the browser | `Publish`, `Subscribe`, `Since`, `Recent`; reconnection | several publishers, slow subscribers, reconnection, restart | order, no gap, no repeat, one process on display |
| Fleet observer (`fleet.go`) | node states, watched outpoints, display flags | polls, `Refresh`, `Watch`, `Unwatch` | polls of several requests that overlap requests and each other | feed and views agree, sequences go forward, the display settles once the world does |
| Auto miner (`internal/automine`) | configuration, next time, reset token | `Run`, `Configure`, `POST /api/automine` | reconfiguration while waiting or mining, lateness | new settings take hold, no catching up, it keeps mining |
| Send controller (`walletsvc/send.go`) | running/draining, generation, counters | `Start`, `Stop`, producer, workers, sampler | late stops, workers outliving the context, shared counters | one send, balanced counters, stop bounded and on target |
| Tracker (`walletsvc/tracker.go`) | rows, order, poll times | `Note`, `SetWalletStatus`, `Poll` | answers in any order, eviction, fairness of polls | map and order agree, verdicts justified, every row asked |
| Wallet service (`service.go`), wallet daemon (`bsv-regtest/walletd`) | health; connection to the storage | `Run`, `reconcile`, `Health`, `State`; `Run`, `Handle`, `Actions` | services that come and go in any order, lost answers | one loss per outage, the services find each other, a transaction gets its row |
| Wallet API (`internal/api/wallet.go`), `stackctl topup` | none: chain, arcade and storage | top-up, spendable coinbase, proof waiting, credit | check then use without a lock, lost answers | what is credited is proven, nothing paid is lost sight of, the proof comes |
| Keyring, alert log (`keyring.go`, `alerts/log.go`) | map and file | append, save, next sequence | failing saves, concurrent builds, crashes | what was answered is kept, one alert per sequence |
| Alert host, gossip (`bsv-regtest/alerts`) | peers, watermarks, open streams | push, serve, gossip | a peer that pulls late, a stream that outlives its push | a peer never learns more than it was to |
| Diagnostics (`internal/diag`) | cache, probes under way | `Report`, `node`, `probe`, `Evaluate` | joiners, probes that end out of order, sources that fail | fresh as asked, the cache never falls back, a verdict is what was read |
| Log paging (`internal/logs`) | none (cursor in the request) | page, advance, reset | a moving window, rotation, identical lines, traces | no line twice, none skipped unseen, numbers go on |
| Container runtime, node, arcade and wallet clients | none | stateless calls | — | — |
| Topology, keys, wire format, raw signing, tools, UI pages | none | parsing, building, rendering | — | — |

How they interact: HTTP handlers and scenario goroutines call `Server.Partition`, which holds
`netMu` for the whole call and drives the container engine; on success it sets the fleet's display
flag. A scenario goroutine keeps the links it cut in `OpenPartitions` and saves its `Run` after
every step; `cleanup` heals from that list. A step reads nodes directly and counts in the event bus,
on which everything publishes; the SSE handler replays and streams it. Alerts are built from the log
and keyring, delivered by the host (push and pull) and by gossip. A top-up spends a coinbase, waits
for arcade's proof and has walletd credit it at the storage; the wallet service keeps walletd's
health and feeds the tracker. The sustained send, the auto miner and the tracker each have a loop of
their own and meet HTTP requests under a mutex, a channel or atomics.

## Modules

| module | models | state ↔ code |
|---|---|---|
| `Partition` | `Server.Partition`, `verifyAttachment` | `netMu`; `call[c].pc` = where caller `c` is in `Partition`; `shown` = `Fleet.partSet`; `cut` = attachments and who cut them, `adrift` = requests nobody waits for (container engine, external) |
| `ScenarioEngine` (extends `Partition`) | `engine.go`, `runStep`, the partition action, `trackPartition` | `run[r]` = the `Run` struct; `pc`, `exec` = the goroutine of `execute` and its variables; `token` = `Run.next`; `canceled` = the step context; `file`, `saved` = the run file |
| `RunLifecycle` | the promise of the engine: the abstract specification | `life` = what the API reports; `durable` = outcome on disk |
| `StepExec` | one step in detail: `runStep`, `action`, `assert`, `check` | `step` = its definition; `pc`, `at` = where `runStep` is; `read` = tips this attempt has read; `left` = time to the deadline; `results`, `findings`, `status` = `StepResult` |
| `FleetWatch` | `fleet.go` | `snap`, `snapHub`, `cut`, `watched`, `view` = fields of `Fleet`; `poll`, `fetch` = the local state of a poll and of a `Refresh`; `kind`, `up`, `tip`, `seq`, … = the nodes |
| `EventStream` | `bus.go`, `Server.sse`, `useLive`, a step's event window | `seq`, `ring`; `taken[p]` = ID taken and not yet appended; `queue` = subscription; `known`, `lastId` as in `hooks.ts` |
| `AlertLog` | `alerts/log.go`, `host.go`, `gossip.go`, `keyring.go`, `BuildAlert`, `PushAlert`, `alertctl` | `mem`, `ring` / `file`, `keyFile` = log and keyring in memory / on disk; `wm`, `dflt` = watermarks; `push`, `sync` = streams; `has` = the nodes' alerts |
| `DiagProbe` | `internal/diag` | `cache` = the cached entry, named by the call that made it; `seen` = what its probe read; `class` = the verdict; `world` = what the sources say |
| `LogCursor` | `internal/logs`, the log reads of `internal/chaos` | `lines`, `lo` = the container's log; `cursor` = the cursor of the request; `page` = the answer, its lines a set of places in the log |
| `AutoMine` | `automine.go`, `postAutoMine` | `cfg`, `left` (time to `nextAt`), `reset`; `copy`, `timer` = locals of `Run` |
| `SendController` | `send.go` | the controller's fields; per generation the producer, context, job channel and busy workers |
| `TopUp` | `wallet.go` (API), `Internalize`, `stackctl topup` | `pc`, `at`, `base`, `coin` = a call and its locals; `tx` = where its payment is; `credited` = the storage |
| `WalletLink` | `walletd`, `service.go`, the wallet page | `connected` = `Wallet.connected`; `health`, `sweep` = `Service`; `rows` = keys of `Tracker.rows`; `stored` = the storage's list |
| `Tracker` | `tracker.go`, `reconcile` | `known` and `row` = `rows`; `order`; `polled` = order of `lastPolled`; `todo` = rest of a pass |
| `ScenarioEngineProofs` (with `Partition`), `StepExecProofs`, `FleetWatchProofs`, `DiagProbeProofs`, `LogCursorProofs`, `WorkersProofs`, `FeedsProofs`, `TrackerProofs` | theorems | |
| `MCScenarioEngine`, `MCStepExec`, `MCDiagProbe` | the scenarios, steps and worlds TLC runs with | |
| `MCWorkers` (`AutoMine`, `SendController`, `TopUp`, `WalletLink`), `MCFeeds` (`EventStream`, `AlertLog`) | parts checked in one run | |

The parts of `MCWorkers` share no state, nor do those of `MCFeeds`. Their product would only
interleave actions that commute, so a behaviour of these modules is a behaviour of one part, chosen
at the start, and each property speaks of one part. `ScenarioEngine` and `Partition` do share state
and are composed in full. `StepExec` details what `ScenarioEngine` takes as the outcome of a step;
it is a module of its own because a run needs only the outcome and a step none of the engine's state
but its context.

One action is one handler, or one stretch of it between the points where others can interleave: a
lock released, a channel or the network waited for, a file written. `Start`, for instance, is
`Start` (up to the unlock) and `Launch` (the assignment of `cancel` and the `go` after it), because
an `Abort` fits between. A poll in `FleetWatch` is `Ask` (what the node said, copied) and `Store`
(the write of the whole state under `mu`), because a partition, a probe of sequences or a refresh
fits between.

History variables record what the properties speak of: `unsure`, `begun`, `stopped` (engine),
`since`, `missed` (events), `copied`, `stale`, `burst` (miner), `asked`, `late` (send, step), `base`
(step), `told` (fleet, tracker), `quiet` (tracker), `lost`, `kept`, `keys`, `meant` (alerts),
`losses` (wallet), `asked` (diagnostics), `marked`, `seen` (log). No guard of an action that models
code depends on them, except `begun`, which says that run identifiers are never reused, and
`SendController`'s `begun`, which bounds the number of sends.

### What the environment may do

* **Container engine** (`RuntimeFaults`, `StrayRequests`). With `RuntimeFaults` it may fail before
  or after acting, answer success without acting, and outlast a context: a step's (5 minutes), a
  request's (60 s), a cleanup's (2 minutes). With `StrayRequests` a request whose client has given
  up may be served at any later time. Disconnecting a detached container may or may not be an error.
* **Torn reads** (`TornReads`). `Start` compares `r.Status` with two strings without the lock that
  `execute` writes it under. With `TornReads` a status that is changing matches neither. No run sets
  it: what it leads to is among the disagreements below.
* **Crashes.** `ScenarioEngine`, `EventStream`, `AlertLog` and `WalletLink` restart their process in
  any state. Memory is lost; attachments, requests under way, files and the storage are not. A file
  being written with `WriteFile` is cut short by a crash (run files, the keyring); one that is
  renamed into place is not (the alert log).
* **Nodes** (`FleetWatch`, `StepExec`, `DiagProbe`) come, go and move between any two requests of a
  reader. The sources of one round of a diagnosis are asked at once and answer from one moment;
  rounds may answer from different ones; a source may fail.
* **Browser.** A connection may break and a fetch of the recent events fail at any time. Between
  `Connect` and `Replay` the orchestrator may be replaced, which breaks the connection. `missed`
  collects what was published and cannot be shown: dropped from a full buffer, gone from the ring,
  or discarded by the browser after a failed fetch.
* **Alert network.** A node asks for the sequence after its last, over a stream the host accepts or
  opens, at any time; a stream may end at any time.
* **Arcade, wallet storage.** Arcade answers anything it may answer, in any order, or not at all; a
  payment may miss a block; the answer to a broadcast, a credit or a transaction may be lost after
  it was done. wallet-infra may be away, or answer too late, from any point on.
* **Container log.** It grows, loses its oldest lines and is replaced with its container; lines
  repeat and share a time stamp; an entry may gain lines of a trace later.
* **Time** is a `Tick`, independent of everything; deadlines are kept as the time left.

### Abstractions

Events, alerts, log lines and transactions are numbers or one of a few texts. Clients' requests
carry only what the properties tell apart. In `ScenarioEngine` steps other than partitions are their
outcome (`EndStep` passes or fails), which `StepExec` models. In `StepExec` a tip stands for all
that a check reads of one node, an event for a line of a log. In `FleetWatch` the fields of a node
other than tip, sequence and partition flag are written the same way as the tip; that the loops of
the nodes wait for one another's round is left out, which allows more interleavings, not fewer. In
`DiagProbe` the order of the rules is the order in which the code evaluates them, wording and log
references are left out. `TopUp`'s blocks seal the mempool at the bound of heights too, so that the
bound does not stop a wait. `useLive`'s limit of 2000 events, event texts, error wording and
`Engine.reload` are left out. In `AutoMine` lateness saturates at `MaxLate`, above twice the longest
interval, beyond which the code behaves alike. `Finish` joins the two lock sections at the end of
`cleanup` and of `execute`: between them only `OpenPartitions` differs, which nobody else reads.
`SendController` leaves out the rate sampler and the final report.

## Runs

Each passing run answers the questions of one part; the bounds are the smallest at which the hazards
exist.

| run | question | bounds and why they are enough |
|---|---|---|
| `engine` | one run at a time? is every cut on the list? life cycle? | 2 runs that pause, 2 links, one scenario cutting both in a step and healing one, late requests, restarts anywhere |
| `engine_live` | are outcomes justified? are partitions serialised, truthful, real? do calls return, aborts and automatic runs end? | 1 run in either mode, keeping its partitions or not; 1 HTTP caller competing for `netMu` on the same link (holder and waiter); engine failing; restarts |
| `executor` | is the outcome what the checks say? is a tip agreed on real, a count of real events? does an abort end the waits, a step end? | 2 nodes, 4 steps that cover each action class and check (a hard and a soft one, both windows), ring 2 with 3 events so that the ring forgets, 1 tick of window |
| `fleet` | do feed and views agree? do sequences go forward? does the display settle? | 1 node of either kind, 1 output, the loop and a step refreshing it, 3 changes of the world: every writer of a field meets every other |
| `diag` | fresh as asked? does the cache fall back? is the verdict what was read? | one call: every combination of source values, one failure a round; three calls and two times: joiner, prober and a later refresh. Callers are interchangeable, hence symmetry (safety only) |
| `workers` | miner: settings, no catching up, keeps mining. Send: one send, books, stops. Top-up: proven, nothing lost, proof comes. Wallet: one loss, follows, rows | intervals 1 and 2, lateness to 5, 1 client; 2 sends of up to 3 transactions, 1 worker: more than channel and worker hold; 2 top-ups on 3 heights, maturity 1, window 2; 3 transactions for a sweep of 2, 2 outages or restarts |
| `feeds` | events: no gap, one process, order, counting. Alerts: kept, one per sequence, never ahead, keys kept | ring 3, window 2, buffer 1, 4 events: each limit is exceeded; 2 processes; 1 producer (two break the order of IDs, see below). 2 builds, 2 keys, 1 node, 2 sequences, a failed or torn write |
| `logs` | nothing twice, nothing skipped, real resets, numbers | 5 lines, 2 texts and a trace, 2 times a tick apart that is longer than the rewind, ceiling 3, 1 entry a page: overlap, ceiling, twins and rotation all occur, and 5 lines are the fewest with which a twin leads a session back behind what it was delivered |
| `tracker` | order, verdicts, fairness? | 2 transactions for 1 row, so rows are evicted; 1 question a pass |

`engine_leak`, `diag_join` and `tracker_told` are the runs TLC must find violated (below).

Deadlock is checked except where the system may stop: `executor` (the step is over), `diag`,
`diag_join` (requests come once each), `workers` (all sends may be over), `feeds` (a publisher whose
keyring was cut short does not start again), `logs` (the container may write no more and the viewer
leave).

### Fairness

Users, restarts, answers and faults are never forced. Assumed are:

* the goroutines of the program are scheduled: weak fairness of `Execute` (engine, step), `Loop`,
  `Run`, `Poll`, `Working`, `PollNode`, `Begin` and the loop's `Refresh`;
* calls return, because every one has a context with a deadline: weak fairness of `Advance`
  (container engine), `Refreshing`, `Reach` and `Prove`, of `Serve`, `AskState` and `Answered`, and
  of a step's action, which `runStep` gives 5 minutes;
* `sync.Mutex` hands itself to a starved waiter, as the Go runtime does after 1 ms (strong fairness
  of `Acquire`);
* a probe of alert sequences reaches a node that is reachable again and again, since every round
  tries it (strong fairness of `Probe`), and a top-up that polls while others mine does get to mine
  in its turn (strong fairness of `Poll` for those that mine);
* time passes (`Tick`).

### Disagreements between code and documentation

Three are runs that TLC must find violated; `PROJECT.json` quotes the lines.

* `engine_leak`: an abort during a cut leaves the link cut after the run.
* `diag_join`: a caller that joins a probe as it ends receives from a nil channel for ever.
* `tracker_told`: a divergence the sweep finds first is never announced.

Others were met while modelling and are not the subject of a run; the models that include the code
in question show the behaviour.

* With `TornReads` an unlocked read of the status admits a second run (`engine.go:235`, against
  `examples/scenarios/README.md:32-33`).
* With two producers a step can miss an event, because IDs are taken outside the lock (`bus.go:39`,
  against `README.md:165`), and `Since` is not "oldest first" (`bus.go:70`).
* Of two requests that set different fields of the miner, one can be lost (`api/automine.go:49`,
  against `56-57`); a reconfiguration as the timer fires has the old interval added to the new
  countdown (`automine.go:145`, against `79-80`).
* Two top-ups can choose one coinbase, since nothing locks the search and an output whose state
  could not be read counts as unspent (`api/wallet.go:507`, against `481-482`); one of them is
  refused.
* A release pressed while a run is running stays in `Run.next` and skips the next pause
  (`engine.go:282`, against `examples/scenarios/README.md:35`).
* An abort between the registration of a run and the assignment of its `cancel` is lost
  (`engine.go:265-270`, `294`).
* A run interrupted by a restart is marked aborted and its links stay cut (`engine.go:195`).
* A browser whose fetch fails after a restart keeps the old process's events and discards the new
  one's (`hooks.ts:61`); `OneProcessShown` therefore speaks of browsers that missed nothing.
* An alert whose save failed stays deliverable from memory, and its sequence is given again after a
  restart (`log.go:62-82`); `OneAlertPerSequence` therefore speaks of logs that never failed to
  save.
* A crash while the keyring is written cuts it short, and the orchestrator does not start until the
  file is mended (`keyring.go:149`).
* A line with the text and time stamp of the last one delivered is taken for it
  (`logs/cursor.go:25`), so repeated lines hide each other; what a delivered entry's trace gains
  later is not shown; a container recreated with lines in its log is reported as "log_rotated"
  (`page.go:135`).
* An older probe that ends later replaces the sample the next one compares with, and a catch-up
  whose two samples are seconds apart may look stalled (`diag/probe.go`).
* Until the first refresh of its health the wallet page says that walletd is not reachable
  (`service.go`); transactions noted before an orchestrator's restart come back only if they are
  among the newest 200.
* The final report and the rate sampler of a send read counters the next `Start` may have reset
  (`send.go:211`, `286`); not modelled.
* The sweep adds rows beyond the tracker's limit (`tracker.go:96`, against `50`).

## Proofs

All assume only the named `ASSUME`s of the modules; the sets of links, callers, runs, scenarios,
nodes, outputs, calls and transactions are arbitrary and need not be finite, and every bound is an
arbitrary number. Three theorems have a hypothesis more, which is a mode of the environment a run
checks: `~TornReads`, `~RuntimeFaults` and `OneProducer`. Each invariant was first checked by TLC.

* **`ScenarioEngineProofs`, on `Partition`.** The invariant is `PartInv`, that is `PartTypeOK`,
  `Serialised` and `DisplayTruthful`. The last is not inductive without `Serialised`: only when the
  holder of `netMu` is the sole caller between `Acquire` and return is the link it has just verified
  still so when it is recorded. `PartitionSafe` gives all three; `PartitionSuccess` that a success
  is real.
* **`ScenarioEngineProofs`, on the engine.** Four invariants: two build on the first, the last on
  `OutcomeInv`.
  * `OneInv` strengthens `OneRunAtATime`: it ties the status of a run to the point its goroutine is
    at (`StatusAt`), which is what `Start`'s test of statuses has to imply about goroutines, and
    keeps the step index within the definition (`IndexOK`), which the types need. It is inductive
    whatever `TornReads` is, except for the conjunct that there is one run, which is stated under
    `~TornReads`. `EngineTypes`, `EngineRunsOneAtATime`; `EngineUsesPartition`, that every step of
    the engine is a step `PartSpec` allows or leaves its variables alone; hence
    `EngineSafePartitions`.
  * `OutcomeInv` adds, for each run, how far its steps have come (`Told`): before the step in hand
    all passed, after it none began, and the outcome a goroutine carries to its last save is the one
    its steps give it. `EngineOutcomes`.
  * `LifeInv` adds what the run file says at each point (`FileSays`): a run that executes has no
    outcome on disk, and one that is done has its own. With it every step of the engine is a step of
    `RunLifecycle` or a stutter: `EngineFollowsLifecycle`.
  * `CutInv` follows a link from the request that cuts it to the list that cleanup heals (`Owns`),
    and says what must not interfere: requests under way belong to runs that were stopped
    (`StraysOfStopped`), a call fits the step it is of (`CallFits`), and the file has the list
    (`FileFits`). `EngineTracksCuts`, under `~RuntimeFaults`: with faults `engine_leak` shows the
    contrary.
* **`StepExecProofs`.** `StepInd` says where `runStep` is and which assertion it is at (`Place`),
  that the findings and the hard failure are those of the verdicts so far (`Books`), that the tips
  an attempt has read were the nodes' own between its start and now (`Reading`), and how many
  attempts an abort may leave (`Prompt`). `OutcomeIsRight` and `AbortEndsWaits` are its
  consequences, `AgreedTipIsReal` and `CountedIsReal` what it says of the steps that write a
  verdict: the second compares the count of a ring that has forgotten with that of the whole log.
* **`FleetWatchProofs`.** `WatchInv` adds to `FleetInv` that no sequence on display is ahead of its
  node (`NotAhead`): it goes forward because each probe reads a node whose own sequence only grows,
  and because a poll writes back the sequence on display when it stores, not the one it began with.
  `FleetSafe`, `FleetForward`.
* **`DiagProbeProofs`.** `DiagInd` says that what a probe has read some world says, and its verdict
  is the rules' about that (`Gathered`), which calls can have an answer and from whom (`Answers`),
  and that the entry in the cache is that of the last probe to begin (`Newest`), which is why it
  never falls back. `CacheInOrder`, `RefreshesAreFresh`, `VerdictsAreSound`: the last rests on
  lemmas about the table of rules alone, in which the first rule that applies is the verdict.
* **`LogCursorProofs`.** The log is in the order of its times (`Ordered`), so every window is an
  interval of it (`Whole`), and cutting either end leaves it one. The cursor marks a line the
  session was delivered (`MarkInv`). `LogInd` joins the two to `LogInv`: an entry passed over by a
  page lies between the cursor's line and the line found for it, which is its twin and has its time,
  so that the entry has that time too. `LogIsFollowed`. While the window holds the cursor's line
  (`Held`), the line found is that or a later one (`HeldIsFound`): `ResetsAreReal`, and with the
  entries of a window, which share its lines out (`HalvesAddUp`), `PagesAreJoined`.
* **`WorkersProofs`.** One invariant for each worker.
  * `SendInd`: the counters are those of the current generation (`SendBooks`), and what the
    producer, channel and workers of each may hold at each point, those before the current one
    nothing (`SendRun`): else a late end could close the books of another send.
    `SendsOneAtATime`, `StopsAreExact`.
  * `LinkInd`: a loss is counted only while the storage is away, and until it is back the daemon
    has no connection left to lose. `OneLoss`.
  * `FundInd`: at each point of a top-up which coinbase it holds and where its payment is
    (`FundCall`), so that no answer after the submission can leave the txid out. `FundingIsSafe`.
  * `MineInd`: a timer that has fired leaves at most an interval to the next (`MineSchedule`), a
    loop with an old copy is at its end (`MineStale`), and between two firings at one moment the
    schedule has caught up (`MineBurst`). `MinerIsSteady`.
* **`FeedsProofs`.** `AlertInd` has one part for each place an alert is in: log and file
  (`LogKept`), keyring (`RingKept`), what the host may serve (`Limits`), what nodes hold
  (`NodesFollow`). The file is part of the memory, and all of it unless a save failed: that is what
  a restart needs. `AlertsAreSafe`. `EventInd` says that with one publisher the IDs of the ring are
  consecutive up to the newest (`BusInOrder`), and that of a browser that missed nothing the
  display, the replay and the channel cover the IDs from 1 to the newest without a gap (`Whole`), or
  the display is another process's and the channel has all of this one (`Foreign`).
  `EventsAreWhole`, `StepsCountTheirs`, under `OneProducer`: two publishers take their IDs before
  the lock and may append them the other way round.
* **`TrackerProofs`.** `VerdictInv` adds two facts. `RejectedQuietly`: a rejection is no older than
  the quiet it is part of, which makes the grace of a frozen row a grace without progress.
  `TodoInv`: what a pass has still to ask about is not settled and is listed once, so no answer
  reaches a row already frozen; it survives rows evicted and noted again during the pass, since a
  row that comes back is new. `TrackerLeftAlone`, `TrackerRecovers`. `RowsInv` is `VerdictInv` with
  the order of the keys: a row noted again is taken out of its old place, a row evicted out of both.
  `TrackerInOrder`.

Some definitions are written so that they can be reasoned about: `Newer`, `Matching` and
`RemoveFirst` speak of positions where `SelectSeq`, a recursive definition, would filter, a window
of `LogCursor` is the set of the places of its lines where the code loops over text, and `Evaluate`
chooses the first rule that applies.

`OnlyTwinsSkipped` and `Held` allow for a session that a twin led back: it may have read an entry
beyond its cursor, and it will read it again. That needs a log of five lines or a ceiling of two,
which is why the bounds of `logs` are what they are.

Every safety property the passing runs check is proved. Only model-checked is liveness (`RunsEnd`,
`CallsReturn`, `StepEnds`, `Settles`, `KeepsMining`, `StopEnds`, `FundingProven`, `LinkSettles`,
`EveryRowAsked`), which with `ENABLED` is out of the prover's reach.

## Not modelled

* Stateless clients (nodes, Kafka, walletd, SV), parsing, encoding and signing of messages, topology
  read once at the start, rendering, configuration: they keep no state two steps could disagree
  about.
* Chaos actions other than partitions (stop, kill, pause, traffic shaping): each is one call of the
  container engine that nothing in the program remembers.
* Two processes on one alert log or keyring file, and nodes that learn alerts from each other.
* The eviction of rows is in `Tracker` and not in `WalletLink`; `useLive`'s cap and `Engine.reload`.
* The rate sampler and final report of a send: what they read is shown, never acted upon.

Left for later: an abstract specification of the send controller (one send: idle, running, draining)
with a refinement proof.
