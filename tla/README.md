# Stream Reliability Lab: verification project

TLA+ modules that model the reliability-critical part of Stream Reliability
Lab, the TLC configurations that check them, and theorems TLAPS proves about
them. Paths below are relative to the repository (`main.py` is
`src/streamlab/main.py`, and so on).

## The system

One FastAPI process owns a DuckDB file. A *simulator* creates a run with a
manifest of events, sends them over a WebSocket and measures the answers; the
API stores an audit row for each delivery, a canonical row for each unique valid
event, and one successful effect for each canonical row. *Browser documents*
receive the effects over a second WebSocket, draw one card for each event and
acknowledge it. Analytics reads all of that and gives a verdict.

| Component | State | Operations | Correct when |
| --- | --- | --- | --- |
| Source ingestion: `ingest_socket` (main.py), `IngestService` (service.py), delivery transactions (repository.py) | runs and manifests, `delivery_attempts`, `events`, `processing_attempts`, the handler of each socket | create and complete a run, open/accept/close a socket, classify and store a delivery, send the reply, mark it, process, recover at start | a reply tells the truth about committed rows; one row and one effect for each event; evidence belongs to the socket's run; completion closes ingestion; an acknowledged event is processed in the end |
| Overlay delivery: `OverlayHub`, `overlay_socket` (main.py), `overlay.js`, session/dispatch/render transactions (repository.py) | connection registry, one `send_lock` for each connection, `overlay_sessions`, `overlay_dispatches`, `render_acknowledgments`, milestones of `events`, the document's set of rendered ids | connect, replace, replay, broadcast, acknowledge, disconnect, reconnect | one card for each event and document; a stored acknowledgment implies a processed event and a stored successful dispatch; no effect falls between replay and broadcast; every processed event is acknowledged in the end |
| Planner: `build_scenario` (simulator.py), manifest validation (models.py) | none | plan a scenario, validate it | every plan satisfies the validator, faults fall on different events, reordering shows |
| Simulator client: `ScenarioRunner` (simulator.py) | where the coroutine waits, its socket, what it observed | create the run, deliver with retry, force a reconnect, complete, reconcile | a reply is taken for the right delivery; what it counts is stored; it ends |
| Analytics: `overview`, `_reconnect_summary` (analytics.py) | none (reads the tables) | the verdict | a PASS implies the client's own reconciliation, and stays; a FAIL has a reason |
| Connection evidence: `/connection-events` | `connection_events` | append a client's marker | no marker passes for the server's row, none after completion |
| Contract: models.py | none | validate messages and manifests | |
| Dashboard, overlay page, containers, CI | none | presentation and configuration | not modelled |

How they interact: the source side calls the hub only through
`broadcast(effect)` after the effect's transaction has committed; the overlay
side reads `events.processed_at` and writes its own tables and the milestones of
`events`. The simulator meets the server through a socket, a few requests and
two polls; analytics reads what both have stored. All transactions run on one event loop without an `await` inside, so a
transaction is atomic with respect to every other handler; what interleaves are
the steps between two awaits.

What is hard here, and what the properties are for (PROJECT.json lists each
hazard at its line): replies lost after the commit and resent on another socket,
two sockets that carry the same event, a run that completes while a handshake or
a delivery is under way, a crash or a failing transaction between commit, reply,
mark and processing, the render acknowledgment that overtakes the record of its
own dispatch, a replaced connection whose handler or send ends late, effects
that are processed while a document connects, a client that gives up on a reply
which is still on its way, and a verdict that puts rows of two actors on one
time line.

## Modules

| Module | What it is |
| --- | --- |
| `Ingestion.tla` | The source side. |
| `StreamContract.tla` | What the source side promises to a reader of the database: an abstract specification with four actions. |
| `MCIngestion.tla` | Instances for TLC: runs, events, messages. |
| `IngestionProofs.tla` | The base invariant of `Ingestion` and type correctness. |
| `IngestionSafety.tla` | The theorems about its tables, replies and steps. |
| `IngestionRefinement.tla` | The theorem that it implements `StreamContract`. |
| `OverlayHub.tla` | The overlay side: hub, handlers, sends, documents. |
| `MCOverlayHub.tla` | Instances for TLC: documents and events. |
| `OverlayProofs.tla` | Type correctness of the overlay side, its registry and its session rows. |
| `OverlayDeliveryProofs.tla` | The theorems about frames, cards, dispatches and acknowledgments. |
| `DeliveryOrder.tla` | `_reordered_sequences`: the order in which a run's events are sent. |
| `ScenarioPlan.tla` | `build_scenario` for every seed, and the validator its plan passes through. |
| `ScenarioProofs.tla` | The theorems about the plans. |
| `Verdict.tla` | `overview` and `_reconnect_summary` as operators, and the evidence they read beside the tables of `Ingestion`, which it extends. |
| `ScenarioRun.tla` | `ScenarioRunner`, composed with `Ingestion` and `Verdict`: one run from creation to verdict. |
| `MCScenarioRun.tla` | Instances for TLC: plans, messages, sockets, and the reductions of the large run. |
| `ScenarioRunProofs.tla` | The theorems about the composition. |
| `VerdictProofs.tla` | The theorems that a PASS is final and a failure explained. |

### Ingestion

The database variables (`runs`, `report`, `attempts`, `events`, `effects`,
`evidence`) survive a crash; the server's state, the clients' backlog and the
handlers' `pc`, `bound` and `reply` do not. One action is one stretch of code
between two awaits, transactions included:

* `CreateRun`, `CompleteRun` - the two HTTP routes and their transactions.
* `OpenSocket`, `AcceptSocket`, `AbortHandshake`, `CloseSocket` - the handshake
  with its two reads of the run's status, and the `finally` block.
* `Ingest` - `IngestService.ingest_text`: `Category` classifies a message the way
  the early returns do, `RecordRejected`, `RecordConflicted`, `PersistDuplicate`
  and `PersistAccepted` are the transactions, `CanonicalRow` computes arrival
  index, order flag and gap.
* `RefuseDelivery`, `IngestFails` - a completed run (close 4409) and a failing
  transaction.
* `SendReply`/`ReplyFails`, `MarkReplySent`/`MarkFails`,
  `ProcessEvent`/`ProcessFails`, `BroadcastEnds` - the steps after the commit.
* `Crash`, `Start`, `RecoverEvent`/`RecoverFails`, `Serve` - process life and
  `recover_unprocessed`.

A message is a record of what validation can tell apart: its shape, the event
and run it claims and whether its content is the manifest's. `sent` is a history
variable and no guard of `Ingestion` reads it: a reply is in it once its send has
returned, or when the API dies while the send is under way (`Crash` counts it). In
the code `send_json` may also raise after the frame has left; `ReplyFails` does not
count that frame. "An acknowledgment left the API" in `AcknowledgedIsProcessed` and
`ImplementsFairContract` therefore means that its send returned or was under way
at a crash. What the runner reads of a send not yet returned is `ScenarioRun!Unread`.

### StreamContract

The events of a run become *accepted*, the runs *complete*, replies become
*marked* and accepted events *processed*, and nothing else changes. `Ingestion`
implements it (`ImplementsContract`, and `ImplementsFairContract` with the
contract's own liveness).

### OverlayHub

`registry` is `OverlayHub._connections`. A call of `send_effect` or `send_json`
is a task with its stages: about to look its connection up, waiting for that
connection's `send_lock`, or awaiting the WebSocket with the lock held. The frame
can reach the document while the call is still awaiting, which is the race the
lock is for. `hub._guard` is never held across an await and has no state here.
`Register` is everything from `accept()` to the registry entry, `NextStep` the
handler's progress from the greeting through the replay to its receive loop,
`EndHandler` its `finally` block, `HandlerDies` an exception before the `try`
(the registry entry and the session's row stay). `ReceiveEffect` is
`renderEffect` with its acknowledgment. A closed transport loses the frames in
flight to the browser; acknowledgments that had reached the server may still be
read. That closing a replaced, vanished peer may raise is taken from the web
framework's interface and not from this repository; `PreviousCloseRaises` allows
both. What a handler has left to replay is a set of events of which it takes the
`First`: the query's `ORDER BY source_sequence`.

### DeliveryOrder and ScenarioPlan

`build_scenario` runs in two steps: one action for each scenario builds the plan,
`Validate` is the pydantic validator of `ScenarioConfig`. A seed matters only
through the samples it draws, so a seed is a choice among `Samples`. The manifest
is `1 .. count`, as the planner numbers it; payload data, titles and rates are
left out. `Round` is half-to-even on the exact decimal value; Python rounds the
float product, which first differs at 45 events (`round(0.7 * 45)`), so the runs
stay at or below 44.

### Verdict

A timestamp of the program is taken by the one event loop that also stores it, so
two of them compare as their rows were stored. `timeline` is those timestamps in
order: the server's connect and disconnect rows, the client's markers, and for
each attempt of the reconnect target or of a held event the time it was received
and the time its reply was marked (`Timed`: no other time is ever compared).
`Stamp` adds what a step of `Ingestion` stores. `Failures(r)` is the set of names
of the checks of `overview` that fail, so that a property can speak of one of
them; `OverviewVerdict` is the verdict. Percentiles, durations and the rest of
the overview's payload are left out.

### ScenarioRun

`ScenarioRunner` is one coroutine; `at` names the await it is suspended in, `leg`
which delivery of the current event is under way (planned, retried after the
forced disconnect, planned duplicate) and `try` how often it failed. One action is
what the coroutine does between two awaits. A socket of the client is a `Conn` of
`Ingestion`, `peer` the client's end of it and `wire` the one message on its way
to the server; replies are read from `Ingestion!sent`, or from a send that has
begun. Every server step is an action of `Ingestion` conjoined with `Stamp`
(`Server`), so the composition adds guards and evidence and no new behaviour of
the server: `ServerRefines` says so, and it is proved.

Not modelled of the simulator: rates and sleeps (the order of its sends does not
depend on them), output, the command line. The overlay side is what the
verdict sees of it: that a document opened a session, and which events were
rendered, each after it was processed (`RenderEvidence` of `OverlayHub`).

## Runs

| Run | Instance | Question |
| --- | --- | --- |
| `ingestion_runs` | 2 runs, 2 sockets, 6 kinds of message, 2 deliveries | evidence follows the socket, canonical rows come from the manifest, completion closes |
| `ingestion_faults` | 1 run, 2 events, 2 sockets, a crash, a failing transaction | truth of replies and marks, one effect, the contract's safety |
| `ingestion_order` | 1 run, 4 events, 1 socket | arrival index, order flag and gap for every arrival order |
| `ingestion_live` | 2 events, 2 crashes, fairness | recovery, the contract's liveness |
| `overlay_faults` | 1 document, 2 events, 2 connections, a failing transaction | meaning of a render acknowledgment, replay against broadcast |
| `overlay_reconnects` | 1 document, 3 connections, a crash, a failing transaction | late ends of replaced connections |
| `overlay_sessions` | 2 documents | separate evidence for each document |
| `overlay_live` | 1 document, 2 connections, a crash, fairness | every processed event is acknowledged |
| `scenario_seeds` | up to 44 events, every sample of at most 12 candidates and the extreme ones of more | plans are valid, faults do not meet, reordering shows, at every boundary of the window and percentage arithmetic |
| `scenario_small_burst` | up to 10 events | expected violation, see Findings |
| `run_losses` | 2 events, 4 sockets, 4 plans, 2 exchanges that time out or break, a timer that runs out | replies and deliveries match, counts are true, arrivals follow the plan, a PASS is earned and final, a FAIL has a known reason |
| `run_live` | 1 event, 3 sockets, 3 plans, a crash or a failing transaction or (plan of one plain event) a lost exchange, a timer that runs out, fairness | the runner ends, a reconciled run reaches PASS, the server refines `Ingestion` |

Bounds. `MaxAttempts` bounds stored deliveries, `MaxCrashes` and `MaxFaults` the
crashes and failing transactions, `MaxConns` the overlay connections. Two
deliveries of one event are a first and a duplicate; a third adds a second
duplicate only, and the order run takes four. Two sockets are enough for a
retry to race its original, two runs for foreign evidence. Three connections of
a session give a replaced, a replacing and a further one. A crash at every point
is in the runs that allow one. `MaxFaults = 1` is every single failing
transaction at every point. `MaxCount = 44` passes
every boundary of the planner: windows clipped at 3, 5 and 8 events, the second
window from 20 on, the minima of the percentages. `MaxDrawn` bounds the
candidates of which every sample is tried; of more the lowest and the highest
are. The last overlay connection does not break and the
API does not crash once it is open: without that the system may be cut off for
ever and nothing could be promised.

The plans of `run_losses` are a forced reconnect followed by a held event with its
duplicate, the held one with an invalid event after it, two plain events out of
order, and two invalid payloads (one of them cut-off JSON): between them every
branch of the delivery loop and every clause of the verdict. Two losses let a
retry fail as well; `MaxTries = 2` instead of five lets the retries run out within
them. `Explored` leaves out two things: acknowledgments of the document
before the run's completion (no step and no operator reads them before it), and a
second loss in the plans that have a duplicate, where it multiplies the states of
the first. `View` keeps of `timeline` what the verdict can still depend on;
MCScenarioRun says why. The plans of `run_live` are a forced reconnect, a held event with its duplicate, and
one plain event whose only second delivery is the retry after a loss. Its constraint
`OneMisfortune` cuts only steps that spend a misfortune: a crash or a failing
transaction after the first of them, a loss in the first two plans, and a crash, a
failing transaction or an expired timer in the third. What is checked are the fair
behaviours with at most that much bad luck. The third plan is where a reply that
cannot be sent leaves an event to the duplicate alone: nothing restarts, so only the
processing a duplicate triggers brings the run to its PASS. `MaxAttempts = 9`
is never reached in either run.

A definition commented "Mutant:" is no part of a specification. It is a plausible
bug of the definition after it, and PROJECT.json pairs each checked property with
a mutant under which TLC finds that property violated.

Deadlock checking is off: all clients may be done, the bounds may be exhausted,
and the system rightly stops.

Fairness. `Ingestion!Fairness` and `OverlayHub!Fairness` assume weak fairness of
what the event loop schedules (a handler or a send that can go on does), of a
restart (`restart: unless-stopped` in compose.yaml) and of recovery, and on the
overlay side of the document's timer and message callbacks (overlay.js:71-98).
Nothing is assumed about sources, about the operator completing a run, or about
the network. `ScenarioRun!RunFairness` adds the runner's coroutine, the handlers of
each socket and a document that in the end draws what is processed, which is
`OverlayHub!ProcessedIsAcknowledged`. Losses, crashes and failing transactions are
not fair: they may happen or not.

## What is proved

The proofs about `Ingestion` hold for all runs, events, sockets, manifests, messages
and bounds that satisfy the module's assumptions.

`IngestionProofs.tla`:

* `BaseInvariant` - `Spec => []BaseInv`. `BaseInv` is the type invariant made
  inductive: `TypeOK`, `Binding` (a handler past its handshake is bound to a run
  that exists), `Phases` (the state of the server and of its handlers fit each
  other), `PendingReplies` (a reply under way names an attempt of the table and,
  if it is an acceptance, a stored event) and `CanonicalFromManifest`. `TypeOK`
  alone is not inductive: marking a reply or storing an effect keeps the tables'
  types only because the attempt and the event a handler holds exist.
* `TypeCorrect` and `CanonicalRowsAreRegistered` follow.

The proof has one lemma for each action; the lemmas about finite tables
(`FiniteTables`, `MaxOfBounded`, `GapType`) are what the arithmetic of
`CanonicalRow` rests on.

`IngestionSafety.tla` first sorts the steps by what they do to the database
(`StepKinds`): nothing, an attempt that changes no row, an attempt with its
canonical row, a mark of a sent reply, the first effect of a row. Every property is
then a case for each kind:

* `SafetyInvariant` - `Spec => []SafetyInv`, the conjunction of `BaseInv` and the
  six properties below; `RepliesStayDurable`, `AttemptsStayWithSocket`,
  `MarksAreTrue`, `EffectsAreUnique`, `AcceptanceHappensOnce` and `AcksAgree` are its
  parts. They lean on each other: that a new row starts unacknowledged agrees with
  its attempts only because no earlier attempt of the event was accepted, and a
  reply stays true because attempts and rows are never taken back (`TablesGrow`).
* `ArrivalsAreExact` - `Spec => []ArrivalEvidence`. The property says of the gaps that
  they tile: `Advance(e)` is the interval of sequences over which an on-time arrival
  moved the maximum of its run, and the intervals of the on-time rows are disjoint and
  cover `1 .. PreviousMax`. That is stronger than "the gaps add up to what was
  skipped" and needs no sum. `NewRow` says where a new row lies (its arrival index is
  the next, its interval starts above the old maximum, or it is out of order and has no
  gap); `MaxOfGrowing` is the fact about maxima it rests on; `ArrivalsKeptWithRow`
  then gives the four conjuncts one by one.
* `EvidenceOnlyGrows` and `CompletionClosesRuns` - the two action properties.

`IngestionRefinement.tla`:

* `ContractIsKept` - `Spec => ImplementsContract`: run creation and completion are
  the contract's `Open` and `Close`, a stored attempt its `Deliver` under a new
  identity, a first effect its `Effect`; a quiet step may acknowledge, and what it
  acknowledges is stored because replies are durable; marks are invisible.

`ScenarioProofs.tla` proves, for every event count and every sample:

* `ReorderedIsOrder` - the send order is a permutation of the manifest, both
  windows lying inside it (`WindowsFit`) and each reversal keeping it
  (`ReverseSliceKeepsOrder`).
* `PlannedOrderIsComplete` - hence every plan sends each event exactly once.
* `BurstFaultsDoNotMeet` - `Spec => []FaultsDoNotMeet`: samples avoid what they
  exclude (`SamplesAvoidExcluded`), and the disconnect is not after the burst's
  end (`ReconnectBeforeBurst`, for `Round` of 40 and 70 per cent).
* `BuiltPlansAreValid` - `Spec => []PlansAreValid`, from the invariant `PlanInv`: what
  is built is accepted unless it is a burst of fewer than seven events, which is
  refused. A sample of k out of n elements has min(k, n) (`SampleSize`), so below
  seven events the five invalid ones and the target are all there are and nothing is
  left to hold (`InvalidsTakeAll`), and from seven on something is
  (`InvalidsLeaveOne`).
* `ReorderingIsSeen` - `Spec => []ReorderingIsObservable`. A reversed window is
  inverted wherever two of its events are not invalid (`TwoLeftAreInverted`). The
  invalid sample of a burst is two per cent, at least five, and a burst of seven or
  more has a window of at least seven. From 275 on it has disjoint windows of eight
  and six, and hiding both takes seven invalid events in one and five in the other
  (`DisjointParts`, `BurstIsSeen`): the sample has twelve from 575 on, which is
  the property's limit.

`ScenarioRunProofs.tla` proves, for every plan, every number of sockets, losses,
crashes and failing transactions:

* `CompositionKeepsIngestion` - `RunSpec => ServerRefines`: each step of the
  composition is a step of `Ingestion` or leaves it alone (`ServerSteps`,
  `RunnerSteps`), so every theorem about `Ingestion` holds here.
* `ClientInvariant` and `AcknowledgedIsStored` - the invariant `ClientInv` is the
  server's `SafetyInv`, that no other run exists, and that every event the client
  counts is stored. A reply the runner reads is true (`ReadRepliesAreTrue`, from
  `RepliesStayDurable`), what is stored stays, and its content is the manifest's.
* `RunTypeCorrect` - the types, with the retry bound and the single forced reconnect;
  `Typing` adds that each marker and timestamp stands for an attempt that exists.
* `ProtocolInvariant` - `RunSpec => []ProtocolInv`, which relates the runner, its
  sockets and the tables. Sockets are opened in turn for this run only
  (`SocketsInTurn`). What is on any wire, also of a socket long abandoned, was sent
  for a position of the plan up to the current one (`WiresFollowPlan`). The runner's
  own socket carries one message or one unread reply to it, never both and never two
  (`OneExchange`): it is fresh after `Dial`, since no handler step touches a socket
  above it, and it is closed before anything is sent again. Which delivery of
  the current event is under way fits the plan (`LegsFit`). Stored rows are valid
  events of the order, each with the number of valid positions up to its own as its
  arrival index, and what was answered is acknowledged (`StoreFollowsPlan`): the next
  row is the current event or one that is stored already, because everything before is
  acknowledged and what is acknowledged is stored. The counters count the positions
  passed (`CountersFollowPlan`).
* `RepliesAnswerRequests` and `ArrivalsFollowPlan` follow, the second because
  `PlannedArrivals` picks the k-th valid position by its rank (`PlannedByRank`) and a
  row's arrival index is that rank.
* `CompletedIsReconciled` - `RunSpec => [](runs[TheRun] = "completed" => Reconciled)`:
  the completion request is only sent when the client's own account is complete, also
  when the response is lost and the runner exits with a failure. `PassesAreEarned`,
  that a PASS implies the same, is its corollary: what the verdict adds to completion
  does not matter for that direction.

The assumption on a plan that these proofs and those of `VerdictProofs` use comes from
its construction: its invalid, duplicate and delayed sequences and its reconnect target
are the manifest's (`build_scenario` samples `1 .. count`; `RunnerAssumption`).

`OverlayProofs.tla` and `OverlayDeliveryProofs.tla` prove every safety property of
`OverlayHub`, for all events, documents, connections, crashes and failing
transactions. There are many actions and each disturbs little, so the proofs first say
what one step may do to one handler (`PcMoves`, `HandlerFate`), transport (`WireMoves`,
`FrameMoves`), registry entry (`RegistryMoves`), send (`TaskMoves`, `TaskFate`) or stored
row (`StoreMoves`, `AckMoves`, `NackMoves`); the invariants follow from these lemmas and
not from the actions.

* `HubInvariant` - `Spec => []HubInv`: types; connections are numbered as they are
  opened and an unused one carries nothing (`Sockets`); the registry, a document and a
  send refer to connections of their own session (`Owned`); a handler's send belongs to
  a state in which it sends, and effects sent are processed (`Tasked`).
  `HubTypeCorrect`, `LiveConnectionsAreRegistered` and `RegisteredSessionsAreOpen` are
  its parts. A late `remove` is harmless because the connection it names is the
  remover's own: `Owned` is why the comparison in `OverlayHub.remove` suffices.
* `FrameInvariant` adds that frames in flight are processed, that cards are 0 or 1, and
  that an acknowledgment in flight has its card; `RenderEvidenceHolds` follows.
* `AcksAreRecordedBeforeTheLockIsFree` adds `Dispatching`: while no transaction has
  failed, a frame or answer in flight on a working connection has its dispatch
  stored or its send still holds the lock. `NoGenuineAckIsRefused` follows.
* `DeliveryInvariant` extends `NoEffectLost` to the replay: what is not covered is
  still before the replay (`Outstanding`). When the replay begins, the query's answer
  covers what is not acknowledged and `RenderEvidence` the rest; an event processed
  later is broadcast to the connection because it is registered; none is recovered at
  startup while a handler lives (`Down`). `NoEffectIsLost` follows.

`VerdictProofs.tla` proves what the verdict is worth. `PassRemains` is
`RunSpec => PassIsFinal`. After completion a run's rows are kept but for flags that only go up (`RowsKept`), the evidence only
grows, and no marker of a client is added to it (`EvidenceKept`, since the request is
refused). Then every check of the verdict that holds goes on holding: the counts
(`CountsKept`), the order (`ArrivalsKept`), the held events (`DelayKept`), and the
reconnect (`ReconnectKept`), whose uniqueness conditions could be broken by a late
row and are not, because late rows are the server's.

`FailuresExplained` is `RunSpec => []FailuresAreExplained`, from the invariant
`EvidenceInv`: `ProtocolInv` and, as long as nothing has crashed or been rolled back and
the runner has not failed (`Calm`), `EvidenceFits`. That relates the server's tables and
their times to where the runner is, a conjunct for each kind of evidence:

* Every attempt is what the server makes of the payload of a position, so none is a
  conflict or an internal error (`AttemptsFit`); a socket's unread exchange stored at
  most one (`OneAttempt`); the figures reported at completion stay (`CountersFit`).
* While the only retry is the forced one (`Undisturbed`), the refused attempts are
  those whose refusal was read, but for the one under way (`RefusalsFit`), and each
  attempt at a held event follows its marker on the marker's socket (`DelaysFit`): the
  runner cannot dial again between a marker and the first attempt at its event.
* The target's attempts have their times (`TimesFit`) and there is one over each socket
  (`TargetOnce`); each socket is marked as reconnected once (`ReconnectsFit`); while
  nothing is lost, no handler ends before its client closes (`SocketsStay`).
* The forced disconnect and the recovery are marked once, the second on a later socket
  with its reconnect between them (`MarkersFit`, `ForcedRight`, `RecoveredRight`).

The steps are sorted first by what they do to the tables (`CalmSteps`: a handler moves,
a line breaks, the runner dials or gets on at its socket). `ReconciledFailures` then
takes the verdict's checks one by one: the counts (`ReconciledCounts`), the attempts
(`ReconciledDeliveries`), the order (`ReconciledOrder`, as every valid position is stored
and `ArrivalsFollowPlan`'s argument places it), the held events (`ReconciledDelays`),
and the reconnect (`ReconciledReconnects`). For the last one the three markers that
exist are the ones the verdict looks for, and each of its comparisons of times either
holds or is one of those that `UnorderedHandover` and `LateMark` name.

Every invariant and every safety action property of the runs has a theorem. Only
model-checked are the liveness properties and `ImplementsFairContract`, which are out of
the prover's reach.

## Findings

* `scenario_small_burst`: `build_scenario` cannot plan a `reconnect_burst` of six
  or fewer events. Five sequences are drawn as invalid, one is the reconnect
  target, nothing is left to be delayed, and the validator refuses the plan
  ("delayed_sequences and a positive delay_ms are required together",
  models.py:189-192) although the model admits every count from 1 (models.py:154).

## Observations

* A failed send takes its connection out of the registry before the handler of
  that connection ends, and the handler closes the session's row only if it was
  still registered (main.py:121, 502-504): the row then stays connected until the
  document's next connection ends. `RegisteredSessionIsOpen` is the direction
  that holds.
* An exception between `hub.add` and the `try` (main.py:452-463) leaves the
  registry entry of a handler that is gone; the next send to it, or the next
  connection, removes it. The model has these behaviours and no effect is lost.
* A run that its client reconciles, with nothing crashed or rolled back, can still
  be judged FAIL. `FailuresAreExplained` lists how. The verdict wants the server's
  disconnect row of the forced socket before its connect row of the new one
  (analytics.py:629), and both before the client's markers that follow; but the
  old handler may still be broadcasting (main.py:414), and the upgrade response can
  reach the client before `accept()` has returned (main.py:356). A retried invalid
  payload is stored twice while the verdict wants the exact number. A held event
  that is retried moves to another socket than the one its marker names. A retry's
  reply can be read, and the recovery recorded, before the reply is marked
  (main.py:406). Each needs a slow handler or a loss; the repository's documents
  promise nothing for those, so they are no findings.
* The simulator never matches a reply with its request. That is sound because it
  closes a socket before it sends again (`ReplyAnswersRequest`).
* The response to the completion request may be lost after the run was completed:
  the simulator then exits with a failure and the verdict can be PASS.
* When `record_dispatch` fails after a send, the document's acknowledgment is
  refused on that connection and accepted only after its next one
  (`NoGenuineAckRefused` is stated for no failing transaction).

## Not modelled

* The dashboard, the overlay page's markup and style, the HTTP read routes, and
  analytics' event table, event evidence, performance and failure views and
  percentiles: they read the database in one request, keep no state and take no
  decision that another part depends on.
* Field formats and length limits of the pydantic models: the library's. A message
  is known here by what validation can tell apart.
* Messages on the overlay socket that are no render acknowledgment. Valid JSON is
  answered with a `render_nack` and changes nothing. Of anything else `receive_json`
  raises and the handler ends, with the `finally` block of a disconnect
  (main.py:465-510): in the model, a connection that breaks and its `Disconnect`.
* `accept()` of an overlay connection that returns although the peer has already gone:
  `Register` and `AcceptFails` are told apart by the state of the link. In the model
  it is a `Register` followed at once by a break; no property tells the two apart.
* Rates, sleeps, output, containers and CI. The restart policy appears as fairness.

## What could come next

A composition of `OverlayHub` with `ScenarioRun` instead of the acknowledgments `Verdict`
takes from it.
