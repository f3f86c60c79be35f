# Aeolus in TLA+

Aeolus is a self-hosted automation hub: devices speak MQTT or are reached through connectors (Hue, Kasa),
authored rules react to their state, and commands go back to them with as much confirmation as the device can
give. This directory holds TLA+ models of the hub's core and of the parts around it that hold shared state, TLC
configurations that check them on small instances, and TLAPS proofs of their main properties for instances of
any size.

The backend is one Node.js process. JavaScript runs one callback at a time, so an action of a model is the
code between two `await`s (or between a call and the callback that continues it); everything else may happen
in between. SQLite calls are synchronous: a statement or transaction happens or throws, and the process may die
between any two. Authored scripts run in an isolate of their own beside the host, and browsers and the MQTT
broker are other processes.

## The system and what is modelled

Paths are relative to the repository's `src/`, frontend paths to the repository.

| Part | Code | Module |
|---|---|---|
| Execution gate | `automations/execution-gate.ts` | `ExecutionGate` |
| Automation engine, rule registry, cron timers, rule routes, Automation Events, Shared State's change events | `automations/automation-engine.ts`, `automation-event-service.ts`, `shared-state/shared-state-store.ts`, `api/routes/automation.routes.ts` | `AutomationEngine`, on top of `ExecutionGate` |
| One execution of a script: sandbox, `automation()` loop, result collector | `automations/sandbox.ts`, `command-result-collector.ts`, `execution-result.ts` | `ScriptExecution` |
| Command lifecycle table and tiers | `automations/command-lifecycle.ts` | `CommandLifecycle` |
| Command service, pending-command tracker, history store | `automations/command-service.ts`, `pending-command-tracker.ts`, `command-history-store.ts`, hooks in `index.ts` | `CommandPipeline`, abstractly `VerifiedCommand` |
| Device registry | `core/device-registry.ts` | `DeviceRegistry` |
| Connector manager, ownership routing | `connectors/connector-manager.ts`, `connector-store.ts`, `action-router.ts` | `ConnectorManager` |
| MQTT connection | `mqtt/mqtt-service.ts` | `MqttConnection` |
| Broker provisioning and credentials | `mqtt/mqtt-provisioning-service.ts`, `auth/mqtt-credential-service.ts` | `Provisioning`, on top of `MqttConnection` |
| Shared dashboard | `frontend/src/store/dashboard-store.ts`, `lib/ws-client.ts`, `api/routes/layout.routes.ts`, `websocket/ws-server.ts` | `LayoutSync` |
| Data Store | `data-store/data-store.ts` | `DataStore` |
| Startup and shutdown | `index.ts` | what concerns each module above |

How the parts meet: device state reaches the hub as an MQTT message or a connector discovery and becomes an
event on the bus. The device registry stores it, the engine matches rules against it and submits executions to
the gate, and the tracker compares it with the confirmation conditions of pending commands. An execution runs
its script in the sandbox, which calls `CommandService.execute()`; the handler publishes to MQTT or awaits a
connector through the action router, and the router re-emits the device's new state. A script also wakes other
rules through events and Shared State. The command history, device, connector, rule and layout rows, the Data
Store and the broker's files are what survives a restart.

## The modules

**ExecutionGate.** Requests are numbered in submission order; `keyOf` and `status` say which key each has and
what became of it. `active`, `queues`, `queueOrder` (the insertion order of the JavaScript `Map`) and
`dedupKeys` are the class's fields. `Submit` is the whole of `submit()`, one disjunct per result.
`complete()` frees a slot and then drains: `Complete`, `Promote`* and `EndDrain`, and since a promoted thunk
runs synchronously up to its first await, and may publish and thereby submit, submissions are possible between
two promotions but nothing else is. `Tick` is the wall clock, which may also step back. Dedup key and coalesce
key of a request are built from the same parts by the engine, so one key stands for both.

**AutomationEngine** extends the gate with what submits to it. `rows` is the table of rules, `registered` and
`timers` the revision of the rule object in the registry and in a cron callback, `edits` the PUT requests that
await their compiler, `inFlight` the Automation Events on their way through the broker (which may lose or
reorder them), `cause` what each submitted closure captured: the revision of its rule and the causal depth of
its trigger. `Create`, `BeginEdit`/`FinishEdit`/`RefuseEdit`, `Toggle` and `Delete` are the routes, any of which
may throw after it has written the row (`torn` names the rules this happened to, until a later route succeeds);
`SharedSet` wakes rules in the same turn with the depth of the writer, `DbSet` is the sandbox's `db.*` alias,
which hands no depth on. Which events match a topic, scope or condition is left open. What an execution does
is left open here too and is the subject of `ScriptExecution`, for rules with a script; form rules are registered
and submitted in the same way.

**ScriptExecution** is one execution: `executeScriptRule()`, `Sandbox.execute()`, and the `automation()` loop
inside the isolate. What the author wrote is open: any number of `automation()` bodies and other asynchronous
functions, whose callbacks issue `devices.action()`, `devices.actionAll()` and `mqtt.publish()` calls, await them
or not, await something else, return or throw. The isolate runs one body up to its next await (`turn`) on a thread
of its own. A call is in transit until the host's callback runs (`Arrive`), which may be after the execution was
recorded; the host settles commands (`Settle`), and the isolate hears of it later (`Learn`). That distance is the
point: on the host the in-flight set is empty while the isolate has not yet gone on to its next action. A publish
(`Publish`) is dispatched at once, and neither in that set nor collected. Before the wait the host asks the isolate
for its reference to `__awaitAutomations` (phase "asking", `ReferenceArrives`, `ReferenceFails`); `StageOneEnds`,
`DrainLoop` and `BudgetExpires` are the two-stage wait, `Finish` the end with `assembleExecutionResult()`. A body
may exceed the memory limit at any time (`ScriptFails`, `OutOfMemory`). The flag `commandFailed` is one for all
bodies, as in the bootstrap script. Commands may settle after the record.

**CommandLifecycle** holds the transition table, the completing states and how the tier of a command is chosen.

**CommandPipeline.** A call of `execute()` is `idle`, `dispatching` (the handler is awaited), `waiting` (the
tracker's promise is awaited), `returned` or `lost` (the process died). `record` is the `command_records` row
with its transitions, `pending` and `resolution` are the tracker's entry and promise. Replies
(`RouteRejection`, `RouteAckCompletes`, `RouteReply`), telemetry (`ObserveState`) and the timeout may come at
any time from `register()` on, also while the handler is still publishing, repeatedly, and in any order. Every
durable write may fail. `Crash` and `Restart` with `reconcileInterrupted()` (which may itself fail half-way)
close the circle. The inputs are the facts that decide `execute()`'s control flow; payloads, evidence texts
and conditions are abstracted to "satisfies" or not.

**VerifiedCommand** is what a caller and an auditor may rely on: a command is sent at most once, has one
outcome, and its journal entry is closed at most once, with that outcome or, after the call has ended, as a
failure.

**DeviceRegistry.** `mem`, `index`, `dirty` and `timer` are the devices map, the topic index, the write-behind
batch and its timer; `disk` is the table. A device keeps what decides the control flow (integration, topic,
owner) and a version in place of its state. `UpsertMqtt` and `UpsertConnector` are `upsert()` for the two kinds
of events, `ResolveMqttDeviceId` the choice of an id for a topic. SHA-256 is taken to be injective, so only the
first candidate id is modelled. `promised` and `undeleted` are history: the profiles an operator was told are
set, and the rows whose DELETE threw. `registerDevice()`, which only tests call, is left out.

**ConnectorManager.** A request that awaits its connector is two actions: `EnableStart`/`EnableFinish`,
`DisableStart`/`DisableFinish`, `RetryStart`/`RetryFinish`, `PollStart`/`PollFinish`, `ActionStart`/`ActionFinish`;
`EnableFails` and `DisableFails` are the paths on which the store throws. `live` is the instances map, `count` and
`handlers` the reference count and the registered contributions of a type, `owner` the `connectorInstanceId` of
each device, `seen` an instance's own device set, `stored` the rows. `disposeAll()` and `restoreFromStore()` are
modelled instance by instance; a record that is malformed or of a type that is not installed is passed over
(`Skip`) and named in `skipped` until the process stops. The 100 ms in which a device is in memory only belongs to
`DeviceRegistry`; here a device's owner survives a crash.

**MqttConnection.** `this.client` is one field, but each attempt makes a client object, several can be alive,
and the listeners of an attempt act on whatever `this.client` holds when they run. The service is one record
`svc`, every handler an operator on it, and an action is a handler with all that runs before it next yields.
`TimerFires` is the reconnection loop, `Reconnect` is `reconnectWithCredentials()`.

**Provisioning** composes it with `disk` (settings, credential rows, `mosquitto.conf` and the password file) and
with the broker. An operation is its sequence of durable writes (`LevelWrites`, `RegenerateWrites`, ...). It may
stop after any of them (`StopsAmid`), because the next one throws and the request answers 500, or because the
process ends; `Startup` is `initialize()`. Three history variables say what is known of the files: `strayed` (a
change failed or overlapped another), `fromRows` (the password file was last written from the credential rows) and
`lingering` (credentials whose row was deleted by a request that then failed to write the file). The broker reads
its files when it starts or is signalled, at a time of its own. Hashing and file formats are left out: a file is
the set of credentials it admits.

**LayoutSync.** Browsers and the server. A layout is the set of edits it shows, so that an edit which a save drops
can be named. Each browser has the state of its dashboard store (revision, conflict, debounce, the save and the
reads in flight) and its WebSocket's messages. Requests are served and answered in any order, may fail before or
after they took effect, and sockets drop with what they carried. History variables name the browsers whose requests
went wrong, which the properties exempt by name. `Adopt` takes a layout as it is: the filter for pane types the
build does not know (`dashboard-store.ts:258`, `284`) is the identity for browsers that run the build which wrote
the layout.

**DataStore.** `db` holds collections, records and the stored configuration. Every SQL statement commits by itself,
so an operation may stop between two of them: `FailInWrite`, `FailInDelete`, `FailInRetention`, and the number of
keys that `Configure` and `Disable` save. The process then goes on, with its configuration in memory changed and
not or partly stored (`unsaved`), or it has died, which is the same step followed by `Restart`. `Samples` is
`query()` with `maxPoints` as a function: every result it may return.

## Runs

Configurations say `CHECK_DEADLOCK FALSE` where the modelled part may be idle for good; `MCDataStore.cfg` does not.

| Run | Instance | Result |
|---|---|---|
| `gate_safety` | 2 rules, 4 keys, 3 slots, queue limit 2, 6 requests, 2 clock values | passes |
| `gate_serialization` | 2 slots, 4 requests | violated: see findings |
| `automation_engine` | 1 rule woken by Shared State, events and its timer, 1 slot, 3 requests, 2 revisions, 1 PUT, depth 1 | passes |
| `automation_chains` | the same | violated: see findings |
| `script_execution` | 2 bodies of 2 and of 1 callback, 2 calls, 2 commands, bulk calls of 2 | passes |
| `sandbox_throws` | the same | violated: see findings |
| `command_pipeline` | 2 commands, 2 devices, 8 kinds of request, 1 failing write, 1 restart | passes |
| `device_registry` | 2 topics that share a slug, 4 ids, 4 updates, 2 failing writes, 2 stops | passes |
| `connector_manager` | 2 instances of one type, 2 devices of which both see one, 1 device action, 1 failing write, 2 stops, any records skipped | passes |
| `provisioning` | 1 request at a time, 1 device, 2 clients, 2 timers, 3 passwords, 1 crash, 1 broker outage | passes |
| `layout_sync` | 2 browsers, one of which loads the page, 2 edits, 1 reload, failure or lost socket | passes |
| `data_store` | 2 collections, 3 records, 2 sets of limits, times 0..2 | passes |

*gate_safety.* `CapsRespected`: never more than `maxActive` executions or `maxQueuePerRule` waiting.
`WorkConserving`: outside a drain nothing waits beside a free slot except behind an execution of its own source,
which matters because only a completion drains. `CoalescingIsFaithful`: of a state source there is one pending
request, in order, and the newest state that was not dropped because the rule's queue was full is never lost; of a
discrete source a key is registered exactly while
one execution of it waits or runs. `RuleQueuesAreFifo`: an entry overtakes another of its rule only when the
wall clock stepped back in between. Three slots are the least with which a drain can have two to fill (two
sources that run with one request each behind them); six requests the least that overflow a queue of two then.

*automation_engine.* `RegistryFollowsRows`: whatever came between a PUT and the end of its compilation, the
registry and the timers are exactly those of the enabled rows; a rule whose last route threw half way may be missing
or left over, but is of its row's revision. `LaterRequestsRunLaterRules`: queued closures keep old rules,
but never run them after newer ones were requested. `MixedChainsAreBounded`: events and Shared State share one
causal budget. `DeletedRuleIsNotWoken`: by nothing, unless its deletion threw half way. `QueuedEventuallyStarts`: if
every execution leaves its slot again and again, what is queued starts; the only fairness is that a drain, which is
synchronous, goes on. The condition is part of the property because the code does not establish it for every rule:
`finally` calls `complete()`, and `ExecutionEnds` below shows when a script's execution ends, but a form rule awaits
`CommandService.execute()` (`executeDirectRule`), whose handler may never settle. One rule is enough for a chain: it
wakes itself. Depth 1 and three requests reach the refusal and its neighbours.

*script_execution.* `NothingIsMissed`: an execution that ends by its wait has every command that reached the host
settled and in its record, every `automation()` body at its end (unless one threw or the isolate was stopped), and
no call in transit that such a body awaited. A call nobody awaits may be, and a publish is waited for by nobody.
`SuccessIsTruthful`: a recorded success has no failed command among its results, and an execution that was waited
for is a success exactly if all the device commands that reached the host were. `FailFast`: after an awaited
failure an `automation()` that does not continue on failure starts no further callback, whatever the other bodies
do to the flag they share. `ExecutionEnds`: every execution is recorded, unless a resumed body keeps the isolate
for ever before the host has its reference to `__awaitAutomations`: that await comes before the race with the
deadline (`sandbox.ts:949`). Fairness: the synchronous part returns or is stopped at its limit, the isolate answers
the host between two turns (it serves its tasks in order, hence strong fairness of `ReferenceArrives`) or rejects
when it was stopped, and the timer of the budget fires; nothing is assumed of commands, of how long a call crosses
or of authored code. Two bodies are the least that share the flag; two calls the least with a gap between them; a
bulk call of two commands can fail in part. A bulk call that matches nothing is left to the theorems.

*command_pipeline.* `SuccessIsProven`: no success without the evidence of its tier. `DispatchIsAudited`: no
physical command is dispatched twice or without a durable record. `HistoryIsTrue`: unless a write failed, record
and caller say the same, no open record is left behind, an acknowledgement that overtakes the DISPATCHED write
is in the timeline, and the three writers keep every timeline a path of the table. `CompletedIsFinal`: a
completed record never changes. `ImplementsVerifiedCommand`: the refinement. `WaitIsBounded` and
`RecordsAreCompleted`: waits end, records are completed. Fairness: armed timers fire, continuations of resolved
promises run, a supervisor restarts the process, and handlers settle (for the Kasa library, which has no timeout
of its own here, this is an assumption). Nothing is assumed of devices. Two commands suffice: commands interact
only through the telemetry of a device both observe and through reconciliation of all open records at once.

*device_registry.* `MemoryIsExact`: a device's row equals memory or waits in the batch with its newest snapshot,
so failed batches are not lost, late ones overwrite nothing and removed devices stay removed (unless their
DELETE threw); and the topic index is exact through collisions, adoptions of old rows, removals and restarts.
`ProfileSurvives`: while no write fails, an accepted command profile survives every stop. `BatchIsWritten`:
batches are written once the database recovers; fairness is that an armed timer fires. Two topics and a
connector that reports the same slug make every branch of `resolveMqttDeviceId()` reachable.

*connector_manager.* `StoreAgrees`: while requests are served, the instances in the map are the enabled rows that
startup did not skip, and a skipped row stays enabled.
`HandlersFollowInstances`: a type's handlers are registered while an instance relies on them and released with
the last, provided no disable ran twice. `SiblingKeepsDevices`: a device leaves the registry only through a
disable of its owner or a delete action. `DisabledStaysDisabled`: no update, retry or restart that overlaps a
disable enables the instance again.

*provisioning.* `RevokedStaysOut`: a revoked device credential is in no file the broker is told to use, whatever
was interrupted, failed or overlapped; but `deleteCredential()` commits the row's deletion first, so a revocation
that answers 500 because the file could not be written leaves the line there until the file is next written, by any
request or at the next start. `NextAttemptIsAdmitted`: between changes, what the service will present next is
admitted by the files. `FilesFollowSettings`: unless a change failed or overlapped since the start, the files are
those the settings call for, or, once a credential was created or deleted, the password file is that of the rows;
the two differ in `shared_password` mode (see findings). `ConnectionInv`: "connected" is one open client with one
set of handlers, and otherwise exactly one thing (timer, attempt or replaced connection) will bring the service
back, except after a `connect()` that rejected, which leaves that to its caller, and after a silent close.
`ReconnectsEventually`. Fairness: what is ready is served, timers fire, the broker is restarted and signalled. Two
clients are alive at once while one replaces the other; three passwords allow a change and a regeneration after the
first.

*layout_sync.* `NoOneElsesWorkIsLost`: a save replaces the whole layout and still drops only the saver's own edits,
unless the saver's `initialize()` was overtaken by a later read. `UnsavedWorkIsAccountedFor`: an edit that is shown
and not saved is on its way, or the operator is told. `ConflictIsReal`: nobody is told of a conflict when only they
have written, except that a reload which overtakes the answer to the browser's own save makes that save look
foreign (`Misread`); no configuration reports that case. `ViewersConverge`: passive viewers end with what the
server has. Fairness: requests are answered, messages arrive, timers fire, the socket reconnects; nobody has to
edit.

*data_store.* `StoreInv`: stored and effective configuration agree unless the last save threw, and a record belongs
to a collection, wherever an operation stopped. `EvictionIsExact`: an accepted write drops oldest records only, no
more than one of its two limits forces, and leaves both respected; a write that stops half way also drops oldest
records only; retention spares what is not due. In the run all three limits are lowered, the cap of a collection
below what is stored; a budget below what is stored, which takes a fourth record, is left to the theorem.
`SampleIsFaithful`: a sample has no more points than asked for, and a point less than a bucket after each record.
`RetentionIsEnforced`: while the timer runs, what has outlived its retention goes from an enabled store. Fairness:
the interval elapses and the database does not fail for ever. A record is two bytes and the budgets are odd, so
rounding matters.

## Findings

The standing violated runs, in which the code does something else than a comment or a document says:

- `gate_serialization`: `drain()` promotes the oldest entry without looking whether its source is active, so
  the completion of an unrelated execution starts a second execution of a source beside the first
  (`execution-gate.ts:116`).
- `automation_chains`: the sandbox's `db.set()` and `db.delete()` reach Shared State without a write context, so
  a rule that wakes itself through them starts at depth 0 each time and never stops (`automation-engine.ts:394`).
- `sandbox_throws`: `execute()` swallows the rejection of the `automation()` bodies and returns success, so an
  execution whose body throws without a failed command is recorded as a success (`sandbox.ts:827`,
  `docs/reference/automations.md:120`).

Three more disagreements between the code and what it says of itself are in configurations to be run by hand:

- `MCDataStoreDisabled` (`DisabledStoreIsPreserved`): nothing stops the retention timer when the store is disabled,
  so records go on being pruned, while `data-store.ts:253` says "Disable the Data Store. Existing data is
  preserved." and `docs/adr/0016`, line 84, says that disabling the Data Store "disables Collections, retention and
  storage configuration". The standing property `RetentionIsEnforced` says nothing of a disabled store.
- `MCProvisioningShared` (`SharedFileHasNoDevices`): in `shared_password` mode, creating or deleting a credential
  through `/auth/mqtt-credentials` replaces the password file by the backend's and the devices' lines, while
  `mqtt-credential-service.ts:12` says that shared-mode composition "must NOT include device entries".
- `MCAutomationEngineDelete` (`DeletedIsGone`): DELETE removes the row, then the private state, then the registered
  rule; if the second throws, the request answers 500 and the deleted rule stays registered and is woken until the
  next start (`automation.routes.ts:640`-`650`).

Further ones show smaller things. Each is violated, except the first:

| Configuration | Property | What it shows |
|---|---|---|
| `MCExecutionGateLive` | `QueuedEventuallyStarts` | passes: the gate alone, with 2 slots and 4 requests |
| `MCCommandPipelineHistory` | `InterruptedMeansInFlight` | after a failed history write a command that returned success keeps an open record, which the next start closes as failed, "restarted while the command was in flight" |
| `MCCommandPipelineTier` | `TierIsNeverRaised` | a tier that cannot be proved is replaced by the ceiling, so `acknowledged` may become `observed` (`command-service.ts:613`) |
| `MCDeviceRegistryProfile` | `ProfileAlwaysSurvives` | `setMqttCommandProfile()` returns normally when its write failed; a crash before the retry loses the profile |
| `MCConnectorManagerHandlers` | `SiblingAlwaysKeepsHandlers` | `disable()`, repeated after it failed, releases the type's count twice and takes the handlers from an enabled sibling |
| `MCConnectorManagerGhosts` | `DisabledOwnsNothing` | a discovery in flight during `disable()` puts devices of the disabled instance back |
| `MCProvisioningStored` | `StoredAgreesWithBroker` | when the reconnection is refused, because the broker has not reloaded yet or is down, the request ends with the files written and the level not stored; the broker then takes up the files and the stored level stays behind |
| `MCLayoutSyncDrafts` | `DraftsAreRetained` | an edit made while a passive viewer's reload is being answered disappears (`dashboard-store.ts:280`) |
| `MCDataStoreCleanup` | `EnabledStoreIsCleaned` | the retention timer starts only with the process; enabling the store later starts none |
| `MCScriptExecutionFlag` | `StopsForItsOwn` | one body breaks off for a failure of another, since they share the flag that the code calls per invocation |
| `MCScriptExecutionPreflight` | `AlwaysFailFast` | an `actionAll()` whose predicate throws sets the flag at once, and a later `automation()` resets it: that failure does not stop its own body |
| `MCScriptExecutionHang` | `AlwaysEnds` | a body that keeps the isolate busy once the synchronous part is over, before the reference to `__awaitAutomations` has arrived, is bounded by no timer (`sandbox.ts:949`), although "a never-settling action cannot make execute() hang" |
| `MCScriptExecutionStragglers` | `StragglersAreCovered` | a call outside `automation()` that is still in transit when the drain looks at the in-flight set is not waited for, and its result is not in the record |
| `MCScriptExecutionLate` | `NoResultIsDropped` | a command that settles after the budget pushes its result into a new buffer that nobody closes |

## Proofs

TLAPS proves, for all values of the constants that satisfy each module's `ASSUME`:

| Module | Theorems, with the property of a run each one states |
|---|---|
| `AutomationEngineProofs`, the gate | `GateInvariant`, `CapsHold` (`CapsRespected`), `NothingStranded` (`WorkConserving`), `KeysAreFaithful` (`CoalescingIsFaithful`), `QueuesAreFifo` (`RuleQueuesAreFifo`) |
| the same, the engine | `EngineImplementsGate`, `EngineRespectsCaps` (`CapsRespected`), `EngineInvariant`, `RegistryIsCurrent` (`RegistryFollowsRows`), `RulesOnlyGetNewer` (`LaterRequestsRunLaterRules`), `ChainsAreBounded` (`MixedChainsAreBounded`), `DeletedStaysAsleep` (`DeletedRuleIsNotWoken`) |
| `ScriptExecutionProofs` | `ScriptInvariant`, `DrainMissesNothing` (`NothingIsMissed`), `RecordsAreTruthful` (`SuccessIsTruthful`), `AutomationFailsFast` (`FailFast`) |
| `CommandPipelineProofs` | `PipelineInvariant`, `SuccessHasEvidence` (`SuccessIsProven`), `AuditBeforeDispatch` (`DispatchIsAudited`), `TrackerInStep`, `TimelinesFollowTable`, `RecordsAreFinal` (`CompletedIsFinal`), `PipelineRefines` (`ImplementsVerifiedCommand`), `HistoryInvariant`, `HistoryTellsTheTruth` (`HistoryIsTrue`) |
| `DeviceRegistryProofs` | `RegistryInvariant`, `NothingIsForgotten`, `BatchesHaveTimers`, `TopicsNameDevices`, `MemoryStaysExact` (`MemoryIsExact`), `ProfilesSurvive` (`ProfileSurvives`) |
| `ConnectorManagerProofs` | `ConnectorInvariant`, `MemoryMatchesStore` (`StoreAgrees`), `OnlyInstancesArePolled`, `SiblingsKeepHandlers`, `HandlersFollow` (`HandlersFollowInstances`), `SiblingsKeepDevices` (`SiblingKeepsDevices`), `DisabledForGood` (`DisabledStaysDisabled`) |
| `ProvisioningProofs` | `ServiceInvariant`, `AttemptsAreAdmitted` (`NextAttemptIsAdmitted`), `FilesFollow` (`FilesFollowSettings`), `RevokedStaysRevoked` (`RevokedStaysOut`), `ConnectionRecovers` (`ConnectionInv`) |
| `LayoutSyncProofs` | `LayoutInvariant`, `OthersWorkSurvives` (`NoOneElsesWorkIsLost`), `DraftInvariant`, `UnsavedWorkIsKept` (`UnsavedWorkIsAccountedFor`), `ConflictsAreReal` (`ConflictIsReal`) |
| `DataStoreProofs` | `StoreInvariant`, `StoreStaysSound` (`StoreInv`), `EvictionExact` (`EvictionIsExact`), `SamplesAreFaithful` (`SampleIsFaithful`) |

These are all the invariants, all the action properties and the refinement that the passing runs check. Each rests
on an inductive invariant; one lemma per action (or group of actions that do the same to the state in question)
shows that it is preserved, and the other theorems follow from it. TLC has checked each inductive invariant on
the instance of its run, or on a smaller one.

- `GateInv` adds to the first two properties that the `Map` of queues lists exactly the rules with a non-empty
  queue (`QueuesIndexed`): a drain ends when the `Map` is empty, and only with this does that mean that nothing
  waits.
- `SourceInv` is about keys: a request stands at one place of one queue (`WaitsOnce`), and beyond that only the
  sets of waiting and of running requests matter, whose statuses agree with where they are (`SourceSets`). Replacing
  an entry in place and taking one out are each described once, and what they do to these sets follows.
- `EngineInv`: a submitted closure has a revision that its row has or had (`VersionsAreOfRows`), the registry is
  that of the rows but for the rules a route left half done (`RegistryFollowsRows` is itself inductive with this),
  and the depth a trigger carries is the number of executions that led to it (`DepthsAreTrue`), which is what makes
  the bound on the depth a bound on chains. Every step of the engine is a step of the gate or none, so the gate's
  theorems hold in it.
- `ScriptInv`: while the execution runs, the collector holds exactly the results of the settled commands that
  reached it (`CollectorInv`); a body that awaits a call stands at the callback that issued it (`CallInv`); and
  every failure the isolate knows of is in the flag (`FlagInv`). The last is what fail-fast needs of a flag that
  others reset: bodies start, and reset it, only before the isolate can have learned of any result.
- `PipelineInv` adds `CallInv`, what is true at each point of a call: in particular that an unresolved
  tracked call has an armed entry and that a successful resolution already has its evidence. The proof treats
  the control state and the journal separately, with a frame lemma for the commands that do not move.
- `RefinementInv` adds that a missing record is blank and that no call runs while the process is down. Each step
  is then examined command by command: what it does to the call and to the record is a step of `VerifiedCommand`
  or a stutter, and a completed record stays.
- `HistoryInv` adds, for a command none of whose writes failed, the states in which its record may be at each
  stage of its call (`OpenStates`, which depend on the tier: only an observed command has an acknowledgement on
  record while it is under way), and that the acknowledgements seen are in the timeline. It makes every write of
  the three writers one that the lifecycle table permits; were one refused, record and caller would part.
- `RegistryInv` adds `RowsInv`: a hashed id is only used for its own topic, only MQTT devices have a topic,
  and on disk, too, a topic names one device, which is what a restart needs.
- `ConnectorInv` adds `PhaseInv` (which requests and instances exist in each phase of a restart) and `CountInv`:
  a type's count says whether its handlers are registered and, while no disable ran twice, is not below the
  number of instances that rely on it. The cardinality lemmas `OneMoreRelies` and `OneFewerRelies` carry it
  through registration and release. For the release the count must be exact: `ReleaseInv` says that it is as long
  as no write failed, because an instance that comes up has not given up its handlers and whoever is being
  disabled has.
- `BaseInv` of provisioning: whatever overlaps, a call of `reconnectWithCredentials()` is awaited by a request, and
  the attempts made for it are its own (`CallsInv`). The handlers of the connection are functions on its record; a
  lemma for each says what it does to the fields, and `StepKinds` sorts the steps of the whole system by their
  effect on disk, requests and calls into eight kinds, so that the other invariants have eight cases each.
  `CredentialsInv`: a call that awaits the end of the old connection holds the credential that the file has, and
  otherwise the service does. `FilesInv`: the files are those of the settings or the rows, or, while the one
  request reconnects, those of the level it will persist. `Stored` carries the credentials whose revocation failed
  along with the rows. `ModeInv`: while calls have not overlapped there is one client and at most the one timer the
  service knows, and the connection is in one of six modes (being replaced, live, trying, waiting for the timer,
  rejected, silent).
- `LayoutInv`: no browser is ahead of the server, and what a browser shows or has sent at the server's revision
  differs from the server's layout by its own edits only, also between the commit of its save and the answer.
- `DraftInv`: in a browser whose requests have not gone wrong, what is shown and was never the server's is in the
  debounce, the save or a reload under way, or the operator has been told (`Accounted`); and as long as nobody
  else has written, the browser is at the server's revision or about to be (`AtOwnRevision`), so a conflict
  needs another writer.
- `StoreState` of the Data Store: what is stored is sound after each statement, not only after each operation.
  `EvictionIsExact` then needs that removing the n oldest records removes a prefix of the order by time and id of
  the right size, and `SampleIsFaithful` that the buckets cover the range and that one point per bucket stays within
  the number asked for. Both are counting arguments over sets of records of any size.

Where a set or a sequence of any length is involved the proofs avoid induction, which the prover cannot apply here.
The Data Store takes a least counterexample instead (`LeastNumber`); the connectors cite the library's facts about
cardinalities. The gate's steps need only that one more running execution adds one to their number and one fewer
takes one from it (`ActiveCounts`). `ActiveIsCounted` derives this from the library, which is brought in at the end
of the module: there `CardinalityCounts` and `LibraryCounts` identify its `Cardinality` with the gate's, since
TLAPS treats the two instances of `FiniteSets` as different operators. `OneOrNone`, the sizes of the empty set and
of a singleton, is proved from the definition of `Cardinality`.

The leaves that need no arithmetic name `Zenon`. Translating a leaf for the SMT solver costs more the more leaves
of the module have been translated before it, and is given up after five seconds, so that a proof in which every
leaf went to SMT would depend on the speed of the machine. For the same reason a leaf that needs one clause of a
type invariant first gets that clause from a step of its own.

Only model-checked: the liveness properties (`QueuedEventuallyStarts`, `ExecutionEnds`, `WaitIsBounded`,
`RecordsAreCompleted`, `BatchIsWritten`, `ReconnectsEventually`, `ViewersConverge`, `RetentionIsEnforced`), since
fairness is out of the prover's reach. What the proofs do not say is what the models leave open: the bounds of the
counters are constants of any value, but they are there.

## Not modelled

- In the modelled parts: values of device state, Shared State and records; texts, schemas and file formats; which
  topic, scope or condition matches; the order of the results the collector was given; what the execution of a form
  rule does (`executeDirectRule` awaits the rule's action and records its result; `AutomationEngine` has such
  rules, and assumes nothing of when they end); `automation()` called from asynchronous code; several executions in
  one collector, which are kept apart by a fresh id. Two requests that change the security level at once are in the
  model, but the properties exempt them.
- Sessions and first-run setup: the checks are repeated inside the transaction that acts on them.
- Permissions, ownership, most routes and demo mode are queries and filters over tables.
- Migrations: each commits with its version row in one transaction; the migrations are SQL text.
- The order of the shutdown sequence depends on how Node closes a server with open WebSockets.
- Transpiler, project tooling, and the sandbox's other host functions (HTTP, log, private state): they call one
  operation each and decide nothing.
- Shipped connectors are external: every call may succeed, fail or take any time.
- Metrics, logs, state history, the outbound HTTP guard, the simulator and the views of the frontend.
