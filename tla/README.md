# Agent RouteBench in TLA+

A verification development of the Agent RouteBench repository: TLA+ modules of
its stateful parts, TLC configurations that check them on small instances, and
proofs that TLAPS checks for every value of the constants. `PROJECT.json` lists
the runs, the mutants of the models, the source lines that every definition
stands for, the findings, the hazards and the theorems.

A run is `tlc -config <cfg> <module>`, a proof is `tlapm <module>`.

## 1. Inventory

The program is a desktop agent. A Tauri application (Rust) starts a Node process,
the *local agent host*, and talks to it over a loopback HTTP API. The host runs
agent turns: a multi-turn loop of model calls and tool calls, the model calls
going through a gateway that retries and fails over between providers.

```
UI -> Desktop controller -> Tauri client -> native proxy (Rust) -> HTTP
  -> Local Agent API server -> Agent backend (runner, event mapping)
       -> Agent loop -> Agent core -> Resilient gateway -> HTTP providers
                     -> tool policy -> tools
     session store (memory or file)     config manager -> registry -> config file
Sidecar supervisor (Rust) starts and stops the host process
```

| Component | State | Operations | What is hard | What makes it correct |
|---|---|---|---|---|
| Local Agent API server (`packages/local-agent-api`) | `#server`, `#active`, sessions with status, turn and events | start, close, create session, turn, cancel, read events | handlers interleave at every `await`; an abort, a lost connection, a runner's event and a store error race | one turn per session; one terminal line; log and stream agree; no session stays busy; a stopped turn ends |
| Session stores (`session-store.ts`, `packages/session-persistence`) | sessions; the encrypted file | create, appendEvent, setStatus, load | kill between two file operations; failed saves; limits | what was acknowledged survives; a failed call is invisible; no session stays "running" after a restart |
| Agent loop and tool policy (`packages/agent-runtime`) | turn, calls, results, history, seen ids | next turn, run tool, decide, approve | abort while a gateway, policy, approval or tool is awaited and may never answer | one terminal event; the history stays well formed; no tool starts after an abort or from a bad batch |
| Agent backend and core (`packages/agent-backend`, `agent-core`) | stashed completion | map events, map errors | completions of middle turns | part of the loop's properties |
| Resilient gateway (`packages/model-gateway`) | candidate, attempt, budget, request, decoder | retry, fail over, send, decode, abort | partial output before a failure; abort at every `await`; late responses | nothing is sent twice after output; budgets; one outcome; connections are given back |
| Provider decoders (`model-gateway/src/adapters`) | open blocks, pending calls, SSE buffer | feed, finish | frames in any order and split | text and calls in order, one completion |
| Config manager, registry, local persistence (`apps/local-agent-host`, `provider-registry`, `local-persistence`) | registry, queue of mutators, file | create, update, delete of providers and routes; boot | saves that fail while readers see the change; queued calls; crash in a save | file = memory; calls are atomic; a route always resolves; the file always boots |
| Sidecar supervisor (`apps/desktop/src-tauri/src/sidecar.rs`) | state, child, operation lock | start, stop, drop | processes that exit, hang, or ignore a kill; concurrent calls | no orphan; a start is answered by its own child; calls are bounded |
| Native proxy, runtime (`src-tauri/src/proxy.rs`, `runtime.rs`) | running turns, cancel flags | create session, start turn, cancel, config | first event against the answer of the command; end of stream without a terminal event | each turn ends with one terminal event |
| Desktop controller, Tauri client (`apps/desktop/src`) | sessions, turns, abort controllers | submit, cancel, switch, dispose | late events, a second turn in a session | events reach their own turn; cancel reaches the running turn |
| Local agent client (`packages/local-agent-client`) | NDJSON buffer | run turn | lines split over chunks | a stream without a terminal event is an error |
| Host and bootstrap (`host.ts`, `configured-host.ts`, `main.ts`) | host state | start, stop | a signal during start | started once, stopped once |
| Desktop settings (`ui.ts`, `config-client.ts`, `credential-client.ts`) | status, snapshot | load, save, delete | loads and changes that overlap; a save of two calls, one of which fails | what is shown is what the host has; a saved secret is there |
| Provider discovery (`packages/provider-discovery`) | none between calls | check, list | abort while a credential or a response is awaited | each response is released; an abort is answered |
| Agent memory (`packages/agent-memory`) | none between calls | build context | which messages are protected; a summarizer that fails or is aborted | calls keep their results; the budget holds |
| Contracts, CLI, native credentials | little or none | see `PROJECT.json` | | |

Interactions that carry the risk: the server calls the store synchronously inside
handlers that also await; `close()` and `cancel` reach a handler only through its
abort signal; turns read the registry while a mutator saves it; the supervisor
sees its process only through `try_wait`, `kill` and a health probe.

The hazards at their source lines, with the properties that watch them, are in
`PROJECT.json`, `hazards`.

## 2. Modules

| Module | Models | Kind |
|---|---|---|
| `SessionTurns` | what the API promises of a session | abstract specification |
| `LocalAgentApi` | `server.ts` over a session store that may throw | component, refines `SessionTurns` |
| `AgentLoop` | `agent-loop.ts`, `tool-policy.ts`, `events.ts`, `backend.ts` | component |
| `ResilientGateway` | `resilient-routed-gateway.ts`, `candidate-attempt.ts`, `resilience.ts`, `stream-runtime.ts` | component |
| `FileSessionStore` | `file-session-store.ts` | component |
| `ProviderRegistry` | `registry.ts`, `types.ts`, `snapshot.ts` as operators on a configuration | data |
| `AtomicConfig` | what the configuration API promises | abstract specification |
| `ConfigManager` | `config-manager.ts` over registry, file store and bootstrap | component, refines `AtomicConfig` |
| `Sidecar` | `sidecar.rs` and the processes under it | component |
| `SseFraming` | `adapters/sse.ts` | component |
| `FrameDecoding`, `AnthropicStream`, `OpenAIChatStream` | `adapters/stream-runtime.ts`, `anthropic-stream.ts`, `openai-chat-stream.ts` | component: the loop, and the two protocols over it |
| `NdjsonLines` | `local-agent-client/src/ndjson.ts` | component |
| `ProviderDiscovery` | `discovery.ts`, `parse.ts` | component |
| `ContextBuilder` | `context-builder.ts`, `context-validation.ts` | component |
| `HostLifecycle` | `host.ts`, `configured-host.ts`, `main.ts` | component |
| `DesktopTurns` | `controller.ts`, `tauri-api-client.ts`, `local-api-client.ts`, the turn handlers of `ui.ts` | composition of the window with its two bridges |
| `ConfigPanel` | the settings handlers of `ui.ts`, `config-client.ts`, `credential-client.ts`, `#handleConfig` of `server.ts` | composition of the window with the host's configuration |
| `LocalAgentApi_proofs`, `AgentLoop_proofs`, `ConfigManager_proofs`, `FileSessionStore_proofs` | theorems about the component of that name | proofs |
| `ResilientGateway_proofs` | theorems about `ResilientGateway` and `ProviderDiscovery` | proofs |
| `Streams_proofs` | theorems about `SseFraming`, `FrameDecoding`, `AnthropicStream`, `OpenAIChatStream` and `NdjsonLines` | proofs |
| `Sidecar_proofs` | theorems about `Sidecar` and `HostLifecycle` | proofs |
| `DesktopTurns_proofs` | theorems about `DesktopTurns` and `ConfigPanel` | proofs |
| `MC*` | instances for TLC | |

`MCDurable`, `MCStreams`, `MCDesktop`, `MCAgentLoop` and
`MCResilientGateway` check components side by side that share no state: they
EXTEND each of them (`MCDesktop` the window's turns, its settings, the sidecar's
supervisor and the host), the initial state chooses one, its next-state relation runs,
and the others rest in a fixed state. That is why variables which stand for the
same thing in two such components have different names (`aborted`, `cancelled` and
`signal` are all `signal.aborted` of the function at hand). A property of such a
run is one component's alone, or a conjunction that the MC module spells out
(`ResponsesReleased`, `AbortsAnswered`). `ResilientGateway_proofs`, `Streams_proofs`
and `DesktopTurns_proofs` extend the MC module, so that their theorems are about the
specification that TLC runs; no value of its constants is assumed.

### Correspondence

*Atomicity.* JavaScript runs from one `await` (or `yield` of a generator) to the
next without interruption, so an action is the code between two of them, and `pc`
(`at`, `phase`, `step` in some modules) says at which `await` a handler or generator is. Synchronous calls (the file
store) are one action with one disjunct per file operation that may fail or be
cut off by a kill. In Rust an action is the code between two system calls made
under the operation lock.

*`LocalAgentApi`.* A request is one `POST .../turns` and also its turn.
`TurnArrives` is the handler up to `await readBody`, `BodyOk` from there to
`runner.run`; `Next*`, `AbortWins`, `RunnerStarts`, `RunnerThrows` are the ways in
which the two awaits of the turn settle. `Emit` and `Finish` are the local
functions of those names; `StoreThrows` is what has happened when the k-th store
call of such a piece of code throws; `Catch` is the catch block. `Close` and
`Start` model a restarted server. The runner is any `LocalAgentRunner`.
HTTP routing and validation are one outcome (accepted, or 400 / 404 / 409).

*`AgentLoop`.* `Begin`, `Pull` and `Stream*` are the event loop of a model turn,
`Tool*`, `NextTool`, `NextTurn` the tool phase; `Decide`, `Approve`, `ToolReturns`
belong to the governed executor, which runs on after an abort. `pending` is the
completion that `mapAgentLoopEvents` holds back. Contents of messages and results
are left out; ids, order and termination are kept.

*`ResilientGateway`.* `Advance` is the head of the nested loops; `Prepared`,
`Response`, `Rejected`, `Decode` are one attempt; `Chunk`, `Frame`, `Emit`,
`Decoded` are `decodeFrameStream`. `http` records each request and what became
of its response: `inflight`, `open` (it has come, with a body), `decoding`,
`released`, `abandoned` (nobody waits for it any more, and the late reaction will
release it), or `unread` (the decoder was entered with the signal aborted and left
before it took the body: finding 4). `out` are the events the consumer received. What
a frame decodes to is a small set of batches of events; delays are abstract.

*`FileSessionStore`.* `up` says that the process runs, `mem` is `#sessions`, `file` the decrypted file, `acked`
(history) the sessions when a call last returned. `Persist` has every outcome of
`#persist`: too large, failed, saved, saved but the final `stat` threw, killed on
either side of the rename. `TooBig` counts events: the file's limit
in bytes is a limit on what it holds.

*`ConfigManager`.* `queue` is the promise chain `#queue`; `phase` says where a call
is; `running` says that the host lives, `configFile` is what its file holds and
`registry` the object that turns and `GET /v1/config` read; `before` and
`writing` are the snapshots of a call in flight. A provider is what relations
depend on: enabled, its models, and whether its credential reference looks like
a secret (which the registry accepts and the snapshot validation refuses).

*`Sidecar`.* `at` is the place of each thread, `lock` the operation mutex, `proc`
the processes. `unix` is chosen in the initial state: there a killed process has
no exit code. Foreign processes on the port are left out.

*`SseFraming`.* `pending`, `frameBytes`, `data` are the parser's private fields,
`chunk` what its loop has not yet read; a step is one line. `fed` and `over` record
the whole body, of which `Frames`, `Shown` and `Broken` say, by positions and without
reading left to right, what it means: which bytes end a line, which lines end a
frame, and where the values of a frame's data lines start and stop. A byte is CR, LF, the start of a data line, or another. The
other fields of a frame and the UTF-8 check are left out, and so is a consumer
that abandons the parser.

*`FrameDecoding`.* A step is one frame handed to a decoder, or one event yielded
by `decodeFrameStream`. `dec` is the decoder's state (open blocks, pending calls,
the reason to stop), `said` a history of what the provider sent, against which
`CompletedIsWhole` compares. `AnthropicFrame` and `ChatFrame` are one disjunct per
kind of frame with every check that refuses it. `InOrder` and `Batch` are the two
sorts, as the set of orderings that a sort by index may return: the first is stable
and has one member, and so has the second, whose indexes are distinct. The properties
speak of positions in `answer` (`At`). A tool's input is the number of
its fragments, a text the number of its deltas. JSON parsing and the shapes of
fields are one outcome.

*`NdjsonLines`.* A step is one read of the body or one line taken from the buffer.
The reference (`Lines`) says where in the whole body the lines start that are not
empty and have their end, without reading left to right.

*`ProviderDiscovery`.* `at` is the `await` at which a call is, `response` whose the
HTTP response is; a response that loses the race with the signal is released when
it comes (`Late`).

*`ContextBuilder`.* A message is its kind and its size; a history is one that
`validateAgentMessages` accepts. Sizes stand for the bytes of the JSON.

*`HostLifecycle`.* `hostState` is the host's state, `hostCall` what each caller's
promise waits for, `server` and `listening` whose server the host has and which
servers listen. A server whose `close` fails is left out. Rejected
promises run their reactions one by one, which makes `raced` possible: a start is
repeated as soon as the first one fails, before a close that waited for that
failure goes on.

*`DesktopTurns`.* `turn` has, for each turn submitted, where its generator is, what
the host sent (`sent`), what of it is forwarded and not delivered (`wire`), kept
until the turn's id is known (`pending`; `others` counts what other turns take of
that list's capacity) or queued, what the turn got, and whether its listener or
response is held (`hold`). A delivery takes the head of one turn's `wire`: two turns'
events have no common order. `bridge` is chosen in the initial state:
over Tauri the answer to `start_turn` and the events have no common order, over
HTTP they do. `Calm` says that no task starts while settled promises are not
consumed. The listener may be refused, and `start_turn` may fail although the host
runs the turn, whose events the model then still lets come; a queue fails by
overflow, and that it also fails by an invalid event is not modelled apart. The
host is any program that ends a turn's events at most once.

*`ConfigPanel`.* `task` are the calls of the panel; a request is served and its
answer comes as two steps, in any order among the tasks. The host's side is what
`AtomicConfig` promises, with the exposure of a change before it is saved.

## 3. Runs

| Run | Question | Bounds, and why they are enough |
|---|---|---|
| `api_overlap` | do stream, log and status agree under overlapping turns, restarts, lost connections, store faults? | one session, two turns (an overlap needs two), two starts (a restart), two faults (one in the turn, one in the catch block), two non-terminal events |
| `api_patient` | does the server implement `SessionTurns`, does cancel reach every turn, do stopped turns end? | two sessions, two requests, one start, no fault, clients that await an answer |
| `api_single_turn` | violation: two turns of a session run at once | as above, clients that do not wait |
| `api_store_fault` | violation: a session is busy with no turn | one turn, one fault |
| `agent_loop` | abort, tools and history; what a context keeps | three turns, batches up to the limit of two calls and beyond it, four ids of which the history has one; every valid history of up to four messages of two sizes, budgets that everything, something and nothing fits |
| `provider_calls` | retries, budgets, output, abort; discovery | three candidates, two attempts each, a total of five: each limit is met before and after the others; bodies at the limit and one beyond |
| `gateway_unread` | violation: a stream is over and nobody has released a response | as above |
| `durable` | crash, limits, atomicity, memory against file, routes | three ids for two places, a file smaller than the sessions allow; two configuration calls at once, two providers (primary and fallback), one route, two models |
| `streams` | does the cut into chunks matter, are buffers bounded, are answers whole? | all bodies of eight bytes with a limit of five per frame (two frames, every terminator cut in two, a frame one byte too long) and of seven as NDJSON; two blocks or calls with two ids, inputs up to the limit of two fragments and beyond |
| `desktop` | window: do events reach their turn, is anything left behind, does the panel show the truth? processes: orphans, bounded calls, own child; a host closed for good | two turns (late events of one in the other), two sessions, either bridge; two entries, three calls (a load, a change, and one that overtakes); two threads, two processes (one left behind, one new), both platforms; three callers (a start and two signals) |
| `desktop_isolated` | violation: a new session takes over a running turn's texts | one window, two sessions |
| `context_budget` | violation: a history is refused of which a smaller selection would fit | as in `agent_loop` |

Bounds on unbounded things are constants named `Max*`; sets of ids are model
values. Symmetry is used only in `api_overlap` and `streams`, which check no liveness. `CHECK_DEADLOCK FALSE`
is set where the modelled thing ends: a generator that is exhausted, a server
whose bounded requests are all answered.

The four parts of `desktop` are independent, and the run's size is the sum of
theirs, not the product.

Each property of a passing run has a mutant: a plausible bug in a definition
(the `Mutant...` operators) that makes the run fail.

### Main properties

- API: `OneTerminal`, `LogMatchesStreams`, `NoGhostTurn`, `IteratorReleased`,
  `StatusTellsOutcome`, `StopEndsTurn`, `CancelReachesTurn`, `ImplementsSessionTurns`;
- loop: `TerminatesOnce`, `HistoryClosed`, `ToolsOnlyFromAcceptedBatch`,
  `NoToolRunsAfterAbort`, `AbortEnds`; context: `ContextSound`;
- gateway and discovery: `OneOutcome`, `WithinBudget`, `SentOnlyWhileWanted`,
  `ResponsesReleased`, `AbortsAnswered`;
- session store and configuration: `AckedSurvives`, `RestartFailsRunning`;
  `RoutesResolve`, `MemoryIsFile`, `ImplementsAtomicConfig`, `EveryCallAnswered`;
- supervisor and host: `NoOrphan`, `RunningIsOwnChild`, `LockReleased`; `ClosedForGood`;
- streams: `ChunkingInvisible`, `BufferBounded`, `AnswerSound`, `AbortSilences`,
  `LinesExact`;
- window: `DeliveryExact`, `NothingLeftBehind`, `SubmittingIsTheTurn`,
  `CancelSettles`, `PanelSound`.

Some of these have premises or exceptions that matter to what they show. `NoOrphan`
holds while waits succeed and nothing is started after a kill that failed
(`Supervised`). `PanelSound` speaks of a panel whose last calls were all answered,
none failed and none overtaken: an older load that is answered last does replace a
newer snapshot. `LinesExact` allows both verdicts for a line of exactly the limit
and a CR, which the code refuses or not by where the chunk ends. `ResponsesReleased` names
one exception, the subject of finding 4. `NoGhostTurn` does not say that a running
turn keeps its entry: with finding 1 it does not.

### Fairness

Only what the runtime does by itself is fair: ready promise callbacks run, an
aborted signal settles its race, timers fire, file operations end one way or the
other, system calls return. Nothing is assumed of a provider, a runner's stream, a
tool, a policy, an approval, a client or a child process; that is the point of
`StopEndsTurn`, both `AbortEnds`, `AbortAnswered`, `CancelSettles` and `LockReleased`. `runner.run` itself is
assumed to settle, since the repository's runner returns its generator at once,
and in the gateway an abort is not assumed to interrupt `credentials.get`
(`AbortEnds` there says what remains). In discovery the credential is assumed to
come or to fail: its source kills its helper after a time. In the window only the
abort's race and the pull of an event that is already queued are fair. Strong fairness is used once, for the
deadline of the health poll: it is looked at in each round of a loop and, once
past, stays past.

### Findings

1. `server.ts:682`: the check for a running turn comes before `await readBody`,
   the registration after it. Two posts whose bodies are read together both run.
2. `server.ts:712`: a store call that throws before the handler's `try`, or in its
   catch block, leaves the session busy.
3. `controller.ts:92`: a turn can be sent while a session is being created. When
   the new session comes it becomes the active one under the running turn, whose
   texts then show in it and which Cancel no longer reaches.
4. `stream-runtime.ts:159`: a decoder that is entered with the signal aborted leaves
   before it takes the body's iterator, and its caller (`candidate-attempt.ts:266-274`)
   neither looks at the signal nor releases the body. When an abort comes between the
   response and the decoder, nobody calls `return()` on the body, which
   `docs/http-transport.md:147` promises. A client that heeds the signal itself, as
   `fetch` does, gives the connection up all the same; the gateway does not rely on
   that elsewhere. `discovery.ts:260` has the check that is missing here.
5. `context-builder.ts:263`: room is reserved for the summary's header only, and
   messages are chosen by that room. When the summary then does not fit beside them,
   the call fails as over budget. In the counterexample the budget is 6; the
   list itself and the memory take 1 each, the header 2. Messages of 1, 1 and 3 may
   go: the newest does not fit, the one before it is kept, and with a summary whose
   text takes 2 the result is 7; with none of the three kept it would be 6.

Two further divergences are in the models without a run of their own.
`config-manager.ts:118`: what the registry accepts and the snapshot validation
refuses is answered `config_persistence_failed` (`ConfigManager`). `sidecar.rs:219`:
on Unix a process killed by a signal has no exit code and is never seen as exited,
so `stop()` times out and reports a failure (`Sidecar`, with `unix` TRUE).

## 4. Proofs

TLAPS proves 36 results for arbitrary constants that satisfy the named
assumptions. The assumptions say that a "none" value is no id and that limits are
numbers: `ConstantsAssumption` (API), `LoopAssumption`, `GatewayAssumption`,
`DiscoveryAssumption`, `StoreAssumption`, `RegistryAssumption`, `SidecarAssumption`,
`FramingAssumption`, `ContextAssumption` (a message takes some bytes), `DecodingAssumption`
(an index is a natural number, as `readIndex` demands) and, stated in the theorem itself, `CallersAreNew`. TLC
evaluates the named ones in every run.

Each safety proof has the same three steps: the initial states satisfy an
inductive invariant, every step keeps it, and it implies the property. What
follows is that invariant, and why the property alone is not enough. The invariants
are themselves checked by TLC on the runs' instances before they are proved.

### The API server (`LocalAgentApi_proofs`)

- `TypeCorrect`, `TerminalOnce` (`OneTerminal`): no line follows a terminal one. A
  turn which still may write has written no terminal line, or is in the catch block,
  which looks (`LinesInv`).
- `NoGhost`: as long as no store call has thrown, `#active`, the status and the live
  turns agree; the strengthening relates every live turn of a session to its entry.
- `IteratorComesBack` (`IteratorReleased`): `IteratorInv` says at which places a
  handler may hold the runner's iterator; the path through the catch block is the one
  that a store fault opens.
- `OutcomeIsTold` (`StatusTellsOutcome`, an action property): from `LinesInv` and
  `IteratorInv`, since only a handler that has just written its terminal line sets an
  outcome.
- `LogShowsTheStreams` (`LogMatchesStreams`): every step appends the same lines to
  one request's stream and, with the turn's number, to its session's log, or leaves
  both alone (`StepEmits`). From a turn's last entry in the log the next one's place
  in the stream follows.
- Under `Benign` (clients wait for their answers, one start, a store that works):
  `CancelReaches`, `SingleTurn`, and `Implementation`, which maps the initial states
  and every step to `SessionTurns`. `PatientInv` adds that a handler past its body is
  the only one of its session and owns the entry. Without `Benign` the first two are
  false: findings 1 and 2.

### The agent loop (`AgentLoop_proofs`)

- `OneTerminalEvent` (`TerminatesOnce`): until the stream has ended the consumer has
  received no terminal event.
- `AbortStopsTools` (`NoToolRunsAfterAbort`): each step by which a tool starts running
  looks at the signal, and no other step does it.
- `BatchBeforeTools` (`ToolsOnlyFromAcceptedBatch`) and `HistoryWellFormed`
  (`HistoryClosed`) share `BatchInv`: `IdsSeen` says that `seenToolCallIds` covers
  every call and every invocation, so that a new call has none; `Cursor` how far the
  batch has come, with every earlier call settled and every later one untouched;
  `Past` that the turns of the history are closed under `seen` and disjoint from the
  batch. Without `IdsSeen` a repeated id would find its tool already invoked.
- `ContextsAreSound` (`ContextSound`, of `ContextBuilder`). The units cover the history
  (`UnitsCover`) and do not overlap (`UnitsApart`), so that a message stays exactly if
  its unit does, and a call and the results behind it are one unit (`CallAndResult`).
  `ContextInv` adds what is known while the summarizer works: the whole history does
  not fit. Hence something is left out (`SomethingGoes`), which the code takes for
  granted ("should not happen"), and a summary is there exactly if messages are missing.
  That sizes add up to a number is a fact about a recursive fold of the library: that
  its function exists is shown by a smallest set for which it would not (`SumsExist`).

### The gateway and discovery (`ResilientGateway_proofs`)

- `StreamEndsOnce` (`OneOutcome`) and `NothingSentTwice` (`SentOnlyWhileWanted`), from
  `Shown`: up to the body nothing was shown, in a body `visible` tells whether
  something was, and a completion is the last event of the last frame, after which
  neither an abort nor an error can be answered.
- `BudgetsHold` (`WithinBudget`). `Counted` makes `used` a function of where the loops
  are, `(cand - 1) * MaxPer + attempt`, which is what relates the total budget to the
  budgets of the candidates; `InOrder` counts the requests of a candidate by their
  distance from the last one; `LastWord` says when a retryable error may be shown.
- `NoResponseLeftOpen` (`ResponsesReleased`): of the requests only the last may be
  unreleased, and `Released` says in which state at which place. Once the stream is
  over it may be `abandoned` or `unread` only if the consumer was shown an abort and
  nothing else (`BareAbort`, `EndsAborted`); that `unread` cannot be excluded is finding
  4. `DiscoveryInv` is the same for the one response of a discovery call, without an
  exception.

### Provider streams (`Streams_proofs`)

- `BufferIsBounded` (`BufferBounded`): the invariant adds the types; a line that ends
  a chunk's search must lie inside the chunk (`FirstLineInBuffer`).
- `ChunksAreInvisible` (`ChunkingInvisible`). `FramingInv` says what the parser knows of
  a body of which it has read the lines up to `Read`: what is behind is pending or in
  the chunk (`Unread`), what is pending has no line end but perhaps a CR as its last
  byte (`Held`), and (`FrameRead`) `Start`, which is `frameBytes` before `Read`, is the
  last frame's end up to there, no frame so far was too long, `data` are the values of
  the lines from `Start` to `Read` and `out` those of the frames worth showing. The
  exception is `Cut`, a last line without an end. The reference is about the bytes
  received, so that a chunk changes it while the parser does nothing: `ReadStays` proves
  that the body means the same up to `Read`, which fails if a CR at the end counts as a
  line end before the next byte is seen. `LineIsRead` is the step over a line, ended by
  LF, CRLF or CR (`Terminated`), and `LongIsRefused` says that a line that does not fit
  belongs to a frame that is too long whatever follows, and that nothing behind it is
  shown.
- `AbortIsTheEnd` (`AbortSilences`): no action of either decoder but `Cancelled`
  gives the consumer an event while the signal is set.
- `AnswersAreSound` (`AnswerSound`), for both protocols at once. `DecoderInv` takes
  what the consumer has and what is decoded but not yielded as one sequence `Out`,
  which `Yield` leaves alone. Up to the last frame `Out` has no final event and as
  many texts as the provider sent, and the decoder's state follows what was said:
  for Anthropic (`Follows`) every announced call is an open block with the fragments
  it has so far, or waits for `message_stop`, each once; for OpenAI (`Mirrors`) the
  calls by index are the announced ones. `AnswerSound` alone speaks of a completed
  answer only and says nothing about these two. An index may be used again after its
  block was closed, so that `Follows` must say which of the calls with an index is the
  open one (`LastOf`). Afterwards `Out` ends with its final event.
  The lemmas about the two sorts (`InOrderSorts`, `BatchSorts`) prove that an
  ordering of a set of calls has each call once: an increasing function from
  `1 .. n` onto an n-element set.
- `LinesAreExact` (`LinesExact`). `LineInv`: there is a place in the body, the start or
  behind a line feed, up to which the events yielded are the lines, one by one, and
  behind which everything is buffered; it stays existential, since the code keeps no
  such index. A chunk changes none of the lines before that place (`SameLines`), and
  taking a line moves it to that line's end, with one more line or, if it is empty,
  with none (`LineRead`).

### What is kept in files (`ConfigManager_proofs`, `FileSessionStore_proofs`)

- `HostRunsItsFile` (`MemoryIsFile`), `TurnsResolve` (`RoutesResolve`) and
  `ManagerIsAtomic` (`ImplementsAtomicConfig`) share `ConfigInv`: only the call at the
  head of the queue saves (`LockHeld`), what it may have to restore is what the file
  holds until the rename, and the registry is what it writes and one mutation away
  from the file (`SaveUnderWay`). The refinement maps the abstract configuration to
  the file; a save takes effect at the rename, and every other step of the queue, the
  restore after a failure and the crash are stutters or the abstract failure.
  `RoutesResolve` needs that each mutator keeps referential integrity, one lemma per
  mutator, also of a registry that is restored or loaded.
- `NothingAckedIsLost` (`AckedSurvives`) and `RestartRecovers` (`RestartFailsRunning`):
  `StoreInv` says that file and acknowledged sessions both keep the limits and that the
  file extends what was acknowledged. "Extends" and not "equals": a save that was
  done and whose call then threw, or was killed, has left more in the file. That the
  loaded file is within the limits is what lets a restart succeed.

### The sidecar and the host (`Sidecar_proofs`)

- `TypeCorrect` (with mutual exclusion of the operation lock), `NoProcessOrphaned`
  (`NoOrphan`), `OwnChildServes` (`RunningIsOwnChild`). `NoOrphan` says nothing of a
  child that a later start overwrites: `DeadBeforeSpawn` says that it no longer runs
  unless a kill or wait failed, `Phase` ties the place of a thread to state and child,
  `ServingAlive` ties the port to a live process.
  `Supervised`, the premise of `NoOrphan`, names what the code does not defend
  against: a `try_wait` that fails while starting drops a live child, and a start
  after a stop that failed overwrites one. The application calls start once.
- `HostClosedForGood` (`ClosedForGood`), for any number of callers. `OneServer` relates
  what listens to the host's server or to a close that is about to end it; `CloseKept`
  says that a close the host took is done, under way or waits for the start. The case
  `raced` is excluded, as in the property.

### The window (`DesktopTurns_proofs`)

- `EventsArriveExactly` (`DeliveryExact`): `TurnInv` follows an event from the host to
  the turn. What the host sent of a turn is, in this order, what the turn got, what
  its queue holds (or, before the turn's id is known, what was kept for it), and what
  is still on the wire; and the wire has nothing after a terminal event.
- `EndedTurnsRelease` (`NothingLeftBehind`): a listener or response is held exactly at
  the places `HoldFollows` names, so that one that arrives late finds its turn ended
  and is given back.
- `ButtonBelongsToTheTurn` (`SubmittingIsTheTurn`): only the last turn can be running
  (`OnlyLastRuns`), and while the window is open the button and the session's
  controller are that turn's.
- `PanelShowsTheHost` (`PanelSound`). `LastLoadIsFresh`: while no call failed or was
  overtaken, either a change that may have been made is unanswered, so that a load is
  still to follow it, or the last load that was started has read, and if it is answered
  shows, what the host has. `CredentialFirst` covers the configuration and the one that
  an undone change would bring back.

### Only model-checked

- Liveness (`StopEndsTurn`, `AbortEnds`, `AbortsAnswered`, `CancelSettles`,
  `LockReleased`, `EveryCallAnswered`): the prover does not handle fairness or
  ENABLED.
- The five violation runs show what is false.

## 5. Not modelled

The native proxy's forwarding threads and HTTP parsing (their answers and events
are the Tauri bridge of `DesktopTurns`), rendering, the in-memory memory store (a
bounded map without concurrency), the single-shot and the fake gateway (an attempt
of the resilient one, and test code), the CLI (one run of the loop), native
credential stores, the evaluation and build scripts. Within the models: formats and
limits of single fields, encryption, serialisation, sanitising of error messages.
`PROJECT.json`, `components`, has the reason for each.

## 6. Plan

Done, in order of importance: the API server, the agent loop, the gateway, the file
store, configuration, the sidecar supervisor, framing and decoding of provider
streams, the client's lines, discovery, the host's life, the window's turns and
settings, the context builder; every safety property and action property of the
runs is proved, and liveness is model-checked.

Next:

1. `DesktopTurns` over `SessionTurns` instead of over any host, so that a cancel in
   the window is followed to the end of the server's turn.
2. The native proxy's threads (`proxy.rs`): cancel flags, the read timeout against
   the last event.
