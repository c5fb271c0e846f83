# CLIProxyAIPlus in TLA+

CLIProxyAIPlus is a proxy that offers OpenAI-, Claude- and Gemini-style APIs
and serves each request with one of many credentials of several upstream
providers. This directory holds TLA+ modules of its parts, configurations that
check them with TLC and proofs that TLAPS checks. Paths are relative to the
repository's root (`src/` in `PROJECT.json`).

1. The system
2. The modules and how they correspond to the code
3. Runs, bounds and fairness
4. Proofs
5. Deviations
6. What is not modelled
7. Plan

## 1. The system

    HTTP handlers ──> auth Manager ──> provider executor ──> upstream
      ^  │ request       │   ^            │  │
      │  └─ translators ─┼───┼────────────┘  └──> usage queue
      │ chunks           │   │ Update / Register
      └── goroutines,    │   └── Service <── queue <── Watcher <── auth dir, config
          translators    v        │                     ^  ^           ^
                    ModelRegistry <── models            │  └─ logins ──┤
                                        websocket relay ┘  token store ┴─> git, Postgres, bucket

| Part (code) | State | Operations | Hard about it | Correct when |
|---|---|---|---|---|
| Model registry (`internal/registry/model_registry.go`) | registrations per model with counters, quota and suspension marks; model list and provider per client | register, reconcile, unregister, mark, clear, clean up, count, list | incremental counters over lists with duplicates; marks outliving what they belong to | counters equal a recount; a removed registration leaves no mark; a healthy model is listed |
| Auth manager (`sdk/cliproxy/auth`) | credentials with a hold per model and one of their own, selector cursors, provider offsets | Execute, ExecuteCount, ExecuteStream, pick, MarkResult, retry; Register, Update; auto-refresh | results of concurrent requests interleave; half of MarkResult runs after the unlock; three nested loops; a refresh that writes back an old copy | a credential over quota rests, none is locked out longer than one wait, every request ends, registry and credential agree |
| Streaming (`sdk/api/handlers`, `manager.go`, executors) | four goroutines and three channels per request | read, relay, split, write, disconnect, cancel | the end, an error and the client's leaving race | every chunk once and in order, one truthful result before the end, no goroutine left behind |
| Executors (`internal/runtime/executor`) | per request: attempt, model or base URL, response body, stream, usage record | Execute, ExecuteStream, CountTokens of 13 executors; refresh inside a request | attempts, fallbacks and refreshes share a loop; each answer not used must be closed, each way out reported | bodies closed, a refusal told with its status, the record says how the call ended |
| Usage queue and statistics (`sdk/cliproxy/usage`, `internal/usage`) | queue, closed flag, switch, context of each request | publish, take, count, stop, switch | stopping while publishing; the plugin looks into a request that may be over | what is accepted reaches the plugin once |
| Response translators (`internal/translator/*/*/*_response.go`, Kiro's event stream) | a state per stream: open block, indexes, gathered calls, end told | a chunk in, events out; a complete answer converted | text, thoughts, calls, reason, counts and end come in any order and grouping | the client can follow the stream and has the whole answer, its end and its reason |
| Request translators (`*_request.go`, Kiro's payload) | none | a conversation converted | identifiers, names and roles that the target format lacks or demands | the same conversation, each result with its call |
| Watcher (`internal/watcher/watcher.go`) | file hashes, shadow snapshot, pending updates, batch | file event, reload, runtime update, dispatch loop | several sources compare with one snapshot and hand over outside its lock; updates are merged while the queue is full | never back to an older state, the latest one arrives |
| Service (`sdk/cliproxy/service.go`) | the update queue, the config | consume, apply add/modify/delete, websocket callbacks, reload | every update is three steps over three stores; each save is an event for the watcher | file, record and registry come to agree and the echoes end |
| Token stores (`sdk/auth/filestore.go`, `internal/store`) | the files, a remote copy | save, delete, persist, bootstrap | saves outside the manager's lock; local and remote written one after the other; restarts | what was stored stays, the mirror follows |
| Websocket relay (`internal/wsrelay`) | session per provider, pending requests | connect, replace, request, dispatch, heartbeat, cleanup, stop | a reader, a heartbeat, callers, a replacement and Stop close the same session | no caller waits on a dead session, a complete answer is complete, the provider follows its connection |
| Logins (`internal/auth`, `sdk/auth`, `internal/api/handlers/management/auth_files.go`) | callback port, forwarders, callback files, statuses, records | start, call back, poll, exchange, set up projects, save, ask for the status | two logins share a port, its forwarder and its files; browsers call late, twice or the wrong one | a login exchanges its own code, tells what happened and gives the port back |
| Management API, access, Amp, config, HTTP server, start and stop | little, or per request | | | section 6 |

Interactions. Handlers translate nothing themselves: they call the manager with
the client's payload and format. The manager picks a credential and calls an
executor, which translates the request, talks to upstream, translates what comes
back and publishes a usage record; after each result the manager calls the
registry, which it also asks which credential supports a model. The watcher
sends updates over a channel of 256 to the service's consumer, which changes
registry, manager and, through the manager's `persist`, the token store; the
store's writes come back to the watcher as file events, and the watcher has the
mirroring stores persist what it finds. Logins save new records into the same
directory. The management API and the auto-refresh loop change the same records
and files. The websocket relay reports connections through callbacks, which end
in `DispatchRuntimeAuthUpdate`; the AI Studio executor sends its requests over
it.

The hazards are in `PROJECT.json`, each at its line with the properties that watch
it, or with a note why no run does: most of those are cases the code does not
get right, for which section 5 names a property and how to see it violated.

## 2. The modules and how they correspond to the code

| Module | Models | Uses |
|---|---|---|
| `ModelRegistry` | the registry, a method per action | |
| `Credential` | what a result does to a credential; when the selector lets it serve | |
| `AuthManager` | concurrent requests against one manager, with the registry | EXTENDS `Credential`, INSTANCE `ModelRegistry` |
| `StreamRelay` | abstract: what a stream promises its client | |
| `StreamPipeline` | the four goroutines of a stream | refines `StreamRelay` |
| `UsageManager` | the usage queue, its worker and the statistics' plugin | |
| `ProviderCall` | one request inside an executor | EXTENDS `UsageManager` |
| `Protocols` | what each API format can say of an answer, and what its client makes of it | |
| `ToClaude`, `ToChat`, `ToResponses`, `ToGemini` | the response translators by the client's format | EXTENDS `Protocols` |
| `KiroStream` | Kiro's event stream and its complete answers | EXTENDS `Protocols` |
| `Translation` | an answer from a provider through a translator to a client | EXTENDS the five above |
| `RequestTranslators` | the request translators and Kiro's payload | |
| `Requests` | a growing conversation through a request translator | EXTENDS `RequestTranslators` |
| `LatestValue` | abstract: what the watcher promises the service | |
| `WatcherDispatch` | from a change on disk to the service's queue | refines `LatestValue` |
| `AuthSync` | file, record and registry of a credential under consumer, operator, refresher and results | EXTENDS `WatcherDispatch` |
| `TokenStore` | the git, Postgres and object stores | |
| `WsRelay` | the relay with the service's callbacks | |
| `LoginSteps` | what each login makes of callbacks and of the services' answers | |
| `Logins` | two logins of a provider side by side | EXTENDS `LoginSteps` |
| `MC...` | constants, symmetry and lists of known deviations for TLC | |
| `...Proofs` | theorems (section 4) | the module, TLAPS |

**ModelRegistry.** `models`, `clientModels` and `clientProviders` are the three
maps under `r.mutex`; each method takes the mutex, so each is one action. A
client's list may name a model twice and the code counts occurrences: lists are
bags. A missing map entry is `NoRegistration` or `EmptyBag`. A quota mark is
live, expired (older than five minutes, still stored) or none; `QuotaExpires`
is the passing of time. `Reconcile` is `RegisterClient`'s path for a known
client: occurrences kept, added and removed, and the change of provider.
Model metadata and the rendering of lists are left out.

**Credential and AuthManager.** A `Hold` has the availability fields that an
`Auth` and each `ModelState` have; `MarkSuccess` and `MarkFailure` are the part
of `MarkResult` under `m.mu`, with the aggregation and the test for remaining
errors. Status codes are grouped as the code's `switch` groups them. In
`AuthManager` a request is a record with a program counter: `Begin` (rotate the
providers), `Pick` (candidates, block test, round robin), `ExecFails` /
`ExecSucceeds` / `StreamOpens`, `RegistryOp` (one step for each registry call
`MarkResult` makes after the unlock, other requests in between), `Decide` and
the wait, `Return` (the deferred advance of the cursor). Executors are an input:
success, or a failure of some kind with or without Retry-After. The clock is a
small integer. Saving the credential inside `MarkResult` belongs to `AuthSync`.

**StreamPipeline.** Channels are unbuffered, so a send and its receive are one
step of two goroutines, and a goroutine that nobody receives from is stuck in
`"send"`. The error channel has room for one. The adapter's deferred closes,
the handler's `select` (any ready case), the client's leaving and the
cancellation that follows the handler's return are separate actions. Data
chunks are numbered; `Empty` is a chunk the adapter skips.

**ProviderCall and UsageManager.** `Method` says of each executor's three methods
what sets it apart: what may go wrong before the first send (`early`) and after
it is prepared (`late`), how many attempts it has and which failures it skips to
the next one, whether it stops at a malformed line, which outcomes need no
upstream at all (`local`), whether its usage record is ensured by a deferred
call. One set of actions performs them all: `Prepare`, `Send`, `Refused` (and
`KiroRefused` with its refreshes and endpoints), `Read`, `Line`, `Eof`, `Break`.
`body` is the response body and its `Close`. An outcome is a status or one of the
named failures. `UsageManager` is the queue with its worker, and the plugin
that reads the outcome from gin's context, which may serve another request by
then.

**Translation and its translators.** An answer is a sequence of blocks with
numbered pieces. A translator is a state record and an operator that takes the
provider's chunk and emits events, one operator per kind of input, as the code's
`param` and its `switch`; `Translate` is the dispatch of
`sdktranslator.TranslateStream`. The provider says its answer in any way its
format allows (`Translation`'s actions); what is unusual about the way is a
*habit*: counts after the end, an empty text, two calls, a thought after a text.
The client of each format follows the events (`Protocols`) and notes what it
cannot: a block opened twice, a delta without a block, anything after the end.
Kiro's events go through `KiroStream`, then through the translators from Claude.
JSON, SSE framing, identifiers as strings, token counts and images are left out.

**Requests.** A turn appends to a conversation, in the client's format and with
one of its habits (results in another order, a text beside a call, no content);
the whole goes through the pair's translator as the client repeats it with every
request. A part has a number by which it is recognised in every format; the id of
a call is a word and that number, `NoId` where a format has none. Each format lets
a client write the same in several forms (`Habits`): contents as arrays or as
strings (`plain` in a part; `"plain"` is unusual for Claude and Responses,
`"parts"` for chat), an input that is a string (`"input"`), the system text in a
message, in the field `instructions` or `systemInstruction`, or with the role
`developer`. A translator that reads arrays only takes the parts that are
`Listed`. One habit of contents and one of the system text are combined freely.

Both modules take the deviations the translators are known to have as a constant:
quadruples of source, target, habit and deviation (`MCKnown`,
`MCKnownOfRequests`, each with a comment; section 5 describes them). A property
holds of everything that is not listed, so a new deviation, or a known one
without its habit, is a violation.

**WatcherDispatch.** The content of a file is a number. Each source (the event
loop, a reload, the gateway) goes from idle through a scan to a handover: the
scan reads file by file without the lock (`ReadFile`), `Diff` compares and
updates the snapshot under `clientsMutex`, `Dispatch` merges into the pending
map under `dispatchMu`. `TakeBatch` and `SendNext` are the dispatch loop,
`Consume` the service. `HandleEvent` contains the hash test, the ignored remove
of an unknown file, and the remove that finds the file back. The code's wait of
50 ms before a remove is handled, and its two reads of a file inside one event,
are one step. A behaviour belongs to one of the `Scenarios`, which say what the
world does: how many `edits`, what of two sources may overlap (`overlap`:
"none"; "scans", but one handover at a time; "all"), whether a file may get an
earlier content again (`rewrites`), which `files` there are, and which of them a
reload forgets because their excluded models changed (`droppable`). `published`
and `applied` are history; with `Numbered` they carry the numbers that
`LatestValue` speaks of.

**AuthSync.** `record` is the manager's map, `registered` the registry's
clients. `Manager.Update` and `Register` replace the record under the lock and
save it after: `Replace` and `Save`. The consumer first changes the registry
and then looks up or updates the record; the operator uploads, deletes or edits
by hand; the refresher clones the record, waits, and writes its clone back;
`MarkResult` saves under the lock. A save that changes a file is an event. With
`Calm` the world waits until a change has gone through before the next one.

**TokenStore.** A directory `file`, git's tree at HEAD (`commit`), the mirror
`remote`. An operation takes the store's lock `mu` and goes through `Pull` (git),
`StoreFile` or `RemoveFile`, `ReadFile` and `Send`; a table says what the stores
do differently with a file that vanished or is empty. Editors truncate a file and
fill it later; the watcher notices changed files by hash and persists them; the
mirror's calls may fail; a crash happens between any two steps, with or without
the loss of the directory, and the three bootstraps rebuild it.

**WsRelay.** A connection has its HTTP handler (`Connect`, `Replace`, `Announce`),
reader (`Receive`, `Offer`: the load of the pending request and the send on its
channel are two steps), heartbeat and cleanup (visiting the pending requests one
by one, wiping the map, unlisting, telling the service). A caller finds the
session, stores its request, loads it again, writes, takes messages, or leaves.
`Stop` closes a copy of the session list. `Announce` and `Disconnected` are the
service's `wsOnConnected`, with its early return, and `wsOnDisconnected`;
`Apply` is the consumer.

**Logins.** A login through the management API has two processes, the handler
and the goroutine it starts; one on the command line has one. `way` is "webui"
(with a forwarder on the callback port), "app" or "cli". `forwarder` is the
table of forwarders, `listener` who listens on each port, `file` and `writing`
the callback files, seen half written, `status` the table behind `/get-auth-status`,
`store` the directory of records by name, `persisted` what came of saving each. A
store's save has two halves: `Save` writes the file, and may leave half a record
(`Broken`) where the old one was; `Mirror` commits and pushes, upserts or uploads, and
when it fails the file stays and the login is told of an error. The store's lock
(`StoreFree`) keeps two saves of one process apart; a command is a process of its
own. The plain file store is the case in which `Mirror` succeeds.
What services answer is left open; `LoginSteps` says per provider which callback is accepted, which failure is tolerated and what
becomes of Gemini's projects.

## 3. Runs, bounds and fairness

| Run | Properties | Bounds and why they are enough |
|---|---|---|
| `registry` | `CountExact`, `ProvidersExact`: counters equal a recount; `ReconcileClearsMarks`: no mark outlives a re-registration | 2 clients, 1 model, 2 providers, lists with duplicates. A model's counters depend on no other model; two occurrences and two providers reach every branch of the reconciliation |
| `auth_execute` | `RegistryAgrees`, `RecoverRespected`, `Termination`: one request at a time, unary or streaming | 2 credentials of 2 providers, 1 retry, Retry-After within and beyond the accepted wait, cursor wrapping at 2: all three loops go round |
| `auth_concurrent` | `AggregateSound`, `NoLockout`: two requests over two models of one credential | backoff 1, 2, 3 (capped), two instants at which requests begin: the cap is reached |
| `stream_pipeline` | `RecordedBeforeEnd`, `ResultTruthful`, `KeepsPromise` (refinement of `StreamRelay`), `EndsWhileConnected` | 3 data chunks: one in each of three goroutines at once |
| `providers` | `BodiesClosed`, `RefusalTold`, `CallsFinish`, `RecordsHandled` | one request in each of 3 modes of 13 executors, 2 models or base URLs to fall back to, streams of 2 lines; shutdown and the switch of the statistics at any time |
| `translation` | `WellFormed`, `NothingLost`, `ReasonTold`, `UnaryAgrees` for 22 translators | answers of 4 pieces and 4 blocks: a call between two texts, two calls interleaved, a thought after a text |
| `requests` | `ConversationKept`, `ResultsAnswer` for 24 translators | 5 turns, 3 calls: two calls answered in the other order, a turn in between, a further call. Every form of a request that `Habits` has, from its first turn on |
| `watcher` | `NeverBack`, `KeepsLatest` (refinement of `LatestValue`), `WritesArrive`, `ConnectionsArrive` | two scenarios of 4 changes and a channel: `Alone` with 2 files and one source at a time, `Together` with 1 file and all three sources scanning at once |
| `sync_calm` | `RemovedNotServed`, `ChangesArrive`, `Settles` | 2 files, 4 changes by any actor, each when the one before has gone through |
| `stores` | `StoredStays`, `MirrorFollows` | each store with 1 credential and the config, 2 operations in flight, 3 calls or edits, 2 contents, 1 failed call to the mirror, 1 restart |
| `relay` | `ClosedReleases`, `WholeAnswer`, `CallsEnd`, `ProvidersFollow` | 2 connections, or one and a request; a channel of 1 and 2 chunks, so that it overflows; one Stop. The connections share a name, harsher than the code's random ones |
| `logins` | `ToldTruly`, `OwnCode`, `PortReleased`, `ReadyWhenSaved`, `OutcomeTold` | 2 logins of each of 11 kinds, in each combination of ways, 2 callbacks, 1 poll: a second login on the port of the first, a callback at the wrong one. Any save may fail in either half, with both logins under one name or two |

A queue of one is harsher than the code's 256: the dispatcher blocks at once and
merging happens with the second update. The other bounds in guards: `MaxNow`,
`CursorMax` (AuthManager), `MaxDup` (ModelRegistry), `MaxChunks` (StreamPipeline,
WsRelay), `edits` (WatcherDispatch, AuthSync), `MaxVersion`, `MaxCalls`,
`MaxFaults`, `MaxCrashes`, `Procs` (TokenStore), `NumConns`, `MaxStops`,
`MaxWork` (WsRelay), `Fallbacks`, `MaxLines` (ProviderCall), `MaxPieces`,
`MaxBlocks` (Translation), `MaxTurns`, `MaxCalls` (Requests), `MaxCallbacks`,
`MaxPolls` (Logins). `Rewrites` FALSE means that no editor writes what the file
holds already, which changes no hash (section 5). Symmetry is used where no liveness is checked: clients and
models in `registry`, requests in `auth_concurrent`.

Deadlock is checked in `registry` and `stores`. Elsewhere the system may really
stop: a finished stream, answer or login, a world that makes no more changes, no
request after the last instant (`MaxNow`), a panicked process (`crashed` in
WsRelay).

Fairness. Weak fairness of each goroutine's steps: the Go scheduler runs what
can run, timers fire, locks are handed over, and upstream answers or its
connection breaks. Never of the world: nobody must write a file, connect, begin
a request, call a login back or leave. Further assumptions, each the code's or
its surroundings': an executor some day reads the end of its stream (strong
fairness: upstream's stream is finite, though each chunk in between is a step of
the same goroutine); a websocket provider answers, or its heartbeat breaks the
connection; an editor that has truncated a file writes it; whoever opened a
login's address asks for its outcome; Google does not leave an onboarding
pending for ever, for which the code sets no limit.

Every property of a run has a mutant, an operator named `Mut...` next to the one
it replaces: a plausible mistake in that piece of code that violates the property
under the run's own configuration.

## 4. Proofs

TLAPS proves the following for every value of the constants. The last column
names the inductive invariant and the conjuncts it needs beyond the property.

| Module | Theorems (property) | Inductive invariant |
|---|---|---|
| `AvailabilityProofs` (registry) | `CountCorrect` (`CountExact`), `ProvidersCorrect` (`ProvidersExact`), `MarksCleared` (`ReconcileClearsMarks`), `TypeCorrect` | `Inv`: `TypeOK`, `CountExact`, `ProvidersExact` |
| `AvailabilityProofs` (relay) | `CallersReleased` (`ClosedReleases`), `AnswersWhole` (`WholeAnswer`), `PendingInOrder`, `AnswersInOrder` | `PendingInv`; `AnswerInv`: `MessagesOwned`, `RequestsOwned`, `UnwrittenIsFresh`, `Answered` |
| `AuthManagerProofs` | `NobodyLockedOut` (`NoLockout`), `AggregateStaysSound` (`AggregateSound`), `QuotaRests` and `QuotaRestsAlone` (`RecoverRespected`), `MarksFollow` and `MarksFollowAlone` (`RegistryAgrees`), `TimesKept` | `TimesInv`: `RequestsNamed`, `AuthWithin`; with `SentInv` and `RecoverInv` for `QuotaRests`, `SentInv` and `MarksInv` for `MarksFollow` |
| `ExecutionProofs` (streams) | `RecordedFirst` (`RecordedBeforeEnd`), `RecordedTruth` (`ResultTruthful`), `PromiseKept` (`KeepsPromise`), `PipelineInvariant` | `PipelineInv`: `ChunksInOrder`, `StagesInOrder`, `ErrorsInOrder`, `ReturnsInOrder` |
| `ExecutionProofs` (calls) | `ResponsesClosed` (`BodiesClosed`), `RefusalsTold` (`RefusalTold`) | `CallInv` |
| `SyncProofs` (watcher) | `LatestKept` and `LatestKeptOneByOne` (`KeepsLatest`), `NeverOlder` and `NeverOlderOneByOne` (`NeverBack`), `OrderKept` | `OrderInv`: `SourcesOK`, `OrderOK`, `FoundIsHandedOver`, `QueueInOrder`, `BatchInOrder`, `PendingInOrder`, `FoundInOrder`; `HandoverInv` for the two `…OneByOne` |
| `SyncProofs` (records) | `RemovedStaysOut` (`RemovedNotServed`) | `ServedInv` |
| `TokenStoreProofs` | `StoredFilesStay` (`StoredStays`), `StoreInOrder` | `StoreInv`: `KindFits`, `HasLock`, `Harmless` of each process, `InPlace` of each file |
| `LoginsProofs` | `PortsReleased` (`PortReleased`), `OwnCodes` (`OwnCode`), `TruthTold` (`ToldTruly`), `ProjectsReady` (`ReadyWhenSaved`), `PortsInOrder`, `RecordsInOrder` | `PortInv`; `CodeInv`; `RecordInv`: `NamesInOrder`, `StoreInOrder`, `SuccessTrue`, `FailureTrue`; `ReadyInv` |
| `TranslationProofs` | `StreamFollowed` (`WellFormed`), `StreamComplete` (`NothingLost`), `StreamEnds` (`ReasonTold`), `CodexToClaudeAgrees` (`UnaryAgrees`), `TranslationKept` | `Kept`: `Provider`, and a relation of provider, translator and client for each pair: `ClaudeChat`, `CodexChat`, `ClaudeClaude`, `CodexClaude` |
| `RequestProofs` | `ConversationIsKept` (`ConversationKept`), `ResultsAreAnswers` (`ResultsAnswer`), `ClientsTalk` | `ClientInv`: `ConversationInv`, `SaidInv`, `AskedInv`; `ListedInv`, `StyleInv` |

The arguments:

- **Registry.** The counters change by differences and are compared with the
  cardinality of a set of pairs (client, occurrence). `OccurrencesSplit`
  separates one client's occurrences from the others', `RecountAfterUpdate` turns
  a change of one list into a change of the total, and the steps that register
  and unregister reduce to arithmetic. Providers are counted the same way, by the
  client's share and the rest: a registration is deleted exactly when the rest is
  0, which needs `CountExact` in the same invariant. Neither part is inductive
  alone: the type says that counters are natural numbers, and only the count
  shows that a decrement finds a positive one. `MarksCleared` needs no more than
  the step itself, followed through the three phases of the reconciliation.
- **Credentials.** `AuthWithin(auth, t)` says that no time a credential keeps lies
  beyond `t`; the invariant takes `t` as now plus the longest wait. Every failure
  sets a time that the waits bound, the backoff because it is capped, and the
  aggregate takes the least or greatest of times that are bounded already; the
  clock only adds room. `AggregateSound` uses that the least retry time of the
  models is at most each of them. That finite sets of numbers have a least and a
  greatest member is proved on the way, from the well-foundedness of strict
  subsets (`GreatestExists`). `AggregateStaysSound` assumes that every request
  names its model: a request without one writes to the credential's own hold.
- **Quota.** That a credential over quota is not picked before it recovers is not
  inductive: the block test looks at `unavailable` and `next`, not only at
  the quota, so the invariant `Covered` says that the one never ends before the
  other. It breaks when a transient failure, of a request sent before the quota
  error to the same credential for the same model, sets a shorter `next`. Hence
  the hypothesis of `QuotaRests`, which takes any number of requests: no two of
  them ask the same credential for the same model at once (`Separate`; then what
  a request in flight was sent to is not held back, the second part of
  `RecoverInv`), or they fail with quota errors only (`OnlyQuota`). Beyond it
  the property is false (section 5). `QuotaRestsAlone` is the case of one request
  at a time, the one `auth_execute` runs.
- **Marks.** Between the unlock in `MarkResult` and the last of its registry calls
  the two disagree. `MarksInv` lets them do so for the credential and model of
  such a request, and says that its outstanding calls (`ops`), done in their
  order, will make them agree (`Owed`). Two requests that are there at once for the
  same credential and model may undo each other's calls (section 5), so
  `MarksFollow`, for any number of requests, excludes just that (`Apart`);
  requests for other credentials or models may do what they like in between.
  `MarksFollowAlone` is again the case of one at a time. Both theorems follow a
  pick through the selector: that the sorted list of candidates exists and has
  each of them once is proved from the well-foundedness of strict subsets
  (`SortedExists`, `PickAvailable`).
- **Stream.** `PipelineInv` says where the chunks are that were sent and not yet
  received, that the goroutines end in the order of the flow, that an error is
  the last chunk and noted by the manager before the adapter acts on it, and what
  the handler may have seen when it returned. The refinement of `StreamRelay`
  needs all of it: an abstract end is allowed only when nothing is on its way.
- **Executor.** `CallInv` ties the open body to the stage of the call, and the
  outcome to what was or will be returned, for every executor, method, number of
  fallbacks and length of stream.
- **Watcher.** The numbers of a credential's updates ascend from the service
  (`applied`) over queue, batch, pending map and source to what was found last
  (`published`), and an update with the last number has the last value. With that,
  what the service applies is newer than what it had, and finding differences is
  the abstract `Publish`. The theorems assume that updates are numbered and that
  no credential is handed over by two sources at once (`FoundOnce`): handovers may
  overlap, of different credentials. `LatestKeptOneByOne` and
  `NeverOlderOneByOne` need only that no scenario lets handovers overlap
  (`OneByOne`), from which `FoundOnce` follows (`HandedOverOnce`). Without it
  `NeverBack` is false (section 5).
- **Sync.** A credential in `registered` was not last applied as a removal. Only
  `Receive` changes either, and both in one step; management, refresh and results
  change the record, never the registration. The theorem has no hypothesis on how
  the sources overlap.
- **Relay.** A caller that waits has its request in the map of a session, or its
  channel is closed or about to be: by the caller that took it out, or by a
  cleanup that has still to visit it (`PendingInOrder`). For `WholeAnswer` an
  answer is followed from the provider to the caller: on the wire, in the reader's
  hand between its load and its send, in the channel, received. What the caller
  has and the channel holds are the first places of the answer without a gap, and
  the rest lies on the wire in order (`Flowing`); a closed channel ends with
  the provider's end and everything before it, or with a failure (`ClosedWell`).
- **Stores.** What a store keeps of a file that nobody has changed since (`Firm`) is
  in the directory, in the mirror and, with git, at HEAD, or the disk was lost
  and the next bootstrap takes it from the mirror (`InPlace`, `Tracked`). The hard
  part is an operation in flight across somebody else's: whoever has the lock
  sends what is kept, or of a file of which nothing is kept (`Harmless`), and an
  empty content is only kept where the store does not treat it as no file.
- **Logins.** `PortInv` says who may own a forwarder, a listener and a port at each
  stage; `CodeInv` that the code a login holds came with the state it had sent.
  `RecordInv` says that names are given once and before the save, that the store has
  only records of logins that have saved, under their names, and that a login's status
  is deleted only after the save and set to an error only by a login that will not
  save any more: whoever asks in between any two of these steps is told the truth. A
  save that fails half way cannot be left out of it: a half record in the directory is the
  work of a login of that name whose save broke (`persisted`), which is what is left of the
  record of a login told to have succeeded; and an error with the record in place
  means that the mirror failed after the file was written. `ReadyInv`
  says for each phase which projects have been through it: all but those `left`.
- **Translation.** The theorems are about four pairs of formats (`Followed`): Claude
  and Codex answers for chat clients, and both for Claude clients. They hold for every length
  of an answer and of its pieces, for every way they are cut, and whatever `Known`
  excepts. The relation of each pair says which block is open on either side, and what
  the client has read by now: the content of all that was said where a block is
  passed on piece by piece, of what was said before the open call where the
  translator holds a call back until it is whole. That the indices of a Claude
  client are fresh, and that a stop closes what is open, follows from it. A thought
  of Codex that comes in several summary parts is left out for Claude clients
  (`Whole`): there the translator opens an index twice (section 5).
  What a client has read is a fold over what it was sent. A fold's
  recursive function exists by the well-foundedness of strict subsets (`Upward`),
  which needs no induction theorem, and from then on only one-step laws are used:
  what one more block adds to a content (`ContentAppend`), and one or two more
  events to what a client has read (`ReadOne`, `ReadTwo`).

- **Requests.** The theorems are about five pairs of formats (`Faithful`): Claude to
  chat, chat to Claude, and Responses to chat, Claude and Codex. They hold for
  conversations of any length with any number of calls, in the forms of a request that
  the pair's translator reads (`Read`), and no deviation is excepted (`NothingToExcuse`:
  a translation has none, whatever `KnownOfRequests` says). `Read` is all forms from
  Claude to chat; it leaves out, from chat to Claude, the role developer; from Responses,
  contents that are strings for chat and Claude, an input that is one for Claude, and
  for Codex a system text with contents that are strings, unless its role is
  developer. What is left out is lost by the code (section 5).
  Two parts meet. One is about the client, and inductive:
  `ClientInv` says that the turns are formed as the format forms them, that no part
  is said twice and a result comes after its call, and that the calls that wait are
  those without a result (`ConversationInv`, `SaidInv`, `AskedInv`); a client adds a
  result only to a call it still waits for, which is what keeps `CallsFor` a single
  call. That the forms stay what the client began with, and that its parts are
  written accordingly, is invariant as well (`StyleInv`, `ListedInv`). The other is about
  the translators. Each of these five treats the messages
  one by one, so it is `Through` a function from a message to the messages it
  becomes, and what it carries is the concatenation of what each carries
  (`ThroughConcat`, `ThroughSingles`). `Carries` says that the messages sent are
  fitting for their roles and that what a provider reads of them, in order, is a
  given sequence of parts. What one message carries is shown for each kind of turn;
  it is extended to any conversation by induction over the length of a sequence,
  once more from well-foundedness (`Upward`). The sequence is `Due`: what the client
  sends, of the kinds the provider's format has a place for. A translation that
  carries what is due loses, repeats, invents and moves nothing.

Assumptions are the named ones of the modules: `ConstantsAssumption`,
`CredentialAssumption`, `AuthManagerAssumption`, `MaxChunksAssumption`,
`ProviderAssumption`, `DispatchAssumption`, `RelayAssumption`,
`LoginsAssumption`, `NoAuthAssumption`, `SyncAssumption`, `StoreAssumption`,
`RequestPairsAssumption`. They say that sets are finite, bounds positive and tables
of the right type; TLC evaluates them in the runs. Some
theorems have a hypothesis of their own, stated with them. On constants:
`AggregateStaysSound` and `QuotaRests` that requests name a model, the corollaries
that there is one request (`OneAtATime`) or that handovers do not overlap
(`OneByOne`), the watcher's that updates are numbered. On the behaviour:
`QuotaRests` holds under `[](OnlyQuota \/ Separate)`, `MarksFollow` under `[]Apart`,
`LatestKept` and `NeverOlder` under `[]FoundOnce`; each excludes just the overlap of
two actors on the same object. `ConversationIsKept` and `ResultsAreAnswers` are about the
pairs and forms in `Faithful` and `Read`, the others are model-checked. The runs of these
properties satisfy the hypotheses on the behaviour, and section 5 shows what happens without
them. Nothing is assumed about the
number of credentials, models, requests, connections, logins, files or processes,
about capacities or about the lengths of streams.

Only model-checked:

- liveness, everything with fairness: `Termination`, `EndsWhileConnected`,
  `CallsFinish`, `RecordsHandled`, `WritesArrive`, `ConnectionsArrive`,
  `ChangesArrive`, `Settles`, `MirrorFollows`, `CallsEnd`, `ProvidersFollow`,
  `OutcomeTold`. ENABLED and weak fairness are out of the prover's reach;
- `WellFormed`, `NothingLost`, `ReasonTold` and `UnaryAgrees` for the other pairs of
  formats: sources chat, Gemini and Kiro, targets Responses and Gemini. Each pair has
  a state of its own and needs a relation of its own, and most lose or
  reorder something that `Known` excepts, so that the relation is one of what is
  left. `UnaryAgrees` for rebuilt answers compares two folds of different sequences;
- `ConversationKept` and `ResultsAnswer` for the other pairs, and for the forms outside
  `Read`. The translators from
  Gemini keep state from one message to the next (the queue of ids that results
  are given from), those to Codex from Claude and chat a table of short names,
  and those to the Gemini family and Kiro join, cut or reorder messages: each is a fold
  whose accumulator needs an invariant of its own, and all have deviations that
  `KnownOfRequests` excepts. No module declares a RECURSIVE operator.

## 5. Deviations

The findings in `PROJECT.json` are the ones that matter most. This section has
those that a property shows, and then the smaller ones met while reading.

Reproduced by adding the property to a configuration and changing what is named:

| Property | Configuration | What happens |
|---|---|---|
| `RegistryAgrees` | `MCAuthExecute.cfg`, two requests | a failure and a later success of one credential reach the registry in the other order (`manager.go:796`): the healthy credential's model stays suspended |
| `HealthyCounted` | `MCAuthExecute.cfg` | after a 429 a credential counts as over quota and as suspended and is subtracted twice (`model_registry.go:632`) |
| `HealthyListed` | `MCAuthExecute.cfg` | one failure suspends and a 429 marks as well (`model_registry.go:591`) |
| `RecoverRespected` | `MCAuthExecute.cfg`, two requests | a transient failure shortens the cooldown of a concurrent 429 (`manager.go:786`) |
| `GoroutinesEnd` | `MCStreamPipeline.cfg` | the client leaves; adapter, manager and executor stay blocked in their sends (`handlers.go:333`) |
| `NeverBack`, `KeepsLatest` | `MCWatcher.cfg`, a scenario with overlap `"all"` | two sources hand over in the other order than they found (`watcher.go:316`) |
| `WritesArrive` for a scenario with overlap `"scans"` | `MCWatcher.cfg` | a snapshot older than what is published is compared last (`watcher.go:306`) |
| `Converges` | `MCWatcher.cfg` | a file that exists only briefly is read by a scan and its removal ignored as that of an unknown file (`watcher.go:816`); removed and created again with the same content (`watcher.go:807`); forgotten by a reload before the scan (`watcher.go:1020`) |
| `DisabledStays` | `MCSyncCalm.cfg`, not calm | a refresh that ends after a deletion enables the record again (`manager.go:1477`); `RemovedNotServed` holds all the same, for the registry has no models of it |
| `ChangesArrive` | `MCSyncCalm.cfg`, not calm | applying an update saves it without looking at the file, and two contents rewrite each other for ever (`service.go:285`); the result of a request that ends after a deletion saves the record, and the file is back (`manager.go:794`) |
| `MirrorFollows` without `faults = 0` | `MCTokenStore.cfg` | nobody repeats a failed call to the mirror; a Save that is repeated finds the file equal and returns (`postgresstore.go:226`) |
| `MirrorFollows` | `MCTokenStore.cfg`, `Rewrites` TRUE | an editor truncates a file, a store sends it empty, and the editor writes what it held before: its hash is the old one, and nothing is sent (`watcher.go:1121`) |
| `NoSendOnClosed` | `MCWsRelay.cfg` | `dispatch` sends on a channel that cleanup or a cancelled caller has closed since it loaded the request (`session.go:113`) |

The stream's lost error (`handlers.go:329`) is in the model as the handler's
free choice: `StreamRelay` allows an end after an error was sent, and
`ResultTruthful` is about the recorded result only.

**Translators.** `MCKnown` and `MCKnownOfRequests` list what the properties
except, pair by pair. Responses:

- chat to Claude: a second `message_delta` behind `message_stop` when the counts
  come after the finish reason. Gemini and Gemini CLI to Claude: without
  `candidatesTokenCount` no stop reason and the last block open; `MAX_TOKENS`
  lost; `tool_use` only with a call in the finishing chunk. Antigravity to
  Claude: an empty text closes a thought. Codex to Claude: a second summary part
  opens an index again.
- Gemini family to chat: of texts packed into one chunk the last stays; the
  index of a call starts again; the reason comes with the call, a later `stop`
  overrides it; unary answers keep the last text. Claude to chat: unary thoughts
  under another name. Codex to chat: a unary answer always ends with `stop` and
  keeps its last item.
- chat to Responses: one slot, reasoning left open, one call, later text stray.
  Claude to Responses: text at slot 0, empty done events, reasoning never done.
  Gemini to Responses: late thoughts dropped, done text empty. Kiro to
  Responses: never completed; unary answers of Kiro are not translated for
  Responses and Gemini.
- chat to Gemini: a finish reason of null ends each chunk, calls come in the order
  of a map. Claude to Gemini: `MAX_TOKENS` becomes `STOP`, the reason comes with
  every call. Codex to Gemini: a text alone has no reason, calls come twice, a
  unary answer loses the summaries.
- Kiro: fragments of interleaved calls are cut (`kiro_executor.go:2295`); the
  unary parser reads "[Called ...]" inside a text as a call, the stream does not;
  streamed thoughts lose the spaces between pieces.

Requests: Claude to the Gemini family cuts a result's name out of its id. Short
names of undeclared tools merge on Codex. Chat to Codex sends an empty message
for a null content. Kiro gets an empty turn after a prefill, and results wait
for the user's next message (`kiro_openai_request.go:75`). Chat to the Gemini
family drops calls beside a text and invents `{}` for calls without a result.
Responses to the Gemini family tells parallel calls one after the other. Gemini
to chat gives every result the last id (`openai_gemini_request.go:243`). Gemini
to Claude and Codex pairs results with calls by their order. Gemini to Gemini
alternates the role "function". `fixCLIToolResponse` drops texts beside results,
and results after an interrupted group. Responses and Gemini requests to Kiro
are not translated.

Forms of a request that are not read, and so lost without an error:

- Responses: an input that is a string, by Claude (`claude_openai-responses_request.go:107`,
  `135`; chat reads it at `openai_openai-responses_request.go:151`, and so do Codex and
  the Gemini family). A content that is a string, by Claude (`151`; a system item
  leaves an empty message), by chat (`73`, an empty message) and by the Gemini family;
  Codex passes it on, but without the preamble that carries a system text beside it.
- Claude: a `system` that is a string, by Codex (`codex_claude_request.go:50`) and the
  Gemini family (`gemini_claude_request.go:40`). Chat and Kiro read it.
- Chat: the role developer, by Claude, the Gemini family and Kiro. A system content that
  is an array, by the Gemini family (`gemini_openai_request.go:170`); an assistant's that
  is one, by Gemini CLI and Antigravity; Kiro takes it for a string beside calls.
- Responses to Gemini passes on the role developer, which Gemini does not know; to
  Claude it becomes a user's message.
- Gemini: the key `systemInstruction`, by Claude (`claude_gemini_request.go:130`) and
  Codex (`codex_gemini_request.go:93`). Chat reads both keys, the Gemini family keeps the
  field as it is.

**Registry.** `SetModelQuotaExceeded` and `SuspendClientModel` do not ask whether the
client is registered (`model_registry.go:452`): the mark of a late result is subtracted
from the other clients' count until the client registers again or, a quota mark, until it
expires. `ReconcileClearsMarks` is about the first.

**Relay.** Names are random per connection, so replacement (`manager.go:190`) and
`wsOnConnected`'s early return (`service.go:227`) bite only with a shared name.
`Stop` between installing a session and announcing it leaves a provider without
connection. A full buffer of 8 drops the terminal message, and a unary caller
takes the close as success.

**Executors.** Kiro's third attempt after a 429 ends as "max retries exceeded"
without a status (`kiro_executor.go:506`). Several executors send `[DONE]` before
they report a scan error. A Codex stream without `response.completed` ends as if
complete. Kiro publishes its record as a success when the stream breaks, sends
`message_stop` without `message_start` when there was no event, and loses a call
unfinished at the end. A refresh inside a request works on a clone that is never
stored. A failed read of an error body replaces the status.

**Stores.** The comparison with the file acknowledges a retry after a failed
mirror write (`postgresstore.go:226`). After a failed push git's tree is clean and
is pushed with the next change only. Instances that share a branch overwrite
each other by force. A removed config comes back as the template.

**Logins.** The first login's deferred `stopCallbackForwarder` stops whatever
forwarder is on the port (`auth_files.go:780`). Qwen's status is set after its
goroutine may have ended, and the page waits for ever (`1614`). An error is
deleted once read, and a second poll, as of any unknown state, says "ok"
(`2143`). Callback files are not written atomically (`server.go:364`), and one
that comes late stays. Gemini's login on the command line has a constant state
and accepts another login's code (`gemini_auth.go:251`); its second callback
blocks, and `Shutdown` without a deadline never returns (`294`). Other
callbacks, or an error, end a login on the command line. Gemini's onboarding has
no deadline. Records without a name or address collide. Codes of the kiro://
handler go to the first port's login. "Failed to save authentication tokens" is told
(`auth_files.go:899`) when the mirror fails after the file was written
(`gitstore.go:287`, `postgresstore.go:256`, the object store alike): the record is in
the directory and the watcher serves it. A token structure is written over the old file
(`iflow_token.go:35` and its like): a write that fails half way leaves half a record in
place of the good one of an earlier login of that name.

## 6. What is not modelled

- Watcher: stopping, the rescan after a changed auth directory, the Kiro IDE token
  file, virtual Gemini credentials, credentials written in the config itself.
- Manager: refresh times and the one-minute mark of a pending refresh (one
  refresher at a time), `Load`, hooks, round-trippers, `SetRetryConfig` while
  requests run. What a credential's save does inside `MarkResult` is in `AuthSync`.
- Service: start and shutdown, which run once and in a fixed order;
  `emitAuthUpdate`'s fallback when the queue is full; the config's content on a
  reload.
- Usage: the sums per key and model, plain additions under one mutex.
- Translators: pass-through pairs, sampling parameters, schemas, images and token
  counts: data without control.
- Logins: addresses, PKCE codes and token files as text; the browser.
- Configuration, access and management endpoints change one YAML file or map under
  one mutex; the HTTP server, logging, the Amp proxy, the page updater and the
  tables of models are I/O or data. `PROJECT.json` gives the reason for each.

Data races on maps and pointers are listed as hazards where a property cannot
see them; the models take each such access as atomic.

## 7. Plan

Done: every module of section 2 with its runs, and proofs for the eight modules of
section 4.

Left, in the order of what it would add:

1. `AutoRefresh`: refresh times, the pending mark and its expiry, executor calls
   longer than a minute, two refreshes of one token.
2. `ConfigReload`: the debounce timer, the callback and the readers of the config
   it replaces.
3. `RegistryLock`: readers and a writer of a Go `RWMutex` with
   `GetFirstAvailableModel`'s nested read lock, which `util/provider.go:77` reaches
   for the model "auto".
4. More pairs of formats in `TranslationProofs`: chat to Claude next, whose relation is
   that of Claude to Claude with one block more.
5. More pairs of formats in `RequestProofs`: chat and Claude to Codex next, with the
   table of short names injective on declared tools, then those from Gemini.

Every safety and action property of the runs is a theorem, those of the response
translators for four pairs of formats and those of the request translators for five.
