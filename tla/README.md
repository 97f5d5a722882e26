# A TLA+ model of ultiproxy

ultiproxy is a daemon that offers one OpenAI- and Anthropic-compatible API in front of
several upstream accounts ("lanes"). These modules model the parts of it whose
correctness depends on the order in which goroutines, upstreams, operators and the disk
act - credentials, telemetry, dispatch, streams, the freebuff lane's account, quota, the
runtime administration and the logins - and the conversions every call goes through
between two client protocols and five upstream ones. TLC checks them on small instances,
TLAPS proves the central invariants for all values of the constants.

Run a check with `tlc -config CredentialLogins.cfg MCCredentialManager` and a proof
with `tlapm CredentialManagerProofs.tla`.

## 1. The system

| Component | State | Operations | Interacts with |
|---|---|---|---|
| Credential manager (`pkg/auth/manager.go`) | a file per key, `cache`, `revoked`, a singleflight group | `Get`, `Peek`, `Store`, `Invalidate`, `LoadFromDisk`, `persist` | lanes (every request gets its token here), the proactive refresher, logins, the token endpoint (`internal/oauth`) |
| Proactive refresher (`pkg/server/credential_refresh.go`) | a timer | one round: `Peek` each lane, refresh what is near expiry | credential manager |
| Telemetry writer (`pkg/storage/writer.go`) | a bounded channel, the batch being filled, `closed`, the error of `Close` | `TrackRequest/Attempt/Usage`, `worker`, `writeBatch`, `Close` | dispatch (producer), SQLite with foreign keys, shutdown |
| Dispatch (`pkg/server/handlers.go`) | locals of one request: attempts, failed lanes, the telemetry flags | `dispatchRequest` | router, registry, lanes, telemetry writer, the client |
| Router (`pkg/server/router.go`) | none of its own | `Route` | catalog, model state, registry |
| Streams (`hublane/convert.go`, `openaicompat`, `codex`, `copilot`, `antigravity`) | a goroutine and a channel for each stream, a second pair where reasoning is filtered | `Stream`, `StreamBridge`, `filterReasoningStream` | dispatch, upstream, the request's context |
| Codecs (`pkg/codec`) | an encoder for each stream: what was opened, started, stopped | decode a body, encode an answer, `EncodeEvent`, `Close` | dispatch, both kinds of client |
| Lane conversions (`hublane`, `codex`, `copilot`, `antigravity`) | none | build the upstream's request, read its answer | codecs through the IR (`pkg/ir`) |
| Alias catalog, model state (`pkg/server/server.go`, `catalog.go`, `pkg/state`) | aliases, their file, a row with the kill switch for each name | `set/remove_model_alias`, `syncCatalogToState`, `toggle_model`, boot | router, MCP tools |
| Timeouts (`pkg/server/timeouts.go`) | a table and its file | set, remove, boot | dispatch (the request's context), MCP tools |
| Runtime providers (`pkg/server/providers.go`, `rebuild.go`, `pkg/mcp/providers.go`, `pkg/provider/provider.go`) | definitions and their file, the registry of lanes | add, remove, rebuild, restore | dispatch, MCP tools, logins |
| Quota (`pkg/quota`) | circuit per provider, its copy in the snapshot, a schedule per provider, a loop | `AllowProbe`, `RecordSuccess/Failure/LimitError`, the observer, `Tick`, `PollAll`, `Start`, `Stop` | `pkg/state`; at this commit only its tests wire it |
| Freebuff actor (`pkg/spikes/freebuff/actor.go`) | the lease file, a queue, a worker, a heartbeat | `Acquire/Release`, `Stream`, `Bind`, `StartRun`, `Close` | the freebuff lane |
| Login flows (`pkg/mcp/tools.go`, antigravity, xai, codex) | a pending flow, a listener on a local port | `initiate_oauth_login`, `check_oauth_login`, `submit_oauth_code` | credential manager, the browser, rebuild |
| Discovery, metadata, dashboards, HTTP surface | lists and views | - | dispatch, MCP tools |

Where it is hard: goroutines share one credential and one rotating refresh token;
persisting and publishing a credential are two steps, checking its generation and
renaming the file two more; a crash can fall between any of them. A dispatch reads the
router and the registry at different moments, while the operator changes both; after the
first byte it may no longer change its mind. Its records reach SQLite through a queue
that drops them when it is full, and in batches of which single records or all may be lost;
shutdown closes the queue under the producers. A stream has three goroutines that must all come to an end
although no send can be cancelled and no write to the client has a deadline; its encoder must make one well-formed answer of events
that arrive with whatever indexes, errors and cuts the lane produces. Two operators change
file, memory and registry in separate steps. PROJECT.json lists each hazard at its line.

What makes each part correct:
- credentials: never more than one refresh of a key at a time; nothing used that is not on
  disk; no interleaving that loses the lane's last working refresh token; whoever waits
  for a refresh gets an answer; a rejected token is not sent again; a login repairs.
- telemetry: admitted records are committed in order or their loss is reported by `Close`;
  rows show the latest committed record; `Close` ends.
- dispatch: no lane twice, no second lane after the first byte, an end; one row per
  request whose outcome is final and true, with its children after it.
- streams and codecs: the client sees one well-formed stream, a whole answer arrives whole,
  once and in order, nobody is left blocked; a request reaches every upstream with all its
  pieces, in their turns, with the ids that tie results to calls; an answer comes back so.
- freebuff: the account's lease is given back on every path, other daemons are kept out
  while it is held, and a chat names the live session of its model.
- quota: breaker and snapshot show one circuit, the single probe is never just lost, one
  loop at a time, `Stop` ends.
- administration: what is served now is served after a restart; a call that had its lane to
  itself leaves registry and store in agreement; what was switched off stays off.
- logins: "completed" means the credential is stored.

## 2. The modules

| Module | What it is |
|---|---|
| `CredentialManager` | manager, refresher, one retry, logins, forced refresh, over one key |
| `TelemetryRecords` | records, and the rows a transaction leaves |
| `TelemetryLog` | abstract: an ordered log with a bounded backlog and an honest close |
| `TelemetryWriter` | the channel, the worker, its batches, transactions, `Close`; implements `TelemetryLog` |
| `Dispatch` | `dispatchRequest`, router and operator, composed with `TelemetryLog` |
| `StreamCodecs` | operators: what each lane makes of a chunk, both stream encoders, both clients |
| `Streams` | the goroutines and channels of one stream, from the upstream to the client |
| `Exchanges` | a call that is not streamed: decode, build the request, read the answer, encode |
| `FreebuffLane` | requests of the freebuff lane over the account actor: lease file, session lifecycle, chat, heartbeat |
| `QuotaBreaker` | breaker, observer and snapshot of one provider |
| `QuotaScheduler` | polls, back-off, loop, start and stop |
| `RuntimeLanes` | add, remove, rebuild and restore of runtime lanes |
| `FileStates`, `ConfigOverlay` | a table over configuration and file: abstract, instantiated by the next two |
| `AliasCatalog` | aliases, their sync into the state rows, the kill switch, restarts, damaged files |
| `LaneTimeouts` | the timeout table |
| `Logins` | the three kinds of sign-in, by two calls over a lane that may be replaced |
| `CredentialManagerProofs`, `TelemetryWriterProofs`, `DispatchProofs`, `StreamsProofs`, `FreebuffLaneProofs` | the theorems about the module they are named after (section 5) |
| `StreamDeliveryProofs` | the theorems about what the clients of `Streams` have read |
| `ControlPlaneProofs` | the theorems about `QuotaBreaker`, `QuotaScheduler`, `RuntimeLanes`, `AliasCatalog`, `LaneTimeouts`, `Logins` and `MCParts` |
| `TelemetryRecordsProofs` | lemmas about sequences and about what a transaction makes of the tables |
| `MCCredentialManager`, `MCTelemetryWriter`, `MCDispatch`, `MCFreebuffLane`, `MCStreams` | what TLC alone needs (symmetry, a bound on the records, what requests ask for) |
| `MCParts` | the seven parts that share no state, side by side |

`Dispatch` uses the abstract log and not the writer: the refinement, checked and proved,
is what allows that, and it keeps the composed state space small. `Streams` starts where a
`Stream` call of `Dispatch` returned a channel: `Dispatch` knows of a stream only that it
delivers, ends, fails or is cut, and `Streams` is what is inside.

`MCParts` extends `QuotaBreaker`, `QuotaScheduler`, `RuntimeLanes`, `AliasCatalog`,
`LaneTimeouts`, `Logins` and `Exchanges`. None reads a variable of another, so a product of
them would only multiply states: its variable `part` says which one moves in a behaviour,
and the others stand at their initial states. Each has an `Init`, `Next` and `Spec` of its
own, and the proofs are about those.

### CredentialManager

Every goroutine is in one operation (`task`) and at one point of it (`pc`); a step is what
happens between two points where another goroutine can run. `cred` is the local variable
`cred`, `latest` or `refreshed` of the code. Variables and code: `disk` is the key's file,
`cache` and `revoked` the two maps' entries for the key, `leader` the goroutine inside the
singleflight function (the others are at `"wait"`).

| Steps | Code |
|---|---|
| `StartGet`, `Accepted`, `Rejected`, `Resend` | a request of an `openaicompat` lane: get a token, send, on 401/403 invalidate, get, get and send again, once |
| `Probe` | one lane's turn in `refreshExpiringCredentials` and the lane's `Refresh` (invalidate, get) |
| `StartLogin` | the approved sign-in, `Store` at generation 0 |
| `ForceRefresh` | `Refresh` of antigravity: the refresher called outside the singleflight, then `Store` |
| `ReadCache`, `LoadFromDisk`, `FillCache`, `CheckFresh`, `Join` | `Get` and `Peek` up to `sf.Do` |
| `FlightStart`, `Recheck`, `RefreshOK`, `RefreshError`, `RefreshAnswerLost`, `RefreshFailed` | the function in `sf.Do` |
| `CheckGeneration`, `RefusedStale`, `Rename`, `PersistIOError`, `Publish` | `persist` and the publication (`Store` and `Get` alike) |
| `Give`, `Fail` | the end of the flight, for leader and followers |
| `Age`, `Crash` | the clock, the process dying and starting again |

Abstractions: a token is an id, its lifetime four classes, one for each distance to expiry
that the code compares (10 minutes, 5 minutes, 0). A grant is what the endpoint knows of a
refresh token, and it is not the credential's id: at every refresh the endpoint may answer
without a refresh token, in which case the code keeps the old one in the new credential
(oauth.go:234-237) and several credentials share a grant, or with a new one that is valid
beside the old, or with one in its place. `Answers` says which of the three an endpoint
does. The upstream may reject any token.

History variables: `durable` (ids ever on disk), `overtaken` (who lost the race between
generation check and rename), `interrupted` (a grant was lost to a crash, an I/O error or a
lost answer), `undercut` (the endpoint revoked a refresh token that another goroutine was
about to write, or that the file holds and will not give up for the answer's generation).

### TelemetryWriter

`queue` is the channel, `batch` the worker's slice, `worker` its place in the loop
(receive, drain, write, exit). A batch begins with one blocking receive and then takes what
is there, up to `BatchSize`. A statement that fails loses its own record, which is logged,
and the rest of the batch commits: so it is with any insert, and with a child that has no
parent where its connection has the foreign keys on (without them the child lands). A
transaction that cannot begin, be prepared or commit loses the whole batch. `Close` by the first caller closes the channel
and waits, by any other returns nil.

### Dispatch

One request id is one `dispatchRequest`. `outbox` holds the records the code is about to
hand to the writer one after the other: another goroutine may run between two of them, and
each may be dropped. `RouteTo` is `Route` with the kill switch, the alias and the prefix.
The operator (`Change`) moves the alias, flips the switch, adds or removes a lane, at any
moment. The stream of a lane may deliver, end, fail, or be cut: `StreamCut` is the channel
closed without an error event, which happens when the request's context is done.

A non-streaming answer is `Generated` and then encoded and written. The client reads, or
stays and reads no more (`Stall`), or is gone (`HangUp`); a step that writes an event or an
answer to it is disabled while it is stalled.

### StreamCodecs and Streams

A piece of an answer is a number, its place in what the upstream sent; a client's text,
reasoning and arguments are sequences of pieces, so that losing, repeating, reordering or
misplacing one shows. A lane reads on after its upstream's finish, as the code does, so an
upstream may go on with its answer or finish twice. Five kinds of lane differ in the events they make of a chunk:

| `lane` | Code | Indexes |
|---|---|---|
| `hub` | `StreamBridge`, for every `openaicompat` lane | text at 0, a call at its own index |
| `codex` | codex's stream reader | the same |
| `chat` | copilot's chat API | the same, calls not stopped |
| `responses` | copilot's Responses API through the translator of `pkg/spikes` | a block per output item, calls counted by themselves |
| `gemini` | antigravity | everything at 0 |

| Steps | Code |
|---|---|
| `LaneRead`, `LaneErrorChunk`, `LaneEOF`, `LaneReadError`, `BridgeQuits`, `LaneSend`, `LaneClose` | the lane's goroutine: a read, an error it reads on after, the end, a failed read, the bridge's select on the context, one send on the channel, the deferred close |
| `FilterTake`, `FilterPut`, `FilterEnd`, `FilterQuit` | `filterReasoningStream` |
| `FirstEvent`, `FirstClosed`, `ClientLeftFirst` | dispatch up to the first byte |
| `NextEvent`, `NextError`, `NextClosed` | the rest of the stream, drained when the client is gone, broken off after an error |
| `Timeout`, `HangUp` | the request's context |
| `Stall` | the client stays and reads no more: the write of dispatch that fills the connection blocks until it hangs up |

`AnthropicEvent`, `AnthropicClose`, `OpenAIEvent` and `OpenAIClose` are the encoders,
operators from an encoder's state to the next and the frames written. The Anthropic client
is the decoder of `pkg/spikes/anthropic`; the OpenAI client joins arguments by index.

What a client has of a content (the text, the reasoning, or the arguments of one call) is
the set of its readings, each a piece and the place it is read at (`OpenAIReads`,
`AnthropicReads`): for an OpenAI client the place is the frame, for an Anthropic client the
block's index and the position in the block, in the order in which `FullText` goes through
them. A piece lost, repeated, under the wrong call or out of place is a reading too few, one
too many, or two in the wrong order (`InOrder`).

### Exchanges

A body is a conversation of up to four turns (system or developer, user, assistant, results)
with an image or an unknown block, reasoning, up to two calls, their results with text
before or after, one block marked for caching, and a tool schema as the set of its nodes.
`DecodeRequest` is the two decoders, `BuildRequest` the five builders (`IRToHubPrompt`,
`BuildPayload`, `convertIRToChatMessages`, `convertIRToResponsesInput`, `buildRequest`),
`RefuseTools` antigravity's schema check, `ReadReply` the readers and `EncodeReply` the two
encoders. Every body and every answer of that grammar goes through every lane for either
client.

### FreebuffLane

A request is a goroutine in `Generate` or `Stream` of a freebuff lane; `rpc` says between
which two HTTP calls or holds of the actor's mutex it is. `locked` is `isLocked`,
`fileOwner` the actor whose descriptor holds the lease file, `known` the actor's
`instanceID` and `boundModel`, `sig` the lane's `freebuffToolsSig`, `session` what the
upstream has for the account.

| Steps | Code |
|---|---|
| `FoundLocked`, `NotLocked`, `TryLock`, `Mark`, `GiveUp`, `Release` | `Acquire` and `Release` of the actor |
| `AskSession`, `Reconcile`, `Sign`, `Choose` | session check, toolset, and the switch of `applyRequestTransforms` |
| `EndSession`, `DeleteSession`, `OpenSession`, `Conflict`, `DeleteIgnored`, `Bind`, `BindUnnamed` | `DeleteSession` and `Bind`: the call, then the actor's copy, or its model alone after an answer without an id |
| `Prepare`, `ChatEnds`, `ChatFails`, `FinishRun` | run, chat and the two ways to leave, for `Generate` and `Stream` |
| `LifecycleFails` | any error of the lifecycle, a lost answer included |
| `BeatAsk`, `BeatAdopt` | the heartbeat, which takes no lease |
| `SessionExpires` | the upstream, by itself |

Assumed of the upstream: it has one session of the account at a time, opening one replaces
it, and asking for the session answers with the one it has, with none, or with a 404. Two
actors are two daemons on one host, or a lane and the one built in its place.
History variables: `overlapped` (actors that let one of their requests in while another was
in service), `disturbed` (requests during which something else touched their session:
another request in service, a late heartbeat, an expiry), `misled` (requests whose actor kept
a copy of a session that is over after a 404, or took none from `Bind`'s answer).
The event channel of a stream and the actor's own job queue are left out.

### QuotaBreaker and QuotaScheduler

`cb` is the breaker's state of one provider, `sm` its row in the snapshot, which keeps a
count and a threshold of its own. A breaker operation is one step, as it holds `cb.mu`
throughout. `AllowProbe`, `Success`, `TransportError`, `LimitAnswer` and `OtherAnswer` are a
request around the observer's round tripper; `Classify` tries the patterns in the
classifier's order; `SetAdminState`, `RecoverCircuit` and `ResetQuota` write the snapshot
alone. In the scheduler a poll waits for the budget, goes up and comes back; `tickAt` is the
frozen clock a tick installs; a channel is its number. Callers start and stop the scheduler
as they like, also while a `Stop` waits: `Start` looks at `running` alone, `Stop` clears it,
unlocks and reads `s.doneChan` after that (`StopWait`), the loop reads `s.doneChan` when it
begins and `s.stopChan` whenever it enters its select (`LoopSelect`).

### RuntimeLanes, AliasCatalog, LaneTimeouts

| Steps | Code |
|---|---|
| `AddBegin`, `AddStore`, `AddReread`, `AddRegister`, `AddFails` | `add_provider`: build, `providers.Add`, the lookup before the build of the live lane, `Register` |
| `RemoveBegin`, `RemoveStored`, `RemoveFails`, `RemoveUnregister` | `remove_provider`, whose look for the lane knows the openai-compatible definitions only |
| `RebuildBegin`, `RebuildFails`, `RebuildRegister` | `RebuildLane` after a login |
| `LanesRestart` | `registerProviders`, the store's load, `Restore`; also as a crash in the middle of a write |
| `SetAlias`, `RemoveAlias`, `SyncList`, `SyncDiff`, `SyncUpdate`, `SyncOwn` | a catalog change and the four steps of `syncCatalogToState` |
| `Toggle` | `toggle_model` |
| `CatalogRestart`, `Damage` | boot from the file as it is, or from a damaged one |
| `ChangeTimeout`, `TimeoutRestart`, `DamageTimeouts` | the timeout manager |

A call carries the history variable `alone`: whether no other call was about its lane
between its begin and its end.

### Logins

`kind` is the provider's: `loopback` (antigravity: the browser's redirect to a local
listener), `device` (xai: polls), `blocking` (codex: one call). `pending` and `loopback` are
fields of the lane's provider object, which `ReplaceLane` replaces. `consent` is where the
code of each flow is: with the user, in the listener's channel, held by a call, spent or
lost. A call that outlives its 90 seconds is in `late`.

## 3. The runs

| Run | Bounds | Shows |
|---|---|---|
| `CredentialLogins` | 2 goroutines that log in and force refreshes, refresher or none, 3 issued credentials, any answer of the endpoint, 1 crash (5.7 million states) | `TypeOK`; `PublishedIsDurable`; `NoGrantLost`; `GenerationCAS` |
| `CredentialRequests` | 2 goroutines sending requests or refreshing ahead of time, 2 issued credentials, fairness (480 000 states) | `OneFlight`; `GetReturns` |
| `CredentialRetry` | 2 requests, 2 issued credentials | **violated**: `RetryCarriesFreshToken` |
| `CredentialRelogin` | 2 goroutines, every entry point, 2 issued credentials, stored generation 0 or 1, 1 crash | **violated**: `LoginAccepted` |
| `TelemetryWriter` | 2 requests, queue and batch of 2, 3 records, 2 closers, fairness | `WriterTypeOK`, `AdmittedInOrder`, `CloseTellsLoss`, `RowIsLatest`, `ImplementsLog`, `CloseReturns` |
| `DispatchFailover` | 1 streaming request, 3 lanes, 2 changes by the operator, fairness (840 000 states) | `TypeOK`, `NoDoubleCount`, `NoFailoverAfterCommit`, `DispatchEnds` |
| `DispatchTelemetry` | 1 request of either mode, 3 lanes of which 2 serve, 1 change, queue and batch of 2, a shutdown at any moment | `ParentFirst`, `CompleteMeansDelivered`, `OutcomeIsFinal` |
| `DispatchCutStream` | the same | **violated**: `CutIsNotComplete` |
| `FreebuffLane` | 3 requests, 2 at a time, over 2 actors, 2 models and toolsets, 2 sessions, 1 heartbeat (4.4 million states) | `TypeOK`, `LeaseReturned`, `LeaseBetweenActors`, `ChatOnOwnSession` |
| `Streams` | 5 lanes, 2 clients, filter or none, channels of 1, answers of 3 pieces, fairness (1.1 million states) | `TypeOK`, `StreamWellFormed`, `OpenAIIntact`, `AnthropicIntact`, `StreamEnds` |
| `Parts` | see below (1.4 million states) | `TypeOK`; `CircuitsAgree`, `ProbeAccounted`; `OneLoop`, `StopHasLoop`; `StoreIsFile`, `SoleCallSettles`; `TablesSurvive`, `KillSwitchHolds`; `CompletedIsSaved`; `RequestArrives`, `ReplyArrives` |
| `RequestTools` | the bodies of `Exchanges` | **violated**: `ToolsArrive` |

Bounds of `Parts`: both failure thresholds 2, counts up to 2, times up to 2, 2 requests;
2 loops, 2 callers, clock up to 1, budget 1; one lane with 3 definitions and 2 calls; 2 aliases of one
model, 2 operators, 2 toggles, 1 damage; 2 timeouts of 2 durations; 2 flows, 2 provider
objects, 2 calls.

Why these bounds are enough. Two goroutines make a leader, a follower and one that comes
between any two steps of the other, which is every race in the manager: a third would only
be another follower or another late reader. Two issued credentials, besides a file that
may be empty, give an old and a new token; a third lets one share a grant that a later
answer revokes, and a login meet two refreshes. One crash can fall between any two steps.
Requests and refreshes ahead of time have a run of their own, as logins with them would be
too many states; the proofs have all of them at once. In the writer, three records over a
queue of two and batches of two fill the queue, cut one request's records into two batches
and let a batch fail between them. In dispatch, requests meet only in the queue, and what
another request does to it (fill it, fail a batch, have it closed) the abstract log does by
itself; three lanes are one more than a failover needs, and as many as the least attempt
limit. Two changes by the operator remove a lane and bring it back, or move the alias
there and back. In the freebuff lane, two requests at a time overlap on one actor or meet
over two, and the third comes after one of them has released the lease under the other;
two sessions are an old one and the one it is switched to; one heartbeat can be late.
In a stream, three pieces interleave two kinds of content around a third, or open a call,
leave it and come back to it; a channel of 1 is full after one send, which is when sends
block: the code's 64 only delays that. In `Parts`, two requests leave a late answer for a
circuit that has opened since; two loops are an old and a new one; two calls race, and every
part but the scheduler's loops ends in states from which it can start again. A body of two
calls is the least with an order among results.

No run checks for deadlock: every model stops when its bounded arrivals are used up, the
stream is over, or (an abandoned lane of `Streams`) a goroutine is blocked for good, which
`StreamEnds` says when.

What the violated runs show (PROJECT.json quotes the lines they contradict):
- `CredentialRetry`: `Get` caches what it loaded from the file without a second look
  (manager.go:284), so it can put a rejected token back over the refreshed one, whose
  publication also cleared the revocation. The retry sends the rejected token again.
- `CredentialRelogin`: a login stores generation 0 and is refused over a refreshed file.
- `DispatchCutStream`: a stream cut by the lane's timeout is recorded complete.
- `RequestTools`: the tools of an Anthropic client are a typed slice in the options
  (anthropic.go:256), which the hub lanes, antigravity and copilot do not recognise: their
  request has no tools, and nobody is told.

Behaviour the models have and the properties except, each where it is said in a comment:
- *Credentials.* A writer that another one overtook between its generation check and its
  rename may put an older generation over a newer (manager.go:132, `overtaken`). A leader
  whose client leaves fails every follower of its flight (manager.go:315), and a late
  rejection revokes a newer token than the one rejected (openaicompat.go:702). An endpoint
  that lets a refresh token be kept and later revokes it may take it from a goroutine or a
  file that kept it, when one of the two refreshes was outside the singleflight or from an
  old copy (`undercut`, and only where `Mixes`).
- *Dispatch.* A failed-over dispatch that ends in a 404 or a 409 leaves its row `in_flight`
  (handlers.go:688). `openRequestRow` marks the row as opened even when the writer dropped
  it (handlers.go:619), so later attempts are children without a parent and, with foreign
  keys on, are lost one by one; `ParentFirst` excepts those requests. The server sets no
  `WriteTimeout` (server.go:317-323): a client that stays and reads no more holds its dispatch,
  the filter and the lane's goroutine for good, beyond the lane's timeout. `DispatchEnds` and
  `StreamEnds` excuse it.
- *Freebuff.* `Acquire` lets a second request in when its own actor holds the lease
  (actor.go:282), so requests of one lane are not serialized, and the first to leave unlocks
  the file under the other. `LeaseBetweenActors` excepts actors whose requests overlapped.
  After a 404 of the session check the actor keeps the id and the model it had
  (actor.go:361-363), and after a POST whose answer names no instance it has the new model
  with the old id (actor.go:438-458): a request alone on the account may then chat on a session
  that is over. `ChatOnOwnSession` excepts these two (`misled`) and requests whose session
  something else changed (`disturbed`).
- *Streams.* The Anthropic encoder keeps one open block and starts a tool block whatever was
  at its index (anthropic.go:755): text at index 0 followed by a call at index 0 is lost to
  the client, hence `OwnIndexes`. Gemini streams every call at index 0, so an OpenAI client
  joins the arguments of two (`OwnCalls`). A tool index of the Responses API may be an output
  index too. An error mid-stream is followed by the frames of a normal end, and a cut
  stream gets them with no error at all. The encoders look at `stopped` only to write the end
  once: what an upstream sends after its finish is written after `message_stop` or the
  finish chunk (`Overrun` in `StreamWellFormed`).
- *Exchanges.* codex and copilot's chat API make one message of a turn, with one
  `tool_call_id`: several results, or a result and text, become one (`Merged`, codex.go:290).
  Two equal calls of gemini share an id. The Responses API's "completed" becomes `end_turn`
  for an Anthropic client although there are calls (`Untold`). An answer cut short in a call
  is reported to an OpenAI client as `tool_calls`.
- *Quota.* An answer that is neither a success nor a limit is booked nowhere: the half-open
  probe stays taken and the lane closed (observer.go:170, `lostProbe`). `Tick` polls a
  provider whose back-off an overlapping poll has just set, an older poll's answer overwrites
  a newer one, and `Start` after a cancelled context and without `Stop` does nothing. `Stop`
  lets go of the mutex before it waits (scheduler.go:385-396), and both it and the loop read
  the channels from the scheduler's fields: a `Start` in that window leaves two loops on one
  pair of channels, of which the second to end closes a closed channel, or makes the `Stop`
  wait for the new loop. `OneLoop` and `StopHasLoop` excuse it (`overlapped`).
- *Lanes.* A rebuild that read the definition before a removal registers the lane again. The
  removal of a custom-wire lane takes a failed write for "not runtime-registered" and answers
  ok (mcp/providers.go:530). A store that could not read its file starts empty, and its next
  change writes the file over.
- *Catalog.* A damaged alias file costs the catalog its configured aliases and its
  persistence, though the log says "continuing with config only" (server.go:187). A
  configured alias that was removed is back after a restart. Two concurrent syncs may apply
  their lists in the other order and delete the row, and the switch, of a newer alias
  (server.go:550). The kill switch is not persisted.
- *Logins.* A call that ends late loses the code it took; completing an old flow clears a newer
  pending one; the flow is forgotten before the credential is stored; codex drops the error
  of `Store` (codex.go:766); a rebuild drops the pending flow.

## 4. Fairness

- `CredentialManager`: weak fairness of every goroutine's steps once it entered the
  manager. Its locks are held for a few instructions, file operations return and every
  call of the token endpoint has a deadline. None for starting an operation, for the clock
  or for crashes.
- `TelemetryWriter`: weak fairness of the worker (it loops, and SQLite calls return) and of
  the waiting closer. None for producers.
- `Dispatch`: weak fairness of the dispatch's own steps and of the upstream's end of a call
  or stream: the lane's timeout (handlers.go:753-761) ends both. None for the operator, the
  client or the log: a dispatch ends even if the writer never drains. A step that writes to a
  stalled client is not enabled, so no fairness makes that write return.
- `Streams`: weak fairness of the lane's sends and close, of the filter and of dispatch, of
  the request's timeout, and of a failing read once the request's context is done, which is
  what an HTTP body does. Nothing makes an upstream send or close, or a client read on or
  leave: a write to a stalled client stays disabled until it hangs up.
- So nothing is assumed of a client, and both liveness properties of a request are of the
  form "it ends, or its client stays and reads no more for good".
- The parts of `MCParts` have safety properties only, and no fairness.

## 5. What is proved

For every value of the constants that satisfies the modules' named assumptions. They say
that parameters which number things are numbers, that capacities and thresholds are not zero
where the code's are not, that a model value standing for "none" is none of the others, and,
in `BreakerAssumption`, that the snapshot's threshold is not below the breaker's, as the
code's defaults have it. TLC evaluates every one of them in the runs.

`CredentialManagerProofs`
- `TypeCorrect`: `Spec => []TypeOK`. The part that is not plain typing is that whoever looks
  into the credential in hand has one. The first four theorems come from one inductive
  invariant, `IInv == TypeOK /\ DurableInv /\ FlightInv /\ CheckedInv`.
- `SingleFlight`: `Spec => []OneFlight`. `FlightInv` adds that the leader is at a
  point inside the singleflight function.
- `DurableFirst`: `Spec => []PublishedIsDurable`. `DurableInv` says that every credential
  in hand at a point where it may be published or given away is durable, and that what is on
  disk is.
- `UncontendedCAS`: the action property `GenerationCAS`. `CheckedInv`: a goroutine
  between check and rename that nobody overtook holds a generation not below the one on disk.
- `GrantsAreKept`: `Spec => []NoGrantLost`, by a second layer `OwnInv` over `IInv`. That the
  file's grant is live or somebody is about to replace it is not inductive: the replacement
  could be refused as stale, or its grant be revoked by another goroutine's refresh. `OwnInv`
  says that all copies of an id are one credential (`CopyInv`), that a credential not yet
  written was never on disk and is in one goroutine's hands only (`UnsavedInv`), and that
  where the endpoint never lets a token be kept, each credential has a grant of its own
  (`OwnGrants`); where it does, credentials share grants and nothing of the kind is claimed.
  `GrantInv` says that the grants not yet written are live, and that a dead one in the file
  is about to be replaced by one that the generation check will not refuse; it excepts
  `interrupted` and `undercut`. That an endpoint which keeps to one way undercuts nobody is
  proved from `OwnInv`, so that the property excepts `undercut` only where `Mixes`.

`TelemetryWriterProofs`
- `WriterTypeCorrect`, `QueueKeepsOrder`, `CloseIsHonest` from one inductive invariant `WInv`:
  types, the order of admitted records, what the worker's place implies for its batch and the
  channel, when an error is remembered, and what a waiting or returned closer may rely on.
- `RowsAreLatest`: `RowIsLatest`, inductive with `WInv`: a transaction upserts the last row of
  each request in its batch, and what follows a prefix of the admitted records does not change
  what the prefix says (`PrefixRows`).
- `WriterImplementsLog`: every step of the writer is a step of `TelemetryLog`, under the
  mapping `pending <- batch \o queue`, `lossy <- lost # {}`, or a stutter.

`DispatchProofs`, over `Dispatch` composed with `TelemetryLog`, from one inductive invariant
`IInv == TypeOK /\ LaneInv /\ CountInv /\ OpenInv /\ FinalInv /\ TruthInv`:
- `DispatchTypeCorrect`: `TypeOK`. That a dispatch makes no more attempts than its limit needs
  `LaneInv`: the lane it tries is none it has excluded.
- `NothingCountedTwice`: `NoDoubleCount`. `CountInv` numbers what a dispatch has a child record
  for (its failed lanes, the one that answers, the usage of an answer) and says that what was
  sent and what is about to be are different members of that.
- `ParentComesFirst`: `ParentFirst`. `OpenInv`: before a request is opened nothing of it was
  sent or is about to be; from then on the first thing is its row, unless that was dropped.
- `CompleteIsTrue`: `CompleteMeansDelivered`. `TruthInv` follows the word "complete" back from
  the row over the log's backlog to what dispatch is about to track.
- `CommittedToItsLane` and `OutcomeStays`: the action properties `NoFailoverAfterCommit` and
  `OutcomeIsFinal`. `FinalInv`: an outcome is the last row of its request wherever it is, and
  its dispatch is done.
- `DispatchesUseTheLog`: `Spec => LogSpec`, so that what the writer is proved to implement is
  what the dispatches are composed with.

`StreamsProofs`, for every capacity of the channels and every length of an answer
(`StreamAssumption`), from `IInv == StreamTypes /\ PipeInv /\ ShownInv`:
- `StreamTypeCorrect`: `TypeOK`.
- `StreamsAreWellFormed`: `StreamWellFormed`. `Pipe` is what is on its way to dispatch: the
  filter's channel, what the filter holds, the lane's channel and what the lane is sending,
  end to end, so that a send or the filter's copy leaves it as it is (`PipeSame`), a read adds
  at its end (`PipeGrows`), and dispatch takes its head (`Receives`). `PipeInv` says that it
  opens with an event that opens the message and how far that agrees with the encoder, and
  for an upstream that sent nothing after its finish, that only usage, errors and further
  stops follow a stop (`StopLast`), and that only these are on the way once the encoder
  stopped (`OnlyEnds`). `ShownInv` says what the encoder's state means for the frames
  (`AnthropicGood`, `OpenAIGood`): the open block is the one started more often than stopped,
  a begun index has a start, the end is written once and every block begun before it was
  stopped before it (`EndsAt`, `StoppedBefore`), whatever follows; and unless the upstream
  went on (`Overrun`), only what `Late` names follows it (`Sealed`). Each event of each encoder keeps it, proved block by block (`AnthropicEventGood`,
  `OpenAIEventGood`, `AnthropicCloseGood`, `OpenAICloseShown`), and it implies the property
  (`ShownIsWellFormed`). `MadeGood` is the lanes' half: what `Translate` makes of any chunk
  that may come next.

`StreamDeliveryProofs`, for every capacity and every length too, from `IInv /\ DInv` with
`DInv == SentInv /\ OrderInv /\ BlocksInv /\ EndInv`:
- `DeliveryInvariant`: `Spec => [](IInv /\ DInv)`. The order in which things must arrive is
  that of the chunks they were made of (`Number`), with the opening of a call before its
  arguments. `Written` is the set of events that tell the client something of what was read, `Due`
  what the filter lets through of it, `Told` the event a frame tells of.
  - `SentInv`: pieces are numbered by their place, a call is opened before it is continued, and
    the calls and the items of the Responses API come in order. Without it `Number` would not
    tell two events apart.
  - `OrderInv`: the events of `Pipe` are in that order (`Flows`); the frames tell of what is due
    only, in that order, and of everything due before the last thing they tell (`Arrived`);
    and as long as dispatch reads for a client that is there, what is due has been told or is
    on its way, behind all that was told (`Continues`). The last is what makes the second
    inductive: the event dispatch takes next is the next one due.
  - `BlocksInv`: a block that a delta or a message item starts for an Anthropic client has a
    new index (`StartsOnce`), since the encoder has every index it used in `begun`. The decoder
    throws a block away that is started again.
  - `EndInv`: what each goroutine has left when it is done, so that a stream which ended for a
    client that is there, and within its time, has told everything due.
- `OpenAIClientsReadItAll`: `OpenAIIntact`. The index of a piece's frame has its own call as the
  last opened (`OwnCalls`), and the frames' order is the pieces' order.
- `AnthropicClientsReadItAll`: `AnthropicIntact`. The decoder is a recursive function of the
  number of frames read. That its blocks hold exactly what the frames read so far added since
  their last start, in order (`Decoded`), is proved for every such number (`AllDecoded`): a
  least number for which it failed (`LeastNumber`, from the well-foundedness of `<` on `Nat`)
  would have one before it for which it holds, and one frame keeps it.

`FreebuffLaneProofs`, from
`IInv == TypeOK /\ LeaseInv /\ AloneInv /\ OwnerInv /\ AdoptInv /\ TrackInv`:
- `LaneTypeCorrect`: `TypeOK`; `LeaseIsReturned`: `LeaseReturned`, by `LeaseInv`: a held lease
  has a request in service, and a locked file whose flag is not set has one about to set it.
- `LeaseKeepsOut`: `LeaseBetweenActors`. `OwnerInv`: an actor none of whose requests overlapped
  holds the file while it serves, and there is one file.
- `ChatHasItsSession`: `ChatOnOwnSession`. `TrackInv` says at each point of a request which
  nobody disturbed and no answer misled that what it learned of the account's session is still
  so.

`ControlPlaneProofs`, part by part:
- `CircuitsInStep` (`CircuitsAgree`): `CountsInv` says that the snapshot never counts more
  failures than the breaker, so with a threshold not below the breaker's it cannot open
  first. `Keeps` is what each outcome of an answer guarantees, proved outcome by outcome.
- `ProbeIsHeld` (`ProbeAccounted`) from the same invariant: every booked outcome frees the probe.
- `OneLoopAlways` and `StopIsAnswered` from `LoopInv`. As long as no `Start` came between a
  `Stop`'s unlock and its return (`overlapped`), only the loop of the last `Start` can be
  there, on that `Start`'s channels (`LastLoop`), it is there exactly until its done channel
  is closed (`Accounted`), and whoever is in `Stop` has stopped that loop and waits for that
  channel (`Waited`).
- `StoreSurvives` (`StoreIsFile`), which is inductive.
- `SoleCallsSettle`, the action property `SoleCallSettles`, from `SettleInv`: a call that is
  alone is the only one about its lane (`Apart`), so what it read of the store still holds
  (`Relies`).
- `KillSwitchKept`, the action property `KillSwitchHolds`: the names a switch is looked up by
  keep their rows and aliases over every step that is not excused.
- `AliasesSurvive` and `TimeoutsOutlive`: the catalog's and the timeouts' halves of
  `TablesSurvive`.
- `CompletedLoginsSaved`: `CompletedIsSaved`, from `LoginInv`: a call past its start has a flow
  in hand (`HasFlow`), so that what it completes is what it stored.
- `PartsTypeCorrect` and `TablesOutlive`: `TypeOK` and `TablesSurvive` of `MCParts`. `PartsInv`
  is the invariant of whichever part moves; the other parts are the ones that stay.

Only model-checked: the liveness properties (`GetReturns`, `CloseReturns`, `DispatchEnds`,
`StreamEnds`), which are beyond the prover, and `RequestArrives` and `ReplyArrives` of
`Exchanges`. The last two compare what the filters and folds of the codecs return, whose
induction over a sequence the provers cannot do; that module has no constants, and TLC goes
through every body and every answer of its grammar, so that its run leaves no larger instance
to prove.
The four violated properties are counterexamples by TLC.

## 6. What is not modelled

Listed with reasons under "components" in PROJECT.json. Of the modelled parts, left out are:
`SetRefresher` (called while a lane is built, before it is registered), `Invalidate` with a
given token (no caller passes one), codex's own `Refresh`, the text of requests and errors,
headers, options, token counts and images' contents, quota headers and their parsing, the
Supabase token source of `quirks_auth.go`, device codes that expire, the freebuff actor's job
queue (only its tests call it), and time other than the order of thresholds. Discovery,
metadata, dashboards and the HTTP surface are lookups, views and wiring.

## 7. Plan

In order of importance:
1. The Supabase token source as a second client of the credential properties.
2. The freebuff session with the toolset it was opened with.
3. `RuntimeLanes` composed with `Dispatch`: its registry as what `Change` moves.
