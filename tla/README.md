# TLA+ specifications of voleeo-api

voleeo-api is a desktop API client: a Tauri shell (`src-tauri`) around Rust
crates (`crates/`) that send HTTP, WebSocket and gRPC requests, acquire OAuth 2.0
tokens and keep workspaces, histories and cookies in files, with a web UI
(`src-web`) and an MCP server (`crates/voleeo-mcp`) that share those crates.
The specifications here model the parts of it where actors, awaits and failures
meet, are checked with TLC, and carry proofs for TLAPS. Paths below are relative to
the repository.

## 1. Inventory

| Component | State it keeps | Operations | What makes it correct |
|---|---|---|---|
| `crates/voleeo-ws` `WsManager` | `conns`: id -> sender of a bounded channel, reader handle; a reader and a writer task per connection | `connect`, `send_message`, `disconnect`, the two tasks | an entry is removed when its connection ends and only then; accepted messages are written in order, then Close; nothing leaks |
| `crates/voleeo-http` `HttpExecutor` | `in_flight`: id -> token, oneshot; `send_seq`; `last_seen`; the reqwest pool | `send`, `send_streamed`, `send_guarded`, `cancel` | a running send can always be cancelled, a cancelled one says so, no other one does |
| `crates/voleeo-http` event streams | decoder, `SseAccum` | `push`, `finish`; `open`, `frame`, `finalize`, rebuild | frames do not depend on chunking; the response keeps the newest frames |
| `src-tauri` `send_request` | a batch of frames, a ticker task | sink, tick, tail flush, answer | each frame is shown once, in order, promptly |
| `crates/voleeo-grpc` `GrpcExecutor` | `in_flight`: id -> oneshot | `call`, `cancel` | as `HttpExecutor` |
| `crates/voleeo-grpc` `GrpcManager` | `calls`: id -> sender, reader handle; a reader task and a request stream per call | `start_stream`, `send_message`, `close_send`, `cancel`, the tasks | an entry is a live call; half-close comes after every frame; statuses go forward |
| `crates/voleeo-grpc` descriptors | cache: id -> source, pool | `get_or_build`, `rebuild`, `evict` | the newest source wins |
| `crates/voleeo-oauth` | `key_lock`; `oauth_tokens.yaml` per workspace | `ensure_token`, `save_token`, fetch, clear | one refresh at a time per key, no token lost |
| `crates/voleeo-oauth` loopback | a listener with a timeout | `wait_for_code`, `wait_for_token` | only a redirect with our `state` is accepted |
| `crates/voleeo-storage` | a YAML file per history, transcript, jar, workspace, ...; body side files; indexes | append, list, read, delete; temporary file and rename | no entry lost, no orphan body, readable after a crash |
| `crates/voleeo-cookies`, cookie commands | a jar file per workspace | match, ingest, edit | the identity of RFC 6265; no captured cookie lost |
| `crates/voleeo-crypto`, workspace encryption | key file, keychain entry, `key_check` | enable, import, load | secrets are under the workspace's key |
| `crates/voleeo-auth` | none | Basic, Digest, OAuth 1, SigV4 signatures | the published test vectors |
| `crates/voleeo-git`, `-import`, `-export`, `-core` | a git work tree; none | commits, merges, conversions | libgit2's; conversions |
| `crates/voleeo-mcp` | one API over the same executors and stores | tools; a 30 s timeout on sends | as the shared crates |
| `src-tauri` commands, `state.rs` | settings, secrets, windows | thin wrappers | writes in order |
| `plugins`, `packages` | none | template functions, themes, types | conversions |

The web UI (`src-web/src`) runs on one thread, but every command it calls is an await,
and whatever the user does, a timer fires or an event brings in between is an
interleaving. Its components:

| Component | State it keeps | Operations | What makes it correct |
|---|---|---|---|
| request store (`store/requests`) | folders, requests, connections, open panes; shown before the backend has answered | load, create, rename, move, update, duplicate, delete | comes back to what is saved; no pane on what is gone |
| request pane (`views/ApiWorkspace`: tabs, `useRequestDraft`, ...) | what is typed and not yet stored, debounce timers | type, switch request, save, send, encrypt | what is typed in one request is never saved in another |
| sidebar tree (`ApiRequestTree`, `useTree*`) | selection, focus, anchor, closed folders | keys, clicks, drag, paste, delete | focus and selection stay on rows that exist; no row leaves the tree but by a delete |
| sending and folder runs (`store/http.ts`, `useRequestSend`, `FolderRunPanel`) | `loading`, run status | send, cancel, run a folder | no spinner outlives its send; a run gives its panel back |
| template resolution (`builtins`, pre-flights) | shared promises, cycle marks, a cache per send | resolve, pre-flight, prompt, abort | marks end with their task; no circular wait |
| response pane (`ResponsePane`) | the past response on the screen, the history list | open, pick, clear, hear of a stored response | what is shown is the viewed request's |
| body viewer (`VirtualBody`, `lib/lineFolds.ts`) | blocks, folds, filter, search | scroll, fold, filter, find | rows and lines translate into each other |
| event-stream view (`store/sse.ts`, `SseStreamTab`, `TimelineTab`) | capped frames, filter, open rows, follow | events, filter, scroll | counts are of what was sent |
| template fields (`TemplateInput`, `UrlInput`) | text with chips, caret, undo, dialogs | type, complete, encrypt, undo | secrets are ciphertext |
| environments (`store/environment`, `EnvironmentsModal`) | environments, active one, rows, saves, renames | edit, load, create, remove, propagate a rename | the active environment is listed |
| cookies (`store/cookies`, `CookiesModal`) | jars, the editor's draft | pick, edit, save, reload | a draft survives reloads |
| git (`store/git`, `store/gitReview`, `lib/gitEntityDiff`) | status, changes, conflicts, choices | refresh, commit, pull, merge, roll back | badges are of the newest worktree; merges keep both sides |
| WebSocket view (`store/websocket.ts`, `WsPane`, `WsTranscriptPane`) | status, live and stored transcripts | connect, send, hydrate, pick a session | a message is listed once |
| gRPC view (`GrpcPane`, `GrpcResponsePane`, `ProtoMessageForm`) | target, method, schema, message; results | pick, import, describe, call, edit the form | an import survives late schemas; a failure stays on the screen; a oneof has one member |
| workspaces, snapshots, settings, export, parsers, palette | forms and conversions over one command each | | not about interleavings |

How they interact: a command of the shell, or a tool of the MCP server, calls an
executor or a manager; these call back through a *sink* (a closure the command
passes in), which emits `ws:*`, `grpc:*` and `sse:*` events to the UI and appends
to histories. The stores of the UI call commands, show their change before or after the
answer, and read again when an event says that the MCP server, another window or a
git operation wrote. The shell and the MCP server hold clones of the same executors,
managers and token cache (`src-tauri/src/mcp_server.rs:20-38`), so two calls for one
request id overlap whenever a person and an agent use it at the same time.

What is hard: all registries are maps behind a mutex that is never held across
an await, so every operation is several critical sections with tasks running in
between; aborting a task takes effect only where it yields; dropping a channel's
last sender is what closes a socket or half-closes a stream; a timeout drops a
future in the middle; and files are read and rewritten without a lock. In the UI an
answer is used after the user has moved on, one component instance serves whichever
request is open, timers hold copies of what was typed, promises are shared between
sends, and any command may fail after its effect was shown. `PROJECT.json` lists the
hazards line by line.

## 2. Modules

| Module | Models | State and actions |
|---|---|---|
| `WsManager` | `crates/voleeo-ws/src/lib.rs`, `ws_disconnect` | `conns` is the map; `pc` a call of `connect`; `reader`, `aborted`, `writer` its tasks; `queue` the outbound channel; `wire` the socket. One action per critical section, await or status |
| `CancelRegistry` | abstract: what a registry of cancel handles promises | `running`, `doomed`, `answer` |
| `HttpInFlight` | `HttpExecutor::send_scoped`, `cancel`, the MCP timeout | `inFlight` is the map, `token` a send's token, `rx` its oneshot; `DrawToken`, `Register`, the two outcomes of the race, `Cleanup`, `Abandon`, `Cancel` |
| `GrpcUnary` | `GrpcExecutor::call`, `cancel` | as `HttpInFlight`, without the token the code lacks and with the polls of the race apart; `told` the calls cancelled or replaced while they waited |
| `GrpcManager` | `manager/mod.rs`, `manager/streaming.rs` | `calls` is the map; `reader`, `aborted` the reader task; `request`, `queue`, `sent` the request stream |
| `OAuthTokens` | `ensure_token`, `token_cache`, the fetch and clear commands | `file` is `oauth_tokens.yaml`; `pc` a call; `read` what its `read_all` returned; `refresh`, `expired` the tokens' refresh tokens and expiry |
| `SseSend` | the streamed part of `send_request`, `SseAccum` | `buf`, `due`, `holder` the batch, its window and its mutex; `ticker`; `accum`; `shown` the emitted events |
| `RequestStore` | `store/requests` | `disk` the backend's files, `items` and `active` the store, `call` an action and the command it waits for |
| `RequestDraft` | `RequestPane`, the tabs, `useRequestDraft`, `useBodyEditor`, `useAuthEditor` | `stored` the requests, `pane` what the one pane keeps: edits, debounce timers with the copy they will save, a widget that waits for an encryption or a picked file; `strayed` (history) |
| `RequestTree` | `ApiRequestTree`, `useTreeActions`, `useTreeDeleteActions` | `kids`, `closed`, `focused`, `chosen`, `anchor`; an action per key, click, drop and menu entry; of a drop also what `move_items` refuses, of a duplicate what the backend copies |
| `SendPipeline` | `useRequestSend`, `FolderRunPanel`, `store/http.ts` | `send` a send and its await, `loading`, `row`, `loop` |
| `Preflight` | `builtins/response`, `builtins/request`, `ask`, the part-by-part resolution | `task` what runs, `resolving` the marks, `cached` the cache of a cycle, `prompts` |
| `HistoryView` | `ResponsePane`'s history, `HistoryPicker` | `viewed`, `past`, `checking`, `reads` under way; `running` the sends that have not answered, whose end may bring a stored response, one that is not kept, or none |
| `WindowedBody` | `VirtualBody`, `lib/lineFolds.ts`, filter and search | `cached`, `pending` blocks, `collapsed`, `derived` |
| `StreamView` | `store/sse.ts`, `lib/boundedArray.ts`, the two tabs | `got`, `rows`, `expanded`, `following` |
| `TemplateInput` | `TemplateInput`, `UrlInput`, `useFuncModal` | `shown` and `value` the text of the element and of its owner, `caret`, `undo`, `modal`, `running` an encryption |
| `Environments` | `store/environment`, `EnvironmentsModal`, propagation of a rename | `disk`, `envs`, `active`, `calls`, `timers`, `rename` |
| `Cookies` | `store/cookies`, `CookiesModal`, the cookie commands | `disk`, `jars`, `draft`, `calls` |
| `GitStore` | `store/git`, `store/gitReview` | `chains` of commands, the readings `files` and `changes`, stamped with the worktree they are of |
| `GitMerge` | `ResolveConflicts`, `lib/gitEntityDiff` | `conflict`, `choices`, `saves`, `written` |
| `GitReview` | `gitChangeMap`, `gitEntityDiff/review`, rollback | `committed`, `working`, and the readings of them, each of its own time: `live`, `files` with `within`, `review`; `hung`, a walk without end |
| `WsView` | `store/websocket.ts`, `WsPane`, `WsTranscriptPane` | `bus` the events under way, `transcript`, `hydrating`, `selected` |
| `GrpcDraft` | `GrpcPane`, `useGrpcDraft`, the import of a command | `method`, `schema`, `describing`, `edited` |
| `GrpcResults` | `GrpcResponsePane`, `useGrpcHistory` | `response`, `failed`, `latest`, `preloads` |
| `GrpcForm` | `ProtoMessageForm`, `formValue.ts` | `value`, `asked` the copies a description will write back |
| `InFlight` | sends side by side: `HttpInFlight`, `GrpcUnary`, `SseSend` | `part`, and the variables of each |
| `Requests` | `OAuthTokens`, `RequestStore`, `RequestTree`, `Preflight` side by side | as `InFlight` |
| `Panes` | `RequestDraft`, `SendPipeline`, `HistoryView` side by side | as `InFlight` |
| `Screens` | the modules above from `WindowedBody` to `GrpcForm` side by side | as `InFlight` |
| `MC*` | instances for TLC | sets of model values |
| `*Proofs` | theorems and proofs | section 4 |

`CancelRegistry` is the abstract specification that `HttpInFlight` implements
(`KeepsPromise`, checked and proved). `InFlight`, `Requests`, `Panes` and `Screens`
compose modules that share no variable: a variable `part`, chosen in the initial state,
says which of them runs; the variables of the others are `None`, or keep an initial value
(of the module the composition extends: `HttpInFlight`, `OAuthTokens`, `RequestDraft`,
`GrpcForm`). They have constants of their own, to which `MCInFlight`, `MCRequests`,
`MCPanes` and `MCScreens` give values for TLC and about which the proofs of section 4 say
what they say for all values. A
behaviour of such a run is a behaviour of one part, so what holds in it holds of each
part, and of the parts side by side, because no step of one reads or writes another's
state. It is a way to check many small systems in one run, and not more: where
components do act on each other, the effect is an action of the module (an outside
write, an event, a capture).

How detail is abstracted. Payloads are the names of the calls that send them; what is
typed is the name of the request it was typed for. A frame that is not the last
leaves a reader polling, so it is not a step. An HTTP or gRPC exchange is one step
that succeeds, or, when the handle resolves, is cancelled; errors of the exchange are
responses of it. A panic while a lock is held (a poisoned mutex) is left out: no
critical section here can panic. Runtime and library behaviour is modelled from how
the code relies on it and marked external in the map: `JoinHandle::abort`, the drop of
the last sender of a channel, HTTP/2 flow control and resets, a peer that stops
draining, and, for the modules of the UI, the backend's answers where they are only
relied on. `OAuthTokens` models a file opened with `truncate`: other calls may see it
empty, and two overlapping writes may leave a text that does not parse, which
`read_all` reads as no tokens. `SseSend` counts time as one bit (the 33 ms window has
passed since the last flush), and has one leg: a digest challenge whose own body is
an event stream is left out. In the UI a step is what runs without an await: an
event handler with the effects and state updates React flushes after it. A
debounce is a timer that may fire at any later step.

Variables commented *history* belong to no code: they record what a property is about.
Operators commented *Seeded fault* are not part of any specification: each is a
plausible bug, kept beside the definition it would replace, which breaks a
property the runs check.

## 3. Runs

Every run checks all interleavings of its instance; `CHECK_DEADLOCK FALSE`
everywhere, because a system whose calls have all returned, or whose bound on edits
is used up, may stop.

| Run (cfg) | Instance and bounds | Shows |
|---|---|---|
| `ws_registry` (`WsRegistry`) | 1 id, 2 connects, 1 message, 1 disconnect, capacity 1 | `NoDeadEntry`, `NoneOnlyInWindow`; `EndedReaderUnregisters`, `AbortedReaderStops`, `DroppedSocketCloses` under fairness |
| `ws_outbound` (`WsOutbound`) | the same with 2 messages | `TypeOK` (the channel's bound), `AcceptedReachWire` |
| `in_flight` (`MCInFlight`) | 3 HTTP sends of one id and 1 of another; as many unary gRPC calls; a stream of 9 frames, batches of 3, cap 4 | `RunningIsCancellable`, `NoStaleHandle`, `KeepsPromise`; `ToldIsCancelled`; `ShownOnceInOrder`, `ResponseIsShownTail`, `QuietFramesShown` |
| `grpc_stream` (`GrpcStream`) | 1 id, 2 calls, 1 message | `HalfCloseAfterFrames`, `StatusForward`, `ReleasedHalfCloses` |
| `requests` (`MCRequests`) | 3 overlapping store calls on 2 nested folders, a request and a connection, 2 workspaces; 2 sends, a fetch and a clear of one token key; a tree of 4 rows with 2 free ids and 1 edit, up to 2 rows selected; 2 sends over 3 requests that use each other in a chain, with a prompt | `SettledMatchesDisk`, `DeleteClearsPanes`; `RefreshTokenSpentOnce`; `DeleteLandsOnSurvivor`, `NothingOutOfSight`; `MarksAreLive` |
| `panes` (`MCPanes`) | 2 requests in one pane, 2 edits; 1 send of the pane beside a folder run of 2 requests; 2 requests with 2 responses in all and 3 reads | `EditsStayHome`; `NoStuckSpinner`, `RunGivesBack`; `PastIsOfViewed`, `BlankEnds` |
| `screens` (`MCScreens`) | texts of 2 atoms, 2 edits; 1 environment, 2 workspaces, 2 calls; 2 jars, 2 calls; 2 chains of git commands; 2 conflicting entities with up to 2 rows of a name; 3 entities of one name, 2 edits; 2 responses of 5 lines in blocks of 3; 2 frames, cap 1; 2 connections; gRPC: 2 edits and 1 build, 2 stored results and 3 calls, a oneof of 2 | `ChipsAreCiphertext`, `ActiveListed`, `TypedIsKept`, `BadgesNotOlder`, `BothSidesKept`, `ContentsRestored`, `FoldMapsAgree`, `CountsWhatWasSent`, `NoRepeats`, `ImportedBodyKept`, `FailureNotHidden`, `OneofExclusive` |
| `ws_reconnect` (`WsReconnect`) | 1 id, 2 connects | violated: `OpenIsConnected` |
| `grpc_stream_dead` (`GrpcStreamDead`) | 1 id, 2 calls | violated: `RegisteredIsLive` |
| `oauth_cross_key` (`OAuthCrossKey`) | 2 keys, 1 send each | violated: `SavedTokenKept` |
| `git_merge_body` (`GitMergeBody`) | 1 entity | violated: `TheirBodyKept` |
| `preflight_cycle` (`PreflightCycle`) | 1 send, 2 requests that use each other's responses | violated: `NoCircularWait` |

Why the bounds are enough. Each race of a registry is between the holder of an entry
and one that replaces it; a second id matters only where handles of different ids
could be confused, which `in_flight` includes and the proofs cover for any number.
Three sends let a cleanup meet the entry of an earlier and of a later send. Capacity
1 fills with one message; the real one is 1024. Nine frames overfill a cap of four
through batches of three; the real values are 2000 and 256. Two sends, a fetch and a
clear of one key give every pair of cache operations that can overlap. In the store,
two nested folders with a request and a connection in them are what a delete has to
take along, and three calls are one that fails, one that overtakes it and one that
reads again. In the panes the races are between what is on the screen and one answer
of something that was on it before: two owners, two answers and one change of owner.
Folds need five lines to nest, to meet and to follow each other. The bounds on edits,
picks, connects and events (`Max*`) only end a run: they cap how often the user acts, not
how the answers to what was done interleave. Two frames overfill a list that keeps one;
the theorems about these screens are for every bound. In the response pane a request is sent again
only once its last send has answered; sends of one request that overlap are those of `in_flight`. The entities under review have one
name and a header that is there or not: that is enough to be changed, and to be taken back by field.

What the runs leave out, most of it as the same again. In `requests` and `screens` an
`ACTION_CONSTRAINT`, `Canonical` of the MC module, takes one of several behaviours that differ
only in names. The store's calls start in one order, and so do the sends that resolve
templates; the sends of one token key ask for its lock and get it in one order (it is
tokio's `Mutex`, which serves in the order of asking). The first workspace whose git state
is loaded and the first connection that is opened are always the same, and of the two folders
under review the second is neither committed alone nor the first in it: whatever begins with
the other one is such a behaviour with the names exchanged, for `Init`, `Next` and the
properties treat them alike. And no token expires once no file, read or save holds it, for only
what is read from the file is asked for its expiry. In the tree no more than two rows are selected
at once: two are what a drop needs to be refused in part and a delete to take a row with
its folder. The specifications have none of these
restrictions, and the theorems hold without them.

Fairness. Tasks and calls that can run do run: tokio polls a woken task, a task
that keeps finding frames ready is made to yield, and code between two awaits
completes. So weak fairness is assumed of the steps after which no peer is waited
for, among them a writer whose peer drains its socket. None is assumed of the
network, the peer, the token endpoint or the user: a handshake, a frame, an
answer, a cancel or a disconnect may never come. In `MCPanes`, `NoStuckSpinner` and
`RunGivesBack` assume that the resolver of a request and the command that sends it each
answer in some way, failure included, and that the loop of a run then goes on; `BlankEnds`
assumes it of the history commands. That commands answer is Tauri's; that an exchange
ends is the user's timeout or cancel. That a resolver answers fails in one case,
the cycle of `preflight_cycle`. These three say of what should not last that again and again
it is not so, `[]<>~P`: that is `P ~> ~P`, with less for TLC to track. The other runs of the UI, and `OAuthTokens`, state safety only.

### What the violated runs show

* `ws_reconnect`: the reader's teardown is not checked for ownership. The trace:
  two connects of an id overlap (the UI allows a second one after a
  disconnect during the handshake, which does not stop the first); the older
  connection ends; its reader removes the newer connection's entry. The socket of
  the newer one then closes, since its only sender is gone, though "open" was the
  last status shown. `EndedReaderUnregisters` holds all the same: it is about the
  connection that ended.
* `grpc_stream_dead`: the reader may end before `start_stream` has inserted the
  entry, which then stays for ever. `WsManager` inserts first, and `NoDeadEntry` is
  the theorem that it is right to.
* `oauth_cross_key`: the lock is per key and the file is per workspace, so two
  saves of different keys can lose one.
* `git_merge_body`: the body, query and variables of a request are three fields of a merge,
  and copying any of them copies the whole body. When only they changed the body, the
  merge takes theirs for the first and then ours, whole, for the next.
* `preflight_cycle`: a promise that is under way is handed out before the mark that
  should refuse a cycle is looked at. Two requests that use each other's responses wait
  for each other, and no error is raised.

### What the comments say and no run checks

These definitions state what a comment, a name or a neighbouring piece of code says.
TLC finds each of them violated on the instance of the run its module belongs to
(`SpinnerIsBuild` with two builds, `ExternalWriteShown` with three calls). They are kept
with the modules, so that a change of the code can be checked against them.

| Definition | What happens |
|---|---|
| `RequestStore.ActiveExclusive` | loading a workspace puts the remembered request back beside a pane that was opened meanwhile |
| `RequestTree.OpensAsClick` | Space and Enter open a gRPC request as if it were an HTTP request |
| `SendPipeline.CancelledNotSent` | a folder run sends a request that was cancelled while it was resolved |
| `HistoryView.ListIsOfViewed`, `SendShowsLive` | a list read for another request is offered; a past response that was being read when the send started replaces it on the screen |
| `WindowedBody.CachedIsOfView` | a block of the body shown before is cached for the one shown now |
| `StreamView.ButtonAtTop` | a finished list that is opened at its top has no button that leads to its end |
| `WsView.SettledStatus` | a connection is shown as open that the backend does not have |
| `GrpcDraft.ImportReplacesMessage`, `SpinnerIsBuild` | an import whose message is the stored one does not drop the edit that hides it; the first of two builds ends the spinner |
| `GrpcResults.PastIsPicked` | a response whose read was under way is shown after the pick was taken back |
| `GitMerge.RepeatedRowsKept` | parameters and headers are merged by name: of a name that a list repeats, as the choice "both" leaves it, only the last row survives the next merge, without a question |
| `GitReview.OtherChangesKept`, `NeverHangs` | taking back one field writes the version that was reviewed, and so takes back a change made since; with a folder moved out of another, the other moved into it and the first rolled back, the parents are in a circle, and building the badges after it never ends |
| `Environments.ExternalWriteShown` | after the first edit, outside changes of the variables are not shown |
| `RequestDraft.SendKeepsOthers`, `AnswersStayHome` | the commits of a send write a request that is no longer open; an encryption or a picked file that is awaited while the user goes on to another request is put into that one: a path value, the text of the URL bar, an authentication field, a form field, a chip of the body's editor, a file of the body |
| `TemplateInput.ShownIsValue`, `EditsInPlace` | a change from outside is taken for an echo; an encrypted value is inserted beside the chip that was edited |
| `GrpcUnary.CancelledOnlyOnRequest` | a replaced call's cleanup drops the newer call's handle, which then answers Cancelled; the token of `HttpExecutor` avoids it |
| `Preflight.CacheOfCycle`, `RefusedOnlyInCycle` | a late pre-flight of a cancelled send fills the next send's cache; a token is refused because another send resolves it |

## 4. Proofs

TLC checks the instances of section 3; the theorems here hold for every value of the
constants. Each module proves its invariant by one lemma or step per action; the
invariant is stronger than what it is for, and the text says why. A theorem about a part
of a composition is stated of the composition's `SpecAll`: the part's steps are its
`Next`, and the steps of the others leave its variables alone.

| Module | Theorems | Assumed |
|---|---|---|
| `WsManagerProofs` | `TypeCorrect`, `NoDeadEntryHolds`, `NoneOnlyInWindowHolds`, `AcceptedReachWireHolds` | the `ASSUME` of `WsManager`: `None` is no value it stands beside, the capacity is positive |
| `HttpInFlightProofs` | `Inductive`, `RunningIsCancellableHolds`, `NoStaleHandleHolds`, `KeepsPromiseHolds` | the `ASSUME` of `HttpInFlight`: each send has an id, `None` is neither a token nor an entry |
| `InFlightProofs` | `ToldIsCancelledHolds`; `ShownOnceInOrderHolds`, `ResponseIsShownTailHolds` | also `InFlightAssumption`: a batch and the cap of the response are not 0 |
| `GrpcManagerProofs` | `TypeCorrect`, `HalfCloseAfterFramesHolds`, `StatusForwardHolds` | nothing |
| `OAuthTokensProofs` | `TypeCorrect`, `RefreshTokenSpentOnceHolds` | all calls are for one key; sends, fetches, clears and keys are disjoint; `None` is no token |
| `RequestsProofs` | `SettledMatchesDiskHolds`, `DeleteClearsPanesHolds`; `NothingOutOfSightHolds`, `DeleteLandsOnSurvivorHolds`; `MarksAreLiveHolds` | `StoreAssumption`: an id is of one kind, files hold nodes; `TreeAssumption`: there are finitely many rows, the root is none, and the tree is one at first; `TextsAssumption`: texts are sequences of tokens, an auth has the fields of its kind |
| `PanesProofs` | `EditsStayHomeHolds`; `PastIsOfViewedHolds` | nothing |
| `ScreensProofs` | `ChipsAreCiphertextHolds`, `ActiveListedHolds`, `TypedIsKeptHolds`, `BadgesNotOlderHolds`, `BothSidesKeptHolds`, `ContentsRestoredHolds`, `FoldMapsAgreeHolds`, `CountsWhatWasSentHolds`, `NoRepeatsHolds`, `ImportedBodyKeptHolds`, `FailureNotHiddenHolds`, `OneofExclusiveHolds` | `ScreensAssumption`: `None` stands beside no value, the list of frames has room for one, an environment is of a workspace, there are finitely many folders, a block of a body closes on a line of it; `TextsAssumption`: the texts at first hold no secret in the clear |

`HttpInFlightProofs`. None of the three properties is inductive alone. The invariant `IInv`
adds that tokens are unique and below `send_seq` (`TokenInv`), that an entry is for a send
of its id, carries that send's token, is past its registration and not done, and has
an armed oneshot (`EntryInv`). The token's uniqueness is what the step `Cleanup` needs:
equal tokens mean it is the send's own entry, so no other send loses its handle. For
the refinement, `Register` is the abstract `Start`, the race `Answer`, and drawing a token
and cleaning up are stutters; that the race answers Cancelled only if the send was
doomed follows because a oneshot that is dropped is never that of a racing send.

`InFlightProofs`. `ToldIsCancelled` speaks of calls whose handle an earlier call's cleanup may
have removed, so that `cancel` finds no entry. The strengthening is that an armed call is the
one its id's entry stops (`ArmedIsRegistered`), whence taking an id's sender, or finding none,
leaves no waiting call of the id armed (`WaitingResolves`), and that who was told has a resolved
oneshot and waits for a poll or is over (`ToldIsResolved`): the race, which takes a dropped
sender for a signal, can then only cancel it. That a call is cancelled only when it was told
is `CancelledOnlyOnRequest`, and false. The two properties of the event stream need one invariant,
`SseInv`: what was shown and what waits in the batch are together the frames that came, in
order; what is accumulated is the newest of what was shown, but for the batch that
whoever holds the lock is just flushing (`AccumInv`); and that lock is held by a task that
still runs, so that the tail is flushed after the ticker has stopped and nothing is flushed
twice (`LockInv`). The lemma beneath is that dropping the oldest flush by flush and
dropping once at the end keep the same frames.

`WsManagerProofs`. The strengthening is `RegistryInv`: an entry belongs to a connect call
for that very id that is past its insert; a handle stored in it belongs to a
call for that id that has returned. The second part is the one that matters:
`StoreHandle` may put a handle in an entry that another call inserted, and aborting that
handle later must not abort an owner of another entry (`AbortSparesOwners`). For the
outbound channel, `ChannelInv` adds to `AcceptedReachWire` that a call has no writer before its
handshake and has accepted nothing before it has a writer (`Unopened`). A sender cloned
before its entry goes needs no clause: it keeps `SenderHeld` true, and what a late
`try_send` adds, it adds while the writer is there to send it.

`GrpcManagerProofs`. `Carried` is the property itself; it needs `NotOpened`, that a call which
has not spawned its reader has no request stream, and that a sender that was cloned
is a call's. `StatusForward` needs `Announced`: the statuses a call tells itself come before
any its reader tells.

`OAuthTokensProofs`. The theorem is about what a lock, a file and a server's answers keep
together. A token is *settled* when it was written and the call its refresh token came
from was too. Tokens in the file and tokens being refreshed are settled (`FileSettled`,
`CachedSettled`), so no answer still under way can have renamed them. `FileUnspent` says that
no saved answer has replaced the refresh token of the file's token, and `PresentedUnspent`
the same of the token a send holds until its own answer is saved. `Load` takes the
second from the first; `Write` gives the first back, because the lock lets no other send
be in between (`Lock`), and a fetch or a clear writes a token of its own or none. With
two keys it is false, since a save of the other key can put the replaced token back,
and the assumption is needed.

`RequestsProofs`, the store. What is shown while a call is under way is neither what the
backend holds nor what it held: `CallInv` says for each point of a call what it is. Between
the call and its answer the store shows what the backend would hold if it had done it
already (`Anticipates`); after a success, all but a new node, which the answer brings
(`Answered`); after an error, for the calls that undo what they did, what the backend
holds. `Settled` is that without a disturbance one call at most runs and the store is as `CallInv`
says. The step that needs care is a delete, whose effect reaches everything below the
node in the store and in the files, by the same walk from equal contents (`Gone`).
`DeleteClearsPanes` is a step of the same proof, for any depth of folders.

`RequestsProofs`, the templates. `MarksInv` adds to `MarksAreLive` that whatever runs has a name
that is a send's, a response's or a value's, and that a value being read is nowhere but in
its text: of a value at any other point `MarksAreLive` could not say that its mark is about to go. The tokens of a text are called in one turn, each of which may
start a task, mark it, or take what is there: `CalledTurn` shows that the turn keeps the
invariant, by the least number of tokens for which it would not.

`RequestsProofs`, the tree. `TreeInv` is `NothingOutOfSight` with the lists typed, and what is chosen or
open a row: no row is in two lists or twice in one, and each hangs from the root (what is open may be
listed no more: the pane of a gRPC request stays when its folder is deleted). What hangs from a row (`Under`) is the
least set with the row and the children of its folders, so that depth needs no
induction: to show that all that hangs from it has a property, it is enough that the property passes to
children (`UnderLeast`). A delete takes a set with all that is under it (`CutForest`); a
drop moves rows to a folder that is under none of them, which is what `check_parent` asks, and
then whatever hung from the root before still does (`GraftForest`). A drop of several rows
stops at the first that is refused, and those before it meet the same condition (`AcceptedIs`).
A duplicate of a folder is a second tree of new ids beside the first: the folder the original is in is
not beneath it (`UpOutside`), so no copy comes into two lists, and each copy hangs from
the root as what it is of does (`CopyForest`).
Without the check of subfolders two folders could hang from each other only. For the delete,
`FlatIs` says of the shown rows that each is a child of the root or of a folder above it, and that the
first comes once. The row above the deleted one is then not beneath it; when it is
the first, the search passes over rows whose parent went, and what it stops at is not beneath it
either (`NeighborIs`), so that it outlives the cut.

`PanesProofs`. Besides the stored requests the invariant for the edits covers every copy the pane
keeps: what the editors show is the open request's, and each timer, each waiting URL
and header row, and a widget that waits hold a copy of the request they are for
(`PaneHome`). Moving to another request is the step that tries it: what waits must still be of
the old one, what shows must be of the new one. `AnswersStayHome` being false, the property and
the invariant except the fields in `strayed`, and only those: moving on adds what the
widget that waits could write (`Strays`), so that an answer which comes to another request comes
to an excepted field, and a timer it leaves behind as well. Rows of the params tab pass between path and query,
which are therefore excepted together (`RowsTogether`). A row takes its answer only while its tab shows the
request it was asked for (`AskedShows`). For the history, `HistInv` says which of the
reads under way can still be shown: a read of an effect is of the viewed request,
because the effect is undone when that changes, and any other read that gets a response is
a pick, which compares before it shows.

`ScreensProofs`, screen by screen.

* Template fields (`InputInv`). Not only the text is without a secret in the clear but
  every text that may become it: what the owner holds, what both undo stacks hold, what a
  completion inserts; and what an encryption under way was given is a secret, so what it gives
  back is its ciphertext. Of the places where it is inserted only that they are numbers
  matters: `TemplateInput.EditsInPlace` says that they are the right ones, and is false.
* Environments (`EnvInv`). Each call under way carries what its answer will be used for:
  an environment to put into the list, or the list that was read; the dialog and
  `activeEnvId` are of environments that are listed. `remove` is the step that tries it,
  with a `create` or a `load` whose answer is still to come.
* Cookies. The action property needs that a draft that was typed in holds a cookie
  (`EditorInv`); each action then either leaves the draft or is one of the excepted.
* Badges (`GitInv`). At most one chain of commands is reading a status whose answer will be
  taken, the newest, and it began at a worktree no older than that of the badges
  (`ChainsBut`). A chain that starts to read makes the answers of the others stale.
* Conflicts (`MergeInv`). What was written is the merge by choices that can be made; that
  a merge keeps what one side changed is a lemma about what the fields compare as, which of the rows of
  a name is the last one.
* Roll back of contents (`ReviewInv`, `WalkIsClosed`). The code walks up parents until there is
  none; the model's `Walk` takes as many steps as there are folders, and the window hangs if it has
  not come to the top (`hung`), after which nothing happens. The property is about rollbacks whose
  walks end, and speaks of every set of places that contains the parent of each of its
  members. The two agree because the set the walk has collected grows with
  each step or is closed, and there are no more steps to grow by than folders. This is where
  the finiteness of `Folders` is used.
* Folds of a large body (`BodyInv`). That what was read is of some body of the backend, so
  that a fold ends on a line, is all the state has to give. The rest is about the functions of
  `lib/lineFolds.ts`: the scan merges the folds into runs with a line between each two, which
  hide what the folds swallow (`MergedRuns`); each of the three maps is then the
  count of the hidden lines up to some line (`HiddenIsCounted`, `VisualIsCounted`,
  `RealIsCounted`), and the counts agree with the cardinalities of the property.
* Event stream (`StreamInv`). With no earlier stream mixed in, what the bar counts is
  what was heard, and that is read off the last frame that is kept, which capping keeps.
* WebSocket (`WsInv`). Not only the shown transcript is without repetitions but each that
  was read and waits to be merged.
* gRPC. An imported body needs that the next schema will not seed the message
  (`DraftInv`); a failure on the screen, that no read of the history that could set a
  response is one of this round (`ResultsInv`); the oneof, that the copies of the message its
  widgets will write back are as exclusive as the message (`FormInv`).

What a recursive function computes is proved without induction over data, for which the
provers have no rule, by the least natural number at which it would fail
(`LeastNatural`, from the well-foundedness of `<`). It serves the walks up the tree, the order of the shown rows, the turn
of a text's tokens, the first place in a text and the loops over the runs of a body. That a
recursive function has a value at each turn is shown the same way (`Course`).

*What a proof attempt corrected.* `ContentsRestored` spoke of what lies up to three levels
below the folder. Its proof failed on trees that are no trees: rolling back one folder
after another was moved can leave two folders inside each other, the file of each naming the
other as its parent. Two edits are enough: f2, committed in f1, is moved to the top and
f1 into f2, and then f2 is rolled back. The next refresh finds f1 changed, walks up from it and
never ends (`NeverHangs`); a window that was not refreshed since still rolls back, and of it the
property speaks, of any depth.

*What is only model-checked.* Liveness and everything under fairness, for which the
prover has no rule: the temporal properties of `ws_registry`, and `ReleasedHalfCloses`,
`QuietFramesShown`, `NoStuckSpinner`, `RunGivesBack`, `BlankEnds`. All other properties of the passing runs are
theorems.

## 5. Not modelled, and why

`PROJECT.json` lists every component with its status and, for each hazard without a
property, the reason.

* Conversions without state, which have published vectors or table tests: signatures
  (`voleeo-auth`), ciphers, the parsers and generators of curl, grpcurl, HTTPie, OpenAPI and others,
  template functions, the event-stream decoder, cookie matching, descriptors.
* One command over one file: workspaces, snapshots, settings, secrets, the palette and
  themes. libgit2's operations are one command each in `GitStore`.
* Rendering: shared components, body highlighting, transcripts' layout.
* The files of `voleeo-storage`. They are read, changed and written back with no lock, and
  neither code nor comments promise more than one writer. The places where that may bite
  are listed as hazards: the history and its index, the shared temporary name, a crash
  between a truncation and a write.
* Generated bindings and vendored code.

Parts of modelled components that are left out are named in their notes. Of these the
following touch state that is modelled, and are worth knowing when a model is
extended: the four saves that `handleSend` starts side by side
(`views/ApiWorkspace/RequestPane/useRequestSend.ts:93-98`) are one step in `SendPipeline`; a "Force"
strategy joins an answer under way; the backend's jar is read and written back around
an ingest (`src-tauri/src/commands/cookie.rs:187-240`), which `Cookies` has as a read
and a write of one command.
