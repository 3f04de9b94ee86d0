# A verification project for OpenBuro

OpenBuro is a capability broker. A **server** (Go, `open-buro-server`) keeps a
registry of application manifests, answers which application can PICK or SAVE
which MIME type, and announces changes over WebSockets. A **client library**
(TypeScript, `open-buro-client`) keeps a copy of that list, lets the user choose
an application, and runs it in an iframe until it answers.

This directory holds TLA+ modules translated from that code, TLC configurations
that check them on small instances, and TLAPS proofs that hold for every
instance. `PROJECT.json` maps every definition to its lines of code.

    tlc -config MCHub.cfg MCHub          # one run
    tlapm RegistryStoreProofs.tla        # one module of proofs

## 1. Inventory

| Part | State | Operations | Modules |
|---|---|---|---|
| Registry store: `internal/registry/store.go`, `persist.go` | map of manifests under a `RWMutex`, `registry.json` | `Upsert`, `Delete`, `Get`, `List`, `NewStore`; `persistLocked` | RegistryContract, RegistryStore |
| Manifest validation, MIME types: `manifest.go`, `mime.go` | none | `Validate`, `CanonicalizeMIME`, `mimeMatch` | Mime, Capabilities |
| Capability query: `Store.Capabilities`, `handleCapabilities` | none of its own | filter, sort | Capabilities |
| Hub: `internal/wshub` | set of subscribers under a mutex, a channel and a writer loop per subscriber | `Publish`, `Close`, `Subscribe` | BroadcastContract, Hub |
| HTTP requests: `internal/httpapi` (middleware, `auth.go`, `errors.go`, `health.go`, handlers) | a goroutine and a status writer per request, the credentials table | recover, log, cors, mux, `authBasic`, the handlers | Requests |
| Mutations and live updates: `handlers_registry.go`, `handlers_caps.go`, `events.go` | one goroutine per request or WebSocket | upsert, delete, `handleCapabilitiesWS` | Broker |
| Process: `cmd/server/main.go`, `config.go`, `credentials.go` | phase of `run`, the listener's goroutine, the signal context | start, serve, signal, drain, close, exit | Process |
| Client cache: `client.ts`, `loader.ts`, `ws-listener.ts` | list, `inflightFetch`, socket, retry timer | `ensureCapabilities`, `refreshCapabilities`, socket callbacks, `destroy` | CapabilityCache |
| Chooser modal: `modal.ts`, `scroll-lock.ts`, `focus-trap.ts` | saved overflow and focus per modal, pending animation frames | `buildModal`, its `destroy`, `trapFocus`, arrow keys | Modals |
| Client sessions: `client.ts`, `iframe.ts`, `abort-context.ts` | iframes, sessions, watchdogs, cleanup stack | `castIntent`, choose, connect, resolve, time out, `destroy` | IntentSessions |
| Client resolver: `resolver.ts`, `cast.ts` | none | `resolve`, `planCast` | Mime, Capabilities, IntentSessions |

The Penpal library, the WebSocket library, `net/http`, bcrypt, the browser's
event loop, focus and pointer, the network and the file system are external: they
are modelled by what the code relies on. What is left out is listed in section 6.

**How the parts interact.** A request goes through recover, log, cors, mux and, for
a mutation, `authBasic` to its handler. A mutation handler calls the store, then the
hub; the two never call each other and have separate locks. A WebSocket handler
reads the store once, writes that snapshot, and hands the connection to the hub,
whose loop owns it from then on. The client fetches the REST list, opens a socket if
the server offers live updates, and fetches again on every event. A cast waits for
the list, then goes through modal and iframe. `destroy` runs the registered cleanups
in reverse.

**What is hard.**

- A persist step may fail, or the power may, between any two system calls.
- Handlers run in parallel, and store and hub are locked one after the other.
- A slow peer fills its channel while its closing goroutine has not yet run.
- A client joins between a snapshot and an event.
- Shutdown races with handlers and with the goroutines it spawns itself.
- A handler may panic between its mutation, its event and its answer.
- In the client every `await` is a place where `destroy`, another call or an
  event can come in between; timers race answers.
- Modals stack: each keeps the focus and the overflow it saw, and they may be
  closed in any order, while the page goes on removing elements.

## 2. Modules, and how they correspond to the code

**RegistryStore.** One action per step of a mutation: `Upsert`/`Delete` (validation,
before the lock), `LockAndMutate` (lock, `prev` kept aside, map changed), the five
system calls of `persistLocked` (`CreateTemp`, `Encode`, `SyncTemp`, `CloseTemp`,
`Rename`), `SyncDirAndReturn`, and the failure path `PersistFails`, `Rollback`.
`survivors` is the set of contents `registry.json` may have after a power loss: a
rename adds to it, the fsync of the directory shrinks it to one. An unsynced file
may survive as `Torn`. `Crash` picks a survivor; `NewStore` loads and validates it
again. A temporary file that a power loss leaves behind is forgotten: its name is
never used or read again. Reads are one step, because they hold the read lock
throughout.

**RegistryContract** is what callers rely on: each mutation is asked, commits at
one instant or never, and is answered; a crash falls back on a survivor.
RegistryStore implements it, with the rename as the commit.

**Mime** works on sequences of tokens (words, `/`, `;`, `*`, blanks). Both
`canonicalizeMIME` and the match are translated; `ResolverMatch` is the client's
weaker match. What the canonical form is for is stated of one text (`Idempotent`,
`NoiseDoesNotMatter`, `HasShape`). **Capabilities** puts the query on a registry:
`Visits` are the orders in which Go may visit the map, `Order` the four-key
comparison with ties as they were appended, `StableSort` the list that this order
makes of the capabilities the loop keeps (`Listed`). They are functions of the map
and use no recursion, so that they can be proved about. What `Validate` refuses is a
choice of manifests, one for each kind of check.

**Hub.** Hub operations are one step each, as they hold `h.mu`. A subscriber's
loop is `select`, `writing`, `pinging`, then the two defers `CloseNow` and
`RemoveSubscriber`. `closers[s]` are the goroutines started by `Publish`,
`Close` and the library, `wire[s]` what was written. **BroadcastContract** is the
promise to the handlers: members get every later message in order, or are cut
and soon gone.

**Broker** composes the two contracts (by `INSTANCE`) with the handlers: a
request stops between `Get`, `Upsert`, its commit, its return and `Publish`; a
WebSocket handler between accept, snapshot, write and `Subscribe`. The observer
at the other end is the one `events.go` describes: it takes the snapshot, then
reads the REST list again on every event. `existed` is what `store.Get` said
before the lock was taken, and `seen` how many mutations had taken effect by
then; a commit keeps both the label of its event and `seen`, so that the label can
be judged.

**Requests** follows one REST request through the chain of `Handler` to its
answer. `stage` is where it is, `status` the first status written, `did` what it
has done. `login` is what the Authorization header holds, seen from the
credentials table: bcrypt runs for unknown users too, on `dummyHash`. A `Panic`
may come at any step and unwinds to `recoverMiddleware`. Store and hub are one
step each here: what lies inside them is RegistryStore's and Broker's.

**Process** runs those requests from the start of the process to its exit: the
four steps of the start, each of which may fail, the listener's goroutine, a
signal at any moment (also while it starts), `select`, the drain with its
timeout, `hub.Close`, and the exit that waits for nobody. `lost` are the requests
whose event met a closed hub, `farewells` the goroutines that `hub.Close` spawned.

**CapabilityCache.** A JavaScript callback up to its next `await` is one action;
the continuations of a settled promise run in the same one (microtasks, nothing
comes between). An event makes a refresh call of its own, named by the version
it announces. The server answers with the registry at the time of the answer,
which may be before or after an event is sent. An empty list is the empty
registry, version 0. A page served by https refuses a `ws:` URL: the listener
then never starts.

**Modals** is the page as the modals see it. `focus` is a pair of an owner and a
position: `<<e, 0>>` for an element of the page, `<<c, p>>` for the p-th element of
c's modal, `Body` for none. `prev` and `previousFocus` are what each modal saved,
`home` and `crossed` record where the focus was and whether modals were closed out
of order. `frames` are the animation frames of `trapFocus`, each with the element
it found when the trap was *set*. The user's keys, the pointer and the page move
the focus too (`PageStep`).

**IntentSessions.** Stages `loading`, `choosing`, `connecting`, `session`,
`over`, and beside them what must be cleaned up: modals, the saved overflow,
iframes, bridges, `sessions`, timers. The modals are those of Modals, which
this module extends. `CallBack` may throw; its third argument is
what the surrounding code then makes of the promise. `onError` and
`onCapabilitiesUpdated` are taken not to throw.

Definitions named `...Mutant` are deliberate faults, each before the definition
it is a faulty form of. No specification uses them; they show that a property
can fail.

## 3. Runs

| Run | Instance | Shows |
|---|---|---|
| registry | 2 ids, 2 goroutines, 3 raw manifests (canonical, not canonical, invalid), 1 power loss | memory is the file whenever no mutation is under way; any survivor loads; acknowledged is durable; no dirty read; contract implemented; every mutation returns |
| hub | 1 subscriber, buffer 2, 5 messages | order, no silent gap, closed only for cause, removal, contract with its progress |
| broker | 1 id, 2 manifests, 2 handlers, 3 requests, 1 client | one event per commit, with its label; labels err only where two handlers of one id overlap; only the hand-off window is missed; observers end up current |
| broker_window | the same | **violated**: SnapshotThenEvents |
| process | 2 requests of any route, 1 id, 1 WebSocket | a clean end loses no request and no event; only authorized requests change anything; answers tell what was done, panics included; a signal ends the process |
| process_farewell | 1 request, 2 WebSockets | **violated**: EveryoneIsTold |
| capabilities | 3 ids, 3 valid manifests and 6 that Validate refuses, 21 queries; texts of up to 5 tokens over 3 words | the answer is right, and the same for every map order; the client picks a part of it; the canonical form is one |
| cache | 1 application call, 2 changes, 2 attempts | one connection, nothing after destroy, the list never goes back, destroy settles calls |
| cache_fresh | 2 application calls | **violated**: UpdateIsFetched |
| sessions | 2 casts, 2 applications in a modal, 2 elements in the page, callbacks may throw | one callback, nothing left behind, lock and focus are given back by nested modals, the focus leaves a modal only when one closes or by a click to the body, sessions and destroyed casts end |
| sessions_scroll | 2 casts, 1 element | **violated**: ScrollRestored |
| sessions_focus | 1 cast, 1 element | **violated**: FocusEnters |

Why the bounds are enough. In the store, interference is between who holds the lock
and one who waits, and a power loss resets everything but the file: a second loss
starts from a state the first could have left. Two ids tell apart a rollback of one
key from one of the map. In the hub, subscribers share nothing but the call of
`Publish`, which treats each alone, so one stands for all (the proofs of section 4
have any number); a buffer of two and five messages give full, drop, drain and queue
again after a drop. In the broker, two handlers give overtaking and three requests
give an add, an update and a removal of one id, with one observer because observers
do not interact. Requests meet in the registry and in the drain only, so two of any
route suffice for `process`; its one WebSocket stands for all, as they only share
the instant of `hub.Close`. Two changes and two attempts give an event during a
fetch for an earlier one, a reconnect, and a listener that gave up. Two modals give
both orders of closing, upper first and lower first; two elements give a focus whose
former place is gone while another is still there; two applications are the fewest
for which the modal opens at all, and give arrows both a step and an end.

### What the violations show

- `handlers_caps.go:99`: an event published after the snapshot was read and
  before `Subscribe` reaches the new client in neither.
- `main.go:88`: `hub.Close` only spawns the goroutines that say goodbye, and the
  process exits without waiting for them.
- `client.ts:143`: a forced refresh joins a fetch in flight, even one answered
  before the event that caused the refresh.
- `scroll-lock.ts:9`: two modals closed in the order they were opened leave the
  page locked.
- `focus-trap.ts:58`: the trap looks for its first element before the modal is in
  the page, so that an opened modal does not get the focus.

Two more disagreements are in the model, and no run is spent on them; the passing
properties next to them are worded so that they claim nothing there:

- `focus-trap.ts:56`: the trap listens inside the modal's root only. A click on the
  dialog between its elements takes the focus to the body (`Blur`), and from there Tab
  or Shift-Tab reaches the page behind the open modal (`FocusByUser`), though "focus
  cannot leave the modal while open" (`focus-trap.ts:17`, UI-06). TLC finds it in five
  steps when asked for `\A c \in Casts : [](focus \in InModal(c) => [](c \in ToSet(modals)
  => focus \notin OnPage))`.
- `client.ts:271`: only the modal locks the scrolling, and gives it back before the
  iframe opens; a direct cast never locks. `scroll-lock.ts:4` ("lock body scroll while
  modal/iframe is open") and IFR-10 say otherwise. TLC finds it in two steps when asked
  for `iframes # {} => overflow = "hidden"`.

`persist.go:110` drops the error of the directory's fsync and the mutation is
acknowledged: a power loss can then bring the older file back, though
`persist.go:84` promises the rename durable without exception. `DirSyncMayFail`
is a parameter of RegistryStore: durability is checked and proved where it is
FALSE, the other invariants and the refinement whatever it is.

For some of these the passing run holds what is left of the promise: all that a
served observer can miss is the window's events (SnapshotThenEventsButWindow);
nested modals lock the page, and it scrolls again when neither modal nor iframe is
left (LockedWhileOpen, which says nothing of the time an iframe is open without a
modal); each single step that takes the focus out of its modal closes a modal or is
the click to the body (TrapHolds, which says nothing of where the focus goes from the
body). For `cache_fresh` it is a theorem: a refresh misses its update only by joining
a fetch that had been answered before (`JoinsMiss`, section 4).

### Fairness

- *registry*: a goroutine inside the lock goes on (weak fairness of each step),
  and one that waits for the lock gets it in the end (strong fairness:
  `sync.RWMutex` starves no writer). No request has to arrive, and no system
  call has to succeed.
- *hub*: the loops and the closing goroutines run, writes and pings end (both
  have timeouts), and a close handshake ends (the library limits it). Peers need
  not do anything.
- *broker*: handlers run; the hub delivers or disconnects, which is
  BroadcastContract's own progress, shown of Hub by run `hub`; the observer reads
  when told to.
- *process*: the main goroutine runs (`Start`, `Select`, `Shutdown`), and the 15
  seconds pass. Handlers, clients and the listener may hang for ever.
- *cache*: only that an aborted fetch rejects. The server may never answer.
- *sessions*: a connect settles (Penpal has a 10 s timeout), a timer that is set
  fires, an aborted load rejects. Users, children and animation frames may never
  do anything.

Runs but `registry` and `capabilities` switch the deadlock check off: there the
system really may stop, when bounds are used up, the process has exited or every
cast is over.

## 4. What is proved

Each proof module states an inductive invariant `IInv` in named parts, one lemma per action or group of actions that it is
kept, and the theorems that follow. TLC checked each `IInv` as an invariant of the
run's instance before it was proved. The assumptions are the named `ASSUME`s of the
modules, nothing else; no run's bound is among them.

**RegistryStoreProofs**, for all ids, manifests, goroutines and power losses. Assumed:
the constants outside the sets are distinct, and `Canon` (Validate) maps canonical
manifests to themselves, which `AlwaysCanonical` below proves of the model of
Validate. *Memory is the file* is not inductive: it speaks of the moments outside the
lock only. `IInv` adds what holds inside it:

- `LockInv`: whoever is past `LockAndMutate` is the holder of the lock, so at most
  one goroutine is;
- `FileInv`: the file and every survivor are synced and whole;
- `TempInv`: what the temporary file holds at each stage, complete from `encoded`
  on and synced from `synced` on;
- `CommittedInv`: before the rename the file is the map with the change taken
  back, after it the map itself;
- `ChangeInv`: the map has the change of the goroutine in the lock;
- `DurableInv`: with a reliable directory fsync, only a goroutine at `renamed` can
  have more than one survivor.

`TypeCorrect`, `MemoryAgrees`, `SurvivorsLoad`, `TempCleaned` and, for a reliable
fsync, `Durability` and `ReadsAreClean` follow.

**RegistryRefinement** proves `Spec => ImplementsContract`: the initial state maps
to the contract's, `Rename` to `Commit`, `SyncDirAndReturn` to `Acknowledge`,
`Rollback` to `GiveUp`, reads to reads of the committed registry, and the other
steps to stutters, whether the directory's fsync is reliable or not.

**HubProofs**, for any number of subscribers, messages and any buffer of at least one
message (`New` sets 16 when it is given none).

- `StreamInv` takes `InOrder` apart by where a message is. On the wire, in the
  writer and in the channel the messages ascend, all of one part are older than
  those of the next, and all are newer than the join. `InOrder` alone does not say
  that what is queued next is newer than all that.
- `GapInv` says of the same parts which messages they are, `LengthInv` that there
  are at most those published since the join. A drop makes that strict for good,
  which is what "slow" needs (`CauseInv`).
- `LoopInv`: the writer holds a message just while it writes, and the loop is in
  the hub's map just while it runs.

`Ordered`, `NothingSkipped` and `CutForCause` follow. `KeepsTheContract` proves that
every behaviour of Hub is one of BroadcastContract without its fairness: `Publish`
is `Broadcast`, with those whose channel is full cut, `Close` is a `Cut` of all
members, a peer that speaks is a `Cut` of itself, `WriteDone` is `Deliver`,
`Subscribe` is `Join`; the end of a connection, by whichever of loop, closer,
handshake or peer, is `Leave` or a stutter; ticks, pings and taking a message are
stutters. This is what the argument of section 3, that one subscriber stands for
all, rests on.

**BrokerProofs**, for any ids, manifests, handlers (also infinitely many), clients and
number of requests. The handlers are seen through the two contracts only, so the
theorems hold of any store and hub that keep them.

- `CallInv`: a handler is in a call of the store just when its stage says so, with
  the job it was given.
- `EventInv`: `EveryCommitHasItsEvent`, with the handlers that have yet to publish
  a finite set. It counts: commits of an id and a label are as many as its events
  and the handlers about to publish one.
- `RegInv`: the registry has exactly the ids the commits say are there, and a
  look-up said what the commits until then say. `LabelsTell` needs both.
- `SnapInv`: what changed since a client's snapshot was announced since, or some
  handler will announce it. `OnlyTheWindow` splits these events into those sent to
  the client and those of the window.
- `BoundInv` only bounds a counter: `seen` never passes the number of requests.

`WithinTheContracts` adds that each step is one of both contracts or leaves them
alone.

**ProcessProofs**, about Requests and Process, for any number of requests, ids and
WebSockets. `AuthInv` follows the chain: whoever is past `authBasic` has the right
login, and nothing is done before. `ChainInv` says what has been done at each stage
of a mutation, and that an answer is written once. `ListenerInv` (connections come
in only while `run` is at its select), `HubInv` (`hub.Close` is the last thing) and
`CleanInv` (a drain that ended without an error left nobody in flight, and lost no
event) carry it to the exit. `OnlyAuthorizedMutate`, `AnswersTell` and `NothingLost`
follow, for panics at any step and a signal at any moment. `HubIsClosed` is the
safety half of `ShutdownEnds`: run returns with the hub open only from a failed start
or a failed listener.

**CapabilityCacheProofs**, for any number of calls, changes and attempts, of which at
least one. `SingleFlight` (until `destroy` there is one fetch, and `inflightFetch` is
it) and `AnswersAreNewer` (the answer under way is at least as new as the list held)
make the action property `NeverGoesBack` provable. `ListenerInv` says that without a
listener there is neither socket nor timer. `OneAtATime` and `StaysDestroyed` follow.
`JoinsMiss` says how much of the violated `UpdateIsFetched` is true: the refresh for
an update returns a list without it only if it joined a fetch that had been answered
before. It needs `FreshInv`: no event in the inbox is from the future, and neither is
one whose refresh waits.

**IntentSessionsProofs**, about IntentSessions and Modals, for any casts, elements of
the page and at least two applications in a modal. `CastInv` is `NothingLeftBehind`
with `CallbackInv` (not over: not called yet). `PageInv` describes the stack:
`LockInv`, the first modal saved the page's overflow and each later one the lock of
the first; `FocusInv`, the first saved the element that had the focus, and no frame
points into a modal. Both hold until modals are closed out of order (`crossed`);
what happens then is what run `sessions_scroll` shows. `CalledOnce`,
`NothingIsLeft`, `ScrollIsLocked` and the action properties `FocusIsTrapped`,
`FocusComesBack` and `EndIsFinal` follow. `FocusIsTrapped`
is about single steps out of a modal (`StepWithoutClosing`: a step that closes no
modal is one of the user or the page, or leaves the focus where it is); it does not
say that the focus cannot reach the page in two, by the body, which it can.
`EndIsFinal` is the safety half of `CastsEnd`:
casts only go forward, so in five steps at most, and late answers, clicks, watchdog and
destroy change nothing of a cast that is over.

**CapabilitiesProofs**, about Mime and Capabilities, for any words, texts, manifests,
ids and queries. Assumed: ids and the places of lower-cased names are natural
numbers, which stands for their being totally ordered.

- *MIME types.* The 3x3 match is exactly "some concrete type is in both", symmetric,
  and wider than the client's resolver. `CanonicalizeMIME` is idempotent, gives the
  three documented shapes only, and ignores case, outer blanks and parameters. The
  argument is about the one way a trimmed text can sit in a text (`OneTextSits`).
  `ValidatedIsCanonical` carries it to manifests, `AlwaysCanonical` to every registry:
  run `capabilities` checks `CanonicalForm` on short texts and nine manifests, the
  theorem has all.
- *The sort.* In a strict total order the number of members up to d grows with d
  (`UpToGrows`), so it is d's place, and the sorted list is a bijection (`SortSorts`).
  `OrderIs` shows why the order of Go's map never shows: the key has the
  application's id, so that equal keys are of one application, and these are appended
  in the order of its manifest. `AlwaysDeterministic` follows.
- *The answer.* `IInv` has `Registered` (what is stored is the validated form of
  something submitted) and `AnswerInv` (an answer is the result for the latest query,
  in some order of the map). `MatchIsCommonType` turns the match of the loop into the
  "some concrete type" of `Wanted`; with the bijection, `AlwaysRight` and
  `AlwaysPicksFewer` follow.

Only model-checked, and why:

- *Liveness* (`EveryMutationReturns`, `DeadAreRemoved`, `EventuallyCurrent`,
  `ShutdownEnds`, `DestroySettlesCalls`, `CastsEnd`), and with it the progress in
  `ImplementsContract` of Hub: fairness is out of the prover's reach. The safety part
  of the contract is `KeepsTheContract`, of `ShutdownEnds` `HubIsClosed`, of `CastsEnd`
  `EndIsFinal`.
- *The violated properties*, where a counterexample is the result.

## 5. Plan

Done: the store with its contract and proofs, MIME types, the query, the hub with
its contract, the handlers over both, every REST route and the process around them,
the client's cache, modals and sessions, each with its runs; and every safety
invariant and action property of the passing runs proved.

1. *Extend the models.* Compose IntentSessions with CapabilityCache, so that a
   cast's list is the cached one. The store's remaining read, `Capabilities`,
   over the map of RegistryStore rather than a map of its own.
2. *Extend the proofs.* One theorem for handlers over the store and the hub
   themselves: each is proved against its contract, and the handlers over the
   contracts, but the composition is an argument of this text.
3. *Left to TLC for good*: liveness.

## 6. Not modelled

- *Formats.* JSON field names and headers, error bodies, log lines. The client
  and the server disagree on some of them (`loader.ts:50`, `ws-listener.ts:80`);
  CapabilityCache takes a server that speaks as the client expects, since two
  formats that differ are a question for a test and not for a model of behaviour.
- *Penpal* (`penpal-bridge.ts`, `bridge-adapter.ts`): the wrapper of a library. Its
  connect settles and the child's calls come after that; which messages it sends is
  the library's.
- *Session ids, errors, types* (`id.ts`, `errors.ts`, `types.ts`): random ids are
  taken to be distinct; declarations have no behaviour.
- *Iframe and modal markup* (`iframe.ts`, `styles.ts`): attributes, sandbox flags,
  CSS, ARIA. Only whether `buildIframe` refuses a capability, and that a later host
  covers an earlier one, matter to the state.
- *Configuration*: `Load` succeeds or fails; which settings are valid is not told
  apart. `version.go` is a string.
- *Time*: the back-off of the listener is "later", bcrypt takes none, timeouts
  fire at any moment.
- *Taken as given*: `onError` and `onCapabilitiesUpdated` do not throw, nor does the
  constructor of the WebSocket (an address with a fragment would make it throw in
  `maybeStartWsListener`, and the call that fetched reject although its list was
  stored: `validateUrl` looks at the scheme only); the focus
  inside an iframe is not followed; only the page itself removes its elements.
