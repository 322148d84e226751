# hamr: TLA+ models, model checking and proofs

hamr is a Go toolkit for server-rendered web applications. Two of its parts are
concurrent programs in which the order of steps decides whether they are right:
the dev server behind `hamr dev` (`src/internal/devserver`), which watches files,
builds rules in dependency order, keeps processes and compose stacks running,
mocks Stripe, mail and SMS, and is driven from a terminal, a browser and by
agents; and the libraries an application links (`src/pkg`), whose hub, janitor,
flags, limiter, sessions and stores keep state that several goroutines share. This
directory models those parts, checks them with TLC and proves the central ones
with TLAPS.

Line numbers below, and in comments of the modules, are those of the Go file the
module names at its top. `PROJECT.json` maps every definition to its lines.

- [1. Inventory](#1-inventory)
- [2. The modules and the code](#2-the-modules-and-the-code)
- [3. What the runs check](#3-what-the-runs-check)
- [4. Fairness](#4-fairness)
- [5. What is proved](#5-what-is-proved)
- [6. Where code and documentation disagree](#6-where-code-and-documentation-disagree)
- [7. Not modelled](#7-not-modelled)
- [8. Plan](#8-plan)

## 1. Inventory

### The dev server

```
 hamr.toml -> dev loop (load, run, restart, reload, quit) -- one Run after another
                                  |
 fsnotify -> Watcher -> events chan -> Run's event loop --+
 HTTP / MCP / hotkeys -> DevActions.requestRun -----------+-> dirty map + 1-token channel
        |         |                                               |
        |         +-> compose stacks: ports, up, logs, wipe   scheduler goroutine
        |                                                (batch, drain, handleEvent)
        +-> MCP gateway (token, access map, audit)        |            |         |
                                                 RunCommand  ProcessManager  ErrorState
   T hotkey -> tunnel --+-> envLayers -> pm.injectedEnv, restarts-+              v
   S hotkey -> stripeSwitch                                        SSEBroker -> tabs, TUI
   the app  -> Stripe mock (API, pages, clock, webhooks), mail and SMS mocks
```

| Component | State it keeps | Operations | What is hard | What makes it correct |
|---|---|---|---|---|
| **Dev scheduler** (`devserver.go`, `graph.go`, `errorstate.go`) | the dirty map, the one-token schedule channel, which graph nodes are running, ErrorState, ready and restart flags | initial build, event loop, `requestRun`, batch, drain, `handleEvent`, deferred shutdown | marks and tokens are two steps of several goroutines; shutdown at any point of a build; a rule that feeds itself | no wake-up or change is lost; dependencies are built first; the wait for dependencies cannot block; the error page tells what failed; shutdown ends and leaves nothing |
| **Process manager** (`process.go`) | `procs` by rule name, `startMu`, per process its group, Wait goroutine and `done` channel | `StartProcess`, `stopProcess`, `StopAll`, exit handling, `RunCommand` | starts from three goroutines, a late exit of an old process, processes that ignore SIGINT or leave their pipes to a child | one leader per rule; none is forgotten; what hamr stops is not reported as a crash; every stop returns |
| **Injected environment** (`envlayers.go`) | one layer per feature, their merge in the process manager | `set`, `restartRunning` | two features and the scheduler restart the same names | no process goes back to an older environment; what runs is fresh |
| **Tunnel** (`tunnel.go`) | busy flag, child process, public URL | `Toggle`, `apply`, the exit watcher, `Close` | key presses while it starts, stops or dies; the exit watcher of an old tunnel acts late | at most one tunnel; env, status line and UI agree with it; a dead one is forgotten |
| **Stripe switch** (`stripelisten.go`) | mode, listener process, key, secret, all under `switchMu` | `boot`, `Set`, `switchTo`, the exit watcher, the `.env` watch | a listener dies during a switch; `.env` changes during one; a new listener fails | one listener; the mode says what runs; the environment is that of the mode |
| **Event bus** (`sse.go`, the dark filter of `actions.go`) | clients with bounded buffers, the dark filter | `Subscribe`, `Broadcast`, `deliver`, greeting, unsubscribe | a stalled browser; eviction while others send; a client that leaves during a send | senders never block; the last state event is never lost; no send on a closed channel |
| **File watcher** (`watcher.go`) | a debounce timer per rule, the events channel | the loop, timers, exit | a timer that has fired cannot be stopped; a full channel at shutdown | the newest save of a rule is reported; no timer goroutine is left |
| **Dev loop** (`dev.go`, `configwatch.go`, `hotkeys.go`) | the run, who takes hotkeys, who watches the config, channels of one request each | load, wait for a fix, startup, serve, restart, reload, quit, teardown | a key, an edit and a restart in any phase; requests that outlive their run | one reader of hotkeys; no restart of the next run; what is served is the config on disk |
| **Compose ports** (`portwalk.go`, `composeports.go`, `composeinspect.go`, `walks.go`, `envinject.go`) | the override file, the walk records, what is adopted | inspect, adopt, walk, apply, write the override, rewrite the environment | containers outlive runs; other programs take ports; the file is edited | a running container stays where it is; the environment says where services are; a service returns to its own port; two services never share one |
| **Dev actions** (`actions.go`) | one spinner and one error per stack, the log follower | bring-up, restart, wipe, clear, follow, down | jobs of goroutines with contexts of their own, which overlap and outlive a run | spinners end; a stack that is down has its error shown; nothing is left up |
| **MCP gateway** (`mcpgateway*.go`, `mcpaudit.go`, `mcpconfig.go`, `cmd/mcp.go`) | enabled flag, token, descriptor on disk, audit log | switch, call, `make.run`, `dev.restart`, the end of a run | a call while the switch turns or the run ends; a restart that cuts off its own answer | only the token of this run; every tool that runs is audited; a restart is answered first |
| **Stripe mock: money** | payment intents, charges, refunds, transfers, payouts, disputes, accounts of two generations | the API and the pages | partial amounts, fees, reversals from two sides, disputes over refunds | no money is made or lost; nothing goes back twice |
| **Stripe mock: billing** | sessions, coupons, codes, subscriptions, invoices, customers, a clock | checkout, portal, dashboard, advance of the clock | one advance over many periods; trials; limits of coupons; retries | invoices cover the time; limits hold; nothing due is left; canceled stays canceled |
| **Stripe mock: requests** | idempotency keys, event log, batches, the state file | a request with a key, persist, deliver, resend, restart | retries of what still runs; a crash between store and event | a retry replays; what the app was told is stored, or its write was seen to fail |
| **Stripe mock: catalogue** | prices with lookup keys, payout settings | create, update, list by page | updates refused half way; a list that changes under a reader | a key finds one price; a reader misses nothing |
| **Mail and SMS mocks** (`mailmock*.go`, `smsmock.go`) | a bounded inbox and its file | ingest, delete, clear, rewrite, load | a write that fails or is cut off; bodies that look like separators | what was answered is kept; the file is the inbox |
| **Terminal UI** (`tui`) | what is in flight, errors, tabs of bounded logs, a search and a selection by index, the pane, modals | messages of several goroutines, keys, mouse, resizes | events dropped, late or of an earlier run; indexes into what is evicted | the bar is true; what is copied is what was picked; the reader is left in peace |
| **Proxy and pages**, **gate**, **logs**, **configuration** | little of their own | handlers, rendering, parsing | | |

### The libraries

| Component | State it keeps | Operations | What is hard | What makes it correct |
|---|---|---|---|---|
| **WebSocket hub** (`pkg/websocket`) | clients by session, subject and room; a send channel and two pumps per connection | `Handler`, register, unregister, rooms, subjects, sends, `Close` | reconnects: the old connection leaves after the new one came; Close during all of it | no send on a closed channel; the maps agree; the newest connection is reached; nothing leaks |
| **Janitor** (`pkg/janitor`) | the cron, the running markers, the wait group | `Start`, `Stop`, scheduled and immediate runs, hooks | generations of Start, cancelled contexts, panics | a task never overlaps itself; Stop drains |
| **Async group** (`pkg/async`) | a semaphore, a closed flag, a wait group | `Go`, `Close`; `All`, `Map`, `Settle` | `Go` at the limit against `Close`, a job that calls `Go`; errors and panics at once | every accepted job ends before Close returns; the first error wins |
| **Feature flags** (`pkg/flags`) | a cache of the table in every process | `Set`, reload, the poll, `LISTEN`, the data version | other processes, failed queries, lost notifications | a cache never goes back; what is stale is about to be noticed |
| **Rate limiter** (`pkg/middleware/ratelimit.go`) | a window per key, bounded by LRU, or a table | `Allow`, cleanup | eviction and cleanup of windows that still count | twice the rate at most; only who used it up is refused |
| **Sessions** (`pkg/auth/session.go`) | a store of the application | create, validate with sliding expiry, delete | refresh against deletion, call by call | a logout is final; nobody is logged out early |
| **Server**, **database** (`pkg/server`, `pkg/db`) | a listener and its goroutine; a pool | Start, Shutdown; connect with retries | a signal against an error; cancellation against success | nil means clean; a pool is handed out or closed |
| **Media and storage** (`pkg/media`, `pkg/storage`) | several objects per asset | save under a given id, cleanup, delete | each save may fail, or fail and be done; crashes; two uploads | the first object speaks for all; a retry repairs |
| **Static sync** (`pkg/sync`) | what is watched, the events | sync all, watch, upload, delete | changes during all of it; new directories | the bucket follows the directory |
| **Validation, i18n, lint, …** | none | | | |

`PROJECT.json` lists all components with their sources and status, and under
`hazards` the most important places at which they can go wrong in ways a test hardly
reaches (section 6 names others).

## 2. The modules and the code

A step of a model is what a goroutine does between two points at which another
goroutine can observe it: code under one lock is one action, and a lock released
and taken again is two. Data is abstracted to what properties tell apart (a rule,
a connection, the number of a process), control is kept. An operator whose
comment begins with *Mutant:* is a variant with a plausible bug; it is used by no
specification, and exists to show that a property would notice the bug. Variables
marked *(history)* are not in the code and influence nothing.

**DevScheduler** is `Runner.Run`. `main` is the program counter of its goroutine:
the initial build (`next`, `cmd`, `run`), the event loop (`loop`, `notify`), and
the deferred shutdown (`unwind`, `clear`, `wait`, `down`). `sched` is that of the
scheduler goroutine: waiting for a token, in the quiet window, draining, and in
`handleEvent` (`wait` for dependencies, `cmd`, `run`). The Go maps and channels
appear as `dirty`, `token`, `feed` (the watcher's channel, a set of rules since a
second event for a rule changes nothing), `running` (open `done` channels of the
graph) and `errs`. `LoopTakeEvent` and `LoopNotify`, `MarkDirty` and `OfferToken`
are separate because `dirtyMu` is released between them. `Pick` is what the drain
does under `dirtyMu`: the first dirty rule in topological order none of whose
direct dependencies is dirty. The order itself is any that respects the
dependencies, as Kahn's algorithm ranges over Go maps. A crashed process is first
removed (`Crash`) and later reported (`ReportExit`), for the callback is called
after the unlock. `BootSkip` is the `failed` map of the initial build. Files may
change only once the watcher runs: earlier edits are never seen by the code.

**ProcessManager** looks inside `StartProcess`: `startMu`, the untracking under
`pm.mu`, SIGINT to the group, the shutdown timeout, SIGKILL, the start, the
tracking, and the Wait goroutine of each process with `WaitDelay`, the identity
check against `procs` and the report outside the lock. A process is a leader and
possibly other members of its group, since `sh -c` may run the program in its
place or as a child. Shutdown is included, with the context that kills the
leaders. `Goto` and `pc` are per goroutine.

**InjectedEnv** has the layers of the features and, again, `StartProcess`, now as
the place where the merged environment is read: stop, `envFor`, start, under
`startMu`; `restartRunning` looks whether a name is running without that lock.
An environment is the versions of the layers it was merged from.

**Tunnel** has `Toggle` with its busy guard, `start` step by step (listener and
child, the wait for the URL, tracking), `apply` (URL, environment, event), the
goroutine that waits for the child, polls for the guard and resets, and `Close`.

**StripeSwitch** has `switchTo` step by step under `switchMu`, for its callers:
boot, `Set`, the exit watcher of a listener and the `.env` watch. `DropKeyRead`
and `DropKeySet` are two steps because `dropKey` does not take `switchMu`. `OpenWatch`
is the start of `watchDotenv`, on a goroutine of its own: until it has the directory
watched edits are not heard, and if that fails none ever is.

**SSEBroker** has `Broadcast` with its read lock, `deliver` with the send mutex of
a client and its three outcomes (fits, dropped, evict and retry), clients that
subscribe, are greeted, receive, stall and leave, and the dark filter's load,
store and broadcast.

**Watcher** has the loop, a debounce timer per rule, the goroutines of timers that
have fired, and the channel. **ChangeFeed** is what it promises the dev loop, as a
specification of its own: a save is told at most once, only a later save of the
same rule may stand in for it, and nothing is dropped before the watcher stops.
`Watcher` implements it under the mapping `owed <- ` the saves on their way.

**WSHub** has each operation of the hub as one action (they all hold `h.mu`), the
read and write pump of each connection, and `Close` in its three steps: the flag,
the cancel, and the wait for the write pumps before the maps are cleared.

**Janitor** has `Start` in its steps (the cron set, tasks added, cron started,
immediate runs, the goroutine that waits for the context), `Stop` in its (take the
cron, cancel, stop the cron, drain it, wait for immediate runs), and a run of a
task from its tick to the release of the marker. Every call of `Start` is a
generation, because what one leaves behind acts on the next. The cron library is
modelled from its use: ticks while it runs, no second scheduled run while one is
under way, and a `Stop` whose context ends when the runs have.

**DevLoop** is `runDev` and `runDevLoop` around it all: `phase` follows one run
after another from `load` through `startup`, `settling` (the drain of hotkeys hands
over to the loop of the run), `serve` and `teardown`, with `broken` and `wait` when
the config does not load. `watching` says who watches the config in which phase,
`blind` (history) that an edit fell where nobody did. Each run has channels of its
own for restart and reload, as in the code. `dev.restart` is granted by a run
that is being torn down too, since `readyAt` is not taken back (actions.go:88); what it
asks for then nobody reads.

**ComposePorts** follows one compose entry through runs: inspection (running
containers with the bindings docker knows, or, on older dockers, by order only),
adoption, the walk of each binding that is not owned, the override file, `up`,
the records that rewrite the environment, `down`. The world is the containers,
other programs' ports and edits of the file. **ComposeFile** is the grammar of one
`ports:` entry: `Read` and `Write` as hamr has them against docker's.

**DevActions** is the life of a stack during runs: inspect, bring-up, the follower
with its backoff, restart and wipe jobs on goroutines of their own with `home` the
run they were asked of, and teardown.

**MCPGateway** has a call from the bridge (which reads the descriptor anew for
every call) through authentication, the access map, the tool and the audit line
to its answer; the switch in the three steps of `SetActive`; `make.run` with its
goroutine and its wait; and the end of a run in the order of the deferred calls.

**StripeMoney** and **StripeBilling** have one action per handler, for a handler
holds `m.mu` from its checks to `persist`; a refused request is no step. Balances
are not state in the code either: `PlatformLedger` and `ConnectedLedger` derive
them. `told` (history) is the app that applies every event. StripeBilling extends
the payments of StripeMoney through an instance of it, so that an invoice's charge
is a charge there; time is in the unit that its decisions distinguish.
**StripeDelivery** takes requests apart: the entry of an idempotency key, handler,
persist, record, and one goroutine per change that posts its events in order. A write
of the state file may fail, which is logged and no more (stripemock_persist.go:44):
the request is answered and its events go out, and `unstored` (history) remembers the
change until a later write, which has everything in memory, has stored it.
**StripeCatalog** has the updates that are refused half way, writes that fail (`behind`,
history) and a reader that pages through a list.

**MockInbox** is either mock: the list in memory, and the file appended to or
rewritten, with writes that fail or are cut off and restarts that read it back.
**MboxFormat** is the text of the mbox file and its parser, over a small alphabet of
lines that includes separators and quoted separators.

**TUIStatus**, **TUILogs**, **TUIViewport**, **TUIKeys** and **TUILayout** are the
parts of the one `Model` of the terminal UI, split by the fields they touch: what is in flight
(with the event bus and the other goroutines that feed it), the bounded logs under
tabs, searches and selections, the pane with drags, the keys in each mode, and the
arithmetic of rows, bars and modals, which has no other state.

**AsyncGroup**, **AsyncJobs**, **FeatureFlags**, **RateLimit**, **Sessions**,
**AppServer**, **DBConnect**, **MediaStore** and **StaticSync** are the remaining
packages. In each, a call of another system (semaphore, database, storage, kernel)
is a step that may fail where the code handles failure: a query of the flags, a
touch of a session, a save that fails to its caller and has been done, an upsert of
the limiter that is committed though its answer is lost (`charged`, history), an event
the kernel dropped. The context that the caller of `All`, `Map` or `Settle` passed may
end at any time (`Abandon`).

### Composition

`InjectedEnv` and `ProcessManager` are two views of `StartProcess`, of the
environment and of the processes; `DevScheduler` takes a start as one step
(`StartProcess` there), which `startMu` justifies and `OneLeader` checks; `Tunnel`
and `StripeSwitch` take the setting of a layer as one step, which `RuntimeSettles`
shows to end; `DevScheduler` takes the watcher as a set of rules with an unread
event, and `ChangeFeed` says what of it may be relied on. `DevLoop` takes a run as
phases, whose inside is `DevScheduler`. `MCPGateway`'s `dev.restart` is the restart
request of `DevLoop`. `StripeBilling` instantiates `StripeMoney`; `StripeDelivery`
takes a change and its events, which are what `told` collects in those two.

`MC*` modules give the constants values. `MCRuntime`, `MCDevServer`, `MCMocks`,
`MCLibs` and `MCTUI` put several modules side by side with a variable `part` that a
behaviour chooses at its start: the other parts stand still in their initial
state, so that each part is explored exactly as by itself, and one run asks one
question of all. The parts do not interact there. Fairness is stated of each part's
actions, with `part` as a conjunct. What an `MC` module assumes of its constants TLC
evaluates in the run, and the theorems are about its `MCSpec`, or about the `Spec` of
the module it extends (`MCPGateway`, `WSHub`, `ProcessManager`). The chain of rules
that the runs of `DevScheduler` take is `ChainDepends`, at the end of that module.

## 3. What the runs check

| Run | Module, config | Parts | Checks |
|---|---|---|---|
| `sched` | DevScheduler, `DevScheduler.cfg` | chain of 3 rules with builds; the first may fail and has a process that may crash | `Inv`, `SpinnersClose`, `FailureShown`, `DepsFirst` |
| `sched_live` | DevScheduler, `DevSchedulerLive.cfg` | 2 dependent rules, the watcher and an HTTP caller | `NoLostWakeup`, `OwedIsQueued`, `EventuallyBuilt`, `ShutdownCompletes` |
| `runtime` | MCRuntime, `Runtime.cfg` | processes, events, watcher, env, tunnel, stripe | `Inv`, `BrokerInv`, `EnvInv`, `TunnelInv`, `StripeInv`, `KeepsThePromise` (refines ChangeFeed), `EnvNeverGoesBack`, `RuntimeSettles` |
| `devserver` | MCDevServer, `DevServer.cfg` | gateway, ports, file, loop, actions | `Inv` (of the gateway), `PortsInv`, `LoopInv`, `ActionsInv`, `DevServerSettles` |
| `mocks` | MCMocks, `Mocks.cfg` | money, checkout, billing, requests, delivery, keys, settings, walk, inbox, mbox | `MoneyInv`, `BillingInv`, `MocksInv`, `BooksSettle`, `RequestsEnd` |
| `libs` | MCLibs, `Libs.cfg` | hub, janitor, group, jobs, flags, limiter, sessions, server, db, media, static | `Inv` and `NewestIsReached` (of the hub), `WorkersInv`, `FlagsInv`, `ServeInv`, `FlagsNeverGoBack`, `CallsReturn` |
| `tui` | MCTUI, `TUI.cfg` | status, logs, pane, keys, layout | `StatusInv`, `LogsInv`, `PaneInv`, `KeysInv`, `LayoutInv`, `ReaderUndisturbed`, `TicksEnd` |
| `sched_runonly` | DevScheduler, `DevSchedulerRunOnly.cfg` | 1 rule without a build command | `ErrorsExplained`, violated: see 6 |
| `janitor_parent` | Janitor, `JanitorParent.cfg` | 1 task, 1 start | `EveryStopDrains`, violated |
| `billing_retry` | MCMocks, `BillingRetry.cfg` | as `mocks` | `SinglePayment`, violated |
| `flags_sqlite` | FeatureFlags, `FlagsSQLite.cfg` | a flag in SQLite, another process, no faults | `UpToOneSecond`, violated |
| `audit_closed` | MCDevServer, `AuditClosed.cfg` | as `devserver` | `AuditComplete`, violated |

`Inv` of a module joins its type invariant with what one would call its
consistency, and the invariants of an `MC` module join those of its parts:

- `DevScheduler`: `DepsNeverBlock` (`WaitForDeps` finds its channels closed, as
  only one goroutine builds) and `QuietWhenDown` (after Run no scheduler, no
  process).
- The process manager: `OneLeader`, `NoLostProcess` (a running process is tracked or in the
  hands of a goroutine that starts or stops it), `StoppedIsNotReported`,
  `LeadersGone`. `BrokerInv`: `NoSendOnClosed`, `LastStateKept`,
  `BrowserShowsFilter` (once the last toggle began alone, whatever overlapped before it). `EnvInv`: `FreshUnlessSkipped` (what runs has every layer set
  with a restart, but for names passed over while they were being started).
  `TunnelInv`: `OneTunnel`, `EveryoneAgrees`. `StripeInv`: `OneListener`,
  `ListenEnvIsCurrent` (the secret and the key in the app are those of the running
  listener, and the key is the one in `.env`), `ModeIsReal`, `EnvMatchesMode`.
- The gateway: `TokenIsLive` (the token on disk is the serving run's),
  `RanIsAudited`, `MarkerBeforeResult` (who has the result of a make finds its
  marker in the log), `AnsweredFirst` (a restart never takes its own answer away).
- `PortsInv`: `RunningKept` (a start replaces no running container), `WalksTrue`
  (the environment says where a service is), `BackToBase` (a service returns to its
  own port once that is free), `WalkedApart` (no two services share one); and of
  compose files `ReadAlike`, `WrittenAlike` against docker's grammar.
- `LoopInv`: `OneTakesKeys`, `NoRestartStorm`, `CurrentConfig`. `ActionsInv`:
  `SpinnerEnds`, `StackExplained`, `TornDown`, `FollowerGone`. Of jobs that overlap on one
  stack or outlive their run only the spinners, the teardown and `DevServerSettles` say
  something: the code keeps one error per stack, and `StackExplained` excepts them (`mixed`, `late`).
- `MoneyInv`: `RefundsFit`, `ReversalsFit`, `IntentsSettle`, `RowsAgree`, `FeesFit`,
  `MoneyConserved` (per currency the balances of all holders add up to what cards
  paid, less what left), `AppIsTold`: an app that applies every event has the truth. The
  transfer and the dispute of a charge it may have to take from their own events: a capture
  serializes `charge.succeeded` before the charge has its transfer
  (stripemock_paymentintent.go:296 against 321), and `transfer.created` names the charge.
  `BillingInv`: `OpenIsPastDue`, `PeriodsTile`,
  `DiscountsEnd`, `LimitsKept`, `PaidIsCharged`, `AppIsTold`. `BooksSettle` is about
  steps: `PaysOutOnce`, `StaysCanceled`, `LeavesNothingDue`.
- `MocksInv`: `RetriesReplay`, `DeliveredIsHandled`, `ToldIsStored` (but for changes whose
  write failed and that no later write has stored), `RestIsComing`;
  `KeysFindOne`, `KeysAreStored` (unless the last write failed), `DaysArePossible`, `WalkIsComplete`; `InboxIsKept`,
  `FileIsInbox`; `SameMails`, `SameParts`.
- The hub: `NeverPanics`, `MapsAgree`, `ClosedIsEmpty`. `WorkersInv`: `NoOverlap`,
  `MarkerIsHeld` (the marker of a task is there exactly while a run holds it),
  `StopDrains`; `WithinLimit`, `ClosedIsQuiet`; `FirstErrorWins`. `FlagsInv`:
  `StaleIsNoticed`. `ServeInv`: `TwiceAtMost`, `RefusedRightly`, `BusyKeysKept`;
  `LogoutIsFinal`, `NotBeforeItsTime`; `NilMeansClean`; `PoolIsOwned`;
  `RetryRepairs`, `FailureLeavesNothing`, `ProbeIsRight`, `ExistingIsKept`,
  `RemovedIsGone`; `BucketFollows`.
- `StatusInv`: `TellsTheTruth`, `SpinnerTurns`, `ErrorsShown`. `LogsInv`:
  `SelectsWhatWasPicked`, `SearchIsFresh`. `PaneInv`: `Tailing`,
  `DragEndsWithButton`, `FlagMeansChain`. `KeysInv`: `CursorInList`, `OneModal`,
  `QuitIsQueued`. `LayoutInv`: `RowsAgree`, `BarsFill`, `ModalsFit`.

Each is stated in the comment before it, with the exceptions the code forces and
where they come from. `RuntimeSettles`, `DevServerSettles`, `RequestsEnd`,
`CallsReturn` and `TicksEnd` have the form `Waiting ~> ~Waiting`, where `Waiting`
is what must not last. Every initial state of a run chooses one part, so the
disjunction over parts is exact: it is that part's own.

Deadlock is not checked (`CHECK_DEADLOCK FALSE`) in any run: every one of these
systems stops when the server is down, the hub closed or the bound of an input
reached. That nothing waits for ever where it must not is what the liveness
properties state.

### Bounds

- *DevScheduler*: nothing is bounded but the constants; edits, requests, crashes
  and restarts recur without limit until `StopEditing`. Three rules in a chain are
  the least for which a dependency is indirect, and the place at which "direct
  dependencies only" could be wrong. Two rules and one caller suffice for the
  races of mark and token: what the scheduler takes is a set, and more callers set
  the same flag (the theorems of section 5 hold for any number).
- *Runtime*: two processes of one rule (an old one and its successor; names interact
  only through `startMu`, for which three goroutines contend); three events with a
  buffer of one (one fills it, two concurrent senders evict) and two goroutines that toggle
  the filter, so that two toggles overlap before a third begins alone; two saves of each of
  two rules with a channel of one; each of two features sets its layer once against
  a scheduler that rebuilds without limit; two tunnels and two listeners (one that
  dies, one that replaces it), two edits of `.env`.
- *DevServer*: two compose files, so that an edit changes ports, host and services,
  with four and three bindings that share ports with each other and with the app,
  one service behind a profile, and two moves of the world; two keys in a channel of
  two, two edits, one restart asked for; two jobs on two services; two calls of an
  agent, two runs, one turn of the switch. Runs are bounded by two in the actions
  and the gateway (one and its successor) and follow without limit elsewhere.
  A ports entry has up to three parts between colons.
- *Mocks*: two payments, of which one may take every course and the second a single
  further object; three objects asked for; two reversals of one transfer. Two sessions
  compete for a coupon of one redemption; one session's subscription lives six units of time
  and an advance may cover five, that is two periods and a half, a trial and the end
  of a coupon. Three requests under two keys with a cache of one entry and a log
  of two events, two faults (a panic, a failed write of the state file); where deliveries are
  looked at, the second only after a failed write. Prices 1 to 3 and pages of one; two messages with
  capacities one and two; mails of two lines, two of them.
- *Libs*: two connections of one session are a reconnect (a third would replace the
  second as that did the first); a generation of the janitor and the one it may
  disturb; limits none, one and two for two callers and one inside a job; two
  commits and one fault for the flags; a rate of one in a window of three half
  seconds with two keys kept of three; two requests on a session of lifetime two and
  threshold one; two requests in flight at shutdown; three attempts to connect; two
  workers and three uploads or deletions of assets of three sizes, always on S3, whose
  behaviours include those of a local disk; three edits, one fault and a queue of
  three for the synced directory.
- *TUI*: buffers of three lines with four ever logged, so that lines are evicted; two
  orders of the tabs; two runs of the server; three events in a bus of two; two
  ticks in flight, one more than there should be; widths up to 20 columns and
  heights up to 36 rows, around every threshold of the layout.

## 4. Fairness

Goroutines are weakly fair: one that can take a step, and goes on being able to,
takes one; timers fire; a command or a callback returns. Where more is assumed:

- `DevScheduler`: strong fairness of `LoopCancelled` and `SchedExit`. They compete
  in a `select` with cases that may be ready again and again, and Go picks at
  random among the ready ones. At the top of the drain loop the context is looked
  at on every pass, so there weak fairness does. Edits, requests, crashes and the
  quit are not fair: they need not happen. `EventuallyBuilt` therefore begins with
  the developer having stopped.
- *Runtime* (`ProcessFair` to `StripeFair`): goroutines, Wait goroutines and the
  kernel's SIGKILL are fair; a process need not end otherwise, nor its children.
  Strong fairness of taking `startMu` and `switchMu`, since `sync.Mutex` hands
  itself to a waiter that has starved for a millisecond. The exit watcher of a
  tunnel polls for its guard without taking part in a queue, so it gets weak
  fairness only, and `Haunted` is over when T is left alone in the end. Only senders of
  events are fair: a client may stall for ever, which is the point. The dev
  loop receives from the watcher as long as that is not done, and need not
  afterwards. `ChangeFeed` states its liveness as a leads-to (`NothingIsKept`),
  which needs no ENABLED under the mapping.
- *DevServer* (`GatewayFair`, `LoopFair`): a request that has arrived is served and
  answered, a make is assumed to end (nothing but the end of its run or a cancel stops
  one that does not), a run that was told to end ends, `docker compose` returns or runs
  into its timeout.
  Keys, edits, calls and toggles are not fair.
- *Mocks*: handlers return, where requests are what is looked at; everything else
  there is safety.
- *Libs* (`HubFair` to `ServerFair`): pumps run; a `Read` or `Write` returns when
  the connection is down or the context done; callbacks, jobs, tasks and queries
  return; a `Close`, `Start` or `Stop` that has begun goes on, `Shutdown` ends by its
  timeout. The ticker of the flags' poll ticks and a reload gets `mu`. Clients need
  not disconnect, nobody need call Stop. A job that calls `Go` on its own group may wait for
  itself, and so is excepted by the premise of `Waiting`.
- *TUI*: a timer that was set goes off.

## 5. What is proved

The proofs hold for every value of the constants that satisfies the module's
assumptions: any finite set of rules with any dependencies and callers; any rules,
starters and processes; any clients, senders and queue length; any watched rules and
capacity of their channel; any apps in any order, with any features; any goroutines
that toggle the tunnel or the Stripe mode; any calls, tools, access map and number of
runs; any services of a stack and jobs on it; any connections, sessions, subjects and
rooms; any tasks, stoppers and starts; any callers, limits and nesting of a group; any
concurrent jobs; any flags and processes that set them; any number of attempts to
connect; any requests, cookies and times; any uploaders and list of sizes; any keys, rate,
window and size of the limiter; any edits, failures and kernel queue of a synced
directory; and any jobs, labels, goroutines that push, capacity of the event channel, heights, widths and
entries of the palette of the terminal. Bounds such as `MaxProcs`, `MaxEvents` or
`MaxEdits` are any natural number there.

The theorems about parts of an `MC` module are all laid out alike. An inductive
invariant of the part (`...IInv`) joins the part's types, its properties and what ties
program counters to what they hold; a lemma per action, or per conjunct and action,
shows that a step keeps it; `...Invariance` lifts that to `MCSpec`, whose other parts
leave the part's variables alone; and the theorem follows from the invariant alone.
Every inductive invariant was first checked by TLC on the run.

**`DevScheduler_proofs`.** From `RulesAssumption` (the rules are finite). The
inductive invariant is

    IInv == TypeOK /\ InHand /\ NoLostWakeup /\ OwedIsQueued /\ QuietWhenDown

`NoLostWakeup` is not inductive by itself: that `Drained` may put the scheduler to
sleep needs the lemma `SomethingReady`, which says that a non-empty dirty map has a
ready rule. It is where the topological order does its work: the dirty rule with
the least position has no dirty dependency, by the well-foundedness of `<` on the
naturals. `OwedIsQueued` needs `InHand`, which ties the two program counters to
what they hold: the scheduler exists only after the initial build, and it holds
exactly the rule it marked running. Each conjunct has a lemma with one case per
action (`TypeStep`, `InHandStep`, `WakeupStep`, `OwedStep`, `QuietStep`).

`DependenciesFirst` is about `Below`, what a rule depends on directly or through
others, which the module defines by recursion. That the recursion has a solution
(`ReachedUnfolds`, `BelowUnfolds`) is proved from the sets that are reached; then what
is below a rule comes before it in the order (`BelowComesFirst`), and were something
below the rule that is picked still dirty, the first dirty rule would be ready and come
before it.

| Theorem | Property |
|---|---|
| `TypeCorrect` | `TypeOK` |
| `WakeupsNeverLost` | `NoLostWakeup` |
| `ChangesNeverLost` | `OwedIsQueued` |
| `DownIsQuiet` | `QuietWhenDown` |
| `DepsNeverBlocked` | `DepsNeverBlock`: from `InHand`, as no rule depends on itself |
| `SchedulerIsSafe` | `Inv` |
| `FailuresStayShown` | `FailureShown`, inductive by itself |
| `SpinnersAlwaysClose` | `SpinnersClose`, inductive under `IInv`: `InHand` keeps the two builders apart |
| `DependenciesFirst` | `DepsFirst`, an action property |

**`Runtime_proofs`.** About the six parts of `MCRuntime`, which extends
`ProcessManager` and instantiates the other five. A behaviour of the run chooses a
part and takes the steps of that part alone, so that each theorem about `MCSpec` is
one about every behaviour of the part. A lemma `...Moves` says that a step of the
composition is one of the part or leaves its variables alone, and `...Stays` that the
invariant does not notice the others. The assumptions are on constants only:

| Assumption | What it says, and why |
|---|---|
| `ManagerAssumption` | there is a rule; the scheduler is one of the goroutines that start processes, that of Run is not; a mutex nobody holds has no holder |
| `EventAssumption` | there is a client; its channel is buffered (sse.go:272, 16); a free mutex has no holder |
| `WatcherAssumption` | the capacity of the channel and the bound on saves are naturals; the capacity may be zero |
| `EnvAssumption` | there is an app; the features that set a layer are not the goroutine that rebuilds; an environment is not the mark of an absent process |
| `TunnelAssumption`, `StripeAssumption` | goroutines are told apart from the children they start, which are numbers; no process of the mode switch is both boot and the `.env` watch |

*The process manager.* The inductive invariant says of every goroutine, rule and
process by itself:

- `LockHeld`, `Vacant`: who is in `StartProcess` holds `startMu`, and once it has
  untracked its rule nobody enters a process there;
- `InHand`, `Tracked`: a process in the hands of a goroutine is not tracked; a tracked
  one is of the rule it is tracked under and no signal of hamr has reached it;
- `WaitInOrder`: the Wait goroutine has got no further than its process, and what it
  reports no signal of hamr had reached before it was reaped;
- `Listing`, `Listed`: once StopAll has made its list the scheduler starts nothing,
  and every process of its that is tracked is still on the list;
- `NotLost`, `Apart`: the properties, of one process and of two.

The point of the argument is the lemma `FreshRule`. StopAll does not take `startMu`,
so while it has a process in hand another goroutine may be about to spawn one under
the same name. Two leaders of one rule are excluded all the same, for StopAll comes
after the cancel, and `cmd.Start` refuses a context that is done.

*The events.* `LastStateKept` (the newest state event that was put in a client's queue
is still there, or is being replaced by a newer one, until the client takes it) speaks of a sender
between the eviction and its second attempt. That the second attempt finds room is
`SendLock`: who is between the two holds the client's `sendMu`, and the client can
only take from the queue. `ServesOpen` excludes the send on a closed channel: the
channels that are open are those of registered clients, and a sender that goes
through the clients serves registered ones only, as unsubscribing needs the write
lock of the broker. `EventInHand` says what a sender is carrying, `NothingYet` that a
queue is empty before its client subscribes.

Any number of goroutines may be in `handleDark`. Two toggles at once may store in one
order and broadcast in the other (section 6), and what the browsers show is then
anybody's guess, until a toggle begins while no other is under way. The history variable
`raced` says whether the last one to begin found another, and `BrowserShowsFilter`
speaks of when it did not: the browsers are put right by one toggle alone,
whatever they missed before. The invariant `FilterIInv` is about behaviours
in which nothing but the filter was broadcast: everything queued is about the filter
(`OnlyDark`), raced or not; and after a toggle that began alone, no other is under way
(`OneToggler`), and for every registered client the last event in its queue, or what it
shows if the queue is empty, is what the broker holds, or the toggle has yet to serve it
(`FilterOnItsWay`). The greeting is what makes it inductive: a client that subscribes
during a toggle finds the value it will be greeted with, or is served after.

*The watcher.* `WatcherIsAChangeFeed` is the safety half of the refinement the run
checks as `KeepsThePromise`: the initial state maps to an initial state of
`ChangeFeed`, and every step to a step of it or to a stutter. The mapping takes as owed the
saves that a debounce timer, its goroutine or the channel holds. Moving a save
from one to the next is a stutter, and it is one only if the save is not in
the next place already; so the invariant needs `OnePlace`: a save is in one place and
in the channel once. `NotAhead`, the loop has seen no save that was not made, and what is
under way is not newer than what the loop has seen, makes a replacement of a
timer's save a step of `ChangeFeed` (only a newer one replaces one), and leaves the
next save new. The lemmas
`OwedSaves`, `LoopEventOwed`, `ReceiveOwed`, `MovesOwed` and `DropsOwed` compute what
is owed after each kind of step. The other half, that what is owed is told in the
end, is liveness and stays with the run.

*The environment.* `RunsNewest` is what a process is given (`EnvNeverGoesBack` is
about the env given last), `StartsNewer` that a start in hand was merged no earlier
than what it replaces: `StartProcess` reads the merged environment under `startMu`,
so nobody can have started a newer one in between, by `EnvLock`. `FreshOrToCome` is
the loop invariant of `restartRunning`, for all features at once: what runs under a
name, or is about to, has the layer of each feature, or the loop of that feature has
yet to come to the name, or the name is one that the code passes over (`skipped`,
section 6). That a feature in `StartProcess` restarts the app its loop is at, and
gives it its own layer, are `InLoop` and the second part of `StartsNewer`.

*The tunnel.* `OneToggle` says that `busy` works as a lock: toggles and the resets of
the goroutines that wait for an exit exclude each other. Under it the steps are
sequential, and `Presser`, `ExitWatcher` and `Applying` say what each of them has done
by the program point it is at. The hard state is a tunnel that died while `busy` was
held by somebody else: its goroutine polls, and meanwhile the URL is that of a dead
tunnel. `UpToDate` excepts exactly that, and `Agreed` follows for the states in which
nobody is at work. `OneTunnel` is then that whatever is up is the tunnel or in the hands of
the toggle (`ExitWatcher`), of which there is one.

*The Stripe mode.* `SwitchLock` says who holds `switchMu` and where everybody else is,
among them the goroutine that watches `.env`, which exists once boot has returned.
`SwitchOrder` is the order of `switchTo`: the old listener is taken out before it is stopped, and
mode, listener and key are set together in one section; a switch that fails falls
back to the mock, whose secret is none. `OnlyListener` and `ExitWatched` tie
processes to fields: what runs is the listener, or the old or the new one in hand, and somebody
waits for the exit of the listener or is already dealing with it. `KeyFresh`,
`ListenEnv` and `Unedited` are about `.env`: the key that was read is the one in the
file, or an event or a timer that will read it again is pending (or was lost while
nobody watched, the history variable `unheard`).

| Theorem | Property |
|---|---|
| `TypeCorrect` | `TypeOK` |
| `OneTrackedLeader` | `OneLeader`, `NoLostProcess` |
| `StopsAreSilent` | `StoppedIsNotReported` |
| `NothingIsLeft` | `LeadersGone` |
| `ManagerIsSafe` | `Inv` |
| `BrokerIsSafe` | the broker's `NoSendOnClosed` and `LastStateKept`, for any number of toggles |
| `EventsArrive` | `BrokerInv`, with any number of toggles at once |
| `WatcherIsAChangeFeed` | `ChangeFeed`'s `Init` and `[][Next]_vars`: the safety half of `KeepsThePromise` |
| `EnvIsFresh` | `EnvInv` |
| `EnvOnlyGrows` | `EnvNeverGoesBack` |
| `TunnelIsSafe` | `TunnelInv` |
| `StripeIsSafe` | `StripeInv` |

**`Libs_proofs`.** About the hub and four more parts of `MCLibs`.

*The hub.* From `HubAssumption` (who has which session and subject). The
inductive invariant joins the four properties with

- `Unregistered`: a connection that has not registered is in no room and has no
  write pump, and once accepted has a channel;
- `CurrentIsLive`: the client under a session is of that session, is its newest,
  has an open channel, and its read pump has yet to unregister it;
- `NewestOfOwn`: what is remembered as newest did register, in that session.

That no send panics follows from `MapsAgree` and `CurrentIsLive` together: whoever
is reached through a session, a subject or a room is current
(`ReachedIsCurrent`), and the channel of a current client is open.

*The janitor.* From `JanitorAssumption` (the number of starts is a natural, and the
owner is not among the other stoppers). Two independent parts make up the inductive
invariant. `OneHolder`, `HolderMarks` and `MarkHeld` tie a task's marker to the one
run that holds it. `OwnersOwn` is about a generation that only its owner touched: it
is current until the owner's Stop takes it, then in the owner's hands, and its cron is
stopped, its scheduled runs and its immediate runs are drained in this order, all of
it before the next Start. `Orderly` supplies that whoever else cancels or stops a
generation has disturbed it.

*The group.* From `GroupAssumption` (the calls of Go are finitely many). What the code
counts, the proof compares with sets of calls: `SlotsCounted`, the slots held are the
calls that have one, and without a limit none is counted; `WaitedFor`, the wait group
counts the calls whose job has yet to be done; `MetricsCount`. `QueueOfBlocked` says of
the semaphore's queue that whoever waits in it is blocked, and is in it once; it is what
makes passing a slot on (from a call that gives it back to the head of the queue)
change the set and not its size (`Replacing`). `ClosedFirst` ties `Close` to them: it
has returned only when nothing was counted, and after it closed the group no call is
accepted, so the count stays zero.

*Concurrent jobs.* From `JobsAssumption` (no error is not an outcome). `FirstIsError`:
a job gives up only because an error was noted or the caller's own context ended, so the
first noted is an error itself and never the giving up it caused, unless the caller gave up first; `Noted` says that what a job that is done noted is how it ended,
`Returned` that the answer is what was noted.

*The flags.* From `FlagsAssumption` (bounds are naturals, nobody is no reload). The
versions of a rule are ordered: the cache, what a reload has listed or a Set has saved,
the table, the number of commits (`CacheBehind`, `ListedBehind`, `VersionRead`).
`UnderMu` says who holds `mu`. That a rule the cache has wrong will be noticed is not
inductive until it is said of what the cache is about to have: `StaleIsOwed`, a rule
which a reload under way will not put right is signalled to the watcher (a
notification, a connection being re-listened, a data version not yet read) or a reload that
has yet to list is owed. A reload of the poll may fail without a trace, so it does not
count. `FlagsOnlyGoForward` is the action property from the same order: a reload
installs what it listed under `mu`, and nobody else wrote the cache since.

| Theorem | Property |
|---|---|
| `TypeCorrect` | the hub's `TypeOK` |
| `HubNeverPanics` | `NeverPanics` |
| `HubMapsAgree` | `MapsAgree` |
| `ReconnectWins` | `NewestIsReached` |
| `ClosedHubIsEmpty` | `ClosedIsEmpty` |
| `HubIsSafe` | `Inv` |
| `TasksNeverOverlap` | the janitor's `NoOverlap` |
| `MarkersAreHeld` | `MarkerIsHeld` |
| `OwnersStopDrains` | `StopDrains` |
| `GroupIsSafe` | the group's `WithinLimit` and `ClosedIsQuiet` |
| `FirstFailureIsReported` | `FirstErrorWins` |
| `WorkersAreSafe` | `WorkersInv`: the last six together |
| `StaleFlagsAreNoticed` | `FlagsInv` |
| `FlagsOnlyGoForward` | `FlagsNeverGoBack` |

**`Serve_proofs`.** About the six other parts of `MCLibs`; each gives one conjunct of
`ServeInv`.

*The database.* From `DBAssumption` (at least one attempt; `ConnectContext` refuses
less). `PingsCounted`: an attempt is one ping, and the pool is open until it is handed
out or closed; so no way out of the loop, the one by the context included, leaves it
to nobody.

*The server.* `ErrorIsKept`: until `Start` has returned, the channel holds what the
listener said, and it has room for it; `ShutFirst`: what a shutdown has done by the
time a result is chosen. A nil then means that the listener ended because it was asked to.

*Sessions.* From `SessionsAssumption` (times are naturals). `StoreIsKnown`: a session
that was created and is not in the store was revoked, or was seen to have expired; what
was revoked is not in the store. `RequestsAreFair` is about requests at the point they
are: one that deletes has seen the session expired, and one that began after the logout
is still to read the store or has found nothing there. The extension and the logout may
overlap in any order, and the logout wins, as `Touch` only changes what is there.

*Uploads.* From `MediaAssumption` (there is a size; names are told apart). Only an
upload that is alone with its id promises anything, so the invariant is about what a
worker has done so far while it was alone (`SoFar`), what it has left in the store at a
new id (`OnlyItsOwn`) and what it left behind by how it ended (`LeftBehind`).
`AloneIsAlone` makes one worker's step harmless to what is said of another.
`FirstSpeaks` is the store's side: while no call has stored or removed anything yet and
no residue is left, all objects are what the first one is, which is why probing the first
suffices.

*The rate limiter.* From `LimiterAssumption` (rate and window are positive; the
clean-up age, the size, the time and the number of requests are naturals). The bound on any stretch of time
does not follow from the counts in the windows, which are reset; `PassesCounted` keeps
the link to what passed. Of a key with a window: `Enough`, what passed since it
began is its count, or the rate, unless the window counted a request whose answer was lost (`charged`);
and if nothing of the key was lost `Exact`, nothing passed that it did not count, and at most the rate passed in as much time before it began. Of a key with
none, `Rested`: at most the rate passed lately. A stretch of a window's length meets at
most two windows, which gives twice the rate. `OrdersAgree` says the order of the
store is that of the requests, less the keys dropped; the lemmas before it are about taking
a key out of an order and putting it at the end.

*Static files.* From `StaticAssumption` (the file of the root, the subdirectory and its
file are three). `Reported` says of one file what is still to come: if it is gone,
its removal is queued, or there is no object and none under way; if it is there, every
removal queued has a later event that reads the file again, and it is about to be read, being
uploaded as it is, or already in the bucket. The invariant claims it of every file
whose directory is watched (`Watching`) and that is not `unheard`; `Stages` says what
can be queued and watched before that. The lemmas follow an event from the end of
the queue (`EventsAdd`, `CoverAdds`, `RemovalAdds`) to its head (`OtherTaken`,
`RemovalTaken`, `CoverTaken`).

| Theorem | Property |
|---|---|
| `PoolIsNeverLeaked` | the `Inv` of `DBConnect`: `PoolIsOwned` |
| `NilIsClean` | the `Inv` of `AppServer`: `NilMeansClean` |
| `SessionsAreTheirs` | the `Inv` of `Sessions`: `LogoutIsFinal`, `NotBeforeItsTime` |
| `UploadsAreWhole` | the `Inv` of `MediaStore`: `RetryRepairs`, `FailureLeavesNothing`, `ProbeIsRight`, `ExistingIsKept`, `RemovedIsGone` |
| `RateIsKept` | the `Inv` of `RateLimit`: `TypeOK`, `TwiceAtMost`, `RefusedRightly`, `BusyKeysKept` |
| `BucketIsKept` | the `Inv` of `StaticSync`: `TypeOK`, `BucketFollows` |
| `ServeIsKept` | `ServeInv`: the six together |

**`DevServer_proofs`.** About three parts of `MCDevServer`.

*The gateway.* From `GatewayAssumption` (there is at least one run, and
"none" is no call). The inductive invariant is

    IInv == TypeOK /\ SwitchInOrder /\ CallsOK

`CallsOK` says of every call by itself what the four properties say, so a step of
one call leaves the others' alone. `SwitchInOrder` carries the argument: the switch
turns only while the run serves, the log is opened before the flag is set, and the
token is written after both. A handler reads the log first and the flag second
(mcpgateway.go:246), so one that finds the flag set could only have read a missing
log if the flag had been set without one; nothing but the order inside `SetActive`
excludes that.

*The loop over runs.* From `LoopAssumption` (bounds are naturals). `RestartIsWarm`: what is
in the restart channel, and what was promised to an agent, was granted after the
cooldown of the run it is about. `LoadedIsCurrent`: a run that starts, and one whose
watch has not been told of an edit, has the config on disk, unless an edit fell into
the time nobody watched (`blind`, see section 6).

*The actions.* From `ActionsAssumption` (a scope is a set of services). `OneWipe` is
what `StackExplained` needs of commands in flight: unless a command of an earlier run
or of a part of the stack got mixed in, at most one job is under way, a wipe of the whole stack asked of this run,
and with none the stack is up or its error shown. `DownStays`: after the stack was
taken down only a late job brings it up again. `JobsAreOfRuns` keeps types and runs of
jobs together.

| Theorem | Property |
|---|---|
| `TypeCorrect` | the gateway's `TypeOK` |
| `TokenOfTheRun` | `TokenIsLive` |
| `EveryToolAudited` | `RanIsAudited` |
| `GatewayIsSafe` | `Inv` |
| `LoopIsSafe` | `LoopInv` |
| `ActionsAreSafe` | `ActionsInv` |

**`TUI_proofs`.** About the five parts of `MCTUI`.

*The pane.* From `PaneAssumption` (a buffer has a line, a pane a row, and one of the
heights is a single row). `Tailing` and the drag are inductive with the types; the
lemmas compute where the bottom is after lines were added, dropped, cleared or shown at
another height, by the user's hand or by itself.

*The keys.* From `KeysAssumption` (a text less its last character is a text; "ctrl+c" is no
entry of the palette). `KeyEffect` is what all handlers have in common: whatever takes
a key opens at most one modal and sends at most one command, which for ctrl+c is the
quit. That the cursor stays in the list is a fact about the size of a set of entries
that match, before and after the query changed.

*The layout.* From `LayoutAssumption` (widths and heights are naturals). `Measured`
keeps the cursor among the matches; `BarsFill` and `ModalsFit` are then arithmetic of
the drawing. `RowsAgree`, the third conjunct of `LayoutInv`, folds over characters and stays
with TLC.

*The status bar.* From `StatusAssumption` (there is a job, each has a label, the
channel has room for an event). The bar is fed by a channel that evicts its oldest
event when full, by pushes of errors from several goroutines, and by results that come
apart from it; that it shows what is in flight must be said through all of them.
`ShownIsMeant`: what is shown is in flight, or its end is still on the channel or
was evicted; `StartsAreMeant` says the same of a start on the channel; `WorkIsShown`: what is in
flight is shown and no end of its label is coming, or its start is on the channel with
no such end behind it, or was evicted. The lemmas follow an event from its broadcast
to where the UI takes it. `RunsInTurn`: a run that is announced has done nothing, and its bus is empty.
`PushesFresh`: unless two overlapped, there is one push at a time and it carries the
errors there are. The exceptions are those of `TellsTheTruth` itself: an evicted event,
one of an earlier run that came late, and two runs of one target.

*The logs.* From `PaneAssumption` and `TabsAssumption` (no stack is called like the two
tabs that are always there); two stacks and four lines, as the run. The invariant is

    LogsIInv == ViewIsTab /\ LogsKept /\ SearchesFresh /\ SelectionIsPicked

`LogsKept` has what the selection needs: a buffer rises, so that lines and indexes are in the same
order (`RisingIsOneToOne`), and a range of indexes is a range of lines (`RangeStep`).
`SelectionIsPicked` ties the anchor to the line the picking began at; when that line
is evicted, both move to the first one that is left, which is the same by the order (`ShiftStep`).
`PushedIs` and `PushedOut` say what a line that is appended drops and where the rest is
then. The matches are a flattened sequence of sequences; what is in it (`Flattened`)
is an induction over the numbers, stated of a set of them (`NatBySteps`, from the least element of
a set). By it an occurrence that is still there is found again at its new place
(`ReaderStays`), which is what `ReaderIsLeft` needs.

| Theorem | Property |
|---|---|
| `PaneShowsTheNewest` | `PaneInv` |
| `KeysAreHeard` | `KeysInv` |
| `LayoutFits` | `BarsFill` and `ModalsFit` of `LayoutInv` |
| `BarTellsTheTruth` | `StatusInv` |
| `LogsTellTheTruth` | `LogsInv` |
| `ReaderIsLeft` | `ReaderUndisturbed`, an action property |

**Model-checked only.** All liveness, which is out of the proof system's reach
(it needs fairness and ENABLED): `RuntimeSettles`, the liveness half of
`KeepsThePromise`, and the like of the other runs. The invariants of `MCMocks`
(`MoneyInv`, `BillingInv`, `MocksInv`): it reaches a `RECURSIVE` operator through
`MboxFormat`, and its modules sum money with folds that take an operator.
`RowsAgree` of the terminal, which folds an operator over characters. `PortsInv`, about
functions of whole compose files, is not proved.

## 6. Where code and documentation disagree

Five runs expect a violation.

- `sched_runonly`: an error of a rule that has only a process is never cleared.
  `OnProcessExit` records one for any rule (devserver.go:352), but `handleEvent`
  calls `errorState.Clear` only for a rule with a build command (1148). After a
  crash and a good restart the rule stays on the error page, though
  `docs/guide/02-dev-workflow.md:203` says that the overlay "auto-clears on fix".
- `janitor_parent`: when the context given to `Start` is cancelled, the goroutine
  that waits for it clears `j.cron` (janitor.go:142); a `Stop` that follows finds
  nothing to drain and returns while a scheduled task runs, though the comment at
  150 says that it waits.
- `billing_retry`: a failed renewal that was paid on the page of its payment intent
  and is then retried makes a second charge on that intent
  (stripemock_subscription.go:606), though the intent "drives a single payment"
  (stripemock_paymentintent.go:11).
- `flags_sqlite`: the tick only remembers the first data version it reads
  (listen_sqlite.go:59). A commit between the load of `Start` and the first tick is
  not seen until the poll of five minutes, though staleness is said to be up to one
  second (`docs/guide/pkg/flags.md:255`, listen_sqlite.go:15).
- `audit_closed`: at the end of a run the proxy is closed, which does not wait for
  its handlers, and then the audit log. A tool that is running then leaves no line,
  though the comment at devserver.go:403 says that closing the log last prevents it.

Others were met while modelling. They are in the models, and the properties are
stated so as to except exactly them, or they lie in what the models abstract from.

*Runtime*

- A crashed process is reported after the unlock (process.go:319), so a rebuild
  may clear the rule's error before the late report sets it again.
- `q` and SIGINT cancel the context first, so the processes it kills are reported
  as crashed before the shutdown clears the callback (process.go:327); a build in
  flight fails and is recorded.
- A cancelled context kills the leader of a group only (process.go:267), and
  SIGKILL after a timeout is sent only while the leader has not been reaped (372):
  other members of the group may survive. `OneLeader` and `LeadersGone` speak of
  leaders.
- `restartRunning` passes over a name that another goroutine is just starting
  (envlayers.go:56), which then keeps the environment it had read before:
  the history variable `skipped`.
- `dropKey` reads the Stripe mode before a switch and sets the layer after it
  (stripelisten.go:276): `EnvMatchesMode` has no edits. An edit of `.env` made
  while boot waits for its listener or before `watchDotenv` has its watch is not heard, and
  if the watch fails none is (235): the history variable `unheard`.
- Two toggles of the dark filter at once may leave browsers with what the broker
  does not hold (actions.go:133), until one toggles alone, and other events may evict a
  `dark_filter` event: `BrowserShowsFilter` is about a last toggle that began alone
  (`raced`), without other events.

*Dev loop, actions, gateway and ports*

- The wait after a failed load does not watch `.pref.hamr.toml` (configwatch.go:48
  against `docs/guide/hamr-toml.md:42`), and an edit between the failure and the
  watch, or between a load and the watch of the run (devserver.go:904), is missed.
  A failed start cannot be retried with R, as configwatch.go:13 and
  `docs/guide/02-dev-workflow.md:50` have it: the loop returns the error.
- Wipe and restart of a stack have contexts of their own and outlive their run;
  errors are kept by stack, not by service; `Clear` broadcasts no event; the
  teardown does not wait for the goroutine of `RunMake`.
- When writing the token fails, the switch leaves the gateway enabled while the
  terminal shows it off. The removal of the token is deferred before the rest of
  the teardown, while the proxy still serves.
- A stopped service whose own port a running peer of the same project holds is not
  walked, so `up` fails (against `docs/guide/hamr-toml.md:178`). The app's port is
  probed and released before compose walks. Services behind a profile are walked
  too. Two services of one own port share an entry of the shift map; pairing ports
  by order may swap those of one service. A service that could not be read is lost
  from the override when another drifts, and keeps the whole of an earlier one in force
  when nothing does (`RunningKept` excepts both); a failed `down` removes the override.
- In a ports entry an IPv6 host loses its brackets, and an address without a port,
  a range and a variable are refused.

*Stripe mock and inboxes*

- The intent of a voided invoice can still be paid. A subscription past due that
  is paid on the page of its intent is canceled at the end of its period.
- Settings of payouts and of a price that are refused half way keep what came
  before the refusal (stripemock_balance.go:167, stripemock_price.go:275), against
  stripemock.go:131. A manual payment declined and confirmed again shows a failed
  row.
- A full cache of idempotency keys is dropped whole, with requests that still run
  (stripemock_events.go:142 against 102). Two codes of one text can be active after
  one is made active again (stripemock_coupon.go:329).
- Batches of webhooks of two handlers may arrive in either order, and a crash
  between the save and the sending loses them. A state file that cannot be written is
  warned of only: the request is answered and its events are sent. The platform's balance may go
  below zero. A list whose cursor is gone begins again at its first page.
- The scanner of the SMS file has a line limit (smsmock.go:107), a torn last
  line swallows the next one, and a mail whose text does not end in a newline
  gains one.

*Libraries*

- `Close` of the hub waits for the write pumps; a callback of a read pump may
  still run when it returns (hub.go:159).
- A `Stop` of the janitor that follows or races another returns without waiting
  for scheduled runs; `StopDrains` is about the goroutine that owns the janitor,
  while nobody else disturbs it.
- A job of an async group that calls `Go` on its own group at the limit may wait
  for itself (group.go:118).
- The limiter's window is called sliding (ratelimit.go:34) and is fixed. Its
  automatic cleanup without the same window may drop live ones; the cleanup of the
  PostgreSQL store cuts the window to whole seconds.
- A request of which the database's answer is lost may have been counted (ratelimit.go:281);
  with `FailClosed` it was turned away as well, so the rate is used up by less: `charged`.
- A session that one request extends between another's read of it as expired and
  its deletion is deleted all the same (session.go:150).
- When an overwrite of an image fails, the cleanup deletes variants of the earlier
  asset (image_store.go:222). It uses the context of the upload, so a cancelled
  upload cleans nothing. A save that fails to the caller but was applied leaves an
  object that blocks a retry. An old thumbnail may stay beside a new video
  (video_store.go:234 against 112), and the handler calls objects immutable and
  content-addressed though their keys are ids.
- The synced directory does not hear of edits between a file's upload and its watch
  (sync.go:62), leaves the objects of a directory that was moved away, does not retry
  a failed upload or deletion, and stops its first walk at a file that vanishes.

*Terminal*

- A restart of a run leaves the spinner's old chain of ticks beside the new one
  (model.go:373 against 194), and so does a drag that goes on at the edge (1238): one that
  is released and begun again within an interval has two chains. A drag held below the pane
  at the bottom has ended its chain (1224, 1267), and a line that then gives it room starts none
  until the mouse moves; `FlagMeansChain` promises the one direction that holds.
- Of two errors that arrive together the older may stay. The label of a make
  vanishes with the first of two that ends. A key is dropped when eight wait.
- A modal does not end a drag (1200 says it does), the help is a row too tall at
  eleven rows, and Escape ends the search before the selection, the other way
  round from what the help says. Highlights may be put inside an escape sequence
  (1062).

## 7. Not modelled

In the modelled parts: real time (settle times, the touch window, the length of
windows and timeouts); glob matching and new directories of the watcher; output
capture; the five seconds a reload waits for its target; what the JSON and form
handlers decode; products and the signatures of webhooks; conversion by ffmpeg,
signed URLs and serving of media; the evaluation of a flag for a subject. In all
of these the control is sequential and what is left out is a format or a
computation on one value.

Left out altogether, each with its reason in `PROJECT.json`: the gate, the reverse
proxy and the pages, views of state that is modelled elsewhere; the logs and the
parsing of the configuration; the command line and its generators, sequential
programs that write files; validation, translation, lint and templates, which are
pure functions; middleware and request helpers, one function call each; the
clients of the dev server; and the PostgreSQL hub, which is a file with a TODO.

## 8. Plan

Done, in this order: `DevScheduler`, `ProcessManager`, `InjectedEnv`, `Tunnel`,
`StripeSwitch`, `SSEBroker`, `WSHub`, `Janitor`, `Watcher` with `ChangeFeed`; then the
dev server's outer parts (`DevLoop`, `ComposePorts`, `ComposeFile`, `DevActions`,
`MCPGateway`), the mocks (`StripeMoney`, `StripeBilling`, `StripeDelivery`,
`StripeCatalog`, `MockInbox`, `MboxFormat`), the libraries (`AsyncGroup`, `AsyncJobs`,
`FeatureFlags`, `RateLimit`, `Sessions`, `AppServer`, `DBConnect`, `MediaStore`,
`StaticSync`) and the terminal (`TUIStatus`, `TUILogs`, `TUIViewport`, `TUIKeys`,
`TUILayout`); and the proofs of section 5.

Next, proofs: `PortsInv`; and of the mocks, the properties that do not sum
(`PaysOutOnce`, `StaysCanceled`, `KeysAreStored`).

Next, models: the products of the Stripe mock with their prices, the gate that
lets a phone on the tunnel in, and the composition of `DevScheduler` with
`ProcessManager`, in which a crash report and a rebuild would meet.
