---------------------------- MODULE DevScheduler ----------------------------
(***************************************************************************)
(* Runner.Run of `hamr dev` (internal/devserver/devserver.go): the initial *)
(* build, the event loop, the single scheduler goroutine that drains the   *)
(* dirty set in dependency order, and the shutdown that unwinds them.      *)
(*                                                                         *)
(* Goroutines: the one in Run (`main`), the scheduler (`sched`), callers   *)
(* of DevActions.requestRun (HTTP handlers, RebuildAll), and the Wait      *)
(* goroutines of crashed processes.  A step is what a goroutine does       *)
(* between two points at which another one can observe it.                 *)
(***************************************************************************)
EXTENDS Naturals, FiniteSets

CONSTANTS
    Rules,      \* [[dev.watch]] rules of hamr.toml
    Depends,    \* Depends[r]: the rules r depends on
    CmdRules,   \* rules with a build command (`cmd`)
    RunRules,   \* rules with a long-running process (`run`)
    Flaky,      \* rules whose command or process may fail
    Callers,    \* goroutines that call requestRun
    NoRule      \* "the scheduler is handling no rule"

ASSUME RulesAssumption ==
    /\ IsFiniteSet(Rules) /\ NoRule \notin Rules
    /\ Depends \in [Rules -> SUBSET Rules]
    /\ CmdRules \subseteq Rules /\ RunRules \subseteq Rules /\ Flaky \subseteq Rules

(* The positions TopologicalOrder may give the rules.  Kahn's algorithm    *)
(* ranges over Go maps, so any order that respects Depends can come out.   *)
Orders == { o \in [Rules -> 1 .. Cardinality(Rules)] :
              /\ \A p \in 1 .. Cardinality(Rules) : \E r \in Rules : o[r] = p
              /\ \A r \in Rules : \A d \in Depends[r] : o[d] < o[r] }

VARIABLES
    order,      \* graph.TopologicalOrder(), computed once per Run
    main,       \* where the goroutine of Run is
    at,         \* position of the initial build in order
    failed,     \* the initial build's `failed` map
    watching,   \* the file watcher's loop is running
    feed,       \* rules with a file event not yet taken from watcher.Events()
    cancelled,  \* runCtx is done
    restartReq, \* restartCh or configReloadCh holds a request (capacity 1)
    restarting, \* Run unwinds only to be run again
    dirty,      \* the dirty map
    token,      \* scheduleCh holds its one token
    todo,       \* todo[c]: rules caller c has yet to enqueue
    marked,     \* marked[c]: c set dirty and has not offered its token yet
    sched, cur, \* where the scheduler goroutine is, and the rule it handles
    running,    \* graph nodes whose done channel is open
    live,       \* rules with a tracked process
    callback,   \* pm.OnProcessExit is set
    exiting,    \* crashed processes whose OnProcessExit call is still to come
    errs,       \* ErrorState
    broken,     \* rules whose last finished build failed (history)
    spinning,   \* building broadcast, no build_ok / build_error since
    farewell,   \* the shutdown event has been broadcast
    owed,       \* rules changed or requested since their last build began
    editing     \* the developer may still change files or request runs

mainVars  == <<order, main, at, failed>>
ctlVars   == <<watching, cancelled, restartReq, restarting, callback, farewell>>
queueVars == <<dirty, token, feed, todo, marked>>
schedVars == <<sched, cur, running>>
outVars   == <<live, exiting, errs, broken, spinning>>
envVars   == <<owed, editing>>
vars == <<mainVars, ctlVars, queueVars, schedVars, outVars, envVars>>

TypeOK ==
    /\ order \in Orders
    /\ main \in {"next", "cmd", "run", "loop", "notify", "unwind", "clear", "wait", "down"}
    /\ at \in 1 .. Cardinality(Rules) + 1
    /\ sched \in {"none", "idle", "batch", "drain", "pick", "wait", "cmd", "run", "exited"}
    /\ cur \in Rules \cup {NoRule}
    /\ failed \subseteq Rules /\ feed \subseteq Rules /\ dirty \subseteq Rules
    /\ running \subseteq Rules /\ live \subseteq Rules /\ exiting \subseteq Rules
    /\ errs \subseteq Rules /\ broken \subseteq Rules
    /\ spinning \subseteq Rules /\ owed \subseteq Rules
    /\ watching \in BOOLEAN /\ cancelled \in BOOLEAN /\ restartReq \in BOOLEAN
    /\ restarting \in BOOLEAN /\ token \in BOOLEAN /\ callback \in BOOLEAN
    /\ farewell \in BOOLEAN /\ editing \in BOOLEAN
    /\ todo \in [Callers -> SUBSET Rules]
    /\ marked \in [Callers -> BOOLEAN]

(* Run begins: every rule is owed its initial build.  runDevLoop calls Run *)
(* again, with a new Runner, when it returns ErrRestart or ErrConfigReload.*)
Init ==
    /\ order \in Orders /\ main = "next" /\ at = 1 /\ failed = {}
    /\ watching = FALSE /\ feed = {} /\ cancelled = FALSE
    /\ restartReq = FALSE /\ restarting = FALSE
    /\ dirty = {} /\ token = FALSE
    /\ todo = [c \in Callers |-> {}] /\ marked = [c \in Callers |-> FALSE]
    /\ sched = "none" /\ cur = NoRule /\ running = {}
    /\ live = {} /\ callback = TRUE /\ exiting = {} /\ errs = {}
    /\ broken = {} /\ spinning = {} /\ farewell = FALSE
    /\ owed = Rules /\ editing = TRUE

-----------------------------------------------------------------------------
(* Commands and processes, as the initial build and handleEvent use them.  *)

(* Broadcast building, then RunCommand: from here on it reads the sources. *)
BeginCmd(r) ==
    /\ spinning' = spinning \cup {r}
    /\ owed' = owed \ {r}

(* RunCommand returned nil; clears says whether the caller clears errors.  *)
CmdOK(r, clears) ==
    /\ errs' = IF clears THEN errs \ {r} ELSE errs
    /\ broken' = broken \ {r}
    /\ spinning' = spinning \ {r}

(* RunCommand failed, or runCtx's cancellation killed it.                  *)
CmdFailed(r) ==
    /\ r \in Flaky \/ cancelled
    /\ errs' = errs \cup {r}
    /\ broken' = broken \cup {r}
    /\ spinning' = spinning \ {r}

(* StartProcess: the old process is stopped first; exec refuses to start   *)
(* under a cancelled context.  A failed start is only logged.              *)
StartProcess(r) ==
    \/ ~cancelled /\ live' = live \cup {r}
    \/ (r \in Flaky \/ cancelled) /\ live' = live \ {r}

-----------------------------------------------------------------------------
(* The goroutine of Run.                                                   *)

Goto(m) == main' = m /\ UNCHANGED <<order, at, failed>>
Building == CHOOSE r \in Rules : order[r] = at

(* Initial build, one rule at a time.                                      *)
BootCancelled ==
    /\ main = "next" /\ at <= Cardinality(Rules) /\ cancelled
    /\ Goto("unwind")
    /\ UNCHANGED <<ctlVars, queueVars, schedVars, outVars, envVars>>

(* Mutant: a skipped rule takes the next one with it.                      *)
BootSkipTwice ==
    /\ main = "next" /\ at <= Cardinality(Rules) /\ ~cancelled
    /\ Depends[Building] \cap failed # {}
    /\ failed' = failed \cup {Building} /\ at' = at + 2
    /\ owed' = owed \ {Building}
    /\ UNCHANGED <<order, main, ctlVars, queueVars, schedVars, outVars, editing>>

BootSkip ==
    /\ main = "next" /\ at <= Cardinality(Rules) /\ ~cancelled
    /\ Depends[Building] \cap failed # {}
    /\ failed' = failed \cup {Building} /\ at' = at + 1
    /\ owed' = owed \ {Building}
    /\ UNCHANGED <<order, main, ctlVars, queueVars, schedVars, outVars, editing>>

BootBegin ==
    /\ main = "next" /\ at <= Cardinality(Rules) /\ ~cancelled
    /\ Depends[Building] \cap failed = {}
    /\ IF Building \in CmdRules
          THEN Goto("cmd") /\ BeginCmd(Building)
          ELSE Goto("run") /\ owed' = owed \ {Building} /\ UNCHANGED spinning
    /\ UNCHANGED <<ctlVars, queueVars, schedVars, live, exiting, errs, broken, editing>>

BootCmdDone ==
    /\ main = "cmd"
    /\ \/ CmdOK(Building, FALSE) /\ Goto("run")
       \/ /\ CmdFailed(Building)
          /\ failed' = failed \cup {Building} /\ at' = at + 1
          /\ main' = "next" /\ UNCHANGED order
    /\ UNCHANGED <<ctlVars, queueVars, schedVars, live, exiting, envVars>>

BootRun ==
    /\ main = "run"
    /\ IF Building \in RunRules THEN StartProcess(Building) ELSE UNCHANGED live
    /\ main' = "next" /\ at' = at + 1
    /\ UNCHANGED <<order, failed, ctlVars, queueVars, schedVars,
                   exiting, errs, broken, spinning, envVars>>

(* Start the watcher, become ready, start the scheduler goroutine.  With   *)
(* no memory of what changed before, the watcher reports only later edits. *)
StartWatching ==
    /\ main = "next" /\ at > Cardinality(Rules)
    /\ \/ watching' = TRUE /\ sched' = "idle" /\ Goto("loop")
       \/ Goto("unwind") /\ UNCHANGED <<watching, sched>>    \* NewWatcher or Start failed
    /\ UNCHANGED <<cancelled, restartReq, restarting, callback, farewell,
                   queueVars, cur, running, outVars, envVars>>

(* The event loop: one ready case of its select, any of them.              *)
LoopTakeEvent(r) ==
    /\ main = "loop" /\ r \in feed
    /\ feed' = feed \ {r}
    /\ dirty' = dirty \cup {r}
    /\ Goto("notify")
    /\ UNCHANGED <<ctlVars, token, todo, marked, schedVars, outVars, envVars>>

LoopNotify ==
    /\ main = "notify"
    /\ token' = TRUE
    /\ Goto("loop")
    /\ UNCHANGED <<ctlVars, dirty, feed, todo, marked, schedVars, outVars, envVars>>

LoopRestart ==
    /\ main = "loop" /\ restartReq
    /\ restartReq' = FALSE /\ restarting' = TRUE
    /\ Goto("unwind")
    /\ UNCHANGED <<watching, cancelled, callback, farewell,
                   queueVars, schedVars, outVars, envVars>>

LoopCancelled ==
    /\ main = "loop" /\ cancelled
    /\ Goto("unwind")
    /\ UNCHANGED <<ctlVars, queueVars, schedVars, outVars, envVars>>

(* The deferred shutdown: tell the browser unless restarting; clear the    *)
(* exit callback; cancel and stop the watcher; wait for the scheduler;     *)
(* StopAll.                                                                *)
Farewell ==
    /\ main = "unwind"
    /\ farewell' = ~restarting
    /\ Goto("clear")
    /\ UNCHANGED <<watching, cancelled, restartReq, restarting, callback,
                   queueVars, schedVars, outVars, envVars>>

ClearCallbacksAndCancel ==
    /\ main = "clear"
    /\ callback' = FALSE /\ cancelled' = TRUE /\ watching' = FALSE
    /\ feed' = {}
    /\ Goto("wait")
    /\ UNCHANGED <<restartReq, restarting, farewell, dirty, token, todo, marked,
                   schedVars, outVars, envVars>>

(* Mutant: StopAll runs without waiting for the scheduler goroutine.       *)
StopAllAtOnce ==
    /\ main = "wait"
    /\ live' = {}
    /\ Goto("down")
    /\ UNCHANGED <<ctlVars, queueVars, schedVars, exiting, errs, broken, spinning, envVars>>

WaitAndStopAll ==
    /\ main = "wait" /\ sched \in {"none", "exited"}
    /\ live' = {}
    /\ Goto("down")
    /\ UNCHANGED <<ctlVars, queueVars, schedVars, exiting, errs, broken, spinning, envVars>>

MainStep ==
    \/ BootCancelled \/ BootSkip \/ BootBegin \/ BootCmdDone \/ BootRun
    \/ StartWatching \/ (\E r \in Rules : LoopTakeEvent(r)) \/ LoopNotify
    \/ Farewell \/ ClearCallbacksAndCancel \/ WaitAndStopAll

-----------------------------------------------------------------------------
(* requestRun: mark the rule, then offer the token, as two steps.          *)

(* POST /__hamr/rule/{name}/run asks for one rule at any time; RebuildAll  *)
(* (hotkey r, only once ready) asks for all of them, one after the other.  *)
Ask(c) ==
    /\ editing /\ main # "down" /\ todo[c] = {} /\ ~marked[c]
    /\ \E S \in {{r} : r \in Rules} \cup (IF sched = "none" THEN {} ELSE {Rules}) :
          todo' = [todo EXCEPT ![c] = S]
    /\ UNCHANGED <<mainVars, ctlVars, dirty, token, feed, marked, schedVars, outVars, envVars>>

(* Mutant: the rule is marked but nobody wakes the scheduler.              *)
MarkDirtySilently(c) ==
    /\ ~marked[c]
    /\ \E r \in todo[c] :
          /\ dirty' = dirty \cup {r}
          /\ owed' = owed \cup {r}
          /\ todo' = [todo EXCEPT ![c] = @ \ {r}]
    /\ UNCHANGED <<mainVars, ctlVars, token, feed, marked, schedVars, outVars, editing>>

MarkDirty(c) ==
    /\ ~marked[c]
    /\ \E r \in todo[c] :
          /\ dirty' = dirty \cup {r}
          /\ owed' = owed \cup {r}
          /\ todo' = [todo EXCEPT ![c] = @ \ {r}]
    /\ marked' = [marked EXCEPT ![c] = TRUE]
    /\ UNCHANGED <<mainVars, ctlVars, token, feed, schedVars, outVars, editing>>

OfferToken(c) ==
    /\ marked[c]
    /\ marked' = [marked EXCEPT ![c] = FALSE]
    /\ token' = TRUE
    /\ UNCHANGED <<mainVars, ctlVars, dirty, feed, todo, schedVars, outVars, envVars>>

-----------------------------------------------------------------------------
(* The scheduler goroutine.                                                *)

SchedGoto(s) == sched' = s /\ UNCHANGED <<cur, running>>

TakeToken ==
    /\ sched = "idle" /\ token
    /\ token' = FALSE
    /\ SchedGoto("batch")
    /\ UNCHANGED <<mainVars, ctlVars, dirty, feed, todo, marked, outVars, envVars>>

(* The quiet window: another token restarts the timer.                     *)
Absorb ==
    /\ sched = "batch" /\ token
    /\ token' = FALSE
    /\ UNCHANGED <<mainVars, ctlVars, dirty, feed, todo, marked, schedVars, outVars, envVars>>

BatchOver ==
    /\ sched = "batch"
    /\ SchedGoto("drain")
    /\ UNCHANGED <<mainVars, ctlVars, queueVars, outVars, envVars>>

(* Mutant: the queue is drained to the end before the context is looked at.*)
DrainNeverStops == FALSE

(* The check at the top of the drain loop finds runCtx done.               *)
DrainStops == sched = "drain" /\ cancelled

(* So does the select on the token or in the quiet window.                 *)
SchedExit ==
    /\ DrainStops \/ (sched \in {"idle", "batch"} /\ cancelled)
    /\ SchedGoto("exited")
    /\ UNCHANGED <<mainVars, ctlVars, queueVars, outVars, envVars>>

DrainCheck ==
    /\ sched = "drain" /\ ~DrainStops
    /\ SchedGoto("pick")
    /\ UNCHANGED <<mainVars, ctlVars, queueVars, outVars, envVars>>

(* A dirty rule none of whose direct dependencies is dirty.                *)
Ready(r) == r \in dirty /\ Depends[r] \cap dirty = {}

(* Mutant: any rule without a dirty direct dependency is taken.            *)
PickAny(r) ==
    /\ sched = "pick" /\ Ready(r)
    /\ dirty' = dirty \ {r}
    /\ cur' = r /\ running' = running \cup {r} /\ sched' = "wait"
    /\ UNCHANGED <<mainVars, ctlVars, token, feed, todo, marked, outVars, envVars>>

(* Mutant: building is broadcast on entry, before the dependency wait.     *)
PickAndAnnounce(r) ==
    /\ sched = "pick" /\ Ready(r)
    /\ \A s \in Rules : Ready(s) => order[r] <= order[s]
    /\ dirty' = dirty \ {r}
    /\ cur' = r /\ running' = running \cup {r} /\ sched' = "wait"
    /\ spinning' = spinning \cup {r}
    /\ UNCHANGED <<mainVars, ctlVars, token, feed, todo, marked,
                   live, exiting, errs, broken, envVars>>

(* The first such rule in order, taken under dirtyMu; handleEvent then     *)
(* marks it running in the graph.                                          *)
Pick(r) ==
    /\ sched = "pick" /\ Ready(r)
    /\ \A s \in Rules : Ready(s) => order[r] <= order[s]
    /\ dirty' = dirty \ {r}
    /\ cur' = r /\ running' = running \cup {r} /\ sched' = "wait"
    /\ UNCHANGED <<mainVars, ctlVars, token, feed, todo, marked, outVars, envVars>>

Drained ==
    /\ sched = "pick" /\ \A r \in Rules : ~Ready(r)
    /\ SchedGoto("idle")
    /\ UNCHANGED <<mainVars, ctlVars, queueVars, outVars, envVars>>

(* Mutant: the error is cleared when the build begins, not when it is good.*)
DepsDoneClearsError ==
    /\ sched = "wait" /\ Depends[cur] \cap running = {}
    /\ errs' = errs \ {cur}
    /\ IF cur \in CmdRules
          THEN SchedGoto("cmd") /\ BeginCmd(cur)
          ELSE SchedGoto("run") /\ owed' = owed \ {cur} /\ UNCHANGED spinning
    /\ UNCHANGED <<mainVars, ctlVars, queueVars, live, exiting, broken, editing>>

(* handleEvent after WaitForDeps: build, unless the rule has no command.   *)
DepsDone ==
    /\ sched = "wait" /\ Depends[cur] \cap running = {}
    /\ IF cur \in CmdRules
          THEN SchedGoto("cmd") /\ BeginCmd(cur)
          ELSE SchedGoto("run") /\ owed' = owed \ {cur} /\ UNCHANGED spinning
    /\ UNCHANGED <<mainVars, ctlVars, queueVars, live, exiting, errs, broken, editing>>

(* The deferred MarkDone, and back to the top of the drain loop.           *)
Return ==
    /\ running' = running \ {cur}
    /\ cur' = NoRule /\ sched' = "drain"

DepsCancelled ==
    /\ sched = "wait" /\ cancelled /\ Depends[cur] # {}
    /\ Return
    /\ UNCHANGED <<mainVars, ctlVars, queueVars, outVars, envVars>>

(* Mutant: the rule leaves the dirty map after its build, not before.      *)
CmdDoneThenDelete ==
    /\ sched = "cmd"
    /\ \/ CmdOK(cur, TRUE) /\ SchedGoto("run")
       \/ CmdFailed(cur) /\ Return
    /\ dirty' = dirty \ {cur}
    /\ UNCHANGED <<mainVars, ctlVars, token, feed, todo, marked, live, exiting, envVars>>

CmdDone ==
    /\ sched = "cmd"
    /\ \/ CmdOK(cur, TRUE) /\ SchedGoto("run")
       \/ CmdFailed(cur) /\ Return
    /\ UNCHANGED <<mainVars, ctlVars, queueVars, live, exiting, envVars>>

(* Mutant: the deferred MarkDone is missing.                               *)
RestartWithoutMarkDone ==
    /\ sched = "run"
    /\ IF cur \in RunRules THEN StartProcess(cur) ELSE UNCHANGED live
    /\ cur' = NoRule /\ sched' = "drain"
    /\ UNCHANGED <<mainVars, ctlVars, queueVars, running, exiting, errs, broken, spinning, envVars>>

(* Restart the process, wait for the target and broadcast the reload.      *)
RestartAndReload ==
    /\ sched = "run"
    /\ IF cur \in RunRules THEN StartProcess(cur) ELSE UNCHANGED live
    /\ Return
    /\ UNCHANGED <<mainVars, ctlVars, queueVars, exiting, errs, broken, spinning, envVars>>

SchedStep ==
    \/ TakeToken \/ Absorb \/ BatchOver \/ DrainCheck \/ Drained
    \/ (\E r \in Rules : Pick(r))
    \/ DepsDone \/ DepsCancelled \/ CmdDone \/ RestartAndReload

-----------------------------------------------------------------------------
(* Processes that die by themselves, the developer, and the signals.       *)

(* The Wait goroutine finds its process still tracked and, under pm.mu,    *)
(* reads the callback it will call after unlocking.  Cancelling runCtx     *)
(* kills every process too.                                                *)
Crash(r) ==
    /\ r \in live /\ (r \in Flaky \/ cancelled)
    /\ live' = live \ {r}
    /\ exiting' = IF callback THEN exiting \cup {r} ELSE exiting
    /\ UNCHANGED <<mainVars, ctlVars, queueVars, schedVars, errs, broken, spinning, envVars>>

ReportExit(r) ==
    /\ r \in exiting
    /\ exiting' = exiting \ {r}
    /\ errs' = errs \cup {r}
    /\ UNCHANGED <<mainVars, ctlVars, queueVars, schedVars, live, broken, spinning, envVars>>

(* A watched file changes and its debounce timer delivers an event.        *)
FileChanged(r) ==
    /\ editing /\ watching
    /\ feed' = feed \cup {r}
    /\ owed' = owed \cup {r}
    /\ UNCHANGED <<mainVars, ctlVars, dirty, token, todo, marked, schedVars, outVars, editing>>

(* hamr.toml changes, R or dev.restart: honoured only once ready.          *)
RequestRestart ==
    /\ editing /\ sched # "none" /\ main # "down"
    /\ restartReq' = TRUE
    /\ UNCHANGED <<mainVars, watching, cancelled, restarting, callback, farewell,
                   queueVars, schedVars, outVars, envVars>>

(* q, at any time, or SIGINT/SIGTERM through the parent context.           *)
Quit ==
    /\ main # "down"
    /\ cancelled' = TRUE
    /\ UNCHANGED <<mainVars, watching, restartReq, restarting, callback, farewell,
                   queueVars, schedVars, outVars, envVars>>

StopEditing ==
    /\ editing' = FALSE
    /\ UNCHANGED <<mainVars, ctlVars, queueVars, schedVars, outVars, owed>>

Next ==
    \/ MainStep \/ LoopRestart \/ LoopCancelled
    \/ SchedStep \/ SchedExit
    \/ \E c \in Callers : Ask(c) \/ MarkDirty(c) \/ OfferToken(c)
    \/ \E r \in Rules : Crash(r) \/ ReportExit(r) \/ FileChanged(r)
    \/ RequestRestart \/ Quit \/ StopEditing

(* Goroutines that can take a step take one; commands end.  A select picks *)
(* at random among its ready cases, so one that is ready again and again   *)
(* is taken in the end: strong fairness for the cases that compete.        *)
Fairness ==
    /\ WF_vars(MainStep) /\ SF_vars(LoopCancelled)
    /\ WF_vars(SchedStep) /\ SF_vars(SchedExit)
    /\ \A c \in Callers : WF_vars(MarkDirty(c)) /\ WF_vars(OfferToken(c))

Spec == Init /\ [][Next]_vars /\ Fairness

-----------------------------------------------------------------------------
(* A caller or the event loop is between marking a rule and offering the   *)
(* token.                                                                  *)
Notifying == main = "notify" \/ \E c \in Callers : marked[c]

(* No lost wake-up: an idle scheduler with work in the dirty map has a     *)
(* token waiting, or someone about to offer one (the non-blocking send     *)
(* after dirtyMu is released, devserver.go 1020-1031 and 427-435).         *)
NoLostWakeup ==
    (sched \in {"none", "idle"} /\ dirty # {}) => (token \/ Notifying)

(* No lost change: a rule changed or requested since its last build began  *)
(* is still on its way to one: in the event feed, in the dirty map or in   *)
(* the scheduler's hands, unless the server is going down; the initial     *)
(* build covers the rules it has not reached.                              *)
OwedIsQueued ==
    \A r \in owed :
        \/ r \in feed \cup dirty
        \/ cur = r /\ sched = "wait"
        \/ main = "next" /\ order[r] >= at
        \/ main \in {"cmd", "run"} /\ order[r] > at
        \/ cancelled \/ main \in {"unwind", "clear", "wait", "down"}

(* Only one goroutine builds at a time, so WaitForDeps never blocks: the   *)
(* dependencies of the rule in hand are done (graph.go 40-67).             *)
DepsNeverBlock == sched = "wait" => Depends[cur] \cap running = {}

(* Everything r depends on, directly or not.                               *)
Below[r \in Rules] == Depends[r] \cup UNION { Below[d] : d \in Depends[r] }

(* Dependencies first: the drain hands a rule to handleEvent only when     *)
(* nothing it depends on, even indirectly, still waits in the dirty map,   *)
(* though the code compares direct dependencies only (972-982).            *)
DepsFirst == [][sched = "pick" /\ sched' = "wait" => Below[cur'] \cap dirty = {}]_vars

(* Every building broadcast is closed by build_ok or build_error before    *)
(* anything else is built: no spinner is left behind (825-836, 1137-1149). *)
SpinnersClose ==
    spinning = (IF main = "cmd" THEN {Building} ELSE {}) \cup (IF sched = "cmd" THEN {cur} ELSE {})

(* A rule whose last build failed is on the error page, whatever crashes   *)
(* and restarts happened in between.                                       *)
FailureShown == broken \subseteq errs

(* After Run returns nothing of it is left: the scheduler has exited and   *)
(* no process is tracked, so StopAll missed none.                          *)
QuietWhenDown == main = "down" => sched \in {"none", "exited"} /\ live = {}

(* The invariant: types, a WaitForDeps that never blocks, and nothing left *)
(* after Run.                                                              *)
Inv == TypeOK /\ DepsNeverBlock /\ QuietWhenDown

(* The error page tells the truth once the server is quiet: a rule listed  *)
(* there has a failed build or a dead process (errorstate.go 9-11).        *)
Quiet == sched = "idle" /\ main = "loop" /\ dirty = {} /\ feed = {} /\ exiting = {}
ErrorsExplained == Quiet => \A r \in errs : r \in broken \/ r \notin live

(* When the developer stops, everything changed or requested since it was  *)
(* last built is built, or the server goes down.                           *)
EventuallyBuilt == ~editing ~> (owed = {} \/ main = "down" \/ cancelled)

(* A cancelled Run ends, even while runs keep being requested (945-954).   *)
ShutdownCompletes == cancelled ~> main = "down"

-----------------------------------------------------------------------------
(* What the runs give Depends: a chain gen <- tpl <- app, where app depends*)
(* on gen only through tpl; gen <- app where there is no tpl.              *)
ChainDepends ==
    [r \in Rules |-> CASE r = "gen" -> {}
                       [] r = "app" /\ "tpl" \in Rules -> {"tpl"}
                       [] OTHER -> Rules \cap {"gen"}]
=============================================================================
