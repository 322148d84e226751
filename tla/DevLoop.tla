------------------------------- MODULE DevLoop ---------------------------------
(***************************************************************************)
(* The life of `hamr dev` from one run to the next: the loop that loads    *)
(* the config and runs the server until it is reloaded, restarted or quit  *)
(* (internal/cli/cmd/dev.go), the wait for a broken config to be mended    *)
(* (internal/devserver/configwatch.go), and who listens to hotkeys, edits  *)
(* and restart requests in each phase of a run (devserver.go). The config  *)
(* is two files, hamr.toml and the developer's .pref.hamr.toml beside it.  *)
(***************************************************************************)
EXTENDS Integers, Sequences, FiniteSets

CONSTANTS
    Cap,        \* capacity of the channel of hotkeys
    MaxKeys,    \* bound: keys pressed
    MaxEdits,   \* bound: edits of the config
    MaxAsks     \* bound: restarts asked for through the MCP gateway

VARIABLES
    phase,      \* where the loop and the run are
    why,        \* how the run ended
    gen,        \* runs started
    good,       \* the files that are free of errors
    version,    \* edits so far
    tried,      \* the version the last LoadConfig read
    watching,   \* who watches the files: "nobody", "starting", "run", "wait"
    notice,     \* edited files the watch has not been told of
    blind,      \* a file was edited since the load while nobody watched
    reload,     \* configReloadCh of the run
    restart,    \* restartCh of the run
    keys,       \* the channel of hotkeys
    drain,      \* the goroutine that takes hotkeys during startup is there
    ready,      \* markReady was called
    warm,       \* the run is older than restartCooldown
    canceled,   \* runCtx is over
    signaled,   \* SIGINT or SIGTERM came
    ask,        \* the run an MCP caller was promised a restart of, 0 none
    count       \* keys and asks so far

vars == <<phase, why, gen, good, version, tried, watching, notice, blind, reload, restart, keys,
          drain, ready, warm, canceled, signaled, ask, count>>

Files == {"hamr.toml", ".pref.hamr.toml"}
Hotkeys == {"quit", "restart", "rebuild"}

Init ==
    /\ phase = "load"
    /\ why = "nil"
    /\ gen = 0
    /\ good \in {Files, Files \ {"hamr.toml"}}
    /\ version = 0 /\ tried = 0
    /\ watching = "nobody" /\ notice = {} /\ blind = FALSE
    /\ reload = FALSE /\ restart = FALSE
    /\ keys = <<>>
    /\ drain = FALSE /\ ready = FALSE /\ warm = FALSE
    /\ canceled = FALSE /\ signaled = FALSE
    /\ ask = 0
    /\ count = [keys |-> 0, asks |-> 0]

world == <<good, version, signaled, ask, count>>

(* Mutant: the restart channel outlives the run. *)
LoadKeepingRequests ==
    /\ phase = "load"
    /\ tried' = version
    /\ blind' = FALSE
    /\ IF good = Files
       THEN /\ phase' = "startup"
            /\ gen' = gen + 1
            /\ reload' = FALSE /\ ready' = FALSE /\ warm' = FALSE
            /\ drain' = TRUE
            /\ canceled' = signaled
       ELSE /\ phase' = "broken"
            /\ UNCHANGED <<gen, reload, ready, warm, drain, canceled>>
    /\ UNCHANGED <<why, watching, notice, restart, keys, world>>

\* LoadConfig, and a new Runner with channels of its own when it succeeds.
Load ==
    /\ phase = "load"
    /\ tried' = version
    /\ blind' = FALSE
    /\ IF good = Files
       THEN /\ phase' = "startup"
            /\ gen' = gen + 1
            /\ reload' = FALSE /\ restart' = FALSE /\ ready' = FALSE /\ warm' = FALSE
            /\ drain' = TRUE
            /\ canceled' = signaled
       ELSE /\ phase' = "broken"
            /\ UNCHANGED <<gen, reload, restart, ready, warm, drain, canceled>>
    /\ UNCHANGED <<why, watching, notice, keys, world>>

---------------------------------------------------------------------------
\* WaitForConfigChangeOrQuit.

\* The directory is watched from here on.
WatchForFix ==
    /\ phase = "broken"
    /\ phase' = "wait"
    /\ watching' = "wait" /\ notice' = {}
    /\ UNCHANGED <<why, gen, tried, blind, reload, restart, keys, drain, ready, warm, canceled, world>>

WaitEndsAs(p) ==
    /\ phase' = p
    /\ watching' = "nobody" /\ notice' = {}
    /\ UNCHANGED <<why, gen, tried, blind, reload, restart, drain, ready, warm, canceled, world>>

(* Mutant: the wait reads the hotkeys only when it finds R there. *)
WaitKeyRestartOnly ==
    /\ phase = "wait" /\ keys # <<>> /\ Head(keys) = "restart"
    /\ keys' = Tail(keys)
    /\ WaitEndsAs("load")

\* Quit and restart end the wait; every other key is consumed.
WaitKey ==
    /\ phase = "wait" /\ keys # <<>>
    /\ keys' = Tail(keys)
    /\ CASE Head(keys) = "quit" -> WaitEndsAs("done")
         [] Head(keys) = "restart" -> WaitEndsAs("load")
         [] OTHER -> UNCHANGED <<phase, watching, notice, why, gen, tried, blind, reload, restart,
                                 drain, ready, warm, canceled, world>>

\* Only hamr.toml counts here.
WaitSeesEdit ==
    /\ phase = "wait"
    /\ \E f \in notice :
           IF f = "hamr.toml" THEN WaitEndsAs("load")
           ELSE /\ notice' = notice \ {f}
                /\ UNCHANGED <<phase, watching, why, gen, tried, blind, reload, restart, drain, ready,
                               warm, canceled, world>>
    /\ UNCHANGED keys

WaitSeesSignal == phase = "wait" /\ signaled /\ WaitEndsAs("done") /\ UNCHANGED keys

---------------------------------------------------------------------------
\* A run.

Ended(w) ==
    /\ why' = w
    /\ phase' = "teardown"

\* A port cannot be had, a mock needs a proxy, the files cannot be watched.
StartupFails ==
    /\ phase = "startup"
    /\ Ended("error")
    /\ UNCHANGED <<gen, tried, watching, notice, blind, reload, restart, keys, drain, ready, warm,
                   canceled, world>>

\* Between two compose entries, or two rules of the initial build.
StartupSeesCancel ==
    /\ phase = "startup" /\ canceled
    /\ Ended("nil")
    /\ UNCHANGED <<gen, tried, watching, notice, blind, reload, restart, keys, drain, ready, warm,
                   canceled, world>>

\* markReady; then the drain is told to end, and awaited.
StartupDone ==
    /\ phase = "startup"
    /\ phase' = "settling"
    /\ ready' = TRUE
    /\ UNCHANGED <<why, gen, tried, watching, notice, blind, reload, restart, keys, drain, warm,
                   canceled, world>>

\* handleHotkey: what it does to the run. Before ready only quit counts; a
\* restart is refused until the cooldown is over.
HandleHotkey(k) ==
    /\ restart' = (restart \/ (k = "restart" /\ ready /\ warm))
    /\ canceled' = (canceled \/ k = "quit")

\* The drain takes a key, and ends with quit.
DrainKey ==
    /\ drain /\ keys # <<>>
    /\ keys' = Tail(keys)
    /\ HandleHotkey(Head(keys))
    /\ drain' = (Head(keys) # "quit")
    /\ UNCHANGED <<phase, why, gen, tried, watching, notice, blind, reload, ready, warm, world>>

DrainEnds ==
    /\ drain /\ (canceled \/ phase = "settling")
    /\ drain' = FALSE
    /\ UNCHANGED <<phase, why, gen, tried, watching, notice, blind, reload, restart, keys, ready, warm,
                   canceled, world>>

(* Mutant: the drain is told to end, and not awaited. *)
ServeAtOnce ==
    /\ phase = "settling"
    /\ phase' = "serve"
    /\ watching' = "starting"
    /\ UNCHANGED <<why, gen, tried, notice, blind, reload, restart, keys, drain, ready, warm, canceled,
                   world>>

\* The drain is gone: the loop is the one that takes keys; the watch is started.
Serve ==
    /\ phase = "settling" /\ ~drain
    /\ phase' = "serve"
    /\ watching' = "starting"
    /\ UNCHANGED <<why, gen, tried, notice, blind, reload, restart, keys, drain, ready, warm, canceled,
                   world>>

\* watchConfigFile: it adds the directory, and ends with the first edit.
WatchConfig ==
    /\ watching = "starting"
    /\ watching' = "run" /\ notice' = {}
    /\ UNCHANGED <<phase, why, gen, tried, blind, reload, restart, keys, drain, ready, warm, canceled,
                   world>>

(* Mutant: the developer's own file is not looked at. *)
WatchSeesMainOnly ==
    /\ watching = "run"
    /\ \E f \in notice :
           IF f = "hamr.toml" THEN reload' = TRUE /\ watching' = "nobody" /\ notice' = {}
           ELSE reload' = reload /\ watching' = watching /\ notice' = notice \ {f}
    /\ UNCHANGED <<phase, why, gen, tried, blind, restart, keys, drain, ready, warm, canceled, world>>

WatchSeesEdit ==
    /\ watching = "run" /\ notice # {}
    /\ reload' = TRUE
    /\ watching' = "nobody" /\ notice' = {}
    /\ UNCHANGED <<phase, why, gen, tried, blind, restart, keys, drain, ready, warm, canceled, world>>

\* The loop of a run: it may be any of its cases that is seen first.
ServeSeesCancel ==
    /\ phase = "serve" /\ canceled
    /\ Ended("nil")
    /\ UNCHANGED <<gen, tried, watching, notice, blind, reload, restart, keys, drain, ready, warm,
                   canceled, world>>
ServeSeesReload ==
    /\ phase = "serve" /\ reload
    /\ Ended("reload")
    /\ UNCHANGED <<gen, tried, watching, notice, blind, reload, restart, keys, drain, ready, warm,
                   canceled, world>>
ServeSeesRestart ==
    /\ phase = "serve" /\ restart
    /\ Ended("restart")
    /\ UNCHANGED <<gen, tried, watching, notice, blind, reload, restart, keys, drain, ready, warm,
                   canceled, world>>

\* Quit returns at once.
ServeKey ==
    /\ phase = "serve" /\ keys # <<>>
    /\ keys' = Tail(keys)
    /\ HandleHotkey(Head(keys))
    /\ IF Head(keys) = "quit" THEN Ended("nil") ELSE UNCHANGED <<why, phase>>
    /\ UNCHANGED <<gen, tried, watching, notice, blind, reload, drain, ready, warm, world>>

\* The run is torn down; runDevLoop goes round again, or returns.
Teardown ==
    /\ phase = "teardown"
    /\ phase' = IF why \in {"reload", "restart"} THEN "load" ELSE "done"
    /\ watching' = "nobody" /\ notice' = {}
    /\ drain' = FALSE
    /\ canceled' = TRUE
    /\ UNCHANGED <<why, gen, tried, blind, reload, restart, keys, ready, warm, world>>

---------------------------------------------------------------------------
\* The developer, the agent and the clock.

hamr == <<phase, why, gen, tried, drain, ready, restart, reload>>

\* A file is edited; whoever watches the directory is told.
Edit(f) ==
    /\ phase # "done" /\ version < MaxEdits
    /\ version' = version + 1
    /\ \E ok \in BOOLEAN : good' = IF ok THEN good \cup {f} ELSE good \ {f}
    /\ notice' = IF watching \in {"run", "wait"} THEN notice \cup {f} ELSE notice
    /\ blind' = (blind \/ watching \in {"nobody", "starting"})
    /\ UNCHANGED <<hamr, watching, keys, warm, canceled, signaled, ask, count>>

\* A key: into the channel, or dropped when it is full.
Press(k) ==
    /\ phase # "done" /\ count.keys < MaxKeys
    /\ count' = [count EXCEPT !.keys = @ + 1]
    /\ keys' = IF Len(keys) < Cap THEN Append(keys, k) ELSE keys
    /\ UNCHANGED <<hamr, good, version, watching, notice, blind, warm, canceled, signaled, ask>>

Signal ==
    /\ ~signaled
    /\ signaled' = TRUE
    /\ canceled' = TRUE
    /\ UNCHANGED <<hamr, good, version, watching, notice, blind, keys, warm, ask, count>>

WarmUp ==
    /\ ready /\ ~warm /\ phase \in {"settling", "serve"}
    /\ warm' = TRUE
    /\ UNCHANGED <<hamr, good, version, watching, notice, blind, keys, canceled, signaled, ask, count>>

\* dev.restart: it is checked, the agent is told yes, and only then asked for. A
\* run that is torn down says yes as well.
CheckRestart ==
    /\ ask = 0 /\ count.asks < MaxAsks
    /\ phase \in {"settling", "serve", "teardown"} /\ ready /\ warm
    /\ ask' = gen
    /\ count' = [count EXCEPT !.asks = @ + 1]
    /\ UNCHANGED <<hamr, good, version, watching, notice, blind, keys, warm, canceled, signaled>>

\* The request goes to the run that promised it, be it gone or not.
RequestRestart ==
    /\ ask # 0
    /\ restart' = (restart \/ (ask = gen /\ phase \in {"settling", "serve", "teardown"}))
    /\ ask' = 0
    /\ UNCHANGED <<phase, why, gen, tried, drain, ready, reload, good, version, watching, notice, blind,
                   keys, warm, canceled, signaled, count>>

Next ==
    \/ Load \/ WatchForFix \/ WaitKey \/ WaitSeesEdit \/ WaitSeesSignal
    \/ StartupFails \/ StartupSeesCancel \/ StartupDone \/ DrainKey \/ DrainEnds
    \/ Serve \/ WatchConfig \/ WatchSeesEdit
    \/ ServeSeesCancel \/ ServeSeesReload \/ ServeSeesRestart \/ ServeKey \/ Teardown
    \/ \E f \in Files : Edit(f)
    \/ \E k \in Hotkeys : Press(k)
    \/ Signal \/ WarmUp \/ CheckRestart \/ RequestRestart

\* Whatever hamr can do it does; keys, edits, signals and failures need not come.
Steps ==
    \/ Load \/ WatchForFix \/ WaitKey \/ WaitSeesEdit \/ WaitSeesSignal
    \/ StartupSeesCancel \/ StartupDone \/ DrainKey \/ DrainEnds
    \/ Serve \/ WatchConfig \/ WatchSeesEdit
    \/ ServeSeesCancel \/ ServeSeesReload \/ ServeSeesRestart \/ ServeKey \/ Teardown
    \/ RequestRestart

Spec == Init /\ [][Next]_vars /\ WF_vars(Steps)

---------------------------------------------------------------------------

TypeOK ==
    /\ phase \in {"load", "broken", "wait", "startup", "settling", "serve", "teardown", "done"}
    /\ why \in {"nil", "error", "reload", "restart"}
    /\ gen \in Nat /\ good \subseteq Files /\ notice \subseteq Files
    /\ watching \in {"nobody", "starting", "run", "wait"}
    /\ Len(keys) <= Cap
    /\ {blind, reload, restart, drain, ready, warm, canceled, signaled} \subseteq BOOLEAN

\* Two goroutines never take hotkeys at once: a key goes to the drain of a run
\* that starts or to the loop of one that serves, never to a run that is over.
OneTakesKeys == drain => phase \in {"startup", "settling", "teardown"}

\* A restart ends only a run that has outlived the cooldown: a request made of
\* one run never restarts the next.
NoRestartStorm == why = "restart" /\ phase = "teardown" => warm

\* A run that serves has the config on disk, or a reload is on its way; but for
\* an edit made after it was read and before it was watched, or one that is seen
\* by a run that ends.
CurrentConfig ==
    phase = "serve" /\ watching = "run" /\ notice = {} => tried = version \/ blind

Inv == TypeOK /\ OneTakesKeys /\ NoRestartStorm /\ CurrentConfig

\* What must not last: a quit asked for, a reload or restart granted, a start.
Quitting == phase # "done" /\ (signaled \/ \E i \in DOMAIN keys : keys[i] = "quit")
Waiting == Quitting \/ phase \in {"load", "broken", "startup", "settling", "teardown"}
               \/ (phase = "serve" /\ (reload \/ restart))

=============================================================================
