----------------------------- MODULE MCRuntime -----------------------------
(***************************************************************************)
(* What runs beside the scheduler in `hamr dev`, one part at a time: the   *)
(* processes, the events for the browser, the file watcher, the layers of  *)
(* the environment given to the apps, the tunnel, and the Stripe mode.     *)
(* Which one a behaviour is about is chosen at its start; the others stand *)
(* still.                                                                  *)
(***************************************************************************)
EXTENDS ProcessManager, Sequences, TLC

CONSTANTS
    Tabs, Builders, Loggers, Togglers, QueueCap, MaxEvents,            \* events
    Watched, FeedCap, MaxSaves,                                        \* the watcher
    Apps, Features, Rebuilders, MaxSets, NotRunning,                   \* the environment
    Pressers, MaxTunnels,                                              \* the tunnel
    Users, Keys, BadKey, NoKey, Boot, Dotenv, MaxListeners, MaxEdits,  \* the Stripe switch
    site, worker                                                       \* two apps

\* The agents of the tunnel are told apart from the tunnels, which are numbers.
ASSUME TunnelAssumption == MaxTunnels \in Nat /\ Pressers \cap (0 .. MaxTunnels) = {}

VARIABLES
    part,
    client, buf, open, send, seen, last, spc, evt, left, to, dark, emitted, noise, raced, crashed,
    saves, noted, debounce, fired, sending, events, heard, ctx, over,
    layers, injected, given, envMu, apc, wanted, got, next, demanded, newest, skipped,
    busy, link, url, public, told, tpc, aim, mine, launched, up, listening, ctxDone, closed,
    switchMu, mode, listener, key, secret, layer, shown, mpc, target, prev, old, newKey, newProc,
    alive, forked, dotKey, event, timer, stale, edits, unheard

B == INSTANCE SSEBroker WITH
        Clients <- Tabs, Cap <- QueueCap, shown <- seen, pc <- spc, events <- emitted
W == INSTANCE Watcher WITH
        Rules <- Watched, Cap <- FeedCap,
        seen <- noted, timer <- debounce, told <- heard, done <- over
E == INSTANCE InjectedEnv WITH
        Builders <- Rebuilders, layer <- layers, pc <- apc, procs <- given, startMu <- envMu,
        want <- wanted
T == INSTANCE Tunnel WITH
        proc <- link, layer <- public, shown <- told, pc <- tpc, born <- launched, alive <- up
S == INSTANCE StripeSwitch WITH
        proc <- listener, pc <- mpc, born <- forked

\* There is a client, its channel is buffered, and a free mutex has no holder.
ASSUME EventAssumption ==
    Tabs # {} /\ QueueCap \in Nat \ {0} /\ MaxEvents \in Nat /\ Nobody \notin B!Senders
ASSUME WatcherAssumption == FeedCap \in Nat /\ MaxSaves \in Nat

\* Whoever may switch has a name of its own; listeners are numbers.
ASSUME StripeAssumption ==
    /\ MaxListeners \in Nat /\ MaxEdits \in Nat
    /\ Users \cap (0 .. MaxListeners) = {} /\ Boot # Dotenv
    /\ {Boot, Dotenv} \cap (Users \cup 0 .. MaxListeners) = {}
    /\ Nobody \notin S!Agents

\* The features that set a layer are not the goroutine that rebuilds, and no env
\* looks like the absence of a process.
ASSUME EnvAssumption ==
    /\ Apps \in Seq(E!Names) /\ Apps # <<>> /\ MaxSets \in Nat
    /\ Features \cap Rebuilders = {} /\ Nobody \notin Features \cup Rebuilders
    /\ NotRunning \notin E!Env

\* restartRunning goes through the apps in order.
TwoApps == <<site, worker>>

eventVars  == <<client, buf, open, send, seen, last, spc, evt, left, to, dark, emitted, noise,
                raced, crashed>>
watchVars  == <<saves, noted, debounce, fired, sending, events, heard, ctx, over>>
envVars    == <<layers, injected, given, envMu, apc, wanted, got, next, demanded, newest, skipped>>
tunnelVars == <<busy, link, url, public, told, tpc, aim, mine, launched, up, listening, ctxDone,
                closed>>
stripeVars == <<switchMu, mode, listener, key, secret, layer, shown, mpc, target, prev, old, newKey,
                newProc, alive, forked, dotKey, event, timer, stale, edits, unheard>>
mcvars     == <<part, vars, eventVars, watchVars, envVars, tunnelVars, stripeVars>>

Parts == {"processes", "events", "watcher", "env", "tunnel", "stripe"}
MCInit ==
    /\ part \in Parts
    /\ Init /\ B!Init /\ W!Init /\ E!Init /\ T!Init /\ S!Init
    /\ part # "events" => dark
    /\ part # "env" => given = [n \in E!Names |-> NotRunning]
    /\ part # "stripe" => target = "mock" /\ dotKey = CHOOSE k \in Keys : k # BadKey

MCNext ==
    \/ /\ part = "processes" /\ Next
       /\ UNCHANGED <<part, eventVars, watchVars, envVars, tunnelVars, stripeVars>>
    \/ /\ part = "events" /\ B!Next
       /\ UNCHANGED <<part, vars, watchVars, envVars, tunnelVars, stripeVars>>
    \/ /\ part = "watcher" /\ W!Next
       /\ UNCHANGED <<part, vars, eventVars, envVars, tunnelVars, stripeVars>>
    \/ /\ part = "env" /\ E!Next
       /\ UNCHANGED <<part, vars, eventVars, watchVars, tunnelVars, stripeVars>>
    \/ /\ part = "tunnel" /\ T!Next
       /\ UNCHANGED <<part, vars, eventVars, watchVars, envVars, stripeVars>>
    \/ /\ part = "stripe" /\ S!Next
       /\ UNCHANGED <<part, vars, eventVars, watchVars, envVars, tunnelVars>>

\* hamr's goroutines run and its timers fire; SIGKILL ends a process.
ProcessFair ==
    /\ \A a \in Actors : WF_vars(part = "processes" /\ ActorStep(a))
    /\ WF_vars(part = "processes" /\ \E p \in Procs : WaitStep(p) \/ CancelKill(p))

\* Who sends goes on; a client may stall for ever.
EventFair == WF_eventVars(part = "events" /\ \E s \in B!Senders : B!SendStep(s))

\* The watcher's loop and timers run, and the dev loop takes its events.
WatcherFair ==
    /\ WF_watchVars(part = "watcher" /\ \E r \in Watched : W!LoopEvent(r) \/ W!Fire(r))
    /\ WF_watchVars(part = "watcher" /\ \E e \in W!Events : W!TimerStep(e))
    /\ WF_watchVars(part = "watcher" /\ (W!LoopExit \/ (W!Receive /\ ~over)))

\* Features that keep asking for startMu get it; whoever holds it goes on.
EnvFair ==
    /\ WF_envVars(part = "env" /\ \E f \in Features : E!CheckRunning(f))
    /\ SF_envVars(part = "env" /\ \E f \in Features : E!LockAndStop(f))
    /\ WF_envVars(part = "env" /\ \E a \in E!Actors : E!StartStep(a))

\* Whoever is busy goes on; startChild has a timeout; the watcher polls.
TunnelFair ==
    /\ WF_tunnelVars(part = "tunnel" /\ \E x \in Pressers : T!ToggleStep(x))
    /\ WF_tunnelVars(part = "tunnel" /\ \E a \in T!Agents : T!ApplyStep(a))
    /\ WF_tunnelVars(part = "tunnel" /\ \E p \in T!Tunnels : T!WatchStep(p) \/ T!TakeGuard(p))
    /\ WF_tunnelVars(part = "tunnel" /\ \E p \in T!Tunnels : T!CancelKills(p))
    /\ WF_tunnelVars(part = "tunnel" /\ T!Close)

\* Whoever holds switchMu goes on, and those that wait for it get it.
StripeFair ==
    /\ WF_stripeVars(part = "stripe" /\ \E a \in S!Agents : S!SwitchStep(a))
    /\ WF_stripeVars(part = "stripe" /\ (S!DropKeyRead \/ S!DropKeySet))
    /\ SF_stripeVars(part = "stripe" /\ (S!DotenvChanged \/ \E p \in S!Listeners : S!WatchExit(p)))

MCSpec ==
    /\ MCInit /\ [][MCNext]_mcvars
    /\ ProcessFair /\ EventFair /\ WatcherFair /\ EnvFair /\ TunnelFair /\ StripeFair

(***************************************************************************)
(* What each of them promises.                                             *)
(***************************************************************************)
\* No send on a closed channel; the last state event and the dark filter arrive.
BrokerInv  == B!Inv /\ B!LastStateKept /\ B!BrowserShowsFilter /\ W!TypeOK
\* What runs has every layer it was restarted for.
EnvInv     == E!Inv
\* One tunnel, and the env, the status line and the UI agree with it.
TunnelInv  == T!Inv /\ T!EveryoneAgrees
\* One listener, and the mode and the env are those of what runs.
StripeInv  == S!Inv /\ S!ModeIsReal /\ S!EnvMatchesMode

\* The watcher is a ChangeFeed: no save is dropped, invented or told twice.
KeepsThePromise  == W!KeepsThePromise
\* No process is given an older env than it had.
EnvNeverGoesBack == E!EnvNeverGoesBack

\* Whatever was switched on or off and whatever died is dealt with, and no stop
\* of a process, no broadcast and no watcher that is done lasts for ever.
Waiting == Stopping \/ B!Sending \/ W!Leaving \/ E!Restarting \/ T!Haunted \/ T!Closing
               \/ S!ListenerGone
RuntimeSettles == Waiting ~> ~Waiting
=============================================================================
