------------------------------- MODULE Tunnel -------------------------------
(***************************************************************************)
(* The tunnel behind the T hotkey (internal/devserver/tunnel.go): Toggle   *)
(* under its busy guard, the goroutine that watches a started tunnel's     *)
(* child process exit, and Close on the shutdown path.  A tunnel is known  *)
(* by a number, which also stands for its public URL; 0 is "no tunnel".    *)
(***************************************************************************)
EXTENDS Integers, FiniteSets

CONSTANTS
    Pressers,   \* goroutines that call Toggle
    MaxTunnels  \* bound: tunnels ever started

Tunnels == 1 .. MaxTunnels
Changing == -1                    \* tunnel_start was the last event
Agents == Pressers \cup Tunnels   \* the watcher of a tunnel goes by its number

VARIABLES
    busy, proc, url,   \* the fields of tunnel
    layer,             \* what envLayers.tunnel holds
    shown,             \* the last tunnel event broadcast
    pc, aim, mine,     \* where an agent is; the url it applies; its tunnel
    born,              \* tunnels started so far
    alive, listening,  \* child process and listener of a tunnel
    ctxDone, closed    \* runCtx is done; Close has run

state == <<busy, proc, url, layer, shown>>
childVars == <<born, alive, listening>>
downVars == <<ctxDone, closed>>
vars == <<state, pc, aim, mine, childVars, downVars>>

TypeOK ==
    /\ busy \in BOOLEAN /\ proc \in 0 .. MaxTunnels /\ url \in 0 .. MaxTunnels
    /\ layer \in 0 .. MaxTunnels /\ shown \in Changing .. MaxTunnels
    /\ pc \in [Agents -> {"idle", "stop", "start", "await", "track", "url", "env",
                          "tell", "release", "watch", "close", "poll"}]
    /\ aim \in [Agents -> 0 .. MaxTunnels] /\ mine \in [Pressers -> 0 .. MaxTunnels]
    /\ born \in 0 .. MaxTunnels /\ alive \subseteq 1 .. born /\ listening \subseteq 1 .. born
    /\ ctxDone \in BOOLEAN /\ closed \in BOOLEAN

Init ==
    /\ busy = FALSE /\ proc = 0 /\ url = 0 /\ layer = 0 /\ shown = 0
    /\ pc = [a \in Agents |-> "idle"] /\ aim = [a \in Agents |-> 0]
    /\ mine = [x \in Pressers |-> 0]
    /\ born = 0 /\ alive = {} /\ listening = {} /\ ctxDone = FALSE /\ closed = FALSE

Goto(a, l) == pc' = [pc EXCEPT ![a] = l]

-----------------------------------------------------------------------------
(* Toggle.                                                                 *)

(* Mutant: Toggle does not look at busy.                                   *)
PressAnyway(x) ==
    /\ pc[x] = "idle"
    /\ busy' = TRUE /\ proc' = 0 /\ shown' = Changing
    /\ mine' = [mine EXCEPT ![x] = proc]
    /\ Goto(x, IF proc = 0 THEN "start" ELSE "stop")
    /\ UNCHANGED <<url, layer, aim, childVars, downVars>>

(* While busy, Toggle only warns.                                          *)
Press(x) ==
    /\ pc[x] = "idle" /\ ~busy
    /\ busy' = TRUE /\ proc' = 0 /\ shown' = Changing
    /\ mine' = [mine EXCEPT ![x] = proc]
    /\ Goto(x, IF proc = 0 THEN "start" ELSE "stop")
    /\ UNCHANGED <<url, layer, aim, childVars, downVars>>

(* p.stop: end the child, wait for it, close the listener.                 *)
StopTunnel(x) ==
    /\ pc[x] = "stop"
    /\ alive' = alive \ {mine[x]} /\ listening' = listening \ {mine[x]}
    /\ aim' = [aim EXCEPT ![x] = 0] /\ Goto(x, "url")
    /\ UNCHANGED <<state, mine, born, downVars>>

(* Mutant: a tunnel is started without being counted.                      *)
LaunchUncounted(x) ==
    /\ pc[x] = "start" /\ ~ctxDone /\ born < MaxTunnels
    /\ alive' = alive \cup {born + 1} /\ listening' = listening \cup {born + 1}
    /\ mine' = [mine EXCEPT ![x] = born + 1] /\ Goto(x, "await")
    /\ UNCHANGED <<state, aim, born, downVars>>

(* Listen and start the child, which a cancelled context refuses.          *)
Launch(x) ==
    /\ pc[x] = "start" /\ ~ctxDone /\ born < MaxTunnels
    /\ born' = born + 1 /\ alive' = alive \cup {born'} /\ listening' = listening \cup {born'}
    /\ mine' = [mine EXCEPT ![x] = born'] /\ Goto(x, "await")
    /\ UNCHANGED <<state, aim, downVars>>

(* Mutant: the listener stays open when the child does not come up.        *)
FailKeepsListener(x) ==
    /\ pc[x] \in {"start", "await"}
    /\ alive' = alive \ {mine[x]}
    /\ shown' = 0 /\ Goto(x, "release")
    /\ UNCHANGED <<busy, proc, url, layer, aim, mine, born, listening, downVars>>

(* No listener, no binary, no URL in time, an early exit or a cancelled    *)
(* context: nothing is left running and tunnel_down goes out.              *)
StartFails(x) ==
    /\ pc[x] \in {"start", "await"}
    /\ alive' = alive \ {mine[x]} /\ listening' = listening \ {mine[x]}
    /\ shown' = 0 /\ Goto(x, "release")
    /\ UNCHANGED <<busy, proc, url, layer, aim, mine, born, downVars>>

FoundURL(x) ==
    /\ pc[x] = "await"
    /\ Goto(x, "track")
    /\ UNCHANGED <<state, aim, mine, childVars, downVars>>

Track(x) ==
    /\ pc[x] = "track"
    /\ proc' = mine[x] /\ aim' = [aim EXCEPT ![x] = mine[x]] /\ Goto(x, "url")
    /\ UNCHANGED <<busy, url, layer, shown, mine, childVars, downVars>>

-----------------------------------------------------------------------------
(* apply, called by Toggle and by the exit watcher: the url under mu, then *)
(* the env layer with the restarts it causes, then the event.              *)

ApplyURL(a) ==
    /\ pc[a] = "url"
    /\ url' = aim[a] /\ Goto(a, "env")
    /\ UNCHANGED <<busy, proc, layer, shown, aim, mine, childVars, downVars>>

(* Mutant: the env is left alone when the tunnel goes.                     *)
ApplyEnvUpOnly(a) ==
    /\ pc[a] = "env"
    /\ layer' = (IF aim[a] = 0 THEN layer ELSE aim[a]) /\ Goto(a, "tell")
    /\ UNCHANGED <<busy, proc, url, shown, aim, mine, childVars, downVars>>

ApplyEnv(a) ==
    /\ pc[a] = "env"
    /\ layer' = aim[a] /\ Goto(a, "tell")
    /\ UNCHANGED <<busy, proc, url, shown, aim, mine, childVars, downVars>>

(* Toggle starts the exit watcher of the tunnel it has put up.             *)
Tell(a) ==
    /\ pc[a] = "tell"
    /\ shown' = aim[a]
    /\ pc' = [b \in Agents |-> IF b = a THEN "release"
                               ELSE IF b = aim[a] THEN "watch" ELSE pc[b]]
    /\ UNCHANGED <<busy, proc, url, layer, aim, mine, childVars, downVars>>

Release(a) ==
    /\ pc[a] = "release"
    /\ busy' = FALSE /\ Goto(a, "idle")
    /\ UNCHANGED <<proc, url, layer, shown, aim, mine, childVars, downVars>>

-----------------------------------------------------------------------------
(* The child process, and the goroutine that watches for its exit.         *)

ChildDies(p) ==
    /\ p \in alive
    /\ alive' = alive \ {p}
    /\ UNCHANGED <<state, pc, aim, mine, born, listening, downVars>>

(* cmd.Cancel kills the child's group once the context is done.            *)
CancelKills(p) == ctxDone /\ ChildDies(p)

Notice(p) ==
    /\ pc[p] = "watch" /\ p \notin alive
    /\ IF proc = p THEN proc' = 0 /\ Goto(p, "close")
                   ELSE Goto(p, "idle") /\ UNCHANGED proc
    /\ UNCHANGED <<busy, url, layer, shown, aim, mine, childVars, downVars>>

CloseListener(p) ==
    /\ pc[p] = "close"
    /\ listening' = listening \ {p}
    /\ Goto(p, IF ctxDone THEN "idle" ELSE "poll")
    /\ UNCHANGED <<state, aim, mine, born, alive, downVars>>

(* Mutant: a tunnel put up meanwhile is not noticed.                       *)
TakeGuardAlways(p) ==
    /\ pc[p] = "poll" /\ ~busy
    /\ IF ctxDone
          THEN Goto(p, "idle") /\ UNCHANGED <<busy, aim>>
          ELSE busy' = TRUE /\ aim' = [aim EXCEPT ![p] = 0] /\ Goto(p, "url")
    /\ UNCHANGED <<proc, url, layer, shown, mine, childVars, downVars>>

(* Wait out a toggle in flight; leave the env to a new tunnel if there is  *)
(* one, else take the guard and reset the env.                             *)
TakeGuard(p) ==
    /\ pc[p] = "poll" /\ ~busy
    /\ IF proc # 0 \/ ctxDone
          THEN Goto(p, "idle") /\ UNCHANGED <<busy, aim>>
          ELSE busy' = TRUE /\ aim' = [aim EXCEPT ![p] = 0] /\ Goto(p, "url")
    /\ UNCHANGED <<proc, url, layer, shown, mine, childVars, downVars>>

-----------------------------------------------------------------------------
Cancel ==
    /\ ~ctxDone
    /\ ctxDone' = TRUE
    /\ UNCHANGED <<state, pc, aim, mine, childVars, closed>>

Close ==
    /\ ctxDone /\ ~closed
    /\ closed' = TRUE /\ proc' = 0
    /\ alive' = alive \ {proc} /\ listening' = listening \ {proc}
    /\ UNCHANGED <<busy, url, layer, shown, pc, aim, mine, born, ctxDone>>

ToggleStep(x) == StopTunnel(x) \/ Launch(x) \/ StartFails(x) \/ FoundURL(x) \/ Track(x)
ApplyStep(a) == ApplyURL(a) \/ ApplyEnv(a) \/ Tell(a) \/ Release(a)
WatchStep(p) == Notice(p) \/ CloseListener(p)

Next ==
    \/ \E x \in Pressers : Press(x) \/ ToggleStep(x)
    \/ \E a \in Agents : ApplyStep(a)
    \/ \E p \in Tunnels : ChildDies(p) \/ WatchStep(p) \/ TakeGuard(p)
    \/ Cancel \/ Close

(* Goroutines run; startChild has a timeout; the watcher polls.            *)
Fairness ==
    /\ \A x \in Pressers : WF_vars(ToggleStep(x))
    /\ \A a \in Agents : WF_vars(ApplyStep(a))
    /\ \A p \in Tunnels : WF_vars(WatchStep(p)) /\ WF_vars(TakeGuard(p)) /\ WF_vars(CancelKills(p))
    /\ WF_vars(Close)

Spec == Init /\ [][Next]_vars /\ Fairness

-----------------------------------------------------------------------------
(* At most one tunnel binary runs, however often T is pressed while one    *)
(* starts, stops or dies.                                                  *)
OneTunnel == Cardinality(alive) <= 1

(* The invariant: types, and one tunnel.                                   *)
Inv == TypeOK /\ OneTunnel

(* When nothing is under way, what the app's env, the status line and the  *)
(* UI say about the tunnel is what is running (254-277).                   *)
Settled ==
    /\ ~busy /\ ~ctxDone
    /\ \A a \in Agents : pc[a] = "idle" \/ (pc[a] = "watch" /\ a \in alive)
EveryoneAgrees ==
    Settled => /\ url = proc /\ layer = proc /\ shown = proc
               /\ alive = {proc} \ {0} /\ listening = {proc} \ {0}

(* While T is left alone, a tunnel whose process is gone does not stay in  *)
(* the env: the poll for the guard succeeds (258-277).  After shutdown no  *)
(* tunnel process and no listener stays, also when a toggle was starting   *)
(* one.                                                                    *)
Haunted == layer \in Tunnels \ alive /\ ~ctxDone /\ \A x \in Pressers : pc[x] = "idle"
Closing == ctxDone /\ (alive # {} \/ listening # {})
=============================================================================
