---------------------------- MODULE StripeSwitch ----------------------------
(***************************************************************************)
(* stripeSwitch (internal/devserver/stripelisten.go): the runtime Stripe   *)
(* mode, the mock or `stripe listen`, switched by the S hotkey or an MCP   *)
(* tool, by the exit of the listener and by edits of STRIPE_KEY in .env.   *)
(* A listener is known by a number, which also stands for the signing      *)
(* secret it prints; MockSecret is the mock's.                             *)
(***************************************************************************)
EXTENDS Naturals, FiniteSets

CONSTANTS
    Users,        \* goroutines that call Set
    Boot, Dotenv, \* the goroutine that boots; the one in watchDotenv
    Nobody,       \* switchMu is free
    Keys, BadKey, \* STRIPE_KEY values; the one checkListenKey refuses
    NoKey,        \* the layer carries no STRIPE_KEY
    MaxListeners, \* bound: listeners ever started
    MaxEdits      \* bound: edits of .env

Listeners == 1 .. MaxListeners
MockSecret == 0
Agents == Users \cup Listeners \cup {Boot, Dotenv}  \* a listener's watchExit goes by its number

VARIABLES
    switchMu, mode, proc, key, secret, \* the fields of stripeSwitch
    layer,                             \* what envLayers.stripe holds
    shown,                             \* the last stripe_mode event
    pc, target, prev, old,             \* switchTo's locals, per agent
    newKey, newProc,
    alive, born,                       \* listeners that run; listeners started
    dotKey, event, timer,              \* .env, its fsnotify event, the debounce timer
    stale, edits,                      \* what dropKey has read; edits made
    unheard                            \* nobody watched at the last edit (history)

fields == <<mode, proc, key, secret>>
locals == <<target, prev, old, newKey, newProc>>
dotVars == <<dotKey, event, timer, stale, edits, unheard>>
vars == <<switchMu, fields, layer, shown, pc, locals, alive, born, dotVars>>

Modes == {"", "mock", "listen"}
TypeOK ==
    /\ switchMu \in Agents \cup {Nobody}
    /\ mode \in Modes /\ proc \in 0 .. MaxListeners /\ key \in Keys \cup {NoKey}
    /\ secret \in 0 .. MaxListeners
    /\ layer \in [mode : Modes, secret : 0 .. MaxListeners, key : Keys \cup {NoKey}]
    /\ shown \in Modes \cup {"switching"}
    /\ pc \in [Agents -> {"off", "idle", "locked", "swap", "stop", "read", "start",
                          "commit", "env", "tell", "watch", "open", "drop", "unlock"}]
    /\ target \in Modes /\ prev \in Modes /\ old \in 0 .. MaxListeners
    /\ newKey \in Keys /\ newProc \in 0 .. MaxListeners
    /\ born \in 0 .. MaxListeners /\ alive \subseteq 1 .. born
    /\ dotKey \in Keys /\ event \in BOOLEAN /\ timer \in BOOLEAN
    /\ stale \in 0 .. MaxListeners /\ edits \in 0 .. MaxEdits /\ unheard \in BOOLEAN

(* boot runs first, in the configured mode.                                *)
Init ==
    /\ switchMu = Boot /\ mode = "" /\ proc = 0 /\ key = NoKey /\ secret = MockSecret
    /\ layer = [mode |-> "", secret |-> MockSecret, key |-> NoKey] /\ shown = ""
    /\ pc = [a \in Agents |-> IF a = Boot THEN "swap" ELSE IF a \in Users THEN "idle" ELSE "off"]
    /\ target \in {"mock", "listen"} /\ prev = "" /\ old = 0
    /\ dotKey \in Keys /\ newKey = dotKey /\ newProc = 0
    /\ alive = {} /\ born = 0 /\ event = FALSE /\ timer = FALSE /\ stale = 0 /\ edits = 0 /\ unheard = FALSE

Goto(a, l) == pc' = [pc EXCEPT ![a] = l]

-----------------------------------------------------------------------------
(* switchTo, under switchMu: the locals are those of its holder.           *)

(* Mutant: the mode to return to is read off the last event.               *)
SwapAfterTelling(a) ==
    /\ pc[a] = "swap"
    /\ shown' = "switching" /\ prev' = shown' /\ old' = proc /\ proc' = 0
    /\ Goto(a, IF proc = 0 THEN "read" ELSE "stop")
    /\ UNCHANGED <<switchMu, mode, key, secret, layer, target, newKey, newProc, alive, born, dotVars>>

(* Broadcast "switching" and take the running listener out.                *)
Swap(a) ==
    /\ pc[a] = "swap"
    /\ shown' = "switching" /\ prev' = mode /\ old' = proc /\ proc' = 0
    /\ Goto(a, IF proc = 0 THEN "read" ELSE "stop")
    /\ UNCHANGED <<switchMu, mode, key, secret, layer, target, newKey, newProc, alive, born, dotVars>>

StopOld(a) ==
    /\ pc[a] = "stop"
    /\ alive' = alive \ {old} /\ Goto(a, "read")
    /\ UNCHANGED <<switchMu, fields, layer, shown, locals, born, dotVars>>

ReadKey(a) ==
    /\ pc[a] = "read"
    /\ newKey' = dotKey /\ newProc' = 0
    /\ Goto(a, IF target = "listen" THEN "start" ELSE "commit")
    /\ UNCHANGED <<switchMu, fields, layer, shown, target, prev, old, alive, born, dotVars>>

StartListener(a) ==
    /\ pc[a] = "start" /\ newKey # BadKey /\ born < MaxListeners
    /\ born' = born + 1 /\ alive' = alive \cup {born'} /\ newProc' = born'
    /\ Goto(a, "commit")
    /\ UNCHANGED <<switchMu, fields, layer, shown, target, prev, old, newKey, dotVars>>

(* Mutant: a listener that does not come up always leaves things as they   *)
(* were.                                                                   *)
StartFailsSilently(a) ==
    /\ pc[a] = "start"
    /\ shown' = prev /\ Goto(a, "unlock")
    /\ UNCHANGED <<switchMu, fields, layer, locals, alive, born, dotVars>>

(* A refused key, no stripe binary, no secret in time: back to the mock,   *)
(* or nothing at all if the mock was on and no listener was stopped.       *)
StartFails(a) ==
    /\ pc[a] = "start"
    /\ IF prev = "mock" /\ old = 0
          THEN shown' = prev /\ Goto(a, "unlock") /\ UNCHANGED target
          ELSE target' = "mock" /\ Goto(a, "commit") /\ UNCHANGED shown
    /\ UNCHANGED <<switchMu, fields, layer, prev, old, newKey, newProc, alive, born, dotVars>>

Commit(a) ==
    /\ pc[a] = "commit"
    /\ mode' = target /\ proc' = newProc /\ key' = newKey /\ secret' = newProc
    /\ Goto(a, "env")
    /\ UNCHANGED <<switchMu, layer, shown, locals, alive, born, dotVars>>

(* stripeEnvLayer: the mock gets no STRIPE_KEY.                            *)
EnvLayer(m, s, k) == [mode |-> m, secret |-> s, key |-> IF m = "listen" THEN k ELSE NoKey]

(* Mutant: only a new listener sets the layer.                             *)
SetEnvForListener(a) ==
    /\ pc[a] = "env"
    /\ layer' = (IF newProc = 0 THEN layer ELSE EnvLayer(target, newProc, newKey)) /\ Goto(a, "tell")
    /\ UNCHANGED <<switchMu, fields, shown, locals, alive, born, dotVars>>

SetEnv(a) ==
    /\ pc[a] = "env"
    /\ layer' = EnvLayer(target, newProc, newKey) /\ Goto(a, "tell")
    /\ UNCHANGED <<switchMu, fields, shown, locals, alive, born, dotVars>>

(* Mutant: nobody watches the listener's exit.                             *)
TellOnly(a) ==
    /\ pc[a] = "tell"
    /\ shown' = target /\ Goto(a, "unlock")
    /\ UNCHANGED <<switchMu, fields, layer, locals, alive, born, dotVars>>

(* Broadcast the mode and start watchExit for a new listener.              *)
Tell(a) ==
    /\ pc[a] = "tell"
    /\ shown' = target
    /\ pc' = [b \in Agents |-> IF b = a THEN "unlock"
                               ELSE IF b = newProc THEN "watch" ELSE pc[b]]
    /\ UNCHANGED <<switchMu, fields, layer, locals, alive, born, dotVars>>

(* Return from whatever held switchMu; boot has started watchDotenv.       *)
Unlock(a) ==
    /\ pc[a] = "unlock"
    /\ switchMu' = Nobody
    /\ pc' = [b \in Agents |->
          IF b = a THEN (IF a \in Users \cup {Dotenv} THEN "idle" ELSE "off")
          ELSE IF b = Dotenv /\ a = Boot THEN "open" ELSE pc[b]]
    /\ UNCHANGED <<fields, layer, shown, locals, alive, born, dotVars>>

-----------------------------------------------------------------------------
(* What starts a switch.                                                   *)

(* Mutant: Set does not take switchMu.                                     *)
SetUnlocked(u, m) ==
    /\ pc[u] = "idle" /\ m # mode
    /\ switchMu' = u /\ target' = m /\ Goto(u, "swap")
    /\ UNCHANGED <<fields, layer, shown, prev, old, newKey, newProc, alive, born, dotVars>>

(* Set refuses while a switch is in flight, and does nothing in that mode. *)
Set(u, m) ==
    /\ pc[u] = "idle" /\ switchMu = Nobody /\ m # mode
    /\ switchMu' = u /\ target' = m /\ Goto(u, "swap")
    /\ UNCHANGED <<fields, layer, shown, prev, old, newKey, newProc, alive, born, dotVars>>

(* watchExit: done, then switchMu, then is it still ours?                  *)
WatchExit(p) ==
    /\ pc[p] = "watch" /\ p \notin alive /\ switchMu = Nobody
    /\ IF proc = p
          THEN switchMu' = p /\ target' = "mock" /\ Goto(p, "swap")
          ELSE Goto(p, "off") /\ UNCHANGED <<switchMu, target>>
    /\ UNCHANGED <<fields, layer, shown, prev, old, newKey, newProc, alive, born, dotVars>>

ListenerDies(p) ==
    /\ p \in alive
    /\ alive' = alive \ {p}
    /\ UNCHANGED <<switchMu, fields, layer, shown, pc, locals, born, dotVars>>

(* watchDotenv watches the directory of .env, or warns and gives up.       *)
OpenWatch ==
    /\ pc[Dotenv] = "open"
    /\ \E l \in {"idle", "off"} : Goto(Dotenv, l)
    /\ UNCHANGED <<switchMu, fields, layer, shown, locals, alive, born, dotVars>>

(* The developer saves .env, with another key or the same; nobody hears of *)
(* it unless watchDotenv watches.                                          *)
EditDotenv(k) ==
    /\ edits < MaxEdits
    /\ edits' = edits + 1 /\ dotKey' = k /\ event' = (pc[Dotenv] \notin {"off", "open"}) /\ unheard' = ~event'
    /\ UNCHANGED <<switchMu, fields, layer, shown, pc, locals, alive, born, timer, stale>>

(* watchDotenv takes the event: dropKey reads mode and secret under mu ... *)
DropKeyRead ==
    /\ pc[Dotenv] = "idle" /\ event
    /\ event' = FALSE
    /\ IF mode = "listen" THEN stale' = secret /\ Goto(Dotenv, "drop") /\ UNCHANGED timer
                          ELSE timer' = TRUE /\ UNCHANGED <<pc, stale>>
    /\ UNCHANGED <<switchMu, fields, layer, shown, locals, alive, born, dotKey, edits, unheard>>

(* ... sets the layer without the key, and the debounce starts over.       *)
DropKeySet ==
    /\ pc[Dotenv] = "drop"
    /\ layer' = EnvLayer("listen", stale, NoKey)
    /\ timer' = TRUE /\ stale' = 0 /\ Goto(Dotenv, "idle")
    /\ UNCHANGED <<switchMu, fields, shown, locals, alive, born, dotKey, event, edits, unheard>>

(* Mutant: a key that did not change is not put back.                      *)
DotenvKeyStaysOut ==
    /\ pc[Dotenv] = "idle" /\ timer /\ switchMu = Nobody
    /\ timer' = FALSE
    /\ IF mode # "listen" \/ dotKey = key
          THEN UNCHANGED <<switchMu, target, pc>>
          ELSE switchMu' = Dotenv /\ target' = "listen" /\ Goto(Dotenv, "swap")
    /\ UNCHANGED <<fields, layer, shown, prev, old, newKey, newProc, alive, born,
                   dotKey, event, stale, edits, unheard>>

(* dotenvChanged, once the timer fires and switchMu is free.               *)
DotenvChanged ==
    /\ pc[Dotenv] = "idle" /\ timer /\ switchMu = Nobody
    /\ timer' = FALSE
    /\ CASE mode # "listen"  -> UNCHANGED <<switchMu, target, pc, layer>>
         [] mode = "listen" /\ dotKey = key ->
              layer' = EnvLayer("listen", secret, dotKey) /\ UNCHANGED <<switchMu, target, pc>>
         [] OTHER -> /\ switchMu' = Dotenv /\ target' = "listen" /\ Goto(Dotenv, "swap")
                     /\ UNCHANGED layer
    /\ UNCHANGED <<fields, shown, prev, old, newKey, newProc, alive, born,
                   dotKey, event, stale, edits, unheard>>

SwitchStep(a) ==
    \/ Swap(a) \/ StopOld(a) \/ ReadKey(a) \/ StartListener(a) \/ StartFails(a)
    \/ Commit(a) \/ SetEnv(a) \/ Tell(a) \/ Unlock(a)

Next ==
    \/ \E a \in Agents : SwitchStep(a)
    \/ \E u \in Users, m \in {"mock", "listen"} : Set(u, m)
    \/ \E p \in Listeners : WatchExit(p) \/ ListenerDies(p)
    \/ \E k \in Keys : EditDotenv(k)
    \/ OpenWatch \/ DropKeyRead \/ DropKeySet \/ DotenvChanged

(* sync.Mutex does not starve a waiter: strong fairness for the lock.      *)
Fairness ==
    /\ \A a \in Agents : WF_vars(SwitchStep(a))
    /\ \A p \in Listeners : SF_vars(WatchExit(p))
    /\ WF_vars(OpenWatch) /\ WF_vars(DropKeyRead) /\ WF_vars(DropKeySet) /\ SF_vars(DotenvChanged)

Spec == Init /\ [][Next]_vars /\ Fairness

-----------------------------------------------------------------------------
(* Two listeners never run at once: the old one is stopped first (164).    *)
OneListener == Cardinality(alive) <= 1

Settled ==
    /\ switchMu = Nobody /\ ~event /\ ~timer /\ pc[Dotenv] # "drop"
    /\ \A p \in Listeners : pc[p] = "watch" => p \in alive

(* Settled, the mode, the process and the UI agree: listen mode has a      *)
(* listener and the mock has none.                                         *)
ModeIsReal ==
    Settled => /\ shown = mode /\ alive = {proc} \ {0}
               /\ mode = "listen" <=> proc # 0

(* Settled in listen mode, the app is given the running listener's secret  *)
(* and the key it runs with, which is the one in .env (271-305), unless    *)
(* the last edit of .env came while nobody watched: during boot, or ever   *)
(* after if the watch could not be set.                                    *)
ListenEnvIsCurrent ==
    (Settled /\ mode = "listen" /\ ~unheard) =>
        key = dotKey /\ layer = EnvLayer("listen", proc, dotKey)

(* The invariant: types, one listener, and in listen mode the env of that  *)
(* one.                                                                    *)
Inv == TypeOK /\ OneListener /\ ListenEnvIsCurrent

(* Settled, the app's env is that of the mode it is in: never left on      *)
(* listen env with no listener (164-165).  An edit of .env may undo this:  *)
(* dropKey reads the mode before a switch and sets the layer after it.     *)
EnvMatchesMode == Settled /\ edits = 0 => layer = EnvLayer(mode, secret, key)

(* A listener that dies is replaced or given up for the mock.              *)
ListenerGone == proc # 0 /\ proc \notin alive
=============================================================================
