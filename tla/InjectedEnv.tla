----------------------------- MODULE InjectedEnv -----------------------------
(***************************************************************************)
(* envLayers (internal/devserver/envlayers.go) over ProcessManager's       *)
(* StartProcess: runtime features (the tunnel, the Stripe switch) set      *)
(* their layer of the env hamr injects and restart what is running, while  *)
(* the scheduler restarts the rules it rebuilds.  A layer's content is a   *)
(* version number: the set that wrote it.                                  *)
(***************************************************************************)
EXTENDS Naturals, Sequences

CONSTANTS
    Apps,       \* run rules, then daemons, as restartRunning goes through them
    Features,   \* the owners of the layers; each sets its layer from one goroutine
    Builders,   \* the scheduler goroutine, or none
    Nobody,     \* startMu is free
    NotRunning, \* no process is tracked under a name
    MaxSets     \* bound: how often a feature sets its layer

Names == {Apps[i] : i \in 1 .. Len(Apps)}
Actors == Features \cup Builders
Env == [Features -> 0 .. MaxSets]

VARIABLES
    layer,     \* envLayers: the layers
    injected,  \* pm.injectedEnv, what they merge to
    procs,     \* the env of the tracked process of a name, or NotRunning
    startMu,   \* who holds it
    pc, want,  \* where an actor is in StartProcess, and for which name
    got,       \* the env an actor's StartProcess has read
    next,      \* restartRunning's loop index, 0 when the feature is done
    demanded,  \* version of the last set that asked for a restart (history)
    newest,    \* env of the last process started under a name (history)
    skipped    \* names found down while a StartProcess was bringing them up
               \*   (history)

vars == <<layer, injected, procs, startMu, pc, want, got, next, demanded, newest, skipped>>

TypeOK ==
    /\ layer \in Env /\ injected \in Env /\ demanded \in Env
    /\ procs \in [Names -> Env \cup {NotRunning}] /\ newest \in [Names -> Env]
    /\ startMu \in Actors \cup {Nobody}
    /\ pc \in [Actors -> {"idle", "lock", "env", "start"}]
    /\ want \in [Actors -> Names] /\ got \in [Actors -> Env]
    /\ next \in [Features -> 0 .. Len(Apps)] /\ skipped \subseteq Names

(* The initial build has started any of the apps, with the base layer.     *)
NoSets == [f \in Features |-> 0]
Init ==
    /\ layer = NoSets /\ injected = NoSets /\ demanded = NoSets
    /\ procs \in [Names -> {NoSets, NotRunning}] /\ newest = [n \in Names |-> NoSets]
    /\ startMu = Nobody
    /\ pc = [a \in Actors |-> "idle"] /\ want = [a \in Actors |-> Apps[1]]
    /\ got = [a \in Actors |-> NoSets] /\ next = [f \in Features |-> 0]
    /\ skipped = {}

(* Set the layer and merge, under e.mu; then restart what runs, or not.    *)
SetLayer(f, restart) ==
    /\ next[f] = 0 /\ layer[f] < MaxSets
    /\ layer' = [layer EXCEPT ![f] = @ + 1]
    /\ injected' = layer'
    /\ next' = [next EXCEPT ![f] = IF restart THEN 1 ELSE 0]
    /\ demanded' = [demanded EXCEPT ![f] = IF restart THEN layer'[f] ELSE @]
    /\ UNCHANGED <<procs, startMu, pc, want, got, newest, skipped>>

(* Mutant: the loop index runs past the last name.                         *)
AfterLastToo(f) == next[f] + 1

After(f) == IF next[f] < Len(Apps) THEN next[f] + 1 ELSE 0

(* Mutant: the loop stops at the first name that does not run.             *)
StopsAtFirstDown(f) ==
    /\ next[f] # 0 /\ pc[f] = "idle"
    /\ IF procs[Apps[next[f]]] = NotRunning
          THEN next' = [next EXCEPT ![f] = 0] /\ UNCHANGED <<pc, want>>
          ELSE /\ want' = [want EXCEPT ![f] = Apps[next[f]]]
               /\ pc' = [pc EXCEPT ![f] = "lock"] /\ UNCHANGED next
    /\ UNCHANGED <<layer, injected, procs, startMu, got, demanded, newest, skipped>>

(* restartRunning looks whether the next name runs, under pm.mu only.      *)
Starting(n) == \E a \in Actors : pc[a] \in {"env", "start"} /\ want[a] = n
CheckRunning(f) ==
    /\ next[f] # 0 /\ pc[f] = "idle"
    /\ LET n == Apps[next[f]] IN
       IF procs[n] = NotRunning
          THEN /\ next' = [next EXCEPT ![f] = After(f)] /\ UNCHANGED <<pc, want>>
               /\ skipped' = IF Starting(n) THEN skipped \cup {n} ELSE skipped
          ELSE /\ want' = [want EXCEPT ![f] = n]
               /\ pc' = [pc EXCEPT ![f] = "lock"] /\ UNCHANGED <<next, skipped>>
    /\ UNCHANGED <<layer, injected, procs, startMu, got, demanded, newest>>

(* handleEvent restarts the process of the rule it has built.              *)
Rebuild(b, n) ==
    /\ pc[b] = "idle"
    /\ want' = [want EXCEPT ![b] = n] /\ pc' = [pc EXCEPT ![b] = "lock"]
    /\ UNCHANGED <<layer, injected, procs, startMu, got, next, demanded, newest, skipped>>

(* Mutant: StartProcess is not serialized.                                 *)
StopWithoutLock(a) ==
    /\ pc[a] = "lock"
    /\ startMu' = a
    /\ procs' = [procs EXCEPT ![want[a]] = NotRunning]
    /\ pc' = [pc EXCEPT ![a] = "env"]
    /\ UNCHANGED <<layer, injected, want, got, next, demanded, newest, skipped>>

(* StartProcess: take startMu and stop the process of that name.           *)
LockAndStop(a) ==
    /\ pc[a] = "lock" /\ startMu = Nobody
    /\ startMu' = a
    /\ procs' = [procs EXCEPT ![want[a]] = NotRunning]
    /\ pc' = [pc EXCEPT ![a] = "env"]
    /\ UNCHANGED <<layer, injected, want, got, next, demanded, newest, skipped>>

(* envFor copies the injected env.                                         *)
ReadEnv(a) ==
    /\ pc[a] = "env"
    /\ got' = [got EXCEPT ![a] = injected]
    /\ pc' = [pc EXCEPT ![a] = "start"]
    /\ UNCHANGED <<layer, injected, procs, startMu, want, next, demanded, newest, skipped>>

(* Return from StartProcess, to the loop of restartRunning.                *)
Return(a) ==
    /\ startMu' = Nobody /\ pc' = [pc EXCEPT ![a] = "idle"]
    /\ next' = IF a \in Features THEN [next EXCEPT ![a] = After(a)] ELSE next
    /\ UNCHANGED <<layer, injected, want, got, demanded, skipped>>

(* cmd.Start succeeds and the process is entered into procs.               *)
Started(a) ==
    /\ pc[a] = "start"
    /\ procs' = [procs EXCEPT ![want[a]] = got[a]]
    /\ newest' = [newest EXCEPT ![want[a]] = got[a]]
    /\ Return(a)

(* Mutant: the error return leaves startMu locked.                         *)
FailKeepsLock(a) ==
    /\ pc[a] = "start"
    /\ pc' = [pc EXCEPT ![a] = "idle"]
    /\ next' = IF a \in Features THEN [next EXCEPT ![a] = After(a)] ELSE next
    /\ UNCHANGED <<layer, injected, procs, startMu, want, got, demanded, newest, skipped>>

(* cmd.Start fails: logged, the name stays down.                           *)
StartFailed(a) ==
    /\ pc[a] = "start"
    /\ Return(a)
    /\ UNCHANGED <<procs, newest>>

Dies(n) ==
    /\ procs[n] # NotRunning
    /\ procs' = [procs EXCEPT ![n] = NotRunning]
    /\ UNCHANGED <<layer, injected, startMu, pc, want, got, next, demanded, newest, skipped>>

StartStep(a) == ReadEnv(a) \/ Started(a) \/ StartFailed(a)

Next ==
    \/ \E f \in Features, restart \in BOOLEAN : SetLayer(f, restart)
    \/ \E f \in Features : CheckRunning(f)
    \/ \E b \in Builders, n \in Names : Rebuild(b, n)
    \/ \E a \in Actors : LockAndStop(a) \/ StartStep(a)
    \/ \E n \in Names : Dies(n)

(* sync.Mutex hands the lock to a waiter that has starved for a            *)
(* millisecond, so a goroutine that keeps asking gets it.                  *)
Fairness ==
    /\ \A f \in Features : WF_vars(CheckRunning(f))
    /\ \A a \in Actors : SF_vars(LockAndStop(a)) /\ WF_vars(StartStep(a))

Spec == Init /\ [][Next]_vars /\ Fairness

-----------------------------------------------------------------------------
Older(e, g) == \A f \in Features : e[f] <= g[f]

(* startMu makes stop, reading the env and start one step: the process of  *)
(* a name is never replaced by one with an older env (process.go 102-106). *)
EnvNeverGoesBack == [][\A n \in Names : Older(newest[n], newest'[n])]_vars

(* When nothing is under way, whatever runs has every layer that was set   *)
(* with a restart (envlayers.go 49-52), but for one way to miss it: the    *)
(* name was found down while another goroutine, which had read the env     *)
(* before, was starting it.                                                *)
Quiet == startMu = Nobody /\ \A a \in Actors : pc[a] = "idle" /\ (a \in Features => next[a] = 0)
FreshUnlessSkipped ==
    Quiet => \A n \in Names \ skipped : procs[n] # NotRunning => Older(demanded, procs[n])

(* The invariant: types, and no stale env.                                 *)
Inv == TypeOK /\ FreshUnlessSkipped

(* A toggle comes back: restartRunning ends although the scheduler keeps   *)
(* rebuilding and starts fail.                                             *)
Restarting == \E f \in Features : next[f] # 0
=============================================================================
