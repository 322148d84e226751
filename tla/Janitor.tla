------------------------------- MODULE Janitor -------------------------------
(***************************************************************************)
(* Janitor (pkg/janitor): maintenance tasks that run on cron schedules,    *)
(* and at once after Start when asked to.  Start and Stop may follow each  *)
(* other; every Start is a generation with a context and a cron of its     *)
(* own, and what a generation left behind may still act on the Janitor.    *)
(***************************************************************************)
EXTENDS Naturals, FiniteSets

CONSTANTS
    Tasks,          \* task names
    Owner,          \* the goroutine that calls Start, and Stop
    Stoppers,       \* other goroutines than Owner that call Stop, once each
    MaxStarts       \* bound: calls of Start, at least one

Gens    == 1 .. MaxStarts
Callers == Stoppers \cup {Owner}
Kinds   == {"cron", "now"}
Runs    == Kinds \X Gens \X Tasks

VARIABLES
    cur,        \* j.cron: a generation, or 0 for nil
    gens,       \* calls of Start so far
    cron,       \* the library's scheduler: "new", "ticking" or "stopped"
    cancelled,  \* generations whose context is done
    watch,      \* Start's goroutine that waits for the context
    pc, got,    \* where a caller is; the cron its Stop took
    asked,      \* generations there were when it called Stop (history)
    disturbed,  \* generations whose context was cancelled, or which another
                \*   goroutine than the owner stopped (history)
    run,        \* where the run of a task is
    running     \* j.running

startVars == <<cur, gens, cron, cancelled, watch>>
callVars  == <<pc, got, asked, disturbed>>
vars == <<startVars, callVars, run, running>>

TypeOK ==
    /\ cur \in 0 .. gens /\ gens \in 0 .. MaxStarts
    /\ cron \in [Gens -> {"new", "ticking", "stopped"}] /\ cancelled \subseteq Gens
    /\ watch \in [Gens -> {"none", "waiting", "clearing", "done"}]
    /\ pc \in [Callers -> {"idle", "adding", "starting", "now", "started", "cancel", "cron", "drain", "wait", "stopped"}]
    /\ got \in [Callers -> 0 .. MaxStarts] /\ asked \in [Callers -> 0 .. MaxStarts]
    /\ disturbed \subseteq Gens
    /\ run \in [Runs -> {"none", "begun", "hooks", "running", "post", "releasing", "over"}]
    /\ running \subseteq Tasks

Init ==
    /\ cur = 0 /\ gens = 0 /\ cancelled = {}
    /\ cron = [g \in Gens |-> "new"] /\ watch = [g \in Gens |-> "none"]
    /\ pc = [p \in Callers |-> "idle"]
    /\ got = [p \in Callers |-> 0] /\ asked = [p \in Callers |-> 0]
    /\ disturbed = {}
    /\ run = [r \in Runs |-> "none"] /\ running = {}

Go(p, from, to) == pc[p] = from /\ pc' = [pc EXCEPT ![p] = to]
StepRun(r, from, to) == run[r] = from /\ run' = [run EXCEPT ![r] = to]
InFlight(r) == run[r] \in {"hooks", "running", "post"}

-----------------------------------------------------------------------------
(* Start.  It returns an error while a cron is set.                        *)

Start(p) ==
    /\ pc[p] \in {"idle", "stopped"} /\ cur = 0 /\ gens < MaxStarts
    /\ gens' = gens + 1 /\ cur' = gens'
    /\ pc' = [pc EXCEPT ![p] = "adding"]
    /\ UNCHANGED <<cron, cancelled, watch, got, asked, disturbed, run, running>>

(* Every task is added to the cron; a bad schedule calls Stop.             *)
AddTasks(p) ==
    /\ \/ Go(p, "adding", "starting") /\ UNCHANGED <<cur, got, asked>>
       \/ /\ Go(p, "adding", "cancel")
          /\ got' = [got EXCEPT ![p] = cur] /\ asked' = [asked EXCEPT ![p] = gens] /\ cur' = 0
    /\ UNCHANGED <<gens, cron, cancelled, watch, disturbed, run, running>>

CronStart(p) ==
    /\ Go(p, "starting", "now")
    /\ cron' = [cron EXCEPT ![gens] = "ticking"]
    /\ UNCHANGED <<cur, gens, cancelled, watch, got, asked, disturbed, run, running>>

(* runImmediately: one goroutine per task, counted in j.wg.                *)
RunNow(p, t) ==
    /\ pc[p] = "now"
    /\ StepRun(<<"now", gens, t>>, "none", "begun")
    /\ UNCHANGED <<startVars, callVars, running>>

(* The goroutine that waits for the context is the last thing Start makes. *)
(* Without runImmediately no task has been run.                            *)
Started(p) ==
    /\ Go(p, "now", "started")
    /\ \/ \A t \in Tasks : run[<<"now", gens, t>>] # "none"
       \/ \A t \in Tasks : run[<<"now", gens, t>>] = "none"
    /\ watch' = [watch EXCEPT ![gens] = "waiting"]
    /\ UNCHANGED <<cur, gens, cron, cancelled, got, asked, disturbed, run, running>>

ParentCancel(g) ==
    /\ g <= gens
    /\ cancelled' = cancelled \cup {g} /\ disturbed' = disturbed \cup {g}
    /\ UNCHANGED <<cur, gens, cron, watch, pc, got, asked, run, running>>

(* cron.Stop ends the ticking; a cron that has not started is unaffected.  *)
CronStopped(g) == cron' = [cron EXCEPT ![g] = IF @ = "ticking" THEN "stopped" ELSE @]

WatchStop(g) ==
    /\ watch[g] = "waiting" /\ g \in cancelled
    /\ watch' = [watch EXCEPT ![g] = "clearing"] /\ CronStopped(g)
    /\ UNCHANGED <<cur, gens, cancelled, callVars, run, running>>

(* Mutant: whatever is current is cleared.                                 *)
WatchClearAny(g) ==
    /\ watch[g] = "clearing" /\ watch' = [watch EXCEPT ![g] = "done"]
    /\ cur' = 0
    /\ UNCHANGED <<gens, cron, cancelled, callVars, run, running>>

WatchClear(g) ==
    /\ watch[g] = "clearing" /\ watch' = [watch EXCEPT ![g] = "done"]
    /\ cur' = IF cur = g THEN 0 ELSE cur
    /\ UNCHANGED <<gens, cron, cancelled, callVars, run, running>>

-----------------------------------------------------------------------------
(* Stop.                                                                   *)

StopTake(p) ==
    /\ \/ p = Owner /\ pc[p] = "started"
       \/ p # Owner /\ pc[p] = "idle" /\ gens > 0
    /\ pc' = [pc EXCEPT ![p] = "cancel"]
    /\ got' = [got EXCEPT ![p] = cur] /\ asked' = [asked EXCEPT ![p] = gens] /\ cur' = 0
    /\ disturbed' = IF p = Owner THEN disturbed ELSE disturbed \cup ({cur} \ {0})
    /\ UNCHANGED <<gens, cron, cancelled, watch, run, running>>

StopCancel(p) ==
    /\ Go(p, "cancel", "cron")
    /\ cancelled' = cancelled \cup ({got[p]} \ {0})
    /\ UNCHANGED <<cur, gens, cron, watch, got, asked, disturbed, run, running>>

StopCron(p) ==
    /\ Go(p, "cron", "drain")
    /\ IF got[p] = 0 THEN UNCHANGED cron ELSE CronStopped(got[p])
    /\ UNCHANGED <<cur, gens, cancelled, watch, got, asked, disturbed, run, running>>

StopDrain(p) ==
    /\ Go(p, "drain", "wait")
    /\ got[p] # 0 => \A t \in Tasks : run[<<"cron", got[p], t>>] = "none"
    /\ UNCHANGED <<startVars, got, asked, disturbed, run, running>>

StopWait(p) ==
    /\ Go(p, "wait", "stopped")
    /\ \A g \in Gens, t \in Tasks : run[<<"now", g, t>>] \in {"none", "over"}
    /\ UNCHANGED <<startVars, got, asked, disturbed, run, running>>

-----------------------------------------------------------------------------
(* Runs.                                                                   *)

(* SkipIfStillRunning: a tick finds no earlier tick's run of the task.     *)
Tick(g, t) ==
    /\ cron[g] = "ticking" /\ StepRun(<<"cron", g, t>>, "none", "begun")
    /\ UNCHANGED <<startVars, callVars, running>>

(* A scheduled run may be followed by another.                             *)
Over(r) == IF r[1] = "cron" THEN "none" ELSE "over"

Acquire(r) ==
    /\ \/ r[3] \in running /\ StepRun(r, "begun", Over(r)) /\ UNCHANGED running
       \/ r[3] \notin running /\ StepRun(r, "begun", "hooks") /\ running' = running \cup {r[3]}
    /\ UNCHANGED <<startVars, callVars>>

(* The pre hooks agree, or skip the task.                                  *)
Hooks(r) ==
    /\ StepRun(r, "hooks", "running") \/ StepRun(r, "hooks", "releasing")
    /\ UNCHANGED <<startVars, callVars, running>>

(* Mutant: the marker is not released by a deferred call.                  *)
PanicKeepsMarker(r) ==
    /\ StepRun(r, "running", Over(r))
    /\ UNCHANGED <<startVars, callVars, running>>

Panic(r) ==
    /\ StepRun(r, "running", "releasing")
    /\ UNCHANGED <<startVars, callVars, running>>

Return(r) ==
    /\ StepRun(r, "running", "post")
    /\ UNCHANGED <<startVars, callVars, running>>

PostHooks(r) ==
    /\ StepRun(r, "post", "releasing")
    /\ UNCHANGED <<startVars, callVars, running>>

(* Mutant: Stop holds j.mu while it waits.                                 *)
ReleaseWhenFree(r) ==
    /\ \A p \in Callers : pc[p] \notin {"drain", "wait"}
    /\ StepRun(r, "releasing", Over(r)) /\ running' = running \ {r[3]}
    /\ UNCHANGED <<startVars, callVars>>

Release(r) ==
    /\ StepRun(r, "releasing", Over(r)) /\ running' = running \ {r[3]}
    /\ UNCHANGED <<startVars, callVars>>

StartGoesOn(p) == AddTasks(p) \/ CronStart(p) \/ (\E t \in Tasks : RunNow(p, t)) \/ Started(p)
StopStep(p) == StopCancel(p) \/ StopCron(p) \/ StopDrain(p) \/ StopWait(p)
WatchStep(g) == WatchStop(g) \/ WatchClear(g)
RunStep(r) == Acquire(r) \/ Hooks(r) \/ Panic(r) \/ Return(r) \/ PostHooks(r) \/ Release(r)

Next ==
    \/ Start(Owner) \/ StartGoesOn(Owner) \/ \E p \in Callers : StopTake(p) \/ StopStep(p)
    \/ \E g \in Gens : WatchStep(g) \/ ParentCancel(g) \/ \E t \in Tasks : Tick(g, t)
    \/ \E r \in Runs : RunStep(r)

Spec == Init /\ [][Next]_vars

(* Start and Stop go on once begun, and so does the goroutine that Start   *)
(* leaves; a task returns, for its context has a timeout.                  *)
FairSpec ==
    /\ Spec
    /\ WF_vars(StartGoesOn(Owner)) /\ \A g \in Gens : WF_vars(WatchStep(g))
    /\ \A p \in Callers : WF_vars(StopStep(p))
    /\ \A r \in Runs : WF_vars(RunStep(r))

-----------------------------------------------------------------------------
(* Properties.                                                             *)

(* A task never runs twice at once: not at once and on schedule, and not   *)
(* in two generations.  (janitor.go:212-214.)                              *)
NoOverlap ==
    \A q, r \in Runs : q # r /\ q[3] = r[3] => ~(InFlight(q) /\ InFlight(r))

(* The marker of a task is there exactly while a run holds it: a panic or  *)
(* a hook that says no does not keep the task from ever running again.     *)
MarkerIsHeld ==
    running = {t \in Tasks : \E r \in Runs : r[3] = t /\ (InFlight(r) \/ run[r] = "releasing")}

(* The invariant: types, no overlap, and no marker that is left behind.    *)
Inv == TypeOK /\ NoOverlap /\ MarkerIsHeld

(* Once the owner's Stop has returned no task of its generations runs, nor *)
(* a hook of one, so that it may close the database (janitor.go:150): if   *)
(* nobody cancelled the context of that generation or stopped it before.   *)
StopDrains ==
    pc[Owner] = "stopped" =>
       \A r \in Runs : r[2] <= asked[Owner] /\ r[2] \notin disturbed => ~InFlight(r)

(* Stop returns: there are finitely many calls of it.                      *)
Stopping == \E p \in Callers : pc[p] \in {"cancel", "cron", "drain", "wait"}
StopReturns == Stopping ~> ~Stopping

(* The code does not keep this one, which janitor.go:150-152 says of any   *)
(* call of Stop: it "waits for in-flight tasks to return".                 *)
EveryStopDrains ==
    \A p \in Callers : pc[p] = "stopped" =>
       \A r \in Runs : r[2] <= asked[p] => ~InFlight(r)
=============================================================================
